----------------------- MODULE BufferedChannelProofs -----------------------
(***************************************************************************)
(* Proofs about BufferedChannel, for every number of senders, receivers    *)
(* and controllers, every number of values and every queue size.           *)
(***************************************************************************)
EXTENDS BufferedChannel, DequeLemmas

Items == Senders \X (1..MaxItems)
Some(x) == <<x>>
Opts == {NullOpt} \cup {Some(x) : x \in Items}
Sizes == NewSizes \cup {QueueSize}

\* What the future of a push() and of a pop() may hold, and the calls that set it.
PushAnswers == {<<>>, <<TRUE>>, <<FALSE>>}
PopAnswers == {<<>>} \cup {<<o>> : o \in Opts}
PushCalls == [to : Senders, val : BOOLEAN]
PopCalls == [to : Receivers, val : Opts]

PCs == {"idle", "await", "stopped", "left"}

ChannelType ==
    /\ mReadyData \in Seq(Items)
    /\ mWaitingSender \in Seq(Senders)
    /\ mWaitingReceiver \in Seq(Receivers)
    /\ mSenderClosed \in BOOLEAN /\ mReceiverClosed \in BOOLEAN
    /\ mMaxQueueSize \in Sizes
ActivityType ==
    /\ self \in [Activities -> PushAnswers \cup PopAnswers]
    /\ \A s \in Senders : self[s] \in PushAnswers
    /\ \A r \in Receivers : self[r] \in PopAnswers
    /\ \A c \in Controllers : self[c] = <<>>
    /\ notify \in [Activities -> Seq(PushCalls) \cup Seq(PopCalls)]
    /\ \A s \in Senders : notify[s] \in Seq(PopCalls)
    /\ \A a \in Receivers \cup Controllers : notify[a] \in Seq(PushCalls)
    /\ pc \in [Activities -> PCs]
    /\ \A c \in Controllers : pc[c] = "idle"
CountType ==
    /\ sent \in [Senders -> 0..MaxItems]
    /\ accepted \in [Senders -> Nat]
    /\ received \in [Receivers -> Seq(Items)]
TypeInv == ChannelType /\ ActivityType /\ CountType

\* a waits for its future, is in a deque, and has a set_value() call coming.
Waits(a) == pc[a] = "await" /\ self[a] = <<>>
Queued(a) == In(a, mWaitingSender) \/ In(a, mWaitingReceiver)
Called(a) == \E b \in Activities : \E c : In(c, notify[b]) /\ c.to = a

\* Who waits is in one place of one deque or has one call coming, and only
\* who waits is or has.
WakeInv ==
    /\ Distinct(mWaitingSender) /\ Distinct(mWaitingReceiver)
    /\ \A b \in Activities : Distinct(notify[b])
    /\ \A b1, b2 \in Activities : \A c, d :
         In(c, notify[b1]) /\ In(d, notify[b2]) /\ c.to = d.to => b1 = b2 /\ c = d
    /\ \A a \in Activities : Waits(a) => Queued(a) \/ Called(a)
    /\ \A a \in Activities : Queued(a) => Waits(a)
    /\ \A b \in Activities : \A c : In(c, notify[b]) => Waits(c.to) /\ ~Queued(c.to)

\* Who does not await has an unset future, and has made its calls unless it
\* is the one that closed its side.
RestInv ==
    /\ \A a \in Activities : pc[a] # "await" => self[a] = <<>>
    /\ \A a \in Senders \cup Receivers : pc[a] \in {"idle", "stopped"} => notify[a] = <<>>

\* A side is closed when all of it have left, and then nobody waits for it.
FlagInv ==
    /\ mSenderClosed <=> \A s \in Senders : pc[s] = "left"
    /\ mReceiverClosed <=> \A r \in Receivers : pc[r] = "left"
    /\ mSenderClosed => mWaitingReceiver = <<>>
    /\ mReceiverClosed => mWaitingSender = <<>>

\* At most the last push() was not accepted.
CountInv ==
    \A s \in Senders :
        /\ accepted[s] = sent[s] \/ accepted[s] + 1 = sent[s]
        /\ pc[s] = "idle" => accepted[s] = sent[s]
        /\ pc[s] \in {"await", "stopped"} => accepted[s] + 1 = sent[s]

CoreInv == TypeInv /\ WakeInv /\ RestInv /\ FlagInv /\ CountInv

\* Every waiting sender has left a value in the queue, and receivers wait only
\* while it is empty.
QueueInv ==
    /\ Len(mWaitingSender) <= Len(mReadyData)
    /\ mWaitingReceiver # <<>> => mReadyData = <<>>

\* What is beyond the size of the queue are values of senders that wait, that
\* were told false, or that have left.
Blocked(s) ==
    \/ In(s, mWaitingSender)
    \/ \E b \in Activities : In(Call(s, FALSE), notify[b])
    \/ self[s] = <<FALSE>>
    \/ pc[s] \in {"stopped", "left"}
BoundInv == Len(mReadyData) <= QueueBound - 1 + Cardinality({s \in Senders : Blocked(s)})

\* As long as setMaxQueueSize() was not called, the values of those who do not
\* wait leave one place in the queue, and fill the others when somebody waits.
SizeInv ==
    ~mReceiverClosed /\ mMaxQueueSize = QueueSize =>
        /\ Len(mReadyData) - Len(mWaitingSender) <= mMaxQueueSize - 1
        /\ mWaitingSender # <<>> => Len(mReadyData) - Len(mWaitingSender) = mMaxQueueSize - 1

\* y was pushed before x, if by the same sender.
Before(y, x) == y[1] = x[1] => y[2] < x[2]
Ordered(q) == \A i, j \in 1..Len(q) : i < j => Before(q[i], q[j])

\* The value x is on its way to r, and has left the queue towards r.
OnItsWay(r, x) == self[r] = <<Some(x)>> \/ \E s \in Senders : In(Call(r, Some(x)), notify[s])
Out(r, x) == OnItsWay(r, x) \/ In(x, received[r])
Somewhere(x) == In(x, mReadyData) \/ \E r \in Receivers : Out(r, x)

\* The values leave the queue in the order they joined it, and towards one
\* receiver.
OrderInv ==
    /\ \A x \in Items : Somewhere(x) => x[2] <= sent[x[1]]
    /\ Ordered(mReadyData)
    /\ \A r \in Receivers : Ordered(received[r])
    /\ \A r \in Receivers : \A x, y \in Items :
         In(x, mReadyData) /\ Out(r, y) => Before(y, x)
    /\ \A r \in Receivers : \A x, y \in Items :
         OnItsWay(r, x) /\ In(y, received[r]) => Before(y, x)
    /\ \A r1, r2 \in Receivers : \A x \in Items : Out(r1, x) /\ Out(r2, x) => r1 = r2

\* No value that was accepted, or still may be, is lost.
KeptInv ==
    \A s \in Senders :
        /\ \A i \in 1..accepted[s] : Somewhere(Item(s, i))
        /\ pc[s] = "await" /\ self[s] # <<FALSE>> => Somewhere(Item(s, sent[s]))

-----------------------------------------------------------------------------
(* Facts about the values the channel stores.                              *)

\* The optional that pop() returns is empty or holds one value.
LEMMA OptionFacts ==
    /\ NullOpt \in Opts /\ \A x \in Items : Some(x) \in Opts
    /\ \A x : Some(x) # NullOpt
    /\ \A x, y : Some(x) = Some(y) => x = y
    /\ \A o \in Opts : o # NullOpt => \E x \in Items : o = Some(x)
BY DEF Opts, Some, NullOpt

\* The answers of push() and pop(), and the futures that have none yet.
LEMMA AnswerFacts ==
    /\ <<>> \in PushAnswers /\ \A b \in BOOLEAN : <<b>> \in PushAnswers
    /\ <<>> \in PopAnswers /\ \A o \in Opts : <<o>> \in PopAnswers
    /\ \A a \in PushAnswers : a # <<>> => a = <<TRUE>> \/ a = <<FALSE>>
    /\ \A a \in PopAnswers : a # <<>> => \E o \in Opts : a = <<o>>
    /\ \A o : <<o>> # <<>>
    /\ \A o, p : <<o>> = <<p>> => o = p
    /\ <<TRUE>> # <<FALSE>>
<1>1. <<>> \in PushAnswers /\ <<TRUE>> \in PushAnswers /\ <<FALSE>> \in PushAnswers
  BY DEF PushAnswers
<1>2. \A b \in BOOLEAN : <<b>> \in PushAnswers
  <2> TAKE b \in BOOLEAN
  <2>1. CASE b = TRUE
    BY <1>1, <2>1
  <2>2. CASE b = FALSE
    BY <1>1, <2>2
  <2> QED BY <2>1, <2>2
<1>3. <<>> \in PopAnswers /\ \A o \in Opts : <<o>> \in PopAnswers
  BY DEF PopAnswers
<1>4. \A a \in PushAnswers : a # <<>> => a = <<TRUE>> \/ a = <<FALSE>>
  BY DEF PushAnswers
<1>5. \A a \in PopAnswers : a # <<>> => \E o \in Opts : a = <<o>>
  BY DEF PopAnswers
<1>6. (\A o : <<o>> # <<>>) /\ (\A o, p : <<o>> = <<p>> => o = p)
  OBVIOUS
<1>7. <<TRUE>> # <<FALSE>>
  OBVIOUS
<1> QED BY <1>1, <1>2, <1>3, <1>4, <1>5, <1>6, <1>7

\* A set_value() call has the target and the value it was made with.
LEMMA CallFacts ==
    /\ \A s \in Senders : \A b \in BOOLEAN : Call(s, b) \in PushCalls
    /\ \A r \in Receivers : \A o \in Opts : Call(r, o) \in PopCalls
    /\ \A c \in PushCalls : c.to \in Senders /\ c.val \in BOOLEAN /\ c = Call(c.to, c.val)
    /\ \A c \in PopCalls : c.to \in Receivers /\ c.val \in Opts /\ c = Call(c.to, c.val)
    /\ \A x, v : Call(x, v).to = x /\ Call(x, v).val = v
BY DEF Call, PushCalls, PopCalls

\* A value is known by its sender and its number.
LEMMA ItemFacts ==
    /\ \A s \in Senders : \A i \in 1..MaxItems : Item(s, i) \in Items
    /\ \A x \in Items : x[1] \in Senders /\ x[2] \in 1..MaxItems /\ x = Item(x[1], x[2])
    /\ \A s, i : Item(s, i)[1] = s /\ Item(s, i)[2] = i
BY DEF Item, Items

\* A deque with one element.
LEMMA OneDeque ==
    ASSUME NEW S, NEW x \in S
    PROVE  /\ <<x>> \in Seq(S) /\ Len(<<x>>) = 1
           /\ \A y : In(y, <<x>>) <=> y = x
           /\ Distinct(<<x>>)
BY DEF In, Distinct

\* One call for each element of a deque.
LEMMA CallsDeque ==
    ASSUME NEW S, NEW q \in Seq(S), NEW v
    PROVE  /\ Len(Calls(q, v)) = Len(q)
           /\ \A i \in 1..Len(q) : Calls(q, v)[i] = Call(q[i], v) /\ q[i] \in S
           /\ \A c : In(c, Calls(q, v)) <=> \E y \in S : In(y, q) /\ c = Call(y, v)
           /\ Distinct(q) => Distinct(Calls(q, v))
<1>1. Len(q) \in Nat /\ \A i \in 1..Len(q) : q[i] \in S
  BY LenProperties
<1>2. /\ Len(Calls(q, v)) = Len(q)
      /\ \A i \in 1..Len(q) : Calls(q, v)[i] = Call(q[i], v)
  BY <1>1 DEF Calls
<1>3. \A x, y : Call(x, v) = Call(y, v) => x = y
  BY DEF Call
<1>4. \A c : In(c, Calls(q, v)) <=> \E y \in S : In(y, q) /\ c = Call(y, v)
  BY <1>1, <1>2 DEF In
<1>5. Distinct(q) => Distinct(Calls(q, v))
  BY <1>1, <1>2, <1>3 DEF Distinct
<1> QED BY <1>1, <1>2, <1>4, <1>5

\* Waking all of a deque makes calls of the side that waits there.
LEMMA CallsType ==
    /\ \A q \in Seq(Senders) : \A b \in BOOLEAN : Calls(q, b) \in Seq(PushCalls)
    /\ \A q \in Seq(Receivers) : \A o \in Opts : Calls(q, o) \in Seq(PopCalls)
<1>1. ASSUME NEW q \in Seq(Senders), NEW b \in BOOLEAN
      PROVE  Calls(q, b) \in Seq(PushCalls)
  <2>1. Len(q) \in Nat /\ \A i \in 1..Len(q) : Call(q[i], b) \in PushCalls
    BY LenProperties, CallFacts
  <2> QED BY <2>1 DEF Calls
<1>2. ASSUME NEW q \in Seq(Receivers), NEW o \in Opts
      PROVE  Calls(q, o) \in Seq(PopCalls)
  <2>1. Len(q) \in Nat /\ \A i \in 1..Len(q) : Call(q[i], o) \in PopCalls
    BY LenProperties, CallFacts
  <2> QED BY <2>1 DEF Calls
<1> QED BY <1>1, <1>2

\* Waking one waiter is one call.
LEMMA OneCall ==
    ASSUME NEW x, NEW v
    PROVE  Calls(<<x>>, v) = <<Call(x, v)>>
<1> DEFINE c == Calls(<<x>>, v)
           d == <<Call(x, v)>>
           S == {Call(x, v)}
<1>1. c \in Seq(S) /\ Len(c) = 1 /\ c[1] = Call(x, v)
  <2>1. <<x>> \in Seq({x}) /\ Len(<<x>>) = 1 /\ <<x>>[1] = x
    OBVIOUS
  <2>2. \A i \in 1..1 : i = 1
    OBVIOUS
  <2> QED BY <2>1, <2>2 DEF Calls
<1>2. d \in Seq(S) /\ Len(d) = 1 /\ d[1] = Call(x, v)
  OBVIOUS
<1> HIDE DEF c, d, S
<1>3. c = d
  BY <1>1, <1>2, SeqEqual
<1> QED BY <1>3 DEF c, d

-----------------------------------------------------------------------------
(* The steps of the channel, by what they do.                              *)

\* push() hands the value over, is refused, queues the value and waits, or
\* queues the value and goes on.
StartPush(s) ==
    /\ pc[s] = "idle" /\ sent[s] < MaxItems
    /\ sent' = [sent EXCEPT ![s] = @ + 1]
    /\ UNCHANGED <<mSenderClosed, mReceiverClosed, mMaxQueueSize, accepted, received>>
PushHands(s) ==
    /\ StartPush(s)
    /\ mWaitingReceiver # <<>>
    /\ mWaitingReceiver' = Tail(mWaitingReceiver)
    /\ Proceed(s, <<TRUE>>, <<Call(Head(mWaitingReceiver), Some(Item(s, sent[s] + 1)))>>)
    /\ UNCHANGED <<mReadyData, mWaitingSender>>
PushRefused(s) ==
    /\ StartPush(s)
    /\ mReceiverClosed
    /\ Proceed(s, <<FALSE>>, <<>>)
    /\ UNCHANGED <<mReadyData, mWaitingSender, mWaitingReceiver>>
StartQueue(s) ==
    /\ StartPush(s)
    /\ mWaitingReceiver = <<>> /\ ~mReceiverClosed
    /\ mReadyData' = Append(mReadyData, Item(s, sent[s] + 1))
    /\ UNCHANGED mWaitingReceiver
PushWaits(s) ==
    /\ StartQueue(s)
    /\ Len(mReadyData) + 1 >= mMaxQueueSize
    /\ mWaitingSender' = Append(mWaitingSender, s)
    /\ Proceed(s, <<>>, <<>>)
PushGoesOn(s) ==
    /\ StartQueue(s)
    /\ ~(Len(mReadyData) + 1 >= mMaxQueueSize)
    /\ Proceed(s, <<TRUE>>, <<>>)
    /\ UNCHANGED mWaitingSender

\* pop() takes a value, with or without waking a sender, ends, or waits.
StartPop(r) ==
    /\ pc[r] = "idle"
    /\ UNCHANGED <<mSenderClosed, mReceiverClosed, mMaxQueueSize, sent, accepted, received>>
PopTakes(r) ==
    /\ StartPop(r)
    /\ mReadyData # <<>> /\ mWaitingSender = <<>>
    /\ mReadyData' = Tail(mReadyData)
    /\ Proceed(r, <<Some(Head(mReadyData))>>, <<>>)
    /\ UNCHANGED <<mWaitingSender, mWaitingReceiver>>
PopWakes(r) ==
    /\ StartPop(r)
    /\ mReadyData # <<>> /\ mWaitingSender # <<>>
    /\ mReadyData' = Tail(mReadyData)
    /\ mWaitingSender' = Tail(mWaitingSender)
    /\ Proceed(r, <<Some(Head(mReadyData))>>, <<Call(Head(mWaitingSender), TRUE)>>)
    /\ UNCHANGED mWaitingReceiver
PopEnds(r) ==
    /\ StartPop(r)
    /\ mReadyData = <<>> /\ mSenderClosed
    /\ Proceed(r, <<NullOpt>>, <<>>)
    /\ UNCHANGED <<mReadyData, mWaitingSender, mWaitingReceiver>>
PopWaits(r) ==
    /\ StartPop(r)
    /\ mReadyData = <<>> /\ ~mSenderClosed
    /\ mWaitingReceiver' = Append(mWaitingReceiver, r)
    /\ Proceed(r, <<>>, <<>>)
    /\ UNCHANGED <<mReadyData, mWaitingSender>>

\* One leaves as the last of its side, or not.
SenderCloses(s) ==
    /\ Leave(s)
    /\ \A b \in Senders \ {s} : pc[b] = "left"
    /\ mSenderClosed' = TRUE
    /\ notify' = [notify EXCEPT ![s] = Calls(mWaitingReceiver, NullOpt)]
    /\ mWaitingReceiver' = <<>>
    /\ UNCHANGED <<mWaitingSender, mReceiverClosed>>
ReceiverCloses(r) ==
    /\ Leave(r)
    /\ \A b \in Receivers \ {r} : pc[b] = "left"
    /\ mReceiverClosed' = TRUE
    /\ notify' = [notify EXCEPT ![r] = Calls(mWaitingSender, FALSE)]
    /\ mWaitingSender' = <<>>
    /\ UNCHANGED <<mWaitingReceiver, mSenderClosed>>
JustLeaves(a, side) ==
    /\ Leave(a)
    /\ \E b \in side \ {a} : pc[b] # "left"
    /\ UNCHANGED <<mSenderClosed, mReceiverClosed, notify, mWaitingSender, mWaitingReceiver>>

\* A push() and a pop() return.
PushAccepted(s) ==
    /\ pc[s] = "await" /\ notify[s] = <<>> /\ self[s] = <<TRUE>>
    /\ pc' = [pc EXCEPT ![s] = "idle"]
    /\ accepted' = [accepted EXCEPT ![s] = @ + 1]
    /\ self' = [self EXCEPT ![s] = <<>>]
    /\ UNCHANGED <<channelVars, notify, sent, received>>
PushStops(s) ==
    /\ pc[s] = "await" /\ notify[s] = <<>> /\ self[s] = <<FALSE>>
    /\ pc' = [pc EXCEPT ![s] = "stopped"]
    /\ self' = [self EXCEPT ![s] = <<>>]
    /\ UNCHANGED <<channelVars, notify, sent, accepted, received>>
PopReturns(r, x) ==
    /\ pc[r] = "await" /\ notify[r] = <<>> /\ self[r] = <<Some(x)>>
    /\ pc' = [pc EXCEPT ![r] = "idle"]
    /\ received' = [received EXCEPT ![r] = Append(@, x)]
    /\ self' = [self EXCEPT ![r] = <<>>]
    /\ UNCHANGED <<channelVars, notify, sent, accepted>>
PopStops(r) ==
    /\ pc[r] = "await" /\ notify[r] = <<>> /\ self[r] = <<NullOpt>>
    /\ pc' = [pc EXCEPT ![r] = "stopped"]
    /\ self' = [self EXCEPT ![r] = <<>>]
    /\ UNCHANGED <<channelVars, notify, sent, accepted, received>>

\* setMaxQueueSize() tells the first k waiting senders to go on.
SetsMax(c, cnt, k) ==
    /\ notify[c] = <<>> /\ cnt # mMaxQueueSize
    /\ mMaxQueueSize' = cnt
    /\ mWaitingSender' = SubSeq(mWaitingSender, k + 1, Len(mWaitingSender))
    /\ notify' = [notify EXCEPT ![c] = Calls(SubSeq(mWaitingSender, 1, k), FALSE)]
    /\ UNCHANGED <<mReadyData, mWaitingReceiver, mSenderClosed, mReceiverClosed, self, pc,
                   sent, accepted, received>>

\* What push() does when it gets hold of the lock.
LEMMA PushCases ==
    ASSUME NEW s \in Senders, Push(s)
    PROVE  PushHands(s) \/ PushRefused(s) \/ PushWaits(s) \/ PushGoesOn(s)
BY DEF Push, HandsOver, WithoutFront, PushBack, IsFull, PushHands, PushRefused, PushWaits,
       PushGoesOn, StartPush, StartQueue, Some

\* What pop() does when it gets hold of the lock.
LEMMA PopCases ==
    ASSUME TypeInv, NEW r \in Receivers, Pop(r)
    PROVE  PopTakes(r) \/ PopWakes(r) \/ PopEnds(r) \/ PopWaits(r)
<1>1. mWaitingSender \in Seq(Senders)
  BY DEF TypeInv, ChannelType
<1>2. Calls(<<>>, TRUE) = <<>>
  BY DEF Calls
<1>3. Calls(<<Head(mWaitingSender)>>, TRUE) = <<Call(Head(mWaitingSender), TRUE)>>
  BY OneCall
<1>4. <<Head(mWaitingSender)>> # <<>>
  OBVIOUS
<1> QED BY <1>2, <1>3, <1>4
      DEF Pop, WithoutFront, SenderToWake, PopTakes, PopWakes, PopEnds, PopWaits, StartPop, Some

\* The last sender to go closes its side; the others just go.
LEMMA SenderLeaveCases ==
    ASSUME NEW s \in Senders, SenderLeaves(s)
    PROVE  SenderCloses(s) \/ JustLeaves(s, Senders)
BY DEF SenderLeaves, Last, ToNotify, SenderCloses, JustLeaves

\* The last receiver to go closes its side; the others just go.
LEMMA ReceiverLeaveCases ==
    ASSUME NEW r \in Receivers, ReceiverLeaves(r)
    PROVE  ReceiverCloses(r) \/ JustLeaves(r, Receivers)
BY DEF ReceiverLeaves, Last, ToNotify, ReceiverCloses, JustLeaves

\* A push() that was answered goes on or stops.
LEMMA PushReturnCases ==
    ASSUME TypeInv, NEW s \in Senders, PushReturn(s)
    PROVE  PushAccepted(s) \/ PushStops(s)
<1>1. self[s] = <<TRUE>> \/ self[s] = <<FALSE>>
  BY AnswerFacts DEF TypeInv, ActivityType, PushReturn
<1>2. accepted \in [Senders -> Nat]
  BY DEF TypeInv, CountType
<1>3. CASE self[s] = <<TRUE>>
  <2>1. self[s][1]
    BY <1>3
  <2> QED BY <1>3, <2>1 DEF PushReturn, PushAccepted
<1>4. CASE self[s] = <<FALSE>>
  <2>1. ~self[s][1]
    BY <1>4
  <2>2. accepted' = accepted
    BY <1>2, <2>1 DEF PushReturn
  <2> QED BY <1>4, <2>1, <2>2 DEF PushReturn, PushStops
<1> QED BY <1>1, <1>3, <1>4

\* A pop() that was answered returns a value or ends.
LEMMA PopReturnCases ==
    ASSUME TypeInv, NEW r \in Receivers, PopReturn(r)
    PROVE  PopStops(r) \/ \E x \in Items : PopReturns(r, x)
<1>1. PICK o \in Opts : self[r] = <<o>>
  BY AnswerFacts DEF TypeInv, ActivityType, PopReturn
<1>2. self[r][1] = o
  BY <1>1
<1>3. received \in [Receivers -> Seq(Items)]
  BY DEF TypeInv, CountType
<1>4. CASE o = NullOpt
  <2>1. received[r] \o NullOpt = received[r]
    BY <1>3, ConcatEmptySeq DEF NullOpt
  <2>2. received' = received
    BY <1>2, <1>3, <1>4, <2>1 DEF PopReturn
  <2> QED BY <1>1, <1>2, <1>4, <2>2 DEF PopReturn, PopStops
<1>5. CASE o # NullOpt
  <2>1. PICK x \in Items : o = Some(x)
    BY <1>5, OptionFacts
  <2>2. received[r] \o Some(x) = Append(received[r], x)
    BY <1>3, AppendIsConcat DEF Some
  <2> QED BY <1>1, <1>2, <1>5, <2>1, <2>2 DEF PopReturn, PopReturns
<1> QED BY <1>4, <1>5

\* setMaxQueueSize() wakes some of the first waiting senders.
LEMMA SetMaxCases ==
    ASSUME TypeInv, NEW c \in Controllers, NEW cnt \in NewSizes, SetMaxQueueSize(c, cnt)
    PROVE  \E k \in 0..Len(mWaitingSender) : SetsMax(c, cnt, k)
<1>1. Len(mWaitingSender) \in Nat /\ mMaxQueueSize \in Nat /\ cnt \in Nat
  BY SizesPositive DEF TypeInv, ChannelType, Sizes
<1>2. SendersToWake(cnt) \in 0..Len(mWaitingSender)
  BY <1>1 DEF SendersToWake
<1> QED BY <1>2 DEF SetMaxQueueSize, SetsMax

\* Every step is one of these.
SenderMove(s) ==
    \/ PushHands(s) \/ PushRefused(s) \/ PushWaits(s) \/ PushGoesOn(s)
    \/ PushAccepted(s) \/ PushStops(s) \/ SenderCloses(s) \/ JustLeaves(s, Senders)
ReceiverMove(r) ==
    \/ PopTakes(r) \/ PopWakes(r) \/ PopEnds(r) \/ PopWaits(r)
    \/ PopStops(r) \/ (\E x \in Items : PopReturns(r, x))
    \/ ReceiverCloses(r) \/ JustLeaves(r, Receivers)
Move ==
    \/ \E s \in Senders : SenderMove(s)
    \/ \E r \in Receivers : ReceiverMove(r)
    \/ \E a \in Activities : Notify(a)
    \/ \E c \in Controllers, cnt \in NewSizes :
         \E k \in 0..Len(mWaitingSender) : SetsMax(c, cnt, k)

\* The steps of the specification are the moves above.
LEMMA MoveCases ==
    ASSUME TypeInv, Next
    PROVE  Move
<1>1. ASSUME NEW s \in Senders, SenderStep(s)
      PROVE  SenderMove(s) \/ Notify(s)
  BY <1>1, PushCases, PushReturnCases, SenderLeaveCases DEF SenderStep, SenderMove
<1>2. ASSUME NEW r \in Receivers, ReceiverStep(r)
      PROVE  ReceiverMove(r) \/ Notify(r)
  BY <1>2, PopCases, PopReturnCases, ReceiverLeaveCases DEF ReceiverStep, ReceiverMove
<1>3. ASSUME NEW c \in Controllers, NEW cnt \in NewSizes, SetMaxQueueSize(c, cnt)
      PROVE  Move
  BY <1>3, SetMaxCases DEF Move
<1> QED BY <1>1, <1>2, <1>3 DEF Next, Move, Activities

-----------------------------------------------------------------------------
(* Types.                                                                  *)

\* Senders, receivers and controllers are different activities.
LEMMA Sides ==
    /\ \A a \in Activities : a \in Senders \/ a \in Receivers \/ a \in Controllers
    /\ \A a \in Senders : a \in Activities /\ a \notin Receivers /\ a \notin Controllers
    /\ \A a \in Receivers : a \in Activities /\ a \notin Senders /\ a \notin Controllers
    /\ \A a \in Controllers : a \in Activities /\ a \notin Senders /\ a \notin Receivers
BY PartsDisjoint DEF Activities

\* What the steps of one activity do to self, notify and pc.
LEMMA OwnEffect ==
    ASSUME ActivityType, NEW a \in Activities, NEW own, NEW calls, NEW p
    PROVE  /\ self' = [self EXCEPT ![a] = own] =>
                self'[a] = own /\ \A b \in Activities : b # a => self'[b] = self[b]
           /\ notify' = [notify EXCEPT ![a] = calls] =>
                notify'[a] = calls /\ \A b \in Activities : b # a => notify'[b] = notify[b]
           /\ pc' = [pc EXCEPT ![a] = p] =>
                pc'[a] = p /\ \A b \in Activities : b # a => pc'[b] = pc[b]
BY DEF ActivityType

\* They preserve the types, if they store values of the right kind.
LEMMA OwnType ==
    ASSUME ActivityType, NEW a \in Activities, NEW own, NEW calls, NEW p \in PCs,
           self' = self \/ self' = [self EXCEPT ![a] = own],
           notify' = notify \/ notify' = [notify EXCEPT ![a] = calls],
           pc' = pc \/ pc' = [pc EXCEPT ![a] = p],
           a \in Senders => own \in PushAnswers /\ calls \in Seq(PopCalls),
           a \in Receivers => own \in PopAnswers /\ calls \in Seq(PushCalls),
           a \in Controllers => own = <<>> /\ calls \in Seq(PushCalls) /\ p = "idle"
    PROVE  ActivityType'
<1>1. /\ a \in Senders \/ a \in Receivers \/ a \in Controllers
      /\ own \in PushAnswers \cup PopAnswers
      /\ calls \in Seq(PushCalls) \cup Seq(PopCalls)
  BY Sides, AnswerFacts
<1>2. /\ self' \in [Activities -> PushAnswers \cup PopAnswers]
      /\ \A b \in Activities : self'[b] = self[b] \/ (b = a /\ self'[b] = own)
  BY <1>1 DEF ActivityType
<1>3. /\ notify' \in [Activities -> Seq(PushCalls) \cup Seq(PopCalls)]
      /\ \A b \in Activities : notify'[b] = notify[b] \/ (b = a /\ notify'[b] = calls)
  BY <1>1 DEF ActivityType
<1>4. /\ pc' \in [Activities -> PCs]
      /\ \A b \in Activities : pc'[b] = pc[b] \/ (b = a /\ pc'[b] = p)
  BY <1>1 DEF ActivityType
<1>5. \A s \in Senders : self'[s] \in PushAnswers /\ notify'[s] \in Seq(PopCalls)
  BY <1>2, <1>3, Sides DEF ActivityType
<1>6. \A r \in Receivers : self'[r] \in PopAnswers /\ notify'[r] \in Seq(PushCalls)
  BY <1>2, <1>3, Sides DEF ActivityType
<1>7. \A c \in Controllers : self'[c] = <<>> /\ notify'[c] \in Seq(PushCalls) /\ pc'[c] = "idle"
  BY <1>2, <1>3, <1>4, Sides DEF ActivityType
<1> QED BY <1>2, <1>3, <1>4, <1>5, <1>6, <1>7 DEF ActivityType

\* The empty deque has every type.
LEMMA EmptyTypes ==
    /\ <<>> \in Seq(PopCalls) /\ <<>> \in Seq(PushCalls)
    /\ <<>> \in Seq(Senders) /\ <<>> \in Seq(Receivers) /\ <<>> \in Seq(Items)
OBVIOUS

\* The places an activity can be at.
LEMMA PCFacts == "idle" \in PCs /\ "await" \in PCs /\ "stopped" \in PCs /\ "left" \in PCs
BY DEF PCs

\* The next value of a sender.
LEMMA NextItem ==
    ASSUME CountType, NEW s \in Senders, StartPush(s)
    PROVE  /\ Item(s, sent[s] + 1) \in Items
           /\ sent[s] \in Nat /\ sent'[s] = sent[s] + 1
           /\ \A t \in Senders : t # s => sent'[t] = sent[t]
           /\ accepted' = accepted
           /\ CountType'
<1>1. sent[s] \in Nat /\ sent[s] + 1 \in 1..MaxItems
  BY MaxItemsNat DEF CountType, StartPush
<1>2. Item(s, sent[s] + 1) \in Items
  BY <1>1, ItemFacts
<1>3. sent'[s] = sent[s] + 1 /\ \A t \in Senders : t # s => sent'[t] = sent[t]
  BY DEF CountType, StartPush
<1>4. CountType'
  BY <1>1 DEF CountType, StartPush
<1> QED BY <1>1, <1>2, <1>3, <1>4 DEF StartPush

\* A step of a sender keeps the types.
LEMMA SenderMoveType ==
    ASSUME TypeInv, NEW s \in Senders, SenderMove(s)
    PROVE  TypeInv'
<1> USE DEF TypeInv
<1>s. s \in Activities /\ s \notin Receivers /\ s \notin Controllers
  BY Sides
<1>p. ASSUME NEW own \in PushAnswers, NEW calls \in Seq(PopCalls), Proceed(s, own, calls)
      PROVE  ActivityType'
  BY <1>p, <1>s, OwnType, PCFacts DEF Proceed
<1>1. CASE PushHands(s)
  <2>1. Head(mWaitingReceiver) \in Receivers /\ Tail(mWaitingReceiver) \in Seq(Receivers)
    BY <1>1, TailDeque DEF PushHands, ChannelType
  <2>2. CountType' /\ Some(Item(s, sent[s] + 1)) \in Opts
    BY <1>1, NextItem, OptionFacts DEF PushHands
  <2>3. ActivityType'
    <3> DEFINE call == Call(Head(mWaitingReceiver), Some(Item(s, sent[s] + 1)))
    <3>1. call \in PopCalls
      BY <2>1, <2>2, CallFacts
    <3>2. <<call>> \in Seq(PopCalls)
      BY <3>1, OneDeque
    <3>3. Proceed(s, <<TRUE>>, <<call>>) /\ <<TRUE>> \in PushAnswers
      BY <1>1, AnswerFacts DEF PushHands
    <3> HIDE DEF call
    <3> QED BY <1>p, <3>2, <3>3
  <2>4. ChannelType'
    BY <1>1, <2>1 DEF PushHands, StartPush, ChannelType
  <2> QED BY <2>2, <2>3, <2>4
<1>2. CASE PushRefused(s)
  <2>1. CountType'
    BY <1>2, NextItem DEF PushRefused
  <2>2. ActivityType'
    BY <1>2, <1>p, AnswerFacts, EmptyTypes DEF PushRefused
  <2>3. ChannelType'
    BY <1>2 DEF PushRefused, StartPush, ChannelType
  <2> QED BY <2>1, <2>2, <2>3
<1>3. CASE PushWaits(s)
  <2>1. CountType' /\ Item(s, sent[s] + 1) \in Items
    BY <1>3, NextItem DEF PushWaits, StartQueue
  <2>2. ActivityType'
    BY <1>3, <1>p, AnswerFacts, EmptyTypes DEF PushWaits
  <2>3. ChannelType'
    BY <1>3, <2>1, AppendDeque DEF PushWaits, StartQueue, StartPush, ChannelType
  <2> QED BY <2>1, <2>2, <2>3
<1>4. CASE PushGoesOn(s)
  <2>1. CountType' /\ Item(s, sent[s] + 1) \in Items
    BY <1>4, NextItem DEF PushGoesOn, StartQueue
  <2>2. ActivityType'
    BY <1>4, <1>p, AnswerFacts, EmptyTypes DEF PushGoesOn
  <2>3. ChannelType'
    BY <1>4, <2>1, AppendDeque DEF PushGoesOn, StartQueue, StartPush, ChannelType
  <2> QED BY <2>1, <2>2, <2>3
<1>5. CASE PushAccepted(s)
  <2>1. CountType'
    BY <1>5 DEF PushAccepted, CountType
  <2>2. ActivityType'
    BY <1>5, <1>s, OwnType, PCFacts, AnswerFacts, EmptyTypes DEF PushAccepted
  <2>3. ChannelType'
    BY <1>5 DEF PushAccepted, channelVars, ChannelType
  <2> QED BY <2>1, <2>2, <2>3
<1>6. CASE PushStops(s)
  <2>1. CountType'
    BY <1>6 DEF PushStops, CountType
  <2>2. ActivityType'
    BY <1>6, <1>s, OwnType, PCFacts, AnswerFacts, EmptyTypes DEF PushStops
  <2>3. ChannelType'
    BY <1>6 DEF PushStops, channelVars, ChannelType
  <2> QED BY <2>1, <2>2, <2>3
<1>7. CASE SenderCloses(s)
  <2>1. CountType'
    BY <1>7 DEF SenderCloses, Leave, CountType
  <2>2. Calls(mWaitingReceiver, NullOpt) \in Seq(PopCalls)
    BY CallsType, OptionFacts DEF ChannelType
  <2>3. ActivityType'
    BY <1>7, <1>s, <2>2, OwnType, PCFacts, AnswerFacts DEF SenderCloses, Leave
  <2>4. ChannelType'
    BY <1>7, EmptyTypes DEF SenderCloses, Leave, ChannelType
  <2> QED BY <2>1, <2>3, <2>4
<1>8. CASE JustLeaves(s, Senders)
  <2>1. CountType'
    BY <1>8 DEF JustLeaves, Leave, CountType
  <2>2. ActivityType'
    BY <1>8, <1>s, OwnType, PCFacts, AnswerFacts, EmptyTypes DEF JustLeaves, Leave
  <2>3. ChannelType'
    BY <1>8 DEF JustLeaves, Leave, ChannelType
  <2> QED BY <2>1, <2>2, <2>3
<1> QED BY <1>1, <1>2, <1>3, <1>4, <1>5, <1>6, <1>7, <1>8 DEF SenderMove

\* A step of a receiver keeps the types.
LEMMA ReceiverMoveType ==
    ASSUME TypeInv, NEW r \in Receivers, ReceiverMove(r)
    PROVE  TypeInv'
<1> USE DEF TypeInv
<1>r. r \in Activities /\ r \notin Senders /\ r \notin Controllers
  BY Sides
<1>p. ASSUME NEW own \in PopAnswers, NEW calls \in Seq(PushCalls), Proceed(r, own, calls)
      PROVE  ActivityType'
  BY <1>p, <1>r, OwnType, PCFacts DEF Proceed
<1>1. CASE PopTakes(r)
  <2>1. Head(mReadyData) \in Items /\ Tail(mReadyData) \in Seq(Items)
    BY <1>1, TailDeque DEF PopTakes, ChannelType
  <2>2. <<Some(Head(mReadyData))>> \in PopAnswers
    BY <2>1, OptionFacts, AnswerFacts
  <2>3. ActivityType'
    BY <1>1, <1>p, <2>2, EmptyTypes DEF PopTakes
  <2>4. ChannelType'
    BY <1>1, <2>1 DEF PopTakes, StartPop, ChannelType
  <2>5. CountType'
    BY <1>1 DEF PopTakes, StartPop, CountType
  <2> QED BY <2>3, <2>4, <2>5
<1>2. CASE PopWakes(r)
  <2>1. Head(mReadyData) \in Items /\ Tail(mReadyData) \in Seq(Items)
    BY <1>2, TailDeque DEF PopWakes, ChannelType
  <2>2. <<Some(Head(mReadyData))>> \in PopAnswers
    BY <2>1, OptionFacts, AnswerFacts
  <2>3. Head(mWaitingSender) \in Senders /\ Tail(mWaitingSender) \in Seq(Senders)
    BY <1>2, TailDeque DEF PopWakes, ChannelType
  <2>4. ActivityType'
    BY <1>2, <1>p, <2>2, <2>3, CallFacts, OneDeque DEF PopWakes
  <2>5. ChannelType'
    BY <1>2, <2>1, <2>3 DEF PopWakes, StartPop, ChannelType
  <2>6. CountType'
    BY <1>2 DEF PopWakes, StartPop, CountType
  <2> QED BY <2>4, <2>5, <2>6
<1>3. CASE PopEnds(r)
  <2>1. ActivityType'
    BY <1>3, <1>p, OptionFacts, AnswerFacts, EmptyTypes DEF PopEnds
  <2>2. ChannelType'
    BY <1>3 DEF PopEnds, StartPop, ChannelType
  <2>3. CountType'
    BY <1>3 DEF PopEnds, StartPop, CountType
  <2> QED BY <2>1, <2>2, <2>3
<1>4. CASE PopWaits(r)
  <2>1. ActivityType'
    BY <1>4, <1>p, AnswerFacts, EmptyTypes DEF PopWaits
  <2>2. ChannelType'
    BY <1>4, AppendDeque DEF PopWaits, StartPop, ChannelType
  <2>3. CountType'
    BY <1>4 DEF PopWaits, StartPop, CountType
  <2> QED BY <2>1, <2>2, <2>3
<1>5. CASE PopStops(r)
  <2>1. ActivityType'
    BY <1>5, <1>r, OwnType, PCFacts, AnswerFacts, EmptyTypes DEF PopStops
  <2>2. ChannelType'
    BY <1>5 DEF PopStops, channelVars, ChannelType
  <2>3. CountType'
    BY <1>5 DEF PopStops, CountType
  <2> QED BY <2>1, <2>2, <2>3
<1>6. ASSUME NEW x \in Items, PopReturns(r, x)
      PROVE  TypeInv'
  <2>1. ActivityType'
    BY <1>6, <1>r, OwnType, PCFacts, AnswerFacts, EmptyTypes DEF PopReturns
  <2>2. ChannelType'
    BY <1>6 DEF PopReturns, channelVars, ChannelType
  <2>3. Append(received[r], x) \in Seq(Items)
    BY AppendDeque DEF CountType
  <2>4. CountType'
    BY <1>6, <2>3 DEF PopReturns, CountType
  <2> QED BY <2>1, <2>2, <2>4
<1>7. CASE ReceiverCloses(r)
  <2>1. CountType'
    BY <1>7 DEF ReceiverCloses, Leave, CountType
  <2>2. Calls(mWaitingSender, FALSE) \in Seq(PushCalls)
    BY CallsType DEF ChannelType
  <2>3. ActivityType'
    BY <1>7, <1>r, <2>2, OwnType, PCFacts, AnswerFacts DEF ReceiverCloses, Leave
  <2>4. ChannelType'
    BY <1>7, EmptyTypes DEF ReceiverCloses, Leave, ChannelType
  <2> QED BY <2>1, <2>3, <2>4
<1>8. CASE JustLeaves(r, Receivers)
  <2>1. CountType'
    BY <1>8 DEF JustLeaves, Leave, CountType
  <2>2. ActivityType'
    BY <1>8, <1>r, OwnType, PCFacts, AnswerFacts, EmptyTypes DEF JustLeaves, Leave
  <2>3. ChannelType'
    BY <1>8 DEF JustLeaves, Leave, ChannelType
  <2> QED BY <2>1, <2>2, <2>3
<1> QED BY <1>1, <1>2, <1>3, <1>4, <1>5, <1>6, <1>7, <1>8 DEF ReceiverMove

\* One set_value() after the unlock: the first of the calls of a.
LEMMA NotifyEffect ==
    ASSUME TypeInv, NEW a \in Activities, Notify(a)
    PROVE  LET h == Head(notify[a]) IN
           /\ In(h, notify[a]) /\ h.to \in Activities /\ h.to \notin Controllers
           /\ h.to \in Senders => h \in PushCalls
           /\ h.to \in Receivers => h \in PopCalls /\ a \in Senders
           /\ self'[h.to] = <<h.val>>
           /\ \A b \in Activities : b # h.to => self'[b] = self[b]
           /\ \A b \in Activities : b # a => notify'[b] = notify[b]
           /\ \A c : In(c, notify[a]) <=> c = h \/ In(c, notify'[a])
           /\ Distinct(notify[a]) => Distinct(notify'[a]) /\ ~In(h, notify'[a])
           /\ TypeInv'
<1> DEFINE h == Head(notify[a])
<1> USE DEF TypeInv
<1>1. PICK C \in {PushCalls, PopCalls} :
        /\ notify[a] \in Seq(C)
        /\ a \in Senders => C = PopCalls
        /\ a \notin Senders => C = PushCalls
  BY Sides DEF ActivityType
<1>2. notify'[a] = Tail(notify[a]) /\ \A b \in Activities : b # a => notify'[b] = notify[b]
  BY DEF Notify, ActivityType
<1>3. /\ Tail(notify[a]) \in Seq(C)
      /\ h = notify[a][1] /\ h \in C
      /\ \A c : In(c, notify[a]) <=> c = h \/ In(c, Tail(notify[a]))
      /\ Distinct(notify[a]) => Distinct(Tail(notify[a])) /\ ~In(h, Tail(notify[a]))
  BY <1>1, TailDeque DEF Notify
<1>4. /\ h.to \in Activities /\ h.to \notin Controllers
      /\ h.to \in Senders => h \in PushCalls
      /\ h.to \in Receivers => h \in PopCalls /\ a \in Senders
  BY <1>1, <1>3, CallFacts, Sides
<1>5. /\ h.to \in Senders => <<h.val>> \in PushAnswers
      /\ h.to \in Receivers => <<h.val>> \in PopAnswers
  BY <1>4, CallFacts, AnswerFacts
<1>6. self' = [self EXCEPT ![h.to] = <<h.val>>] /\ pc' = pc
  BY DEF Notify
<1>7. self'[h.to] = <<h.val>> /\ \A b \in Activities : b # h.to => self'[b] = self[b]
  BY <1>4, <1>6 DEF ActivityType
<1>8. /\ self' \in [Activities -> PushAnswers \cup PopAnswers]
      /\ \A s \in Senders : self'[s] \in PushAnswers
      /\ \A r \in Receivers : self'[r] \in PopAnswers
      /\ \A c \in Controllers : self'[c] = <<>>
  <2>1. <<h.val>> \in PushAnswers \cup PopAnswers
    BY <1>4, <1>5, Sides
  <2>2. self' \in [Activities -> PushAnswers \cup PopAnswers]
    BY <1>6, <2>1 DEF ActivityType
  <2>3. \A b \in Activities : self'[b] = self[b] \/ (b = h.to /\ self'[b] = <<h.val>>)
    BY <1>7
  <2> HIDE DEF h
  <2> QED BY <1>4, <1>5, <2>2, <2>3, Sides DEF ActivityType
<1>9. /\ notify' \in [Activities -> Seq(PushCalls) \cup Seq(PopCalls)]
      /\ \A s \in Senders : notify'[s] \in Seq(PopCalls)
      /\ \A b \in Receivers \cup Controllers : notify'[b] \in Seq(PushCalls)
  <2>1. notify' = [notify EXCEPT ![a] = Tail(notify[a])]
    BY DEF Notify
  <2> QED BY <1>1, <1>2, <1>3, <2>1, Sides DEF ActivityType
<1>10. TypeInv'
  BY <1>6, <1>8, <1>9 DEF ActivityType, Notify, ChannelType, CountType, channelVars
<1> QED BY <1>2, <1>3, <1>4, <1>7, <1>10

\* setMaxQueueSize() keeps the types.
LEMMA SetsMaxType ==
    ASSUME TypeInv, NEW c \in Controllers, NEW cnt \in NewSizes,
           NEW k \in 0..Len(mWaitingSender), SetsMax(c, cnt, k)
    PROVE  TypeInv'
<1> USE DEF TypeInv
<1>1. /\ SubSeq(mWaitingSender, k + 1, Len(mWaitingSender)) \in Seq(Senders)
      /\ SubSeq(mWaitingSender, 1, k) \in Seq(Senders)
  BY SplitDeque DEF ChannelType
<1>2. Calls(SubSeq(mWaitingSender, 1, k), FALSE) \in Seq(PushCalls)
  BY <1>1, CallsType
<1>3. ActivityType'
  BY <1>2, OwnType, Sides, PCFacts DEF SetsMax
<1>4. ChannelType'
  BY <1>1 DEF SetsMax, ChannelType, Sizes
<1>5. CountType'
  BY DEF SetsMax, CountType
<1> QED BY <1>3, <1>4, <1>5

\* Every step keeps the types.
LEMMA TypeStep ==
    ASSUME TypeInv, Next
    PROVE  TypeInv'
BY MoveCases, SenderMoveType, ReceiverMoveType, NotifyEffect, SetsMaxType DEF Move

-----------------------------------------------------------------------------
(* Wakeups.                                                                *)

\* A sender only answers pop()s, and the others only push()es.
LEMMA CallTargets ==
    ASSUME TypeInv, NEW b \in Activities, NEW c, In(c, notify[b])
    PROVE  /\ c.to \in Activities
           /\ b \in Senders => c \in PopCalls
           /\ b \notin Senders => c \in PushCalls
<1>1. b \in Senders => notify[b] \in Seq(PopCalls)
  BY DEF TypeInv, ActivityType
<1>2. b \notin Senders => notify[b] \in Seq(PushCalls)
  BY Sides DEF TypeInv, ActivityType
<1>3. (b \in Senders => c \in PopCalls) /\ (b \notin Senders => c \in PushCalls)
  BY <1>1, <1>2, NothingIn
<1> QED BY <1>3, CallFacts, Sides

\* An operation of a takes those in T out of the deques and will set their
\* futures to v; a may join a deque itself.
LEMMA WakeStep ==
    ASSUME TypeInv, WakeInv, NEW a \in Activities, NEW T, NEW v, NEW joins \in BOOLEAN,
           notify[a] = <<>>, ~Waits(a), Waits(a)' <=> joins,
           Distinct(mWaitingSender)', Distinct(mWaitingReceiver)', Distinct(notify[a])',
           \A b \in Activities : b # a => notify'[b] = notify[b] /\ (Waits(b)' <=> Waits(b)),
           \A x \in Activities : Queued(x)' <=> (Queued(x) /\ x \notin T) \/ (joins /\ x = a),
           \A x \in T : x \in Activities /\ Queued(x),
           \A c : In(c, notify'[a]) <=> \E x \in T : c = Call(x, v)
    PROVE  WakeInv'
<1>1. \A c : ~In(c, notify[a])
  BY EmptyDeque
<1>2. a \notin T
  BY DEF WakeInv
<1>3. \A b \in Activities : \A c :
        In(c, notify'[b]) <=> (b # a /\ In(c, notify[b])) \/ (b = a /\ \E x \in T : c = Call(x, v))
  BY <1>1
<1>4. \A x : Call(x, v).to = x
  BY CallFacts
<1>5. (\A b \in Activities : Distinct(notify[b]))'
  BY DEF WakeInv
<1>6. ASSUME NEW b1 \in Activities, NEW b2 \in Activities, NEW c, NEW d,
             In(c, notify'[b1]), In(d, notify'[b2]), c.to = d.to
      PROVE  b1 = b2 /\ c = d
  BY <1>3, <1>4, <1>6 DEF WakeInv
<1>7. ASSUME NEW x \in Activities, Waits(x)'
      PROVE  Queued(x)' \/ Called(x)'
  <2>1. CASE x = a
    BY <1>7, <2>1
  <2>2. CASE x # a /\ x \in T
    BY <1>3, <1>4, <2>2 DEF Called
  <2>3. CASE x # a /\ x \notin T
    <3>1. Queued(x) \/ Called(x)
      BY <1>7, <2>3 DEF WakeInv
    <3>2. CASE Queued(x)
      BY <2>3, <3>2
    <3>3. CASE Called(x)
      BY <1>1, <1>3, <3>3 DEF Called
    <3> QED BY <3>1, <3>2, <3>3
  <2> QED BY <2>1, <2>2, <2>3
<1>8. ASSUME NEW x \in Activities, Queued(x)'
      PROVE  Waits(x)'
  BY <1>8 DEF WakeInv
<1>9. ASSUME NEW b \in Activities, NEW c, In(c, notify'[b])
      PROVE  Waits(c.to)' /\ ~Queued(c.to)'
  <2>1. CASE b = a
    BY <1>2, <1>3, <1>4, <1>9, <2>1 DEF WakeInv
  <2>2. CASE b # a
    BY <1>3, <1>9, <2>2, CallTargets DEF WakeInv
  <2> QED BY <2>1, <2>2
<1> QED BY <1>5, <1>6, <1>7, <1>8, <1>9 DEF WakeInv

\* The same for a push() or a pop().
LEMMA ProceedWake ==
    ASSUME TypeInv, WakeInv, RestInv, NEW a \in Senders \cup Receivers, pc[a] = "idle",
           NEW own, NEW calls, NEW T, NEW v, Proceed(a, own, calls),
           Distinct(mWaitingSender)', Distinct(mWaitingReceiver)', Distinct(calls),
           \A x \in Activities :
             Queued(x)' <=> (Queued(x) /\ x \notin T) \/ (own = <<>> /\ x = a),
           \A x \in T : x \in Activities /\ Queued(x),
           \A c : In(c, calls) <=> \E x \in T : c = Call(x, v)
    PROVE  WakeInv'
<1>1. a \in Activities
  BY Sides
<1>2. /\ self'[a] = own /\ notify'[a] = calls /\ pc'[a] = "await"
      /\ \A b \in Activities : b # a =>
           self'[b] = self[b] /\ notify'[b] = notify[b] /\ pc'[b] = pc[b]
  BY <1>1 DEF TypeInv, ActivityType, Proceed
<1>3. notify[a] = <<>> /\ ~Waits(a) /\ (Waits(a)' <=> own = <<>>)
  BY <1>2 DEF RestInv, Waits
<1>4. \A b \in Activities : b # a => (Waits(b)' <=> Waits(b))
  BY <1>2 DEF Waits
<1> DEFINE joins == own = <<>>
<1>5. joins \in BOOLEAN
  OBVIOUS
<1>6. \A x \in Activities : Queued(x)' <=> (Queued(x) /\ x \notin T) \/ (joins /\ x = a)
  OBVIOUS
<1>7. Waits(a)' <=> joins
  BY <1>3
<1>8. Distinct(notify[a])' /\ \A c : In(c, notify'[a]) <=> \E x \in T : c = Call(x, v)
  BY <1>2
<1> HIDE DEF joins
<1> QED BY <1>1, <1>2, <1>3, <1>4, <1>5, <1>6, <1>7, <1>8, WakeStep

\* One that wakes nobody.
LEMMA ProceedAlone ==
    ASSUME TypeInv, WakeInv, RestInv, NEW a \in Senders \cup Receivers, pc[a] = "idle",
           NEW own, Proceed(a, own, <<>>),
           Distinct(mWaitingSender)', Distinct(mWaitingReceiver)',
           \A x \in Activities : Queued(x)' <=> Queued(x) \/ (own = <<>> /\ x = a)
    PROVE  WakeInv'
<1> DEFINE calls == <<>>
           T == {}
<1>1. Distinct(calls) /\ \A c : In(c, calls) <=> \E x \in T : c = Call(x, TRUE)
  BY EmptyDeque
<1>2. \A x \in Activities : Queued(x)' <=> (Queued(x) /\ x \notin T) \/ (own = <<>> /\ x = a)
  OBVIOUS
<1>3. \A x \in T : x \in Activities /\ Queued(x)
  OBVIOUS
<1>4. Proceed(a, own, calls)
  OBVIOUS
<1> HIDE DEF calls, T
<1> QED BY <1>1, <1>2, <1>3, <1>4, ProceedWake

\* A step that touches no deque and no call.
LEMMA QuietWake ==
    ASSUME TypeInv, WakeInv, UNCHANGED <<mWaitingSender, mWaitingReceiver, notify>>,
           \A b \in Activities : Waits(b)' <=> Waits(b)
    PROVE  WakeInv'
<1>1. \A x : (Queued(x)' <=> Queued(x)) /\ (Called(x)' <=> Called(x))
  BY DEF Queued, Called
<1>2. \A b \in Activities : \A c : In(c, notify[b]) => c.to \in Activities
  BY CallTargets
<1> QED BY <1>1, <1>2 DEF WakeInv

\* After a step of a sender each waiter still has exactly one waker.
LEMMA SenderMoveWake ==
    ASSUME TypeInv, WakeInv, RestInv, NEW s \in Senders, SenderMove(s)
    PROVE  WakeInv'
<1>t. /\ mReadyData \in Seq(Items)
      /\ mWaitingSender \in Seq(Senders) /\ mWaitingReceiver \in Seq(Receivers)
  BY DEF TypeInv, ChannelType
<1>d. Distinct(mWaitingSender) /\ Distinct(mWaitingReceiver)
  BY DEF WakeInv
<1>n. \A c : ~In(c, <<>>)
  BY EmptyDeque
<1>1. CASE PushHands(s)
  <2> DEFINE r == Head(mWaitingReceiver)
             v == Some(Item(s, sent[s] + 1))
             own == <<TRUE>>
             calls == <<Call(r, v)>>
             T == {r}
  <2>1. /\ r \in Receivers /\ Distinct(Tail(mWaitingReceiver))
        /\ ~In(r, Tail(mWaitingReceiver))
        /\ \A x : In(x, mWaitingReceiver) <=> x = r \/ In(x, Tail(mWaitingReceiver))
    BY <1>1, <1>t, <1>d, TailDeque DEF PushHands
  <2>2. r \in Activities /\ Queued(r) /\ ~In(r, mWaitingSender)
    BY <1>t, <2>1, NothingIn, Sides DEF Queued
  <2>3. \A x \in Activities : Queued(x)' <=> Queued(x) /\ x \notin T
    BY <1>1, <2>1, <2>2 DEF PushHands, Queued
  <2>4. Distinct(calls) /\ \A c : In(c, calls) <=> \E x \in T : c = Call(x, v)
    BY OneDeque
  <2>5. /\ pc[s] = "idle" /\ Proceed(s, own, calls) /\ own # <<>>
        /\ Distinct(mWaitingSender)' /\ Distinct(mWaitingReceiver)'
    BY <1>1, <1>d, <2>1 DEF PushHands, StartPush
  <2>6. \A x \in T : x \in Activities /\ Queued(x)
    BY <2>2
  <2> HIDE DEF r, v, own, calls, T
  <2> QED BY <2>3, <2>4, <2>5, <2>6, ProceedWake
<1>2. CASE PushRefused(s)
  <2>1. \A x \in Activities : Queued(x)' <=> Queued(x)
    BY <1>2 DEF PushRefused, Queued
  <2>2. /\ pc[s] = "idle" /\ Proceed(s, <<FALSE>>, <<>>) /\ <<FALSE>> # <<>>
        /\ Distinct(mWaitingSender)' /\ Distinct(mWaitingReceiver)'
    BY <1>2, <1>d DEF PushRefused, StartPush
  <2> QED BY <2>1, <2>2, ProceedAlone, SMTT(20)
<1>3. CASE PushWaits(s)
  <2>1. ~Queued(s)
    BY <1>3, Sides DEF PushWaits, StartQueue, StartPush, WakeInv, Waits
  <2>2. /\ \A x : In(x, Append(mWaitingSender, s)) <=> In(x, mWaitingSender) \/ x = s
        /\ Distinct(Append(mWaitingSender, s))
    BY <1>t, <1>d, <2>1, AppendDeque DEF Queued
  <2>3. \A x \in Activities : Queued(x)' <=> Queued(x) \/ x = s
    BY <1>3, <2>2 DEF PushWaits, StartQueue, Queued
  <2>4. /\ pc[s] = "idle" /\ Proceed(s, <<>>, <<>>)
        /\ Distinct(mWaitingSender)' /\ Distinct(mWaitingReceiver)'
    BY <1>3, <1>d, <2>2 DEF PushWaits, StartQueue, StartPush
  <2> QED BY <2>3, <2>4, ProceedAlone
<1>4. CASE PushGoesOn(s)
  <2>1. \A x \in Activities : Queued(x)' <=> Queued(x)
    BY <1>4 DEF PushGoesOn, StartQueue, Queued
  <2>2. /\ pc[s] = "idle" /\ Proceed(s, <<TRUE>>, <<>>) /\ <<TRUE>> # <<>>
        /\ Distinct(mWaitingSender)' /\ Distinct(mWaitingReceiver)'
    BY <1>4, <1>d DEF PushGoesOn, StartQueue, StartPush
  <2> QED BY <2>1, <2>2, ProceedAlone, SMTT(20)
<1>5. CASE PushAccepted(s) \/ PushStops(s)
  <2>1. UNCHANGED <<mWaitingSender, mWaitingReceiver, notify>>
    BY <1>5 DEF PushAccepted, PushStops, channelVars
  <2>2. \A b \in Activities : Waits(b)' <=> Waits(b)
    BY <1>5, Sides, AnswerFacts DEF TypeInv, ActivityType, PushAccepted, PushStops, Waits
  <2> QED BY <2>1, <2>2, QuietWake
<1>6. CASE SenderCloses(s)
  <2> DEFINE T == {x \in Receivers : In(x, mWaitingReceiver)}
  <2>1. /\ Distinct(Calls(mWaitingReceiver, NullOpt))
        /\ \A c : In(c, Calls(mWaitingReceiver, NullOpt)) <=> \E x \in T : c = Call(x, NullOpt)
    BY <1>t, <1>d, CallsDeque
  <2>2. \A x \in T : x \in Activities /\ Queued(x)
    BY Sides DEF Queued
  <2>3. \A x \in Activities : Queued(x)' <=> Queued(x) /\ x \notin T
    BY <1>6, <1>t, <1>n, NothingIn, Sides DEF SenderCloses, Queued
  <2>4. /\ notify'[s] = Calls(mWaitingReceiver, NullOpt) /\ pc'[s] = "left"
        /\ \A b \in Activities : b # s =>
             notify'[b] = notify[b] /\ (Waits(b)' <=> Waits(b))
    BY <1>6, Sides DEF TypeInv, ActivityType, SenderCloses, Leave, Waits
  <2>5. notify[s] = <<>> /\ ~Waits(s) /\ ~Waits(s)'
    BY <1>6, <2>4 DEF SenderCloses, Leave, Waits, RestInv
  <2>6. Distinct(mWaitingSender)' /\ Distinct(mWaitingReceiver)' /\ Distinct(notify[s])'
    BY <1>6, <1>d, <2>1, <2>4, EmptyDeque DEF SenderCloses
  <2>7. s \in Activities
    BY Sides
  <2> HIDE DEF T
  <2> QED BY <2>1, <2>2, <2>3, <2>4, <2>5, <2>6, <2>7, WakeStep
<1>7. CASE JustLeaves(s, Senders)
  <2>1. UNCHANGED <<mWaitingSender, mWaitingReceiver, notify>>
    BY <1>7 DEF JustLeaves
  <2>2. \A b \in Activities : Waits(b)' <=> Waits(b)
    BY <1>7, Sides DEF TypeInv, ActivityType, JustLeaves, Leave, Waits
  <2> QED BY <2>1, <2>2, QuietWake
<1> QED BY <1>1, <1>2, <1>3, <1>4, <1>5, <1>6, <1>7 DEF SenderMove

\* After a step of a receiver each waiter still has exactly one waker.
LEMMA ReceiverMoveWake ==
    ASSUME TypeInv, WakeInv, RestInv, NEW r \in Receivers, ReceiverMove(r)
    PROVE  WakeInv'
<1>t. /\ mReadyData \in Seq(Items)
      /\ mWaitingSender \in Seq(Senders) /\ mWaitingReceiver \in Seq(Receivers)
  BY DEF TypeInv, ChannelType
<1>d. Distinct(mWaitingSender) /\ Distinct(mWaitingReceiver)
  BY DEF WakeInv
<1>n. \A c : ~In(c, <<>>)
  BY EmptyDeque
<1>1. CASE PopTakes(r)
  <2>1. \A x \in Activities : Queued(x)' <=> Queued(x)
    BY <1>1 DEF PopTakes, Queued
  <2> DEFINE own == <<Some(Head(mReadyData))>>
  <2>2. /\ pc[r] = "idle" /\ Proceed(r, own, <<>>) /\ own # <<>>
        /\ Distinct(mWaitingSender)' /\ Distinct(mWaitingReceiver)'
    BY <1>1, <1>d DEF PopTakes, StartPop
  <2> HIDE DEF own
  <2> QED BY <2>1, <2>2, ProceedAlone
<1>2. CASE PopWakes(r)
  <2> DEFINE s == Head(mWaitingSender)
             own == <<Some(Head(mReadyData))>>
             v == TRUE
             calls == <<Call(s, v)>>
             T == {s}
  <2>1. /\ s \in Senders /\ Distinct(Tail(mWaitingSender))
        /\ ~In(s, Tail(mWaitingSender))
        /\ \A x : In(x, mWaitingSender) <=> x = s \/ In(x, Tail(mWaitingSender))
    BY <1>2, <1>t, <1>d, TailDeque DEF PopWakes
  <2>2. s \in Activities /\ Queued(s) /\ ~In(s, mWaitingReceiver)
    BY <1>t, <2>1, NothingIn, Sides DEF Queued
  <2>3. \A x \in Activities : Queued(x)' <=> Queued(x) /\ x \notin T
    BY <1>2, <2>1, <2>2 DEF PopWakes, Queued
  <2>4. Distinct(calls) /\ \A c : In(c, calls) <=> \E x \in T : c = Call(x, v)
    BY OneDeque
  <2>5. /\ pc[r] = "idle" /\ Proceed(r, own, calls) /\ own # <<>>
        /\ Distinct(mWaitingSender)' /\ Distinct(mWaitingReceiver)'
    BY <1>2, <1>d, <2>1 DEF PopWakes, StartPop
  <2>6. \A x \in T : x \in Activities /\ Queued(x)
    BY <2>2
  <2> HIDE DEF s, v, own, calls, T
  <2> QED BY <2>3, <2>4, <2>5, <2>6, ProceedWake
<1>3. CASE PopEnds(r)
  <2>1. \A x \in Activities : Queued(x)' <=> Queued(x)
    BY <1>3 DEF PopEnds, Queued
  <2>2. /\ pc[r] = "idle" /\ Proceed(r, <<NullOpt>>, <<>>) /\ <<NullOpt>> # <<>>
        /\ Distinct(mWaitingSender)' /\ Distinct(mWaitingReceiver)'
    BY <1>3, <1>d DEF PopEnds, StartPop
  <2> QED BY <2>1, <2>2, ProceedAlone
<1>4. CASE PopWaits(r)
  <2>1. ~Queued(r)
    BY <1>4, Sides DEF PopWaits, StartPop, WakeInv, Waits
  <2>2. /\ \A x : In(x, Append(mWaitingReceiver, r)) <=> In(x, mWaitingReceiver) \/ x = r
        /\ Distinct(Append(mWaitingReceiver, r))
    BY <1>t, <1>d, <2>1, AppendDeque DEF Queued
  <2>3. \A x \in Activities : Queued(x)' <=> Queued(x) \/ x = r
    BY <1>4, <2>2 DEF PopWaits, Queued
  <2>4. /\ pc[r] = "idle" /\ Proceed(r, <<>>, <<>>)
        /\ Distinct(mWaitingSender)' /\ Distinct(mWaitingReceiver)'
    BY <1>4, <1>d, <2>2 DEF PopWaits, StartPop
  <2> QED BY <2>3, <2>4, ProceedAlone
<1>5. CASE PopStops(r) \/ \E x \in Items : PopReturns(r, x)
  <2>1. UNCHANGED <<mWaitingSender, mWaitingReceiver, notify>>
    BY <1>5 DEF PopStops, PopReturns, channelVars
  <2>2. \A b \in Activities : Waits(b)' <=> Waits(b)
    BY <1>5, Sides, AnswerFacts DEF TypeInv, ActivityType, PopStops, PopReturns, Waits
  <2> QED BY <2>1, <2>2, QuietWake
<1>6. CASE ReceiverCloses(r)
  <2>v. PICK v : v = FALSE
    OBVIOUS
  <2> DEFINE T == {x \in Senders : In(x, mWaitingSender)}
  <2>1. /\ Distinct(Calls(mWaitingSender, v))
        /\ \A c : In(c, Calls(mWaitingSender, v)) <=> \E x \in T : c = Call(x, v)
    BY <1>t, <1>d, CallsDeque
  <2>2. \A x \in T : x \in Activities /\ Queued(x)
    BY Sides DEF Queued
  <2>3. \A x \in Activities : Queued(x)' <=> Queued(x) /\ x \notin T
    BY <1>6, <1>t, <1>n, NothingIn, Sides DEF ReceiverCloses, Queued
  <2>4. /\ notify'[r] = Calls(mWaitingSender, v) /\ pc'[r] = "left"
        /\ \A b \in Activities : b # r =>
             notify'[b] = notify[b] /\ (Waits(b)' <=> Waits(b))
    BY <1>6, <2>v, Sides DEF TypeInv, ActivityType, ReceiverCloses, Leave, Waits
  <2>5. notify[r] = <<>> /\ ~Waits(r) /\ ~Waits(r)'
    BY <1>6, <2>4 DEF ReceiverCloses, Leave, Waits, RestInv
  <2>6. Distinct(mWaitingSender)' /\ Distinct(mWaitingReceiver)' /\ Distinct(notify[r])'
    BY <1>6, <1>d, <2>1, <2>4, EmptyDeque DEF ReceiverCloses
  <2>7. r \in Activities
    BY Sides
  <2> HIDE DEF T
  <2> QED BY <2>1, <2>2, <2>3, <2>4, <2>5, <2>6, <2>7, WakeStep
<1>7. CASE JustLeaves(r, Receivers)
  <2>1. UNCHANGED <<mWaitingSender, mWaitingReceiver, notify>>
    BY <1>7 DEF JustLeaves
  <2>2. \A b \in Activities : Waits(b)' <=> Waits(b)
    BY <1>7, Sides DEF TypeInv, ActivityType, JustLeaves, Leave, Waits
  <2> QED BY <2>1, <2>2, QuietWake
<1> QED BY <1>1, <1>2, <1>3, <1>4, <1>5, <1>6, <1>7 DEF ReceiverMove

\* setMaxQueueSize() moves each sender it wakes from the deque to a call.
LEMMA SetsMaxWake ==
    ASSUME TypeInv, WakeInv, NEW a \in Controllers, NEW cnt \in NewSizes,
           NEW k \in 0..Len(mWaitingSender), SetsMax(a, cnt, k)
    PROVE  WakeInv'
<1> DEFINE f == SubSeq(mWaitingSender, 1, k)
           g == SubSeq(mWaitingSender, k + 1, Len(mWaitingSender))
           T == {x \in Senders : In(x, f)}
<1>v. PICK v : v = FALSE
  OBVIOUS
<1>1. mWaitingSender \in Seq(Senders) /\ mWaitingReceiver \in Seq(Receivers)
  BY DEF TypeInv, ChannelType
<1>2. Distinct(mWaitingSender) /\ Distinct(mWaitingReceiver)
  BY DEF WakeInv
<1>3. /\ f \in Seq(Senders) /\ g \in Seq(Senders)
      /\ Distinct(f) /\ Distinct(g)
      /\ \A y : In(y, mWaitingSender) <=> In(y, f) \/ In(y, g)
      /\ \A y : ~(In(y, f) /\ In(y, g))
  BY <1>1, <1>2, SplitDeque
<1>4. mWaitingSender' = g /\ notify' = [notify EXCEPT ![a] = Calls(f, v)]
  BY <1>v DEF SetsMax
<1>5. /\ notify[a] = <<>>
      /\ UNCHANGED <<mReadyData, mWaitingReceiver, self, pc>>
  BY DEF SetsMax
<1> HIDE DEF f, g
<1>6. /\ Distinct(Calls(f, v))
      /\ \A c : In(c, Calls(f, v)) <=> \E x \in T : c = Call(x, v)
  BY <1>3, CallsDeque, NothingIn
<1>7. \A x \in T : x \in Activities /\ Queued(x)
  BY <1>3, Sides DEF Queued
<1>8. \A x \in Activities : Queued(x)' <=> Queued(x) /\ x \notin T
  BY <1>1, <1>3, <1>4, <1>5, NothingIn, Sides DEF Queued
<1>9. /\ notify'[a] = Calls(f, v)
      /\ \A b \in Activities : b # a => notify'[b] = notify[b]
  BY <1>4, Sides DEF TypeInv, ActivityType
<1>10. a \in Activities /\ \A b \in Activities : Waits(b)' <=> Waits(b)
  BY <1>5, Sides DEF Waits
<1>11. ~Waits(a)
  BY DEF TypeInv, ActivityType, Waits
<1>12. Distinct(mWaitingSender)' /\ Distinct(mWaitingReceiver)' /\ Distinct(notify[a])'
  BY <1>2, <1>3, <1>4, <1>5, <1>6, <1>9
<1> HIDE DEF T
<1> QED BY <1>5, <1>6, <1>7, <1>8, <1>9, <1>10, <1>11, <1>12, WakeStep

\* set_value() answers its target, which had no other waker.
LEMMA NotifyWake ==
    ASSUME TypeInv, WakeInv, NEW a \in Activities, Notify(a)
    PROVE  WakeInv'
<1>h. PICK h : h = Head(notify[a])
  OBVIOUS
<1>1. /\ In(h, notify[a]) /\ h.to \in Activities
      /\ self'[h.to] = <<h.val>>
      /\ \A b \in Activities : b # h.to => self'[b] = self[b]
      /\ \A b \in Activities : b # a => notify'[b] = notify[b]
      /\ \A c : In(c, notify[a]) <=> c = h \/ In(c, notify'[a])
      /\ Distinct(notify[a]) => Distinct(notify'[a]) /\ ~In(h, notify'[a])
  BY <1>h, NotifyEffect
<1>2. UNCHANGED <<mWaitingSender, mWaitingReceiver, pc>>
  BY DEF Notify, channelVars
<1>3. \A b \in Activities : Distinct(notify[b])
  BY DEF WakeInv
<1>4. \A b \in Activities : \A c : In(c, notify[b]) <=> In(c, notify'[b]) \/ (b = a /\ c = h)
  BY <1>1
<1>5. ~In(h, notify'[a]) /\ \A b \in Activities : Distinct(notify'[b])
  BY <1>1, <1>3
<1>6. \A b \in Activities : \A c : In(c, notify[b]) => c.to \in Activities
  BY CallTargets
<1>7. \A x \in Activities : Waits(x)' <=> Waits(x) /\ x # h.to
  <2>1. \A x \in Activities : x # h.to => (Waits(x)' <=> Waits(x))
    BY <1>1, <1>2 DEF Waits
  <2>2. ~Waits(h.to)'
    BY <1>1 DEF Waits
  <2> QED BY <2>1, <2>2
<1>8. \A x : Queued(x)' <=> Queued(x)
  BY <1>2 DEF Queued
<1>9. \A b \in Activities : \A c : In(c, notify'[b]) => c.to # h.to
  BY <1>1, <1>4, <1>5 DEF WakeInv
<1>10. ASSUME NEW x \in Activities, Waits(x)'
       PROVE  Queued(x)' \/ Called(x)'
  BY <1>4, <1>7, <1>8, <1>10 DEF WakeInv, Called
<1>11. ASSUME NEW b \in Activities, NEW c, In(c, notify'[b])
       PROVE  Waits(c.to)' /\ ~Queued(c.to)'
  BY <1>4, <1>6, <1>7, <1>8, <1>9, <1>11 DEF WakeInv
<1>12. ~Queued(h.to)
  BY <1>1 DEF WakeInv
<1>13. \A b1, b2 \in Activities : \A c, d :
         In(c, notify'[b1]) /\ In(d, notify'[b2]) /\ c.to = d.to => b1 = b2 /\ c = d
  BY <1>4, SMTT(20) DEF WakeInv
<1>14. \A x \in Activities : Queued(x)' => Waits(x)'
  BY <1>7, <1>8, <1>12 DEF WakeInv
<1>15. Distinct(mWaitingSender)' /\ Distinct(mWaitingReceiver)'
  BY <1>2 DEF WakeInv
<1> QED BY <1>5, <1>10, <1>11, <1>13, <1>14, <1>15 DEF WakeInv

-----------------------------------------------------------------------------
(* The rest of the core invariant.                                         *)

\* What a step does to the pc, the future and the calls of the one who takes it.
PushMove(s) == PushHands(s) \/ PushRefused(s) \/ PushWaits(s) \/ PushGoesOn(s)
PopMove(r) == PopTakes(r) \/ PopWakes(r) \/ PopEnds(r) \/ PopWaits(r)
ReturnMove(a) ==
    PushAccepted(a) \/ PushStops(a) \/ PopStops(a) \/ \E x \in Items : PopReturns(a, x)
LeaveMove(a) ==
    SenderCloses(a) \/ ReceiverCloses(a) \/ JustLeaves(a, Senders) \/ JustLeaves(a, Receivers)

\* Only a move of the activity itself moves its place.
LEMMA PcEffect ==
    ASSUME TypeInv, NEW a \in Senders \cup Receivers
    PROVE  /\ PushMove(a) \/ PopMove(a) =>
                /\ pc[a] = "idle" /\ pc'[a] = "await"
                /\ \A b \in Activities : b # a =>
                     pc'[b] = pc[b] /\ self'[b] = self[b] /\ notify'[b] = notify[b]
           /\ ReturnMove(a) =>
                /\ pc[a] = "await" /\ pc'[a] \in {"idle", "stopped"}
                /\ self'[a] = <<>> /\ notify[a] = <<>> /\ notify' = notify
                /\ \A b \in Activities : b # a => pc'[b] = pc[b] /\ self'[b] = self[b]
           /\ LeaveMove(a) =>
                /\ pc[a] \in {"idle", "stopped"} /\ pc'[a] = "left" /\ self' = self
                /\ \A b \in Activities : b # a => pc'[b] = pc[b] /\ notify'[b] = notify[b]
<1>1. a \in Activities
  BY Sides
<1>2. PushMove(a) \/ PopMove(a) => pc[a] = "idle" /\ \E own, calls : Proceed(a, own, calls)
  BY DEF PushMove, PopMove, PushHands, PushRefused, PushWaits, PushGoesOn, PopTakes, PopWakes,
         PopEnds, PopWaits, StartPush, StartQueue, StartPop
<1>3. ASSUME NEW own, NEW calls, Proceed(a, own, calls)
      PROVE  /\ pc'[a] = "await"
             /\ \A b \in Activities : b # a =>
                     pc'[b] = pc[b] /\ self'[b] = self[b] /\ notify'[b] = notify[b]
  BY <1>1, <1>3 DEF TypeInv, ActivityType, Proceed
<1>4. ReturnMove(a) =>
        /\ pc[a] = "await" /\ pc'[a] \in {"idle", "stopped"}
        /\ self'[a] = <<>> /\ notify[a] = <<>> /\ notify' = notify
        /\ \A b \in Activities : b # a => pc'[b] = pc[b] /\ self'[b] = self[b]
  BY <1>1 DEF TypeInv, ActivityType, ReturnMove, PushAccepted, PushStops, PopStops, PopReturns
<1>5. LeaveMove(a) =>
        /\ pc[a] \in {"idle", "stopped"} /\ pc'[a] = "left" /\ self' = self
        /\ \A b \in Activities : b # a => pc'[b] = pc[b] /\ notify'[b] = notify[b]
  BY <1>1 DEF TypeInv, ActivityType, LeaveMove, SenderCloses, ReceiverCloses, JustLeaves, Leave
<1> QED BY <1>2, <1>3, <1>4, <1>5

\* Each move of an activity starts a call, returns from one or leaves.
LEMMA MoveKinds ==
    /\ \A s \in Senders : SenderMove(s) => PushMove(s) \/ ReturnMove(s) \/ LeaveMove(s)
    /\ \A r \in Receivers : ReceiverMove(r) => PopMove(r) \/ ReturnMove(r) \/ LeaveMove(r)
BY DEF SenderMove, ReceiverMove, PushMove, PopMove, ReturnMove, LeaveMove

\* An activity outside of a call has nothing pending.
LEMMA RestStep ==
    ASSUME TypeInv, WakeInv, RestInv, Move
    PROVE  RestInv'
<1>1. ASSUME NEW a \in Senders \cup Receivers,
             PushMove(a) \/ PopMove(a) \/ ReturnMove(a) \/ LeaveMove(a)
      PROVE  RestInv'
  <2>1. a \in Activities /\ \A b \in Senders \cup Receivers : b \in Activities
    BY Sides
  <2>2. CASE PushMove(a) \/ PopMove(a)
    BY <2>1, <2>2, PcEffect DEF RestInv
  <2>3. CASE ReturnMove(a)
    BY <2>1, <2>3, PcEffect DEF RestInv
  <2>4. CASE LeaveMove(a)
    BY <2>1, <2>4, PcEffect DEF RestInv
  <2> QED BY <1>1, <2>2, <2>3, <2>4
<1>2. ASSUME NEW a \in Activities, Notify(a)
      PROVE  RestInv'
  <2>h. PICK h : h = Head(notify[a])
    OBVIOUS
  <2>1. /\ In(h, notify[a]) /\ h.to \in Activities
        /\ \A b \in Activities : b # h.to => self'[b] = self[b]
        /\ \A b \in Activities : b # a => notify'[b] = notify[b]
    BY <1>2, <2>h, NotifyEffect
  <2>2. pc[h.to] = "await"
    BY <2>1 DEF WakeInv, Waits
  <2>3. pc' = pc /\ notify[a] # <<>>
    BY <1>2 DEF Notify
  <2>4. \A b \in Senders \cup Receivers : b \in Activities
    BY Sides
  <2> QED BY <2>1, <2>2, <2>3, <2>4 DEF RestInv
<1>3. ASSUME NEW c \in Controllers, NEW cnt, NEW k, SetsMax(c, cnt, k)
      PROVE  RestInv'
  <2>1. \A b \in Senders \cup Receivers : notify'[b] = notify[b]
    BY <1>3, Sides DEF SetsMax, TypeInv, ActivityType
  <2> QED BY <1>3, <2>1 DEF SetsMax, RestInv
<1> QED BY <1>1, <1>2, <1>3, MoveKinds DEF Move

\* The flags of the channel say which side has gone.
LEMMA FlagStep ==
    ASSUME TypeInv, WakeInv, RestInv, FlagInv, Move
    PROVE  FlagInv'
<1>t. mWaitingSender \in Seq(Senders) /\ mWaitingReceiver \in Seq(Receivers)
  BY DEF TypeInv, ChannelType
<1>a. \A b \in Senders \cup Receivers : b \in Activities
  BY Sides
<1>1. ASSUME NEW s \in Senders, PushMove(s)
      PROVE  FlagInv'
  <2>1. /\ pc[s] = "idle" /\ pc'[s] = "await"
        /\ \A b \in Senders \cup Receivers : b # s => pc'[b] = pc[b]
    BY <1>1, <1>a, PcEffect
  <2>2. ~mSenderClosed /\ UNCHANGED <<mSenderClosed, mReceiverClosed>>
    BY <1>1, <2>1 DEF FlagInv, PushMove, PushHands, PushRefused, PushWaits, PushGoesOn,
       StartQueue, StartPush
  <2>3. mReceiverClosed => mWaitingSender' = mWaitingSender
    BY <1>1 DEF PushMove, PushHands, PushRefused, PushWaits, PushGoesOn, StartQueue
  <2>4. \A r \in Receivers : pc'[r] = pc[r]
    BY <2>1, Sides
  <2> QED BY <2>1, <2>2, <2>3, <2>4 DEF FlagInv
<1>2. ASSUME NEW r \in Receivers, PopMove(r)
      PROVE  FlagInv'
  <2>1. /\ pc[r] = "idle" /\ pc'[r] = "await"
        /\ \A b \in Senders \cup Receivers : b # r => pc'[b] = pc[b]
    BY <1>2, <1>a, PcEffect
  <2>2. ~mReceiverClosed /\ UNCHANGED <<mSenderClosed, mReceiverClosed>>
    BY <1>2, <2>1 DEF FlagInv, PopMove, PopTakes, PopWakes, PopEnds, PopWaits, StartPop
  <2>3. mSenderClosed => mWaitingReceiver' = mWaitingReceiver
    BY <1>2 DEF PopMove, PopTakes, PopWakes, PopEnds, PopWaits
  <2>4. \A s \in Senders : pc'[s] = pc[s]
    BY <2>1, Sides
  <2> QED BY <2>1, <2>2, <2>3, <2>4 DEF FlagInv
<1>3. ASSUME NEW a \in Senders \cup Receivers, ReturnMove(a)
      PROVE  FlagInv'
  <2>1. /\ pc[a] = "await" /\ pc'[a] \in {"idle", "stopped"}
        /\ \A b \in Senders \cup Receivers : b # a => pc'[b] = pc[b]
    BY <1>3, <1>a, PcEffect
  <2>2. UNCHANGED channelVars
    BY <1>3 DEF ReturnMove, PushAccepted, PushStops, PopStops, PopReturns
  <2> QED BY <2>1, <2>2 DEF FlagInv, channelVars
<1>4. ASSUME NEW s \in Senders, SenderCloses(s) \/ JustLeaves(s, Senders)
      PROVE  FlagInv'
  <2>1. /\ pc[s] # "left" /\ pc'[s] = "left"
        /\ \A b \in Senders \cup Receivers : b # s => pc'[b] = pc[b]
    BY <1>4, <1>a, PcEffect DEF LeaveMove
  <2>2. \A r \in Receivers : pc'[r] = pc[r]
    BY <2>1, Sides
  <2>3. CASE SenderCloses(s)
    BY <2>1, <2>2, <2>3 DEF SenderCloses, FlagInv
  <2>4. CASE JustLeaves(s, Senders)
    BY <2>1, <2>2, <2>4 DEF JustLeaves, FlagInv
  <2> QED BY <1>4, <2>3, <2>4
<1>5. ASSUME NEW r \in Receivers, ReceiverCloses(r) \/ JustLeaves(r, Receivers)
      PROVE  FlagInv'
  <2>1. /\ pc[r] # "left" /\ pc'[r] = "left"
        /\ \A b \in Senders \cup Receivers : b # r => pc'[b] = pc[b]
    BY <1>5, <1>a, PcEffect DEF LeaveMove
  <2>2. \A s \in Senders : pc'[s] = pc[s]
    BY <2>1, Sides
  <2>3. CASE ReceiverCloses(r)
    BY <2>1, <2>2, <2>3 DEF ReceiverCloses, FlagInv
  <2>4. CASE JustLeaves(r, Receivers)
    BY <2>1, <2>2, <2>4 DEF JustLeaves, FlagInv
  <2> QED BY <1>5, <2>3, <2>4
<1>6. ASSUME NEW a \in Activities, Notify(a)
      PROVE  FlagInv'
  BY <1>6 DEF Notify, channelVars, FlagInv
<1>7. ASSUME NEW c \in Controllers, NEW cnt \in NewSizes,
             NEW k \in 0..Len(mWaitingSender), SetsMax(c, cnt, k)
      PROVE  FlagInv'
  <2>1. Len(mWaitingSender') = Len(mWaitingSender) - k /\ mWaitingSender' \in Seq(Senders)
    BY <1>7, <1>t, SplitDeque DEF SetsMax
  <2>2. mWaitingSender = <<>> => mWaitingSender' = <<>>
    BY <1>t, <2>1, NothingIn
  <2> QED BY <1>7, <2>2 DEF SetsMax, FlagInv
<1> QED BY <1>1, <1>2, <1>3, <1>4, <1>5, <1>6, <1>7
      DEF Move, SenderMove, ReceiverMove, PushMove, PopMove, ReturnMove

\* The values a sender has sent are those accepted and the one it waits for.
LEMMA CountStep ==
    ASSUME TypeInv, CountInv, Move
    PROVE  CountInv'
<1>t. \A s \in Senders : s \in Activities /\ sent[s] \in Nat /\ accepted[s] \in Nat
  BY MaxItemsNat, Sides DEF TypeInv, CountType
<1>1. ASSUME NEW s \in Senders, PushMove(s)
      PROVE  CountInv'
  <2>1. /\ pc[s] = "idle" /\ pc'[s] = "await"
        /\ \A b \in Senders : b # s => pc'[b] = pc[b]
    BY <1>1, <1>t, PcEffect
  <2>2. StartPush(s)
    BY <1>1 DEF PushMove, PushHands, PushRefused, PushWaits, PushGoesOn, StartQueue
  <2>3. /\ sent'[s] = sent[s] + 1 /\ accepted' = accepted
        /\ \A t \in Senders : t # s => sent'[t] = sent[t]
    BY <2>2, NextItem DEF TypeInv
  <2> QED BY <1>t, <2>1, <2>3 DEF CountInv
<1>2. ASSUME NEW s \in Senders, PushAccepted(s)
      PROVE  CountInv'
  <2>1. /\ pc[s] = "await" /\ pc'[s] = "idle" /\ sent' = sent
        /\ \A b \in Senders : b # s => pc'[b] = pc[b]
    BY <1>2, <1>t DEF PushAccepted, TypeInv, ActivityType
  <2>2. /\ accepted'[s] = accepted[s] + 1
        /\ \A b \in Senders : b # s => accepted'[b] = accepted[b]
    BY <1>2 DEF PushAccepted, TypeInv, CountType
  <2> QED BY <1>t, <2>1, <2>2 DEF CountInv
<1>3. ASSUME NEW s \in Senders, PushStops(s)
      PROVE  CountInv'
  <2>1. /\ pc[s] = "await" /\ pc'[s] = "stopped" /\ sent' = sent /\ accepted' = accepted
        /\ \A b \in Senders : b # s => pc'[b] = pc[b]
    BY <1>3, <1>t DEF PushStops, TypeInv, ActivityType
  <2> QED BY <2>1 DEF CountInv
<1>4. ASSUME NEW s \in Senders, SenderCloses(s) \/ JustLeaves(s, Senders)
      PROVE  CountInv'
  <2>1. /\ pc'[s] = "left" /\ \A b \in Senders : b # s => pc'[b] = pc[b]
    BY <1>4, <1>t, PcEffect DEF LeaveMove
  <2>2. sent' = sent /\ accepted' = accepted
    BY <1>4 DEF SenderCloses, JustLeaves, Leave
  <2> QED BY <2>1, <2>2 DEF CountInv
<1>5. ASSUME NEW r \in Receivers, ReceiverMove(r)
      PROVE  CountInv'
  <2>1. \A s \in Senders : pc'[s] = pc[s]
    BY <1>5, <1>t, MoveKinds, PcEffect, Sides
  <2>2. sent' = sent /\ accepted' = accepted
    BY <1>5 DEF ReceiverMove, PopTakes, PopWakes, PopEnds, PopWaits, StartPop, PopStops,
       PopReturns, ReceiverCloses, JustLeaves, Leave
  <2> QED BY <2>1, <2>2 DEF CountInv
<1>6. ASSUME NEW a \in Activities, Notify(a)
      PROVE  CountInv'
  BY <1>6 DEF Notify, CountInv
<1>7. ASSUME NEW c \in Controllers, NEW cnt, NEW k, SetsMax(c, cnt, k)
      PROVE  CountInv'
  BY <1>7 DEF SetsMax, CountInv
<1> QED BY <1>1, <1>2, <1>3, <1>4, <1>5, <1>6, <1>7 DEF Move, SenderMove, PushMove

\* A channel nobody has used yet; some of those who could have let go of their
\* handles already, but not all of a side.
Fresh ==
    /\ mReadyData = <<>> /\ mWaitingSender = <<>> /\ mWaitingReceiver = <<>>
    /\ mSenderClosed = FALSE /\ mReceiverClosed = FALSE
    /\ mMaxQueueSize \in Sizes
    /\ self = [a \in Activities |-> <<>>]
    /\ notify = [a \in Activities |-> <<>>]
    /\ pc \in [Activities -> {"idle", "left"}]
    /\ \A c \in Controllers : pc[c] = "idle"
    /\ \E s \in Senders : pc[s] = "idle"
    /\ \E r \in Receivers : pc[r] = "idle"
    /\ sent = [s \in Senders |-> 0]
    /\ accepted = [s \in Senders |-> 0]
    /\ received = [r \in Receivers |-> <<>>]

\* The channel starts like that.
LEMMA InitFresh ==
    ASSUME Init
    PROVE  Fresh
BY BothSides, Sides DEF Init, Fresh, Sizes

\* The types, wakeups, flags and counts are right initially.
LEMMA CoreInit ==
    ASSUME Fresh
    PROVE  CoreInv
<1>1. TypeInv
  <2>1. ChannelType
    BY EmptyTypes DEF Fresh, ChannelType
  <2>2. ActivityType
    BY EmptyTypes, AnswerFacts, PCFacts, Sides DEF Fresh, ActivityType
  <2>3. CountType
    BY EmptyTypes, MaxItemsNat DEF Fresh, CountType
  <2> QED BY <2>1, <2>2, <2>3 DEF TypeInv
<1>2. \A a \in Activities : ~Waits(a) /\ ~Queued(a)
  BY EmptyDeque DEF Fresh, Waits, Queued
<1>3. WakeInv
  <2>1. \A b \in Activities : notify[b] = <<>>
    BY DEF Fresh
  <2> QED BY <1>2, <2>1, EmptyDeque DEF Fresh, WakeInv
<1>4. RestInv /\ CountInv
  BY Sides DEF Fresh, RestInv, CountInv
<1>5. FlagInv
  BY DEF Fresh, FlagInv
<1> QED BY <1>1, <1>3, <1>4, <1>5 DEF CoreInv

\* Every step keeps the types, wakeups, flags and counts right.
LEMMA CoreStep ==
    ASSUME CoreInv, [Next]_vars
    PROVE  CoreInv'
<1>1. CASE Next
  <2>1. Move
    BY <1>1, MoveCases DEF CoreInv
  <2>2. WakeInv'
    BY <2>1, SenderMoveWake, ReceiverMoveWake, SetsMaxWake, NotifyWake DEF CoreInv, Move
  <2> QED BY <1>1, <2>1, <2>2, TypeStep, RestStep, FlagStep, CountStep DEF CoreInv
<1>2. CASE UNCHANGED vars
  <2>1. TypeInv'
    BY <1>2 DEF vars, channelVars, CoreInv, TypeInv, ChannelType, ActivityType, CountType
  <2>2. WakeInv'
    <3>1. \A x : (Queued(x)' <=> Queued(x)) /\ (Waits(x)' <=> Waits(x)) /\ (Called(x)' <=> Called(x))
      BY <1>2 DEF vars, channelVars, Queued, Waits, Called
    <3> QED BY <1>2, <3>1 DEF vars, channelVars, CoreInv, WakeInv
  <2>3. RestInv' /\ FlagInv' /\ CountInv'
    BY <1>2 DEF vars, channelVars, CoreInv, RestInv, FlagInv, CountInv
  <2> QED BY <2>1, <2>2, <2>3 DEF CoreInv
<1> QED BY <1>1, <1>2

\* The core invariant holds in every reachable state.
THEOREM CoreInvariance == Spec => []CoreInv
<1>1. Init => CoreInv
  BY InitFresh, CoreInit
<1>2. CoreInv /\ [Next]_vars => CoreInv'
  BY CoreStep
<1> QED BY <1>1, <1>2, PTL DEF Spec

\* The positions of a in q, under a name.
Tagged(tag, q, a) == {<<tag, i>> : i \in Positions(q, a)}

\* There is at most one in a deque without duplicates.
LEMMA TaggedPositions ==
    ASSUME NEW q, NEW a, NEW tag, Distinct(q)
    PROVE  /\ Tagged(tag, q, a) # {} <=> In(a, q)
           /\ \A v, w \in Tagged(tag, q, a) : v = w
<1> DEFINE P == Positions(q, a)
           W == {<<tag, i>> : i \in P}
<1>1. (P # {} <=> In(a, q)) /\ \A i, j \in P : i = j
  BY DEF Positions, In, Distinct
<1> HIDE DEF P
<1>2. W # {} <=> P # {}
  OBVIOUS
<1>3. \A w \in W : \E i \in P : w = <<tag, i>>
  OBVIOUS
<1>4. \A v, w \in W : v = w
  BY <1>1, <1>3
<1>5. Tagged(tag, q, a) = W
  BY DEF P, Tagged
<1> HIDE DEF W
<1> QED BY <1>1, <1>2, <1>4, <1>5

\* The set of the pending wakeups of a has one element if a waits, or none.
LEMMA WakersCounted ==
    ASSUME CoreInv, NEW a \in Activities
    PROVE  Cardinality(Wakers(a)) = IF pc[a] = "await" /\ self[a] = <<>> THEN 1 ELSE 0
<1> DEFINE W1 == Tagged("sender", mWaitingSender, a)
           W2 == Tagged("receiver", mWaitingReceiver, a)
           At(b) == {i \in 1..Len(notify[b]) : notify[b][i].to = a}
           W3 == UNION {{<<b, i>> : i \in At(b)} : b \in Activities}
<1>1. Wakers(a) = W1 \cup W2 \cup W3
  BY DEF Wakers, Tagged
<1>2. /\ Distinct(mWaitingSender) /\ Distinct(mWaitingReceiver)
      /\ \A b \in Activities : Distinct(notify[b])
  BY DEF CoreInv, WakeInv
<1>3. /\ W1 # {} <=> In(a, mWaitingSender)
      /\ \A p, q \in W1 : p = q
  BY <1>2, TaggedPositions
<1>4. /\ W2 # {} <=> In(a, mWaitingReceiver)
      /\ \A p, q \in W2 : p = q
  BY <1>2, TaggedPositions
<1>5. ~(In(a, mWaitingSender) /\ In(a, mWaitingReceiver))
  BY NothingIn, Sides DEF CoreInv, TypeInv, ChannelType
<1>6. W3 # {} <=> Called(a)
  <2>1. ASSUME NEW b \in Activities, NEW i \in At(b)
        PROVE  Called(a)
    BY DEF Called, In
  <2>2. ASSUME Called(a)
        PROVE  W3 # {}
    <3>1. PICK b \in Activities : \E c : In(c, notify[b]) /\ c.to = a
      BY <2>2 DEF Called
    <3>2. PICK i \in At(b) : TRUE
      BY <3>1 DEF In
    <3>3. <<b, i>> \in W3
      BY <3>2
    <3> QED BY <3>3
  <2> QED BY <2>1, <2>2
<1>7. \A p, q \in W3 : p = q
  <2>1. ASSUME NEW b1 \in Activities, NEW b2 \in Activities, NEW i \in At(b1), NEW j \in At(b2)
        PROVE  <<b1, i>> = <<b2, j>>
    <3>1. /\ In(notify[b1][i], notify[b1]) /\ In(notify[b2][j], notify[b2])
          /\ notify[b1][i].to = notify[b2][j].to
      BY DEF In
    <3>2. b1 = b2 /\ notify[b1][i] = notify[b2][j]
      BY <3>1 DEF CoreInv, WakeInv
    <3>3. i = j
      BY <1>2, <3>2 DEF Distinct
    <3> QED BY <3>2, <3>3
  <2>2. \A p \in W3 : \E b \in Activities : \E i \in At(b) : p = <<b, i>>
    OBVIOUS
  <2> HIDE DEF At, W3
  <2> QED BY <2>1, <2>2
<1>8. Called(a) => ~Queued(a)
  BY DEF CoreInv, WakeInv, Called
<1>9. Queued(a) \/ Called(a) <=> Waits(a)
  BY DEF CoreInv, WakeInv, Called
<1> HIDE DEF W1, W2, W3
<1>10. \A p, q \in Wakers(a) : p = q
  BY <1>1, <1>3, <1>4, <1>5, <1>6, <1>7, <1>8 DEF Queued
<1>11. Wakers(a) # {} <=> Waits(a)
  BY <1>1, <1>3, <1>4, <1>6, <1>9 DEF Queued
<1>12. /\ Wakers(a) = {} => Cardinality(Wakers(a)) = 0
       /\ Wakers(a) # {} => Cardinality(Wakers(a)) = 1
  BY <1>10, AtMostOne
<1> QED BY <1>11, <1>12 DEF Waits

\* Every push() or pop() that waits will be woken by exactly one other
\* operation, and no deque and no pending set_value() call refers to a future
\* whose owner has returned.
THEOREM Wakeups == Spec => []OneWakerEach
<1>1. CoreInv => OneWakerEach
  BY WakersCounted DEF OneWakerEach
<1> QED BY <1>1, CoreInvariance, PTL

\* The asserts of ~BufferedChannel() hold when the last handle is gone.
THEOREM CleanEnd == Spec => []EndIsClean
<1>1. CoreInv => EndIsClean
  BY DEF CoreInv, FlagInv, EndIsClean
<1> QED BY <1>1, CoreInvariance, PTL

-----------------------------------------------------------------------------
(* The length of the queue.                                                *)

\* The moves by what they do to the lengths of the queue and of the deque of
\* the waiting senders.
SameQueue == UNCHANGED <<mReadyData, mWaitingSender, mMaxQueueSize>>

\* The moves that leave the queue and the waiting senders alone.
LEMMA QuietMoves ==
    ASSUME Move
    PROVE  \/ \E s \in Senders : PushWaits(s) \/ PushGoesOn(s)
           \/ \E r \in Receivers : PopTakes(r) \/ PopWakes(r) \/ ReceiverCloses(r)
           \/ \E c \in Controllers, cnt \in NewSizes :
                \E k \in 0..Len(mWaitingSender) : SetsMax(c, cnt, k)
           \/ /\ SameQueue
              /\ mReceiverClosed' = mReceiverClosed
              /\ \/ mWaitingReceiver' = mWaitingReceiver
                 \/ mWaitingReceiver # <<>>
                 \/ mReadyData = <<>>
                 \/ mWaitingReceiver' = <<>>
<1> DEFINE Goal ==
              /\ SameQueue
              /\ mReceiverClosed' = mReceiverClosed
              /\ \/ mWaitingReceiver' = mWaitingReceiver
                 \/ mWaitingReceiver # <<>>
                 \/ mReadyData = <<>>
                 \/ mWaitingReceiver' = <<>>
<1>1. ASSUME NEW s \in Senders, SenderMove(s), ~PushWaits(s), ~PushGoesOn(s)
      PROVE  Goal
  BY <1>1 DEF SenderMove, PushHands, PushRefused, PushAccepted, PushStops, SenderCloses,
     JustLeaves, StartPush, Leave, SameQueue, channelVars
<1>2. ASSUME NEW r \in Receivers, ReceiverMove(r),
             ~PopTakes(r), ~PopWakes(r), ~ReceiverCloses(r)
      PROVE  Goal
  BY <1>2 DEF ReceiverMove, PopEnds, PopWaits, PopStops, PopReturns,
     JustLeaves, StartPop, Leave, SameQueue, channelVars
<1>3. ASSUME NEW a \in Activities, Notify(a)
      PROVE  Goal
  BY <1>3 DEF Notify, SameQueue, channelVars
<1> HIDE DEF Goal
<1>4. \/ \E s \in Senders : PushWaits(s) \/ PushGoesOn(s)
      \/ \E r \in Receivers : PopTakes(r) \/ PopWakes(r) \/ ReceiverCloses(r)
      \/ \E c \in Controllers, cnt \in NewSizes :
           \E k \in 0..Len(mWaitingSender) : SetsMax(c, cnt, k)
      \/ Goal
  BY <1>1, <1>2, <1>3 DEF Move
<1> QED BY <1>4 DEF Goal

\* The lengths of the queue and of the waiting senders.
LEMMA LenFacts ==
    ASSUME TypeInv
    PROVE  /\ mReadyData \in Seq(Items) /\ mWaitingSender \in Seq(Senders)
           /\ Len(mReadyData) \in Nat /\ Len(mWaitingSender) \in Nat
           /\ mReadyData = <<>> <=> Len(mReadyData) = 0
           /\ mWaitingSender = <<>> <=> Len(mWaitingSender) = 0
           /\ mMaxQueueSize \in Nat \ {0}
BY NothingIn, SizesPositive DEF TypeInv, ChannelType, Sizes

\* What each move does to those lengths.
LEMMA LenEffect ==
    ASSUME TypeInv, TypeInv'
    PROVE  /\ \A s \in Senders : PushWaits(s) =>
                /\ Len(mReadyData') = Len(mReadyData) + 1
                /\ Len(mWaitingSender') = Len(mWaitingSender) + 1
                /\ mWaitingReceiver' = <<>>
                /\ Len(mReadyData) + 1 >= mMaxQueueSize
           /\ \A s \in Senders : PushGoesOn(s) =>
                /\ Len(mReadyData') = Len(mReadyData) + 1
                /\ mWaitingSender' = mWaitingSender
                /\ mWaitingReceiver' = <<>>
                /\ Len(mReadyData) + 1 < mMaxQueueSize
           /\ \A r \in Receivers : PopTakes(r) =>
                /\ Len(mReadyData') = Len(mReadyData) - 1
                /\ mReadyData # <<>> /\ mWaitingSender = <<>>
                /\ UNCHANGED <<mWaitingSender, mWaitingReceiver>>
           /\ \A r \in Receivers : PopWakes(r) =>
                /\ Len(mReadyData') = Len(mReadyData) - 1
                /\ Len(mWaitingSender') = Len(mWaitingSender) - 1
                /\ mReadyData # <<>> /\ mWaitingSender # <<>>
                /\ UNCHANGED mWaitingReceiver
           /\ \A c \in Controllers, cnt \in NewSizes : \A k \in 0..Len(mWaitingSender) :
                SetsMax(c, cnt, k) =>
                /\ UNCHANGED <<mReadyData, mWaitingReceiver>>
                /\ Len(mWaitingSender') <= Len(mWaitingSender)
                /\ mMaxQueueSize' \in NewSizes
           /\ \A s \in Senders : PushWaits(s) \/ PushGoesOn(s) =>
                UNCHANGED <<mReceiverClosed, mMaxQueueSize>>
           /\ \A r \in Receivers : PopTakes(r) \/ PopWakes(r) =>
                UNCHANGED <<mReceiverClosed, mMaxQueueSize>>
<1>1. /\ Len(mReadyData) \in Nat /\ mMaxQueueSize \in Nat /\ Len(mWaitingSender) \in Nat
      /\ mReadyData \in Seq(Items) /\ mWaitingSender \in Seq(Senders)
  BY LenFacts
<1>2. ASSUME NEW s \in Senders, StartQueue(s)
      PROVE  Len(mReadyData') = Len(mReadyData) + 1 /\ mWaitingReceiver' = <<>>
  <2>1. Item(s, sent[s] + 1) \in Items
    BY <1>2, NextItem DEF StartQueue, TypeInv
  <2> QED BY <1>1, <1>2, <2>1, AppendDeque DEF StartQueue
<1>3. ASSUME NEW s \in Senders, PushWaits(s)
      PROVE  Len(mWaitingSender') = Len(mWaitingSender) + 1
  BY <1>1, <1>3, AppendDeque DEF PushWaits
<1>4. ASSUME NEW r \in Receivers, PopTakes(r) \/ PopWakes(r)
      PROVE  Len(mReadyData') = Len(mReadyData) - 1
  BY <1>1, <1>4, TailDeque DEF PopTakes, PopWakes
<1>5. ASSUME NEW r \in Receivers, PopWakes(r)
      PROVE  Len(mWaitingSender') = Len(mWaitingSender) - 1
  BY <1>1, <1>5, TailDeque DEF PopWakes
<1>6. ASSUME NEW c \in Controllers, NEW cnt \in NewSizes, NEW k \in 0..Len(mWaitingSender),
             SetsMax(c, cnt, k)
      PROVE  Len(mWaitingSender') <= Len(mWaitingSender) /\ mMaxQueueSize' \in NewSizes
  <2>1. Len(mWaitingSender') = Len(mWaitingSender) - k
    BY <1>1, <1>6, SplitDeque DEF SetsMax
  <2> QED BY <1>1, <1>6, <2>1 DEF SetsMax
<1>7. \A s \in Senders : /\ PushWaits(s) => /\ StartQueue(s)
                                            /\ Len(mReadyData) + 1 >= mMaxQueueSize
                         /\ PushGoesOn(s) => /\ StartQueue(s) /\ mWaitingSender' = mWaitingSender
                                             /\ Len(mReadyData) + 1 < mMaxQueueSize
  BY <1>1 DEF PushWaits, PushGoesOn
<1>8. \A r \in Receivers :
        /\ PopTakes(r) => /\ mReadyData # <<>> /\ mWaitingSender = <<>>
                          /\ UNCHANGED <<mWaitingSender, mWaitingReceiver>>
        /\ PopWakes(r) => /\ mReadyData # <<>> /\ mWaitingSender # <<>>
                          /\ UNCHANGED mWaitingReceiver
        /\ PopTakes(r) \/ PopWakes(r) => UNCHANGED <<mReceiverClosed, mMaxQueueSize>>
  BY DEF PopTakes, PopWakes, StartPop
<1>9. \A s \in Senders : StartQueue(s) => UNCHANGED <<mReceiverClosed, mMaxQueueSize>>
  BY DEF StartQueue, StartPush
<1>10. \A c \in Controllers, cnt \in NewSizes : \A k \in 0..Len(mWaitingSender) :
         SetsMax(c, cnt, k) => UNCHANGED <<mReadyData, mWaitingReceiver>>
  BY DEF SetsMax
<1> QED BY <1>2, <1>3, <1>4, <1>5, <1>6, <1>7, <1>8, <1>9, <1>10

\* Every step keeps the queue and the two kinds of waiters apart.
LEMMA QueueStep ==
    ASSUME TypeInv, TypeInv', QueueInv, Move
    PROVE  QueueInv'
<1> USE LenFacts
<1>1. ASSUME NEW s \in Senders, PushWaits(s) \/ PushGoesOn(s)
      PROVE  QueueInv'
  BY <1>1, LenEffect DEF QueueInv
<1>2. ASSUME NEW r \in Receivers, PopTakes(r) \/ PopWakes(r)
      PROVE  QueueInv'
  BY <1>2, LenEffect DEF QueueInv
<1>3. ASSUME NEW r \in Receivers, ReceiverCloses(r)
      PROVE  QueueInv'
  BY <1>3 DEF QueueInv, ReceiverCloses, Leave
<1>4. ASSUME NEW c \in Controllers, NEW cnt \in NewSizes, NEW k \in 0..Len(mWaitingSender),
             SetsMax(c, cnt, k)
      PROVE  QueueInv'
  <2>1. /\ UNCHANGED <<mReadyData, mWaitingReceiver>>
        /\ Len(mWaitingSender') <= Len(mWaitingSender)
        /\ Len(mWaitingSender') \in Nat
    BY <1>4, LenEffect DEF TypeInv, ChannelType
  <2> QED BY <2>1 DEF QueueInv
<1>5. CASE /\ SameQueue
           /\ \/ mWaitingReceiver' = mWaitingReceiver
              \/ mWaitingReceiver # <<>>
              \/ mReadyData = <<>>
              \/ mWaitingReceiver' = <<>>
  BY <1>5 DEF QueueInv, SameQueue
<1> QED BY <1>1, <1>2, <1>3, <1>4, <1>5, QuietMoves

\* Senders wait only for the values of others while the size is the first one.
LEMMA SizeStep ==
    ASSUME TypeInv, TypeInv', QueueInv, SizeInv, Move, QueueSize \notin NewSizes
    PROVE  SizeInv'
<1> USE LenFacts
<1>1. ASSUME NEW s \in Senders, PushWaits(s) \/ PushGoesOn(s)
      PROVE  SizeInv'
  BY <1>1, LenEffect DEF SizeInv
<1>2. ASSUME NEW r \in Receivers, PopTakes(r) \/ PopWakes(r)
      PROVE  SizeInv'
  BY <1>2, LenEffect DEF SizeInv
<1>3. ASSUME NEW r \in Receivers, ReceiverCloses(r)
      PROVE  SizeInv'
  BY <1>3 DEF SizeInv, ReceiverCloses
<1>4. ASSUME NEW c \in Controllers, NEW cnt \in NewSizes, NEW k \in 0..Len(mWaitingSender),
             SetsMax(c, cnt, k)
      PROVE  SizeInv'
  BY <1>4, LenEffect DEF SizeInv
<1>5. CASE SameQueue /\ mReceiverClosed' = mReceiverClosed
  BY <1>5 DEF SizeInv, SameQueue
<1> QED BY <1>1, <1>2, <1>3, <1>4, <1>5, QuietMoves

\* A sender that is idle, or was told to go on, has no value in excess.
LEMMA NotBlocked ==
    ASSUME CoreInv, NEW s \in Senders
    PROVE  pc[s] = "idle" \/ (pc[s] = "await" /\ self[s] = <<TRUE>>) => ~Blocked(s)
<1>1. s \in Activities
  BY Sides
<1>2. pc[s] = "idle" \/ (pc[s] = "await" /\ self[s] = <<TRUE>>) => ~Waits(s) /\ self[s] # <<FALSE>>
  <2>1. <<>> # <<FALSE>> /\ <<TRUE>> # <<FALSE>> /\ <<TRUE>> # <<>>
    BY AnswerFacts
  <2> QED BY <1>1, <2>1 DEF Waits, CoreInv, RestInv
<1>3. In(s, mWaitingSender) => Waits(s)
  BY <1>1 DEF CoreInv, WakeInv, Queued
<1>4. ASSUME NEW b \in Activities, NEW v, In(Call(s, v), notify[b])
      PROVE  Waits(s)
  <2>1. Call(s, v).to = s
    BY CallFacts
  <2>2. Waits(Call(s, v).to)
    BY <1>4 DEF CoreInv, WakeInv
  <2> QED BY <2>1, <2>2
<1> QED BY <1>2, <1>3, <1>4 DEF Blocked

\* A sender stops being blocked only when a pop() wakes it up.
LEMMA BlockedStep ==
    ASSUME CoreInv, Move, NEW x \in Senders, Blocked(x),
           \A r \in Receivers : PopWakes(r) => x # Head(mWaitingSender)
    PROVE  Blocked(x)'
<1>x. x \in Activities
  BY Sides
<1>t. mWaitingSender \in Seq(Senders)
  BY DEF CoreInv, TypeInv, ChannelType
<1>n. \A c : ~In(c, <<>>)
  BY EmptyDeque
<1>1. ASSUME NEW a \in Senders \cup Receivers, PushMove(a) \/ PopMove(a),
             In(x, mWaitingSender) => In(x, mWaitingSender')
      PROVE  Blocked(x)'
  <2>1. /\ pc[a] = "idle" /\ notify[a] = <<>>
        /\ \A b \in Activities : b # a =>
             pc'[b] = pc[b] /\ self'[b] = self[b] /\ notify'[b] = notify[b]
    BY <1>1, PcEffect DEF CoreInv, RestInv
  <2>2. x # a
    BY <2>1, NotBlocked
  <2> QED BY <1>1, <1>x, <1>n, <2>1, <2>2 DEF Blocked
<1>2. ASSUME NEW a \in Senders \cup Receivers, ReturnMove(a),
             a # x \/ PushAccepted(x) \/ PushStops(x)
      PROVE  Blocked(x)'
  <2>1. notify' = notify /\ \A b \in Activities : b # a => pc'[b] = pc[b] /\ self'[b] = self[b]
    BY <1>2, PcEffect DEF CoreInv
  <2>2. mWaitingSender' = mWaitingSender
    BY <1>2 DEF ReturnMove, PushAccepted, PushStops, PopStops, PopReturns, channelVars
  <2>3. CASE x # a
    BY <1>x, <2>1, <2>2, <2>3 DEF Blocked
  <2>4. CASE x = a
    <3>1. PushStops(x)
      BY <1>2, <2>4, NotBlocked DEF PushAccepted
    <3>2. pc'[x] = "stopped"
      BY <1>x, <3>1 DEF PushStops, CoreInv, TypeInv, ActivityType
    <3> QED BY <3>2 DEF Blocked
  <2> QED BY <2>3, <2>4
<1>3. ASSUME NEW a \in Senders \cup Receivers, LeaveMove(a)
      PROVE  Blocked(x)'
  <2>1. /\ pc[a] \in {"idle", "stopped"} /\ pc'[a] = "left" /\ self' = self /\ notify[a] = <<>>
        /\ \A b \in Activities : b # a => pc'[b] = pc[b] /\ notify'[b] = notify[b]
    BY <1>3, PcEffect DEF CoreInv, RestInv
  <2>2. CASE In(x, mWaitingSender) /\ ReceiverCloses(a)
    <3>1. notify'[a] = Calls(mWaitingSender, FALSE)
      BY <2>2, Sides DEF ReceiverCloses, CoreInv, TypeInv, ActivityType
    <3>v. PICK v : v = FALSE
      OBVIOUS
    <3>2. In(Call(x, v), Calls(mWaitingSender, v))
      BY <1>t, <2>2, CallsDeque
    <3>3. In(Call(x, FALSE), notify'[a])
      BY <3>v, <3>1, <3>2
    <3> QED BY <3>3, Sides DEF Blocked
  <2>3. CASE ~ReceiverCloses(a) \/ ~In(x, mWaitingSender)
    <3>1. In(x, mWaitingSender) => In(x, mWaitingSender')
      BY <1>3, <2>3 DEF LeaveMove, SenderCloses, JustLeaves
    <3>2. pc[x] \in {"stopped", "left"} => pc'[x] \in {"stopped", "left"}
      BY <1>x, <2>1
    <3>3. \A b \in Activities : In(Call(x, FALSE), notify[b]) => In(Call(x, FALSE), notify'[b])
      BY <1>n, <2>1
    <3> QED BY <2>1, <3>1, <3>2, <3>3 DEF Blocked
  <2> QED BY <2>2, <2>3
<1>4. ASSUME NEW a \in Activities, Notify(a)
      PROVE  Blocked(x)'
  <2>h. PICK h : h = Head(notify[a])
    OBVIOUS
  <2>1. /\ h.to \in Activities /\ In(h, notify[a])
        /\ self'[h.to] = <<h.val>>
        /\ \A b \in Activities : b # h.to => self'[b] = self[b]
        /\ \A b \in Activities : b # a => notify'[b] = notify[b]
        /\ \A c : In(c, notify[a]) <=> c = h \/ In(c, notify'[a])
    BY <1>4, <2>h, NotifyEffect DEF CoreInv
  <2>2. UNCHANGED <<mWaitingSender, pc>>
    BY <1>4 DEF Notify, channelVars
  <2>3. CASE h = Call(x, FALSE)
    <3>1. h.to = x /\ h.val = FALSE
      BY <2>3, CallFacts
    <3>2. self'[x] = <<FALSE>>
      BY <2>1, <3>1
    <3> QED BY <3>2 DEF Blocked
  <2>4. CASE h # Call(x, FALSE)
    <3>1. \A b \in Activities : In(Call(x, FALSE), notify[b]) => In(Call(x, FALSE), notify'[b])
      BY <2>1, <2>4
    <3>2. self[h.to] = <<>>
      BY <2>1 DEF CoreInv, WakeInv, Waits
    <3>3. self[x] = <<FALSE>> => self'[x] = <<FALSE>>
      BY <1>x, <2>1, <3>2, AnswerFacts
    <3> QED BY <2>2, <3>1, <3>3 DEF Blocked
  <2> QED BY <2>3, <2>4
<1>5. ASSUME NEW c \in Controllers, NEW cnt \in NewSizes, NEW k \in 0..Len(mWaitingSender),
             SetsMax(c, cnt, k)
      PROVE  Blocked(x)'
  <2>f. PICK f : f = SubSeq(mWaitingSender, 1, k)
    OBVIOUS
  <2>v. PICK v : v = FALSE
    OBVIOUS
  <2>1. /\ f \in Seq(Senders)
        /\ In(x, mWaitingSender) => In(x, f) \/ In(x, mWaitingSender')
    BY <1>5, <1>t, <2>f, SplitDeque DEF SetsMax
  <2>2. /\ notify[c] = <<>> /\ notify'[c] = Calls(f, v) /\ pc' = pc /\ self' = self
        /\ \A b \in Activities : b # c => notify'[b] = notify[b]
    BY <1>5, <2>f, <2>v, Sides DEF SetsMax, CoreInv, TypeInv, ActivityType
  <2>3. In(x, f) => In(Call(x, v), notify'[c])
    BY <2>1, <2>2, CallsDeque
  <2>4. \A b \in Activities : In(Call(x, FALSE), notify[b]) => In(Call(x, FALSE), notify'[b])
    BY <1>n, <2>2
  <2> QED BY <2>v, <2>1, <2>2, <2>3, <2>4, Sides DEF Blocked
<1>6. ASSUME NEW s \in Senders, PushMove(s)
      PROVE  In(x, mWaitingSender) => In(x, mWaitingSender')
  <2>1. In(x, mWaitingSender) => In(x, Append(mWaitingSender, s))
    BY <1>t, AppendDeque
  <2>2. mWaitingSender' = mWaitingSender \/ mWaitingSender' = Append(mWaitingSender, s)
    BY <1>6 DEF PushMove, PushHands, PushRefused, PushWaits, PushGoesOn
  <2> QED BY <2>1, <2>2
<1>7. ASSUME NEW r \in Receivers, PopMove(r)
      PROVE  In(x, mWaitingSender) => In(x, mWaitingSender')
  <2>1. CASE PopWakes(r)
    <3>1. mWaitingSender # <<>> /\ mWaitingSender' = Tail(mWaitingSender)
      BY <2>1 DEF PopWakes
    <3>2. In(x, mWaitingSender) => x = Head(mWaitingSender) \/ In(x, Tail(mWaitingSender))
      BY <1>t, <3>1, TailDeque
    <3> QED BY <2>1, <3>1, <3>2
  <2>2. CASE ~PopWakes(r)
    <3>1. mWaitingSender' = mWaitingSender
      BY <1>7, <2>2 DEF PopMove, PopTakes, PopEnds, PopWaits
    <3> QED BY <3>1
  <2> QED BY <2>1, <2>2
<1>8. ASSUME NEW a \in Senders, SenderMove(a)
      PROVE  Blocked(x)'
  <2>1. CASE PushMove(a)
    BY <1>1, <1>6, <2>1
  <2>2. CASE PushAccepted(a) \/ PushStops(a)
    BY <1>2, <2>2 DEF ReturnMove
  <2>3. CASE LeaveMove(a)
    BY <1>3, <2>3
  <2> QED BY <1>8, <2>1, <2>2, <2>3 DEF SenderMove, PushMove, LeaveMove
<1>9. ASSUME NEW a \in Receivers, ReceiverMove(a)
      PROVE  Blocked(x)'
  <2>1. a # x
    BY Sides
  <2> QED BY <1>1, <1>2, <1>3, <1>7, <1>9, <2>1, MoveKinds
<1> QED BY <1>4, <1>5, <1>8, <1>9 DEF Move

\* The largest size the queue may be given.
LEMMA BoundFacts ==
    /\ QueueBound \in Nat
    /\ \A n \in Sizes : n <= QueueBound
<1>1. PICK n \in Sizes : \A m \in Sizes : m <= n
  BY LargestSize DEF Sizes
<1>2. QueueBound \in Sizes /\ \A m \in Sizes : m <= QueueBound
  BY <1>1 DEF QueueBound, Sizes
<1> QED BY <1>2, SizesPositive DEF Sizes

\* How many senders are blocked before and after a step.
LEMMA CountBlocked ==
    ASSUME NEW B \in SUBSET Senders, NEW C \in SUBSET Senders
    PROVE  /\ Cardinality(B) \in Nat
           /\ Cardinality(B) <= Cardinality(Senders)
           /\ B \subseteq C => Cardinality(B) <= Cardinality(C)
           /\ \A s \in C : s \notin B /\ B \subseteq C => Cardinality(B) + 1 <= Cardinality(C)
           /\ \A s : B \ {s} \subseteq C => Cardinality(B) - 1 <= Cardinality(C)
<1>1. /\ IsFiniteSet(B) /\ IsFiniteSet(C) /\ IsFiniteSet(Senders)
      /\ Cardinality(B) \in Nat /\ Cardinality(C) \in Nat
      /\ Cardinality(B) <= Cardinality(Senders)
  BY BothSides, FS_Subset, FS_CardinalityType
<1>2. B \subseteq C => Cardinality(B) <= Cardinality(C)
  BY <1>1, FS_Subset
<1>3. ASSUME NEW s \in C, s \notin B, B \subseteq C
      PROVE  Cardinality(B) + 1 <= Cardinality(C)
  <2>1. /\ IsFiniteSet(B \cup {s}) /\ Cardinality(B \cup {s}) = Cardinality(B) + 1
    BY <1>1, <1>3, FS_AddElement
  <2>2. B \cup {s} \subseteq C
    BY <1>3
  <2> QED BY <1>1, <2>1, <2>2, FS_Subset
<1>4. ASSUME NEW s, B \ {s} \subseteq C
      PROVE  Cardinality(B) - 1 <= Cardinality(C)
  <2>1. /\ IsFiniteSet(B \ {s})
        /\ Cardinality(B \ {s}) = IF s \in B THEN Cardinality(B) - 1 ELSE Cardinality(B)
    BY <1>1, FS_RemoveElement
  <2>2. Cardinality(B \ {s}) <= Cardinality(C)
    BY <1>1, <1>4, FS_Subset
  <2> QED BY <1>1, <2>1, <2>2
<1> QED BY <1>1, <1>2, <1>3, <1>4

\* Every step keeps the queue below its bound and the blocked senders.
LEMMA BoundStep ==
    ASSUME CoreInv, TypeInv', BoundInv, Move
    PROVE  BoundInv'
<1>b. PICK B : B = {s \in Senders : Blocked(s)}
  OBVIOUS
<1>c. PICK C : C = {s \in Senders : Blocked(s)'}
  OBVIOUS
<1>n. PICK n : n = Len(mReadyData)
  OBVIOUS
<1>t. /\ n \in Nat /\ mMaxQueueSize \in Nat /\ mMaxQueueSize <= QueueBound /\ QueueBound \in Nat
      /\ Cardinality(B) \in Nat /\ Cardinality(C) \in Nat
  BY <1>b, <1>c, <1>n, LenFacts, BoundFacts, CountBlocked DEF CoreInv, TypeInv, ChannelType
<1>1. n <= QueueBound - 1 + Cardinality(B)
  BY <1>b, <1>n DEF BoundInv
<1>2. SUFFICES Len(mReadyData') <= QueueBound - 1 + Cardinality(C)
  BY <1>c DEF BoundInv
<1>3. \A x \in B : (\A r \in Receivers : PopWakes(r) => x # Head(mWaitingSender)) => x \in C
  BY <1>b, <1>c, BlockedStep
<1>4. CASE \E r \in Receivers : PopWakes(r)
  <2>1. PICK r \in Receivers : PopWakes(r)
    BY <1>4
  <2>2. Len(mReadyData') = n - 1
    BY <1>n, <2>1, LenEffect DEF CoreInv
  <2>3. B \ {Head(mWaitingSender)} \subseteq C
    BY <1>3
  <2>4. Cardinality(B) - 1 <= Cardinality(C)
    BY <1>b, <1>c, <2>3, CountBlocked
  <2> QED BY <1>t, <1>1, <2>2, <2>4
<1>5. CASE \A r \in Receivers : ~PopWakes(r)
  <2>1. B \subseteq C
    BY <1>3, <1>5
  <2>2. Cardinality(B) <= Cardinality(C)
    BY <1>b, <1>c, <2>1, CountBlocked
  <2>3. ASSUME NEW s \in Senders, PushWaits(s)
        PROVE  Len(mReadyData') <= QueueBound - 1 + Cardinality(C)
    <3>1. s \notin B
      BY <1>b, <2>3, NotBlocked DEF PushWaits, StartQueue, StartPush
    <3>2. s \in C
      <4>1. In(s, mWaitingSender')
        BY <2>3, AppendDeque DEF PushWaits, CoreInv, TypeInv, ChannelType
      <4> QED BY <1>c, <4>1 DEF Blocked
    <3>3. Cardinality(B) + 1 <= Cardinality(C)
      BY <1>b, <1>c, <2>1, <3>1, <3>2, CountBlocked
    <3>4. Len(mReadyData') = n + 1
      BY <1>n, <2>3, LenEffect DEF CoreInv
    <3> QED BY <1>t, <1>1, <3>3, <3>4
  <2>4. ASSUME NEW s \in Senders, PushGoesOn(s)
        PROVE  Len(mReadyData') <= QueueBound - 1 + Cardinality(C)
    <3>1. Len(mReadyData') = n + 1 /\ n + 1 < mMaxQueueSize
      BY <1>n, <2>4, LenEffect DEF CoreInv
    <3> QED BY <1>t, <3>1
  <2>5. CASE Len(mReadyData') = n \/ Len(mReadyData') = n - 1
    BY <1>t, <1>1, <2>2, <2>5
  <2>6. \/ \E s \in Senders : PushWaits(s) \/ PushGoesOn(s)
        \/ Len(mReadyData') = n \/ Len(mReadyData') = n - 1
    <3>1. ASSUME NEW r \in Receivers, PopTakes(r)
          PROVE  Len(mReadyData') = n - 1
      BY <1>n, <3>1, LenEffect DEF CoreInv
    <3>2. ASSUME NEW r \in Receivers, ReceiverCloses(r)
          PROVE  mReadyData' = mReadyData
      BY <3>2 DEF ReceiverCloses, Leave
    <3>3. ASSUME NEW c, NEW cnt, NEW k, SetsMax(c, cnt, k)
          PROVE  mReadyData' = mReadyData
      BY <3>3 DEF SetsMax
    <3>4. SameQueue => mReadyData' = mReadyData
      BY DEF SameQueue
    <3> QED BY <1>5, <1>n, <3>1, <3>2, <3>3, <3>4, QuietMoves
  <2> QED BY <2>3, <2>4, <2>5, <2>6
<1> QED BY <1>4, <1>5

-----------------------------------------------------------------------------
(* The values.                                                             *)

\* The moves by what they do to the values: nothing, hand one over, queue one,
\* take one from the queue, or return one from pop().
ItemsSame ==
    /\ UNCHANGED <<mReadyData, received>>
    /\ \A s \in Senders : sent[s] <= sent'[s]
    /\ \A r \in Receivers : \A x \in Items : OnItsWay(r, x)' <=> OnItsWay(r, x)
ItemsHanded(s, r0) ==
    /\ StartPush(s) /\ mWaitingReceiver # <<>>
    /\ UNCHANGED <<mReadyData, received>>
    /\ \A r \in Receivers : \A x \in Items :
         OnItsWay(r, x)' <=> OnItsWay(r, x) \/ (r = r0 /\ x = Item(s, sent[s] + 1))
ItemsQueued(s) ==
    /\ StartQueue(s)
    /\ \A r \in Receivers : \A x \in Items : OnItsWay(r, x)' <=> OnItsWay(r, x)
ItemsTaken(r0) ==
    /\ mReadyData # <<>>
    /\ mReadyData' = Tail(mReadyData)
    /\ UNCHANGED <<received, sent>>
    /\ \A r \in Receivers : \A x \in Items :
         OnItsWay(r, x)' <=> OnItsWay(r, x) \/ (r = r0 /\ x = Head(mReadyData))
ItemsReturned(r0, x0) ==
    /\ OnItsWay(r0, x0)
    /\ UNCHANGED <<mReadyData, sent>>
    /\ received' = [received EXCEPT ![r0] = Append(@, x0)]
    /\ \A r \in Receivers : \A x \in Items :
         OnItsWay(r, x)' <=> OnItsWay(r, x) /\ ~(r = r0 /\ x = x0)

\* What a push() does to the values on their way.
LEMMA WayPush ==
    ASSUME CoreInv, NEW s \in Senders, pc[s] = "idle", NEW own, NEW calls, Proceed(s, own, calls),
           NEW r \in Receivers, NEW x
    PROVE  OnItsWay(r, x)' <=> OnItsWay(r, x) \/ In(Call(r, Some(x)), calls)
<1>1. s \in Activities /\ r \in Activities /\ r # s /\ \A t \in Senders : t \in Activities
  BY Sides
<1>2. /\ notify'[s] = calls /\ self'[r] = self[r]
      /\ \A t \in Senders : t # s => notify'[t] = notify[t]
  BY <1>1 DEF Proceed, CoreInv, TypeInv, ActivityType
<1>3. notify[s] = <<>> /\ ~In(Call(r, Some(x)), notify[s])
  BY EmptyDeque DEF CoreInv, RestInv
<1> QED BY <1>2, <1>3 DEF OnItsWay

\* What a pop() does to them.
LEMMA WayPop ==
    ASSUME CoreInv, NEW q \in Receivers, pc[q] = "idle", NEW own, NEW calls, Proceed(q, own, calls),
           NEW r \in Receivers, NEW x
    PROVE  OnItsWay(r, x)' <=> OnItsWay(r, x) \/ (r = q /\ own = <<Some(x)>>)
<1>1. q \in Activities /\ r \in Activities /\ \A t \in Senders : t \in Activities /\ t # q
  BY Sides
<1>2. /\ self'[q] = own /\ (r # q => self'[r] = self[r])
      /\ \A t \in Senders : notify'[t] = notify[t]
  BY <1>1 DEF Proceed, CoreInv, TypeInv, ActivityType
<1>3. self[q] = <<>> /\ self[q] # <<Some(x)>>
  BY <1>1, AnswerFacts DEF CoreInv, RestInv
<1> QED BY <1>2, <1>3 DEF OnItsWay

\* A step of a sender queues its value, hands it over or moves none.
LEMMA SenderMoveItems ==
    ASSUME CoreInv, NEW s \in Senders, SenderMove(s)
    PROVE  \/ ItemsSame \/ ItemsQueued(s)
           \/ \E r \in Receivers : ItemsHanded(s, r)
<1>n. \A c : ~In(c, <<>>)
  BY EmptyDeque
<1>s. \A t \in Senders : sent[t] \in Nat
  BY MaxItemsNat DEF CoreInv, TypeInv, CountType
<1>1. CASE PushHands(s)
  <2>h. PICK h : h = Head(mWaitingReceiver)
    OBVIOUS
  <2>x. PICK x0 : x0 = Item(s, sent[s] + 1)
    OBVIOUS
  <2>o. PICK own : own = <<TRUE>>
    OBVIOUS
  <2>c. PICK call : call = Call(h, Some(x0))
    OBVIOUS
  <2>1. /\ StartPush(s) /\ mWaitingReceiver # <<>>
        /\ UNCHANGED <<mReadyData, received>>
        /\ pc[s] = "idle" /\ Proceed(s, own, <<call>>)
    BY <1>1, <2>h, <2>x, <2>o, <2>c DEF PushHands, StartPush
  <2>2. h \in Receivers
    BY <2>h, <2>1, TailDeque DEF CoreInv, TypeInv, ChannelType
  <2>3. ASSUME NEW r \in Receivers, NEW x \in Items
        PROVE  OnItsWay(r, x)' <=> OnItsWay(r, x) \/ (r = h /\ x = x0)
    <3>1. PICK calls : calls = <<call>>
      OBVIOUS
    <3>2. OnItsWay(r, x)' <=> OnItsWay(r, x) \/ In(Call(r, Some(x)), calls)
      BY <2>1, <3>1, WayPush
    <3>3. In(Call(r, Some(x)), calls) <=> Call(r, Some(x)) = call
      BY <3>1, OneDeque
    <3>4. Call(r, Some(x)) = call <=> r = h /\ x = x0
      BY <2>c, CallFacts, OptionFacts
    <3> QED BY <3>2, <3>3, <3>4
  <2>4. ItemsHanded(s, h)
    BY <2>x, <2>1, <2>3 DEF ItemsHanded
  <2> QED BY <2>2, <2>4
<1>2. ASSUME NEW own, Proceed(s, own, <<>>), pc[s] = "idle"
      PROVE  \A r \in Receivers : \A x \in Items : OnItsWay(r, x)' <=> OnItsWay(r, x)
  <2>1. PICK calls : calls = <<>>
    OBVIOUS
  <2> QED BY <1>2, <1>n, <2>1, WayPush
<1>3. CASE PushRefused(s)
  <2>1. StartPush(s) /\ Proceed(s, <<FALSE>>, <<>>) /\ pc[s] = "idle" /\ mReadyData' = mReadyData
    BY <1>3 DEF PushRefused, StartPush
  <2>2. sent'[s] = sent[s] + 1 /\ \A t \in Senders : t # s => sent'[t] = sent[t]
    BY <2>1, NextItem DEF CoreInv, TypeInv
  <2>3. \A t \in Senders : sent[t] <= sent'[t]
    BY <1>s, <2>2
  <2> QED BY <1>2, <2>1, <2>3 DEF ItemsSame, StartPush
<1>4. CASE PushWaits(s) \/ PushGoesOn(s)
  <2>1. StartQueue(s) /\ pc[s] = "idle" /\ \E own : Proceed(s, own, <<>>)
    BY <1>4 DEF PushWaits, PushGoesOn, StartQueue, StartPush
  <2> QED BY <1>2, <2>1 DEF ItemsQueued
<1>5. CASE PushAccepted(s) \/ PushStops(s)
  <2>1. UNCHANGED <<mReadyData, received, sent, notify>>
    BY <1>5 DEF PushAccepted, PushStops, channelVars
  <2>2. \A r \in Receivers : self'[r] = self[r]
    BY <1>5, Sides DEF PushAccepted, PushStops, CoreInv, TypeInv, ActivityType
  <2>3. \A r \in Receivers : \A x \in Items : OnItsWay(r, x)' <=> OnItsWay(r, x)
    BY <2>1, <2>2 DEF OnItsWay
  <2> QED BY <1>s, <2>1, <2>3 DEF ItemsSame
<1>6. CASE SenderCloses(s)
  <2>1. UNCHANGED <<mReadyData, received, sent, self>>
    BY <1>6 DEF SenderCloses, Leave
  <2>2. /\ notify[s] = <<>> /\ notify'[s] = Calls(mWaitingReceiver, NullOpt)
        /\ \A t \in Senders : t # s => notify'[t] = notify[t]
    BY <1>6, Sides DEF SenderCloses, Leave, CoreInv, RestInv, TypeInv, ActivityType
  <2>3. \A r, x : ~In(Call(r, Some(x)), Calls(mWaitingReceiver, NullOpt))
    <3>1. \A r, x, y : Call(r, Some(x)) # Call(y, NullOpt)
      BY CallFacts, OptionFacts
    <3> QED BY <3>1, CallsDeque DEF CoreInv, TypeInv, ChannelType
  <2>4. \A r \in Receivers : \A x \in Items : OnItsWay(r, x)' <=> OnItsWay(r, x)
    BY <1>n, <2>1, <2>2, <2>3 DEF OnItsWay
  <2> QED BY <1>s, <2>1, <2>4 DEF ItemsSame
<1>7. CASE JustLeaves(s, Senders)
  <2>1. UNCHANGED <<mReadyData, received, sent, self, notify>>
    BY <1>7 DEF JustLeaves, Leave
  <2> QED BY <1>s, <2>1 DEF ItemsSame, OnItsWay
<1> QED BY <1>1, <1>3, <1>4, <1>5, <1>6, <1>7 DEF SenderMove

\* A step of a receiver takes a value, returns one or moves none.
LEMMA ReceiverMoveItems ==
    ASSUME CoreInv, NEW q \in Receivers, ReceiverMove(q)
    PROVE  \/ ItemsSame \/ ItemsTaken(q)
           \/ \E x \in Items : ItemsReturned(q, x)
<1>s. \A t \in Senders : sent[t] \in Nat
  BY MaxItemsNat DEF CoreInv, TypeInv, CountType
<1>1. CASE PopTakes(q) \/ PopWakes(q)
  <2>h. PICK h : h = Head(mReadyData)
    OBVIOUS
  <2>o. PICK own : own = <<Some(h)>>
    OBVIOUS
  <2>1. /\ mReadyData # <<>> /\ mReadyData' = Tail(mReadyData)
        /\ UNCHANGED <<received, sent>>
        /\ pc[q] = "idle" /\ \E calls : Proceed(q, own, calls)
    BY <1>1, <2>h, <2>o DEF PopTakes, PopWakes, StartPop
  <2>2. ASSUME NEW r \in Receivers, NEW x \in Items
        PROVE  OnItsWay(r, x)' <=> OnItsWay(r, x) \/ (r = q /\ x = h)
    <3>1. OnItsWay(r, x)' <=> OnItsWay(r, x) \/ (r = q /\ own = <<Some(x)>>)
      BY <2>1, WayPop
    <3>2. own = <<Some(x)>> <=> x = h
      BY <2>o, OptionFacts, AnswerFacts
    <3> QED BY <3>1, <3>2
  <2> QED BY <2>h, <2>1, <2>2 DEF ItemsTaken
<1>2. CASE PopEnds(q) \/ PopWaits(q)
  <2>1. /\ UNCHANGED <<mReadyData, received, sent>>
        /\ pc[q] = "idle" /\ \E own, calls : Proceed(q, own, calls) /\ own \in {<<>>, <<NullOpt>>}
    BY <1>2 DEF PopEnds, PopWaits, StartPop
  <2>2. PICK own, calls : Proceed(q, own, calls) /\ own \in {<<>>, <<NullOpt>>}
    BY <2>1
  <2>3. \A x : own # <<Some(x)>>
    BY <2>2, OptionFacts, AnswerFacts
  <2>4. \A r \in Receivers : \A x \in Items : OnItsWay(r, x)' <=> OnItsWay(r, x)
    BY <2>1, <2>2, <2>3, WayPop
  <2> QED BY <1>s, <2>1, <2>4 DEF ItemsSame
<1>3. ASSUME NEW a \in Receivers, self[a] # <<>>, NEW y, NEW t \in Senders
      PROVE  ~In(Call(a, Some(y)), notify[t])
  <2>1. Call(a, Some(y)).to = a
    BY CallFacts
  <2>2. ~Waits(a)
    BY <1>3 DEF Waits
  <2> QED BY <2>1, <2>2, Sides DEF CoreInv, WakeInv
<1>4. CASE PopStops(q)
  <2>1. UNCHANGED <<mReadyData, received, sent, notify>>
    BY <1>4 DEF PopStops, channelVars
  <2>2. /\ self[q] = <<NullOpt>> /\ self'[q] = <<>>
        /\ \A r \in Receivers : r # q => self'[r] = self[r]
    BY <1>4, Sides DEF PopStops, CoreInv, TypeInv, ActivityType
  <2>3. \A x : self[q] # <<Some(x)>> /\ self'[q] # <<Some(x)>>
    BY <2>2, OptionFacts, AnswerFacts
  <2>4. \A r \in Receivers : \A x \in Items : OnItsWay(r, x)' <=> OnItsWay(r, x)
    BY <2>1, <2>2, <2>3 DEF OnItsWay
  <2> QED BY <1>s, <2>1, <2>4 DEF ItemsSame
<1>5. ASSUME NEW x0 \in Items, PopReturns(q, x0)
      PROVE  ItemsReturned(q, x0)
  <2>1. /\ UNCHANGED <<mReadyData, sent, notify>>
        /\ received' = [received EXCEPT ![q] = Append(@, x0)]
    BY <1>5 DEF PopReturns, channelVars
  <2>2. /\ self[q] = <<Some(x0)>> /\ self'[q] = <<>>
        /\ \A r \in Receivers : r # q => self'[r] = self[r]
    BY <1>5, Sides DEF PopReturns, CoreInv, TypeInv, ActivityType
  <2>3. \A x : (self[q] = <<Some(x)>> => x = x0) /\ self'[q] # <<Some(x)>>
    BY <2>2, OptionFacts, AnswerFacts
  <2>4. \A y : \A t \in Senders : ~In(Call(q, Some(y)), notify[t])
    BY <1>3, <2>2, AnswerFacts
  <2>5. ASSUME NEW r \in Receivers, NEW x \in Items
        PROVE  OnItsWay(r, x)' <=> OnItsWay(r, x) /\ ~(r = q /\ x = x0)
    BY <2>1, <2>2, <2>3, <2>4 DEF OnItsWay
  <2>6. OnItsWay(q, x0)
    BY <2>2 DEF OnItsWay
  <2> QED BY <2>1, <2>5, <2>6 DEF ItemsReturned
<1>6. CASE ReceiverCloses(q) \/ JustLeaves(q, Receivers)
  <2>1. UNCHANGED <<mReadyData, received, sent, self>>
    BY <1>6 DEF ReceiverCloses, JustLeaves, Leave
  <2>2. \A t \in Senders : notify'[t] = notify[t]
    BY <1>6, Sides DEF ReceiverCloses, JustLeaves, CoreInv, TypeInv, ActivityType
  <2> QED BY <1>s, <2>1, <2>2 DEF ItemsSame, OnItsWay
<1> QED BY <1>1, <1>2, <1>4, <1>5, <1>6 DEF ReceiverMove

\* set_value() moves a value from the call to the future: it stays on its way.
LEMMA NotifyItems ==
    ASSUME CoreInv, NEW a \in Activities, Notify(a)
    PROVE  ItemsSame
<1>h. PICK h : h = Head(notify[a])
  OBVIOUS
<1>1. /\ In(h, notify[a]) /\ h.to \in Activities
      /\ h.to \in Receivers => h \in PopCalls /\ a \in Senders
      /\ self'[h.to] = <<h.val>>
      /\ \A b \in Activities : b # h.to => self'[b] = self[b]
      /\ \A b \in Activities : b # a => notify'[b] = notify[b]
      /\ \A c : In(c, notify[a]) <=> c = h \/ In(c, notify'[a])
      /\ Distinct(notify[a]) => ~In(h, notify'[a])
  BY <1>h, NotifyEffect DEF CoreInv
<1>2. UNCHANGED <<mReadyData, received, sent>>
  BY DEF Notify, channelVars
<1>3. /\ ~In(h, notify'[a]) /\ Waits(h.to)
      /\ \A b \in Activities : \A c : In(c, notify[b]) /\ c.to = h.to => c = h /\ b = a
  BY <1>1 DEF CoreInv, WakeInv
<1>4. ASSUME NEW r \in Receivers, NEW x \in Items
      PROVE  OnItsWay(r, x)' <=> OnItsWay(r, x)
  <2>1. r \in Activities /\ \A t \in Senders : t \in Activities
    BY Sides
  <2>2. Call(r, Some(x)).to = r /\ Call(r, Some(x)).val = Some(x)
    BY CallFacts
  <2>3. CASE r = h.to
    <3>1. h = Call(r, h.val) /\ a \in Senders
      BY <1>1, <2>3, CallFacts
    <3>2. OnItsWay(r, x)' <=> h.val = Some(x)
      <4>1. self'[r] = <<Some(x)>> <=> h.val = Some(x)
        BY <1>1, <2>3, AnswerFacts
      <4>2. \A t \in Senders : ~In(Call(r, Some(x)), notify'[t])
        BY <1>1, <1>3, <2>1, <2>2, <2>3
      <4> QED BY <4>1, <4>2 DEF OnItsWay
    <3>3. OnItsWay(r, x) <=> h.val = Some(x)
      <4>1. self[r] # <<Some(x)>>
        BY <1>3, <2>3, AnswerFacts DEF Waits
      <4>2. (\E t \in Senders : In(Call(r, Some(x)), notify[t])) <=> h.val = Some(x)
        BY <1>1, <1>3, <2>1, <2>2, <2>3, <3>1
      <4> QED BY <4>1, <4>2 DEF OnItsWay
    <3> QED BY <3>2, <3>3
  <2>4. CASE r # h.to
    <3>1. h # Call(r, Some(x))
      BY <2>2, <2>4
    <3>2. \A t \in Senders : In(Call(r, Some(x)), notify'[t]) <=> In(Call(r, Some(x)), notify[t])
      BY <1>1, <2>1, <3>1
    <3> QED BY <1>1, <2>1, <2>4, <3>2 DEF OnItsWay
  <2> QED BY <2>3, <2>4
<1>5. \A t \in Senders : sent[t] \in Nat
  BY MaxItemsNat DEF CoreInv, TypeInv, CountType
<1> QED BY <1>2, <1>4, <1>5 DEF ItemsSame

\* setMaxQueueSize() moves no value.
LEMMA SetsMaxItems ==
    ASSUME CoreInv, NEW c \in Controllers, NEW cnt, NEW k, SetsMax(c, cnt, k)
    PROVE  ItemsSame
<1>1. UNCHANGED <<mReadyData, received, sent, self>>
  BY DEF SetsMax
<1>2. \A t \in Senders : notify'[t] = notify[t]
  BY Sides DEF SetsMax, CoreInv, TypeInv, ActivityType
<1>3. \A t \in Senders : sent[t] \in Nat
  BY MaxItemsNat DEF CoreInv, TypeInv, CountType
<1> QED BY <1>1, <1>2, <1>3 DEF ItemsSame, OnItsWay

\* What a step does to the values.
LEMMA ItemMoves ==
    ASSUME CoreInv, Move
    PROVE  \/ ItemsSame
           \/ \E s \in Senders : ItemsQueued(s) \/ \E r \in Receivers : ItemsHanded(s, r)
           \/ \E r \in Receivers : ItemsTaken(r) \/ \E x \in Items : ItemsReturned(r, x)
BY SenderMoveItems, ReceiverMoveItems, NotifyItems, SetsMaxItems DEF Move

\* Adding a value that is later than all the others keeps the order.
LEMMA OrderedAppend ==
    ASSUME NEW q \in Seq(Items), NEW x \in Items, Ordered(q), \A y \in Items : In(y, q) => Before(y, x)
    PROVE  Ordered(Append(q, x))
<1>1. /\ Len(q) \in Nat /\ Len(Append(q, x)) = Len(q) + 1
      /\ \A i \in 1..Len(q) : Append(q, x)[i] = q[i] /\ q[i] \in Items
      /\ Append(q, x)[Len(q) + 1] = x
  BY AppendProperties, LenProperties
<1>2. \A i \in 1..Len(q) : Before(q[i], x)
  BY <1>1 DEF In
<1> QED BY <1>1, <1>2 DEF Ordered

\* Taking the first value keeps the order, and the others come after it.
LEMMA OrderedTail ==
    ASSUME NEW q \in Seq(Items), q # <<>>, Ordered(q)
    PROVE  Ordered(Tail(q)) /\ \A y : In(y, Tail(q)) => Before(Head(q), y)
<1>1. /\ Len(q) \in Nat \ {0} /\ Len(Tail(q)) = Len(q) - 1 /\ Head(q) = q[1]
      /\ \A i \in 1..Len(Tail(q)) : Tail(q)[i] = q[i + 1] /\ i + 1 \in 1..Len(q)
  BY TailDeque, NothingIn, LenProperties
<1>2. Ordered(Tail(q))
  <2> SUFFICES ASSUME NEW i \in 1..Len(Tail(q)), NEW j \in 1..Len(Tail(q)), i < j
               PROVE  Before(Tail(q)[i], Tail(q)[j])
    BY DEF Ordered
  <2>1. i + 1 \in 1..Len(q) /\ j + 1 \in 1..Len(q) /\ i + 1 < j + 1
    BY <1>1
  <2> QED BY <1>1, <2>1 DEF Ordered
<1>3. ASSUME NEW y, In(y, Tail(q))
      PROVE  Before(Head(q), y)
  <2>1. PICK i \in 1..Len(Tail(q)) : Tail(q)[i] = y
    BY <1>3 DEF In
  <2>2. 1 \in 1..Len(q) /\ 1 < i + 1 /\ i + 1 \in 1..Len(q) /\ q[i + 1] = y
    BY <1>1, <2>1
  <2> QED BY <1>1, <2>2 DEF Ordered
<1> QED BY <1>2, <1>3

\* In a queue that is in order no value is there twice.
LEMMA OrderedDistinct ==
    ASSUME NEW q \in Seq(Items), Ordered(q)
    PROVE  Distinct(q)
<1>1. \A i \in 1..Len(q) : q[i] \in Items
  BY LenProperties
<1>2. \A x \in Items : ~Before(x, x)
  BY ItemFacts DEF Before
<1>3. Len(q) \in Nat
  BY LenProperties
<1> QED BY <1>1, <1>2, <1>3 DEF Ordered, Distinct

\* One value at most is on its way to a receiver.
LEMMA OneOnItsWay ==
    ASSUME CoreInv, NEW r \in Receivers, NEW x, NEW y, OnItsWay(r, x), OnItsWay(r, y)
    PROVE  x = y
<1>1. ASSUME NEW z, NEW s \in Senders, In(Call(r, Some(z)), notify[s])
      PROVE  self[r] = <<>>
  <2>1. Call(r, Some(z)).to = r
    BY CallFacts
  <2>2. Waits(Call(r, Some(z)).to)
    BY <1>1, Sides DEF CoreInv, WakeInv
  <2> QED BY <2>1, <2>2 DEF Waits
<1>2. ASSUME NEW s \in Senders, NEW t \in Senders,
             In(Call(r, Some(x)), notify[s]), In(Call(r, Some(y)), notify[t])
      PROVE  x = y
  <2>1. Call(r, Some(x)).to = r /\ Call(r, Some(y)).to = r
    BY CallFacts
  <2>2. Call(r, Some(x)) = Call(r, Some(y))
    BY <1>2, <2>1, Sides DEF CoreInv, WakeInv
  <2>3. Some(x) = Some(y)
    BY <2>2, CallFacts
  <2> QED BY <2>3, OptionFacts
<1>3. self[r] = <<Some(x)>> /\ self[r] = <<Some(y)>> => x = y
  BY OptionFacts, AnswerFacts
<1>4. <<Some(x)>> # <<>> /\ <<Some(y)>> # <<>>
  BY AnswerFacts
<1> QED BY <1>1, <1>2, <1>3, <1>4 DEF OnItsWay

\* Every step keeps the values in order, and towards one receiver.
LEMMA OrderStep ==
    ASSUME CoreInv, TypeInv', QueueInv, OrderInv, Move
    PROVE  OrderInv'
<1>t. /\ mReadyData \in Seq(Items)
      /\ \A r \in Receivers : received[r] \in Seq(Items) /\ received'[r] \in Seq(Items)
  BY DEF CoreInv, TypeInv, ChannelType, CountType
<1>i. \A x \in Items : x[1] \in Senders /\ x[2] \in Nat
  BY ItemFacts
<1>j. \A s \in Senders : sent[s] \in Nat /\ sent'[s] \in Nat
  BY MaxItemsNat DEF CoreInv, TypeInv, CountType
<1>1. CASE ItemsSame
  <2>1. \A r \in Receivers : \A x \in Items : Out(r, x)' <=> Out(r, x)
    BY <1>1 DEF ItemsSame, Out
  <2>2. \A x \in Items : Somewhere(x)' <=> Somewhere(x)
    BY <1>1, <2>1 DEF ItemsSame, Somewhere
  <2>3. \A x \in Items : Somewhere(x)' => x[2] <= sent'[x[1]]
    BY <1>1, <1>i, <1>j, <2>2 DEF ItemsSame, OrderInv
  <2> QED BY <1>1, <2>1, <2>3 DEF ItemsSame, OrderInv
<1>2. ASSUME NEW s \in Senders, NEW r0 \in Receivers, ItemsHanded(s, r0)
      PROVE  OrderInv'
  <2>x. PICK x0 : x0 = Item(s, sent[s] + 1)
    OBVIOUS
  <2>1. /\ x0 \in Items /\ x0[1] = s /\ x0[2] = sent[s] + 1
        /\ sent'[s] = sent[s] + 1 /\ \A t \in Senders : t # s => sent'[t] = sent[t]
    BY <1>2, <2>x, NextItem, ItemFacts DEF ItemsHanded, CoreInv, TypeInv
  <2>2. /\ mReadyData = <<>> /\ mReadyData' = <<>> /\ received' = received
        /\ \A r \in Receivers : \A x \in Items :
             OnItsWay(r, x)' <=> OnItsWay(r, x) \/ (r = r0 /\ x = x0)
    BY <1>2, <2>x DEF ItemsHanded, QueueInv
  <2>3. \A r \in Receivers : \A x \in Items : Out(r, x)' <=> Out(r, x) \/ (r = r0 /\ x = x0)
    BY <2>2 DEF Out
  <2>4. \A x \in Items : Somewhere(x)' => Somewhere(x) \/ x = x0
    BY <2>2, <2>3 DEF Somewhere
  <2>5. \A x \in Items : Somewhere(x) => Before(x, x0)
    BY <1>i, <1>j, <2>1 DEF OrderInv, Before
  <2>6. \A x \in Items : Somewhere(x)' => x[2] <= sent'[x[1]]
    BY <1>i, <1>j, <2>1, <2>4 DEF OrderInv
  <2>7. ~Somewhere(x0)
    BY <1>j, <2>1 DEF OrderInv
  <2>8. \A r \in Receivers : \A x \in Items : Out(r, x) \/ In(x, received[r]) => Somewhere(x)
    BY DEF Somewhere, Out
  <2>9. \A x : ~In(x, mReadyData')
    BY <2>2, EmptyDeque
  <2>10. Ordered(mReadyData)' /\ \A r \in Receivers : Ordered(received[r])'
    BY <2>2 DEF OrderInv
  <2>11. \A r \in Receivers : \A x, y \in Items :
           OnItsWay(r, x)' /\ In(y, received'[r]) => Before(y, x)
    BY <2>2, <2>5, <2>8 DEF OrderInv
  <2>12. \A r1, r2 \in Receivers : \A x \in Items : Out(r1, x)' /\ Out(r2, x)' => r1 = r2
    BY <2>3, <2>7, <2>8 DEF OrderInv
  <2> QED BY <2>6, <2>9, <2>10, <2>11, <2>12 DEF OrderInv
<1>3. ASSUME NEW s \in Senders, ItemsQueued(s)
      PROVE  OrderInv'
  <2>x. PICK x0 : x0 = Item(s, sent[s] + 1)
    OBVIOUS
  <2>1. /\ x0 \in Items /\ x0[1] = s /\ x0[2] = sent[s] + 1
        /\ sent'[s] = sent[s] + 1 /\ \A t \in Senders : t # s => sent'[t] = sent[t]
    BY <1>3, <2>x, NextItem, ItemFacts DEF ItemsQueued, StartQueue, CoreInv, TypeInv
  <2>2. /\ mReadyData' = Append(mReadyData, x0) /\ received' = received
        /\ \A r \in Receivers : \A x \in Items : OnItsWay(r, x)' <=> OnItsWay(r, x)
    BY <1>3, <2>x DEF ItemsQueued, StartQueue, StartPush
  <2>3. \A x : In(x, mReadyData') <=> In(x, mReadyData) \/ x = x0
    BY <1>t, <2>1, <2>2, AppendDeque
  <2>4. \A r \in Receivers : \A x \in Items : Out(r, x)' <=> Out(r, x)
    BY <2>2 DEF Out
  <2>5. \A x \in Items : Somewhere(x)' => Somewhere(x) \/ x = x0
    BY <2>3, <2>4 DEF Somewhere
  <2>6. \A x \in Items : Somewhere(x) => Before(x, x0)
    BY <1>i, <1>j, <2>1 DEF OrderInv, Before
  <2>7. \A x \in Items : Somewhere(x)' => x[2] <= sent'[x[1]]
    BY <1>i, <1>j, <2>1, <2>5 DEF OrderInv
  <2>8. \A x \in Items : In(x, mReadyData) \/ (\E r \in Receivers : Out(r, x)) => Somewhere(x)
    BY DEF Somewhere
  <2>9. Ordered(mReadyData')
    BY <1>t, <2>1, <2>2, <2>6, <2>8, OrderedAppend DEF OrderInv
  <2>10. \A r \in Receivers : Ordered(received'[r])
    BY <2>2 DEF OrderInv
  <2>11. \A r \in Receivers : \A x, y \in Items : In(x, mReadyData') /\ Out(r, y)' => Before(y, x)
    BY <2>3, <2>4, <2>6, <2>8 DEF OrderInv
  <2>12. \A r \in Receivers : \A x, y \in Items :
           OnItsWay(r, x)' /\ In(y, received'[r]) => Before(y, x)
    BY <2>2 DEF OrderInv
  <2>13. \A r1, r2 \in Receivers : \A x \in Items : Out(r1, x)' /\ Out(r2, x)' => r1 = r2
    BY <2>4 DEF OrderInv
  <2> QED BY <2>7, <2>9, <2>10, <2>11, <2>12, <2>13 DEF OrderInv
<1>4. ASSUME NEW r0 \in Receivers, ItemsTaken(r0)
      PROVE  OrderInv'
  <2>x. PICK x0 : x0 = Head(mReadyData)
    OBVIOUS
  <2>1. /\ mReadyData # <<>> /\ mReadyData' = Tail(mReadyData)
        /\ received' = received /\ sent' = sent
        /\ \A r \in Receivers : \A x \in Items :
             OnItsWay(r, x)' <=> OnItsWay(r, x) \/ (r = r0 /\ x = x0)
    BY <1>4, <2>x DEF ItemsTaken
  <2>2. x0 \in Items /\ \A y : In(y, mReadyData) <=> y = x0 \/ In(y, mReadyData')
    BY <1>t, <2>x, <2>1, TailDeque
  <2>3. Ordered(mReadyData') /\ \A y : In(y, mReadyData') => Before(x0, y)
    BY <1>t, <2>x, <2>1, OrderedTail DEF OrderInv
  <2>4. \A r \in Receivers : \A x \in Items : Out(r, x)' <=> Out(r, x) \/ (r = r0 /\ x = x0)
    BY <2>1 DEF Out
  <2>5. \A x \in Items : Somewhere(x)' => Somewhere(x)
    BY <2>2, <2>4 DEF Somewhere
  <2>6. \A x \in Items : Somewhere(x)' => x[2] <= sent'[x[1]]
    BY <2>1, <2>5 DEF OrderInv
  <2>7. \A r \in Receivers : \A y \in Items : Out(r, y) => Before(y, x0) /\ y # x0
    <3>1. ~Before(x0, x0)
      BY <1>i, <2>2 DEF Before
    <3> QED BY <2>2, <3>1 DEF OrderInv
  <2>8. \A r \in Receivers : Ordered(received'[r])
    BY <2>1 DEF OrderInv
  <2>9. \A r \in Receivers : \A x, y \in Items : In(x, mReadyData') /\ Out(r, y)' => Before(y, x)
    BY <2>2, <2>3, <2>4 DEF OrderInv
  <2>10. \A r \in Receivers : \A y \in Items : In(y, received[r]) => Out(r, y)
    BY DEF Out
  <2>11. \A r \in Receivers : \A x, y \in Items :
           OnItsWay(r, x)' /\ In(y, received'[r]) => Before(y, x)
    BY <2>1, <2>7, <2>10 DEF OrderInv
  <2>12. \A r1, r2 \in Receivers : \A x \in Items : Out(r1, x)' /\ Out(r2, x)' => r1 = r2
    BY <2>4, <2>7 DEF OrderInv
  <2> QED BY <2>3, <2>6, <2>8, <2>9, <2>11, <2>12 DEF OrderInv
<1>5. ASSUME NEW r0 \in Receivers, NEW x0 \in Items, ItemsReturned(r0, x0)
      PROVE  OrderInv'
  <2>1. /\ mReadyData' = mReadyData /\ sent' = sent /\ OnItsWay(r0, x0)
        /\ \A r \in Receivers : \A x \in Items :
             OnItsWay(r, x)' <=> OnItsWay(r, x) /\ ~(r = r0 /\ x = x0)
    BY <1>5 DEF ItemsReturned
  <2>2. /\ received'[r0] = Append(received[r0], x0)
        /\ \A r \in Receivers : r # r0 => received'[r] = received[r]
    BY <1>5 DEF ItemsReturned, CoreInv, TypeInv, CountType
  <2>3. \A x : In(x, received'[r0]) <=> In(x, received[r0]) \/ x = x0
    BY <1>t, <2>2, AppendDeque
  <2>4. \A r \in Receivers : \A x : In(x, received'[r]) <=> In(x, received[r]) \/ (r = r0 /\ x = x0)
    BY <2>2, <2>3
  <2>5. \A r \in Receivers : \A x \in Items : Out(r, x)' <=> Out(r, x)
    BY <2>1, <2>4 DEF Out
  <2>6. \A x \in Items : Somewhere(x)' <=> Somewhere(x)
    BY <2>1, <2>5 DEF Somewhere
  <2>7. Ordered(received'[r0])
    BY <1>t, <2>1, <2>2, OrderedAppend DEF OrderInv
  <2>8. \A r \in Receivers : Ordered(received'[r])
    BY <2>2, <2>7 DEF OrderInv
  <2>9. \A r \in Receivers : \A x, y \in Items :
          OnItsWay(r, x)' /\ In(y, received'[r]) => Before(y, x)
    <3>1. ASSUME NEW x \in Items, OnItsWay(r0, x), x # x0
          PROVE  FALSE
      BY <2>1, <3>1, OneOnItsWay
    <3> QED BY <2>1, <2>4, <3>1 DEF OrderInv
  <2> QED BY <2>1, <2>5, <2>6, <2>8, <2>9 DEF OrderInv
<1> QED BY <1>1, <1>2, <1>3, <1>4, <1>5, ItemMoves

\* No step loses a value that was accepted or still may be.
LEMMA KeptStep ==
    ASSUME CoreInv, CoreInv', KeptInv, Move
    PROVE  KeptInv'
<1>t. /\ mReadyData \in Seq(Items)
      /\ \A r \in Receivers : received[r] \in Seq(Items)
      /\ \A s \in Senders : sent[s] \in 0..MaxItems /\ accepted[s] \in Nat /\ s \in Activities
  BY Sides DEF CoreInv, TypeInv, ChannelType, CountType
<1>i. \A s \in Senders : \A i \in 1..sent[s] : Item(s, i) \in Items
  BY <1>t, ItemFacts, MaxItemsNat
<1>1. ASSUME NEW x \in Items, Somewhere(x)
      PROVE  Somewhere(x)'
  <2>1. CASE ItemsSame
    BY <1>1, <2>1 DEF ItemsSame, Somewhere, Out
  <2>2. ASSUME NEW s \in Senders, NEW r0 \in Receivers, ItemsHanded(s, r0)
        PROVE  Somewhere(x)'
    BY <1>1, <2>2 DEF ItemsHanded, Somewhere, Out
  <2>3. ASSUME NEW s \in Senders, ItemsQueued(s)
        PROVE  Somewhere(x)'
    <3>1. Item(s, sent[s] + 1) \in Items
      BY <2>3, NextItem DEF ItemsQueued, StartQueue, CoreInv, TypeInv
    <3>2. In(x, mReadyData) => In(x, mReadyData')
      BY <1>t, <2>3, <3>1, AppendDeque DEF ItemsQueued, StartQueue
    <3>3. received' = received /\ \A r \in Receivers : OnItsWay(r, x)' <=> OnItsWay(r, x)
      BY <2>3 DEF ItemsQueued, StartQueue, StartPush
    <3> QED BY <1>1, <3>2, <3>3 DEF Somewhere, Out
  <2>4. ASSUME NEW r0 \in Receivers, ItemsTaken(r0)
        PROVE  Somewhere(x)'
    <3>1. In(x, mReadyData) => x = Head(mReadyData) \/ In(x, mReadyData')
      BY <1>t, <2>4, TailDeque DEF ItemsTaken
    <3>2. /\ received' = received
          /\ x = Head(mReadyData) => OnItsWay(r0, x)'
          /\ \A r \in Receivers : OnItsWay(r, x) => OnItsWay(r, x)'
      BY <2>4 DEF ItemsTaken
    <3> QED BY <1>1, <3>1, <3>2 DEF Somewhere, Out
  <2>5. ASSUME NEW r0 \in Receivers, NEW x0 \in Items, ItemsReturned(r0, x0)
        PROVE  Somewhere(x)'
    <3>1. /\ received'[r0] = Append(received[r0], x0) /\ mReadyData' = mReadyData
          /\ \A r \in Receivers : r # r0 => received'[r] = received[r]
          /\ \A r \in Receivers : OnItsWay(r, x) => OnItsWay(r, x)' \/ (r = r0 /\ x = x0)
      BY <2>5 DEF ItemsReturned, CoreInv, TypeInv, CountType
    <3>2. \A y : In(y, received'[r0]) <=> In(y, received[r0]) \/ y = x0
      BY <1>t, <3>1, AppendDeque
    <3> QED BY <1>1, <3>1, <3>2 DEF Somewhere, Out
  <2> QED BY <2>1, <2>2, <2>3, <2>4, <2>5, ItemMoves
<1>2. ASSUME NEW s \in Senders, NEW i \in 1..accepted[s]
      PROVE  Somewhere(Item(s, i))'
  <2>1. i \in 1..sent[s]
    BY <1>t DEF CoreInv, CountInv
  <2>2. Item(s, i) \in Items /\ Somewhere(Item(s, i))
    BY <1>i, <2>1 DEF KeptInv
  <2>3. PICK x : x = Item(s, i)
    OBVIOUS
  <2>4. Somewhere(x)'
    BY <1>1, <2>2, <2>3
  <2> QED BY <2>3, <2>4 DEF Item
<1>3. ASSUME NEW s \in Senders, pc[s] = "await", self[s] # <<FALSE>>
      PROVE  Somewhere(Item(s, sent[s])) /\ Item(s, sent[s]) \in Items
  <2>1. sent[s] \in 1..sent[s]
    BY <1>3, <1>t DEF CoreInv, CountInv
  <2> QED BY <1>3, <1>i, <2>1 DEF KeptInv
<1>4. ASSUME NEW s \in Senders, pc[s] = "await", self[s] # <<FALSE>>, NEW n, n = sent[s]
      PROVE  Somewhere(Item(s, n))'
  <2>1. PICK x : x = Item(s, n)
    OBVIOUS
  <2>2. Somewhere(x)'
    BY <1>1, <1>3, <1>4, <2>1
  <2> QED BY <2>1, <2>2 DEF Item
<1> DEFINE Kept(s) == /\ \A i \in 1..accepted'[s] : Somewhere(Item(s, i))'
                      /\ pc'[s] = "await" /\ self'[s] # <<FALSE>> =>
                           \E n : n = sent'[s] /\ Somewhere(Item(s, n))'
<1>5. ASSUME NEW s \in Senders, accepted'[s] = accepted[s], sent'[s] = sent[s],
             pc'[s] = "await" /\ self'[s] # <<FALSE>> => pc[s] = "await" /\ self[s] # <<FALSE>>
      PROVE  Kept(s)
  BY <1>2, <1>4, <1>5
<1>6. ASSUME NEW s \in Senders, PushMove(s)
      PROVE  Kept(s)
  <2>1. StartPush(s)
    BY <1>6 DEF PushMove, PushHands, PushRefused, PushWaits, PushGoesOn, StartQueue
  <2>2. accepted' = accepted /\ sent'[s] = sent[s] + 1 /\ Item(s, sent[s] + 1) \in Items
    BY <2>1, NextItem DEF CoreInv, TypeInv
  <2>3. PICK n : n = sent[s] + 1
    OBVIOUS
  <2>4. self'[s] # <<FALSE>> => ~PushRefused(s)
    BY <1>t DEF PushRefused, Proceed, CoreInv, TypeInv, ActivityType
  <2>5. ASSUME ~PushRefused(s)
        PROVE  Somewhere(Item(s, n))'
    <3>x. PICK x : x = Item(s, n)
      OBVIOUS
    <3>1. CASE PushWaits(s) \/ PushGoesOn(s)
      <4>1. mReadyData' = Append(mReadyData, x)
        BY <2>3, <3>x, <3>1 DEF PushWaits, PushGoesOn, StartQueue
      <4>2. In(x, mReadyData')
        BY <1>t, <2>2, <2>3, <3>x, <4>1, AppendDeque
      <4>3. Somewhere(x)'
        BY <4>2 DEF Somewhere
      <4> QED BY <3>x, <4>3 DEF Item
    <3>2. CASE PushHands(s)
      <4>1. PICK h : h = Head(mWaitingReceiver)
        OBVIOUS
      <4>2. h \in Receivers
        BY <3>2, <4>1, TailDeque DEF PushHands, CoreInv, TypeInv, ChannelType
      <4>3. notify'[s] = <<Call(h, Some(x))>>
        BY <1>t, <2>3, <3>x, <3>2, <4>1 DEF PushHands, Proceed, CoreInv, TypeInv, ActivityType
      <4>4. In(Call(h, Some(x)), notify'[s])
        BY <4>3, OneDeque
      <4>5. OnItsWay(h, x)'
        BY <4>4 DEF OnItsWay
      <4>6. Somewhere(x)'
        BY <4>2, <4>5 DEF Somewhere, Out
      <4> QED BY <3>x, <4>6 DEF Item
    <3> QED BY <1>6, <2>5, <3>1, <3>2 DEF PushMove
  <2> QED BY <1>2, <2>2, <2>3, <2>4, <2>5
<1>7. ASSUME NEW s \in Senders, PushAccepted(s)
      PROVE  Kept(s)
  <2>1. /\ pc[s] = "await" /\ self[s] # <<FALSE>> /\ pc'[s] = "idle"
        /\ sent' = sent /\ accepted'[s] = accepted[s] + 1
    BY <1>7, <1>t, AnswerFacts DEF PushAccepted, CoreInv, TypeInv, ActivityType, CountType
  <2>2. accepted[s] + 1 = sent[s]
    BY <2>1 DEF CoreInv, CountInv
  <2>3. PICK n : n = sent[s]
    OBVIOUS
  <2>4. Somewhere(Item(s, n))'
    BY <1>4, <2>1, <2>3
  <2>5. \A i \in 1..accepted'[s] : i \in 1..accepted[s] \/ i = n
    BY <1>t, <2>1, <2>2, <2>3
  <2> QED BY <1>2, <2>1, <2>4, <2>5
<1>8. ASSUME NEW a \in Senders, SenderMove(a), NEW s \in Senders
      PROVE  Kept(s)
  <2>1. CASE s = a /\ PushMove(a)
    BY <1>6, <2>1
  <2>2. CASE s = a /\ PushAccepted(a)
    BY <1>7, <2>2
  <2>3. CASE s = a /\ PushStops(a)
    BY <1>5, <1>t, <2>3 DEF PushStops, CoreInv, TypeInv, ActivityType
  <2>4. CASE s = a /\ LeaveMove(a)
    <3>1. pc'[s] = "left"
      BY <2>4, PcEffect DEF CoreInv
    <3>2. accepted' = accepted /\ sent' = sent
      BY <2>4 DEF LeaveMove, SenderCloses, ReceiverCloses, JustLeaves, Leave
    <3> QED BY <1>5, <3>1, <3>2
  <2>5. CASE s # a
    <3>1. pc'[s] = pc[s] /\ self'[s] = self[s]
      BY <1>8, <1>t, <2>5, MoveKinds, PcEffect DEF CoreInv
    <3>2. sent'[s] = sent[s] /\ accepted'[s] = accepted[s]
      <4>1. CASE StartPush(a)
        BY <2>5, <4>1, NextItem DEF CoreInv, TypeInv
      <4>2. CASE PushAccepted(a)
        BY <2>5, <4>2 DEF PushAccepted, CoreInv, TypeInv, CountType
      <4>3. CASE PushStops(a) \/ Leave(a)
        BY <4>3 DEF PushStops, Leave
      <4> QED BY <1>8, <4>1, <4>2, <4>3 DEF SenderMove, PushHands, PushRefused, PushWaits,
             PushGoesOn, StartQueue, SenderCloses, JustLeaves
    <3> QED BY <1>5, <3>1, <3>2
  <2> QED BY <1>8, <2>1, <2>2, <2>3, <2>4, <2>5 DEF SenderMove, PushMove, LeaveMove
<1>9. ASSUME NEW r \in Receivers, ReceiverMove(r), NEW s \in Senders
      PROVE  Kept(s)
  <2>1. pc'[s] = pc[s] /\ self'[s] = self[s]
    BY <1>9, <1>t, MoveKinds, PcEffect, Sides DEF CoreInv
  <2>2. sent' = sent /\ accepted' = accepted
    BY <1>9 DEF ReceiverMove, PopTakes, PopWakes, PopEnds, PopWaits, StartPop, PopStops,
       PopReturns, ReceiverCloses, JustLeaves, Leave
  <2> QED BY <1>5, <2>1, <2>2
<1>10. ASSUME NEW a \in Activities, Notify(a), NEW s \in Senders
       PROVE  Kept(s)
  <2>h. PICK h : h = Head(notify[a])
    OBVIOUS
  <2>1. /\ In(h, notify[a]) /\ h.to \in Activities
        /\ \A b \in Activities : b # h.to => self'[b] = self[b]
    BY <1>10, <2>h, NotifyEffect DEF CoreInv
  <2>2. self[h.to] = <<>>
    BY <2>1 DEF CoreInv, WakeInv, Waits
  <2>3. self'[s] # <<FALSE>> => self[s] # <<FALSE>>
    BY <1>t, <2>1, <2>2, AnswerFacts
  <2>4. UNCHANGED <<pc, sent, accepted>>
    BY <1>10 DEF Notify
  <2> QED BY <1>5, <2>3, <2>4
<1>11. ASSUME NEW c \in Controllers, NEW cnt, NEW k, SetsMax(c, cnt, k), NEW s \in Senders
       PROVE  Kept(s)
  BY <1>5, <1>11 DEF SetsMax
<1> HIDE DEF Kept
<1>12. \A s \in Senders : Kept(s)
  BY <1>8, <1>9, <1>10, <1>11 DEF Move
<1>13. ASSUME NEW s \in Senders
       PROVE  /\ \A i \in 1..accepted'[s] : Somewhere(Item(s, i))'
              /\ pc'[s] = "await" /\ self'[s] # <<FALSE>> => Somewhere(Item(s, sent[s]))'
  <2>1. \A i \in 1..accepted'[s] : Somewhere(Item(s, i))'
    BY <1>12 DEF Kept
  <2>2. ASSUME pc'[s] = "await", self'[s] # <<FALSE>>
        PROVE  Somewhere(Item(s, sent[s]))'
    <3>1. PICK n : n = sent'[s] /\ Somewhere(Item(s, n))'
      BY <1>12, <2>2 DEF Kept
    <3> QED BY <3>1 DEF Somewhere, Out, OnItsWay, Item
  <2> QED BY <2>1, <2>2
<1> QED BY <1>13 DEF KeptInv

-----------------------------------------------------------------------------
(* What push() and pop() are told.                                         *)

\* The sender s was told, or will be told, that its value was not accepted.
ToldFalse(s) ==
    \/ self[s] = <<FALSE>> \/ pc[s] = "stopped"
    \/ \E b \in Activities : In(Call(s, FALSE), notify[b])

\* The receiver r was told, or will be told, that there is nothing more.
ToldNothing(r) ==
    \/ self[r] = <<NullOpt>> \/ pc[r] = "stopped"
    \/ \E b \in Activities : In(Call(r, NullOpt), notify[b])

Drained == mSenderClosed /\ mReadyData = <<>>

NothingInv == \A r \in Receivers : ToldNothing(r) => Drained
FalseInv == \A s \in Senders : ToldFalse(s) => mReceiverClosed

\* A closed channel stays closed, and an empty one without senders empty.
LEMMA ClosedStep ==
    ASSUME CoreInv, Move
    PROVE  (Drained => Drained') /\ (mReceiverClosed => mReceiverClosed')
<1>1. ASSUME NEW s \in Senders, SenderMove(s)
      PROVE  (Drained => Drained') /\ (mReceiverClosed => mReceiverClosed')
  <2>1. CASE PushMove(s)
    <3>1. StartPush(s)
      BY <2>1 DEF PushMove, PushHands, PushRefused, PushWaits, PushGoesOn, StartQueue
    <3>2. ~mSenderClosed
      BY <3>1 DEF StartPush, CoreInv, FlagInv
    <3> QED BY <3>1, <3>2 DEF StartPush, Drained
  <2>2. CASE PushAccepted(s) \/ PushStops(s) \/ JustLeaves(s, Senders)
    <3>1. UNCHANGED <<mReadyData, mSenderClosed, mReceiverClosed>>
      BY <2>2 DEF PushAccepted, PushStops, JustLeaves, Leave, channelVars
    <3> QED BY <3>1 DEF Drained
  <2>3. CASE SenderCloses(s)
    <3>1. mReadyData' = mReadyData /\ mReceiverClosed' = mReceiverClosed /\ mSenderClosed'
      BY <2>3 DEF SenderCloses, Leave
    <3> QED BY <3>1 DEF Drained
  <2> QED BY <1>1, <2>1, <2>2, <2>3 DEF SenderMove, PushMove
<1>2. ASSUME NEW r \in Receivers, ReceiverMove(r)
      PROVE  (Drained => Drained') /\ (mReceiverClosed => mReceiverClosed')
  <2>1. CASE PopMove(r)
    <3>1. /\ UNCHANGED <<mSenderClosed, mReceiverClosed>>
          /\ mReadyData = <<>> => mReadyData' = <<>>
      BY <2>1 DEF PopMove, PopTakes, PopWakes, PopEnds, PopWaits, StartPop
    <3> QED BY <3>1 DEF Drained
  <2>2. CASE PopStops(r) \/ (\E x \in Items : PopReturns(r, x)) \/ JustLeaves(r, Receivers)
    <3>1. UNCHANGED <<mReadyData, mSenderClosed, mReceiverClosed>>
      BY <2>2 DEF PopStops, PopReturns, JustLeaves, Leave, channelVars
    <3> QED BY <3>1 DEF Drained
  <2>3. CASE ReceiverCloses(r)
    <3>1. mReadyData' = mReadyData /\ mSenderClosed' = mSenderClosed /\ mReceiverClosed'
      BY <2>3 DEF ReceiverCloses, Leave
    <3> QED BY <3>1 DEF Drained
  <2> QED BY <1>2, <2>1, <2>2, <2>3 DEF ReceiverMove, PopMove
<1>3. ASSUME NEW a \in Activities, Notify(a)
      PROVE  (Drained => Drained') /\ (mReceiverClosed => mReceiverClosed')
  BY <1>3 DEF Notify, channelVars, Drained
<1>4. ASSUME NEW c \in Controllers, NEW cnt, NEW k, SetsMax(c, cnt, k)
      PROVE  (Drained => Drained') /\ (mReceiverClosed => mReceiverClosed')
  BY <1>4 DEF SetsMax, Drained
<1> QED BY <1>1, <1>2, <1>3, <1>4 DEF Move

\* The calls and answers that tell x the value v, or that it is to stop, come
\* from what a does; the others were there before.
LEMMA ToldBefore ==
    ASSUME CoreInv, NEW a \in Activities, NEW x \in Activities, NEW v,
           \A b \in Activities : b # a =>
             pc'[b] = pc[b] /\ self'[b] = self[b] /\ notify'[b] = notify[b]
    PROVE  /\ x # a /\ (self'[x] = <<v>> \/ pc'[x] = "stopped") =>
                self[x] = <<v>> \/ pc[x] = "stopped"
           /\ (\E b \in Activities : In(Call(x, v), notify'[b])) =>
                \/ In(Call(x, v), notify'[a])
                \/ \E b \in Activities : In(Call(x, v), notify[b])
OBVIOUS

\* One set_value() tells what it was called with.
LEMMA ToldByCall ==
    ASSUME CoreInv, NEW a \in Activities, Notify(a), NEW x \in Activities, NEW v
    PROVE  /\ self'[x] = <<v>> => self[x] = <<v>> \/ In(Call(x, v), notify[a])
           /\ \A b \in Activities : In(Call(x, v), notify'[b]) => In(Call(x, v), notify[b])
           /\ pc' = pc
<1>h. PICK h : h = Head(notify[a])
  OBVIOUS
<1>1. /\ h.to \in Activities /\ In(h, notify[a])
      /\ h.to \in Senders => h \in PushCalls
      /\ h.to \in Receivers => h \in PopCalls
      /\ h.to \notin Controllers
      /\ self'[h.to] = <<h.val>>
      /\ \A b \in Activities : b # h.to => self'[b] = self[b]
      /\ \A b \in Activities : b # a => notify'[b] = notify[b]
      /\ \A c : In(c, notify[a]) <=> c = h \/ In(c, notify'[a])
  BY <1>h, NotifyEffect DEF CoreInv
<1>2. h = Call(h.to, h.val)
  BY <1>1, CallFacts, Sides
<1>3. self'[x] = <<v>> => self[x] = <<v>> \/ In(Call(x, v), notify[a])
  <2>1. CASE x = h.to
    BY <1>1, <1>2, <2>1, AnswerFacts
  <2>2. CASE x # h.to
    BY <1>1, <2>2
  <2> QED BY <2>1, <2>2
<1>4. pc' = pc
  BY DEF Notify
<1> QED BY <1>1, <1>3, <1>4

\* pop() returns nothing only when the senders have gone and the queue is empty.
LEMMA NothingStep ==
    ASSUME CoreInv, QueueInv, Move, NothingInv
    PROVE  NothingInv'
<1> SUFFICES ASSUME NEW r \in Receivers, ToldNothing(r)'
             PROVE  Drained'
  BY DEF NothingInv
<1>n. PICK n : n = NullOpt
  OBVIOUS
<1>r. r \in Activities /\ r \notin Senders /\ r \notin Controllers
  BY Sides
<1>e. \A c : ~In(c, <<>>)
  BY EmptyDeque
<1>o. \A b \in Activities : b \notin Senders => ~In(Call(r, n), notify[b])
  BY CallTargets, CallFacts, Sides DEF CoreInv
<1>t. TypeInv'
  BY TypeStep, SenderMoveType, ReceiverMoveType, NotifyEffect, SetsMaxType DEF Move, CoreInv
<1>p. \A b \in Activities : b \notin Senders => ~In(Call(r, n), notify'[b])
  <2> SUFFICES ASSUME NEW b \in Activities, b \notin Senders, In(Call(r, n), notify'[b])
               PROVE  FALSE
    OBVIOUS
  <2>1. notify'[b] \in Seq(PushCalls)
    BY <1>t, Sides DEF TypeInv, ActivityType
  <2>2. Call(r, n) \in PushCalls
    BY <2>1, NothingIn
  <2>3. Call(r, n).to = r
    BY CallFacts
  <2> QED BY <1>r, <2>2, <2>3, CallFacts
<1>c. \/ self'[r] = <<n>> \/ pc'[r] = "stopped"
      \/ \E b \in Activities : In(Call(r, n), notify'[b])
  BY <1>n DEF ToldNothing
<1>i. (self[r] = <<n>> \/ pc[r] = "stopped" \/ \E b \in Activities : In(Call(r, n), notify[b])) =>
         Drained'
  BY <1>n, ClosedStep DEF NothingInv, ToldNothing
<1>1. ASSUME NEW s \in Senders, SenderMove(s)
      PROVE  Drained'
  <2>1. s \in Activities /\ s # r
    BY Sides
  <2>2. \A b \in Activities : b # s =>
           pc'[b] = pc[b] /\ self'[b] = self[b] /\ notify'[b] = notify[b]
    BY <1>1, <2>1, MoveKinds, PcEffect DEF CoreInv
  <2>3. ASSUME In(Call(r, n), notify'[s]), ~In(Call(r, n), notify[s])
        PROVE  Drained'
    <3>1. CASE PushHands(s)
      <4>1. PICK x : notify'[s] = <<Call(Head(mWaitingReceiver), Some(x))>>
        BY <2>1, <3>1 DEF PushHands, Proceed, CoreInv, TypeInv, ActivityType
      <4>2. Call(r, n) = Call(Head(mWaitingReceiver), Some(x))
        BY <2>3, <4>1, OneDeque
      <4>3. n = Some(x)
        BY <4>2, CallFacts
      <4> QED BY <1>n, <4>3, OptionFacts
    <3>2. CASE PushRefused(s) \/ PushWaits(s) \/ PushGoesOn(s)
      <4>1. notify'[s] = <<>>
        BY <2>1, <3>2 DEF PushRefused, PushWaits, PushGoesOn, Proceed, CoreInv, TypeInv, ActivityType
      <4> QED BY <1>e, <2>3, <4>1
    <3>3. CASE PushAccepted(s) \/ PushStops(s) \/ JustLeaves(s, Senders)
      BY <2>3, <3>3 DEF PushAccepted, PushStops, JustLeaves
    <3>4. CASE SenderCloses(s)
      <4>1. notify'[s] = Calls(mWaitingReceiver, n) /\ mWaitingReceiver \in Seq(Receivers)
        BY <1>n, <2>1, <3>4 DEF SenderCloses, CoreInv, TypeInv, ActivityType, ChannelType
      <4>2. \E y \in Receivers : In(y, mWaitingReceiver)
        BY <2>3, <4>1, CallsDeque
      <4>3. mWaitingReceiver # <<>>
        BY <1>e, <4>2
      <4> QED BY <3>4, <4>3 DEF SenderCloses, Leave, QueueInv, Drained
    <3> QED BY <1>1, <3>1, <3>2, <3>3, <3>4 DEF SenderMove
  <2>4. \/ self[r] = <<n>> \/ pc[r] = "stopped" \/ In(Call(r, n), notify'[s])
        \/ \E b \in Activities : In(Call(r, n), notify[b])
    BY <1>c, <1>r, <2>1, <2>2, ToldBefore
  <2> QED BY <1>i, <2>1, <2>3, <2>4
<1>2. ASSUME NEW a \in Receivers, ReceiverMove(a)
      PROVE  Drained'
  <2>1. a \in Activities /\ a \notin Senders
    BY Sides
  <2>2. \A b \in Activities : b # a =>
           pc'[b] = pc[b] /\ self'[b] = self[b] /\ notify'[b] = notify[b]
    BY <1>2, <2>1, MoveKinds, PcEffect DEF CoreInv
  <2>3. CASE r # a
    BY <1>c, <1>i, <1>p, <1>r, <2>1, <2>2, <2>3, ToldBefore
  <2>4. CASE r = a
    <3>1. self'[r] = <<n>> \/ pc'[r] = "stopped" \/ \E b \in Activities : In(Call(r, n), notify[b])
      BY <1>c, <1>p, <2>1, <2>2, <2>4
    <3>2. CASE self'[r] = <<n>>
      <4>1. CASE PopTakes(r) \/ PopWakes(r)
        <5>1. self'[r] = <<Some(Head(mReadyData))>>
          BY <1>r, <4>1 DEF PopTakes, PopWakes, Proceed, CoreInv, TypeInv, ActivityType
        <5> QED BY <1>n, <3>2, <5>1, AnswerFacts, OptionFacts
      <4>2. CASE PopEnds(r)
        BY <4>2 DEF PopEnds, StartPop, Drained
      <4>3. CASE PopWaits(r) \/ PopStops(r) \/ \E x \in Items : PopReturns(r, x)
        <5>1. self'[r] = <<>>
          BY <1>r, <4>3 DEF PopWaits, PopStops, PopReturns, Proceed, CoreInv, TypeInv, ActivityType
        <5> QED BY <3>2, <5>1, AnswerFacts
      <4>4. CASE ReceiverCloses(r) \/ JustLeaves(r, Receivers)
        <5>1. self' = self
          BY <4>4 DEF ReceiverCloses, JustLeaves, Leave
        <5> QED BY <1>i, <3>2, <5>1
      <4> QED BY <1>2, <2>4, <4>1, <4>2, <4>3, <4>4 DEF ReceiverMove
    <3>3. CASE pc'[r] = "stopped"
      <4>1. CASE PopStops(r)
        BY <1>i, <1>n, <4>1 DEF PopStops
      <4>2. CASE ~PopStops(r)
        <5>1. pc'[r] # "stopped"
          BY <1>2, <1>r, <2>4, <4>2 DEF ReceiverMove, PopTakes, PopWakes, PopEnds, PopWaits, PopReturns,
             ReceiverCloses, JustLeaves, Leave, Proceed, CoreInv, TypeInv, ActivityType
        <5> QED BY <3>3, <5>1
      <4> QED BY <4>1, <4>2
    <3> QED BY <1>i, <3>1, <3>2, <3>3
  <2> QED BY <2>3, <2>4
<1>3. ASSUME NEW a \in Activities, Notify(a)
      PROVE  Drained'
  BY <1>3, <1>c, <1>i, <1>r, ToldByCall
<1>4. ASSUME NEW c \in Controllers, NEW cnt, NEW k, SetsMax(c, cnt, k)
      PROVE  Drained'
  <2>1. c \in Activities /\ c \notin Senders
    BY Sides
  <2>2. self' = self /\ pc' = pc /\ \A b \in Activities : b # c => notify'[b] = notify[b]
    BY <1>4, <2>1 DEF SetsMax, CoreInv, TypeInv, ActivityType
  <2> QED BY <1>c, <1>i, <1>p, <2>1, <2>2
<1> QED BY <1>1, <1>2, <1>3, <1>4 DEF Move

\* push() returns false only when the receivers have gone, as long as nobody
\* calls setMaxQueueSize().
LEMMA FalseStep ==
    ASSUME CoreInv, Move, FalseInv, Controllers = {}
    PROVE  FalseInv'
<1> SUFFICES ASSUME NEW s \in Senders, ToldFalse(s)'
             PROVE  mReceiverClosed'
  BY DEF FalseInv
<1>f. PICK f : f = FALSE
  OBVIOUS
<1>s. s \in Activities /\ s \notin Receivers
  BY Sides
<1>e. \A c : ~In(c, <<>>)
  BY EmptyDeque
<1>t. TypeInv'
  BY TypeStep, SenderMoveType, ReceiverMoveType, NotifyEffect, SetsMaxType DEF Move, CoreInv
<1>p. \A b \in Senders : ~In(Call(s, f), notify'[b])
  <2> SUFFICES ASSUME NEW b \in Senders, In(Call(s, f), notify'[b])
               PROVE  FALSE
    OBVIOUS
  <2>1. notify'[b] \in Seq(PopCalls)
    BY <1>t, Sides DEF TypeInv, ActivityType
  <2>2. Call(s, f) \in PopCalls
    BY <2>1, NothingIn
  <2>3. Call(s, f).to = s
    BY CallFacts
  <2> QED BY <1>s, <2>2, <2>3, CallFacts
<1>c. \/ self'[s] = <<f>> \/ pc'[s] = "stopped"
      \/ \E b \in Activities : In(Call(s, f), notify'[b])
  BY <1>f DEF ToldFalse
<1>i. (self[s] = <<f>> \/ pc[s] = "stopped" \/ \E b \in Activities : In(Call(s, f), notify[b])) =>
         mReceiverClosed'
  BY <1>f, ClosedStep DEF FalseInv, ToldFalse
<1>1. ASSUME NEW r \in Receivers, ReceiverMove(r)
      PROVE  mReceiverClosed'
  <2>1. r \in Activities /\ r # s
    BY Sides
  <2>2. \A b \in Activities : b # r =>
           pc'[b] = pc[b] /\ self'[b] = self[b] /\ notify'[b] = notify[b]
    BY <1>1, <2>1, MoveKinds, PcEffect DEF CoreInv
  <2>3. ASSUME In(Call(s, f), notify'[r]), ~In(Call(s, f), notify[r])
        PROVE  mReceiverClosed'
    <3>1. CASE PopWakes(r)
      <4>t. PICK t : t = TRUE
        OBVIOUS
      <4>1. notify'[r] = <<Call(Head(mWaitingSender), t)>>
        BY <2>1, <3>1, <4>t DEF PopWakes, Proceed, CoreInv, TypeInv, ActivityType
      <4>2. Call(s, f) = Call(Head(mWaitingSender), t)
        BY <2>3, <4>1, OneDeque
      <4>3. f = t
        BY <4>2, CallFacts
      <4> QED BY <1>f, <4>t, <4>3
    <3>2. CASE PopTakes(r) \/ PopEnds(r) \/ PopWaits(r)
      <4>1. notify'[r] = <<>>
        BY <2>1, <3>2 DEF PopTakes, PopEnds, PopWaits, Proceed, CoreInv, TypeInv, ActivityType
      <4> QED BY <1>e, <2>3, <4>1
    <3>3. CASE PopStops(r) \/ (\E x \in Items : PopReturns(r, x)) \/ JustLeaves(r, Receivers)
      BY <2>3, <3>3 DEF PopStops, PopReturns, JustLeaves
    <3>4. CASE ReceiverCloses(r)
      BY <3>4 DEF ReceiverCloses
    <3> QED BY <1>1, <3>1, <3>2, <3>3, <3>4 DEF ReceiverMove
  <2>4. \/ self[s] = <<f>> \/ pc[s] = "stopped" \/ In(Call(s, f), notify'[r])
        \/ \E b \in Activities : In(Call(s, f), notify[b])
    BY <1>c, <1>s, <2>1, <2>2, ToldBefore
  <2> QED BY <1>i, <2>1, <2>3, <2>4
<1>2. ASSUME NEW a \in Senders, SenderMove(a)
      PROVE  mReceiverClosed'
  <2>1. a \in Activities
    BY Sides
  <2>2. \A b \in Activities : b # a =>
           pc'[b] = pc[b] /\ self'[b] = self[b] /\ notify'[b] = notify[b]
    BY <1>2, <2>1, MoveKinds, PcEffect DEF CoreInv
  <2>3. CASE s # a
    BY <1>c, <1>i, <1>p, <1>s, <2>1, <2>2, <2>3, ToldBefore
  <2>4. CASE s = a
    <3>1. self'[s] = <<f>> \/ pc'[s] = "stopped" \/ \E b \in Activities : In(Call(s, f), notify[b])
      BY <1>c, <1>p, <2>1, <2>2, <2>4
    <3>2. CASE self'[s] = <<f>>
      <4>1. CASE PushHands(s) \/ PushGoesOn(s)
        <5>1. self'[s] = <<TRUE>>
          BY <1>s, <4>1 DEF PushHands, PushGoesOn, Proceed, CoreInv, TypeInv, ActivityType
        <5> QED BY <1>f, <3>2, <5>1, AnswerFacts
      <4>2. CASE PushRefused(s)
        BY <4>2 DEF PushRefused, StartPush
      <4>3. CASE PushWaits(s) \/ PushAccepted(s) \/ PushStops(s)
        <5>1. self'[s] = <<>>
          BY <1>s, <4>3 DEF PushWaits, PushAccepted, PushStops, Proceed, CoreInv, TypeInv, ActivityType
        <5> QED BY <3>2, <5>1, AnswerFacts
      <4>4. CASE SenderCloses(s) \/ JustLeaves(s, Senders)
        <5>1. self' = self
          BY <4>4 DEF SenderCloses, JustLeaves, Leave
        <5> QED BY <1>i, <3>2, <5>1
      <4> QED BY <1>2, <2>4, <4>1, <4>2, <4>3, <4>4 DEF SenderMove
    <3>3. CASE pc'[s] = "stopped"
      <4>1. CASE PushStops(s)
        BY <1>i, <1>f, <4>1 DEF PushStops
      <4>2. CASE ~PushStops(s)
        <5>1. pc'[s] # "stopped"
          BY <1>2, <1>s, <2>4, <4>2 DEF SenderMove, PushHands, PushRefused, PushWaits, PushGoesOn,
             PushAccepted, SenderCloses, JustLeaves, Leave, Proceed, CoreInv, TypeInv, ActivityType
        <5> QED BY <3>3, <5>1
      <4> QED BY <4>1, <4>2
    <3> QED BY <1>i, <3>1, <3>2, <3>3
  <2> QED BY <2>3, <2>4
<1>3. ASSUME NEW a \in Activities, Notify(a)
      PROVE  mReceiverClosed'
  BY <1>3, <1>c, <1>i, <1>s, ToldByCall
<1> QED BY <1>1, <1>2, <1>3 DEF Move

-----------------------------------------------------------------------------
(* The theorems.                                                           *)

\* The inductive invariant.
IInv == CoreInv /\ QueueInv /\ BoundInv /\ OrderInv /\ KeptInv /\ NothingInv

\* The inductive invariant holds initially.
LEMMA InitIInv ==
    ASSUME Fresh
    PROVE  IInv /\ FalseInv /\ (mMaxQueueSize = QueueSize => SizeInv)
<1>1. CoreInv
  BY CoreInit
<1>2. /\ mReadyData = <<>> /\ mWaitingSender = <<>> /\ mWaitingReceiver = <<>>
      /\ Len(<<>>) = 0
      /\ \A x : ~In(x, <<>>)
      /\ \A a \in Activities : self[a] = <<>> /\ notify[a] = <<>> /\ pc[a] \in {"idle", "left"}
      /\ \A s \in Senders : s \in Activities /\ sent[s] = 0 /\ accepted[s] = 0
      /\ \A r \in Receivers : r \in Activities /\ received[r] = <<>>
  BY EmptyDeque, Sides DEF Fresh
<1>3. QueueInv /\ (mMaxQueueSize = QueueSize => SizeInv)
  BY <1>2, SizesPositive DEF QueueInv, SizeInv
<1>4. BoundInv
  <2>1. PICK B : B = {s \in Senders : Blocked(s)}
    OBVIOUS
  <2>2. Cardinality(B) \in Nat
    BY <2>1, CountBlocked
  <2>3. QueueBound >= 1 /\ QueueBound \in Nat
    BY BoundFacts, SizesPositive DEF Sizes
  <2>4. 0 <= QueueBound - 1 + Cardinality(B)
    BY <2>2, <2>3
  <2> QED BY <1>2, <2>1, <2>4 DEF BoundInv
<1>5. \A r \in Receivers : \A x : ~Out(r, x) /\ ~OnItsWay(r, x)
  BY <1>2, AnswerFacts DEF Out, OnItsWay
<1>6. Ordered(<<>>)
  BY DEF Ordered
<1>7. OrderInv
  <2>1. \A x : ~In(x, mReadyData) /\ ~Somewhere(x)
    BY <1>2, <1>5 DEF Somewhere
  <2>2. Ordered(mReadyData) /\ \A r \in Receivers : Ordered(received[r])
    BY <1>2, <1>6
  <2> QED BY <1>5, <2>1, <2>2 DEF OrderInv
<1>8. KeptInv
  <2>1. ASSUME NEW s \in Senders, NEW i \in 1..accepted[s]
        PROVE  FALSE
    BY <1>2, <2>1
  <2>2. \A s \in Senders : pc[s] # "await"
    BY <1>2
  <2> QED BY <2>1, <2>2, Zenon DEF KeptInv
<1>9. FalseInv /\ NothingInv
  <2>1. \A v : <<v>> # <<>>
    BY AnswerFacts
  <2> QED BY <1>2, <2>1, Zenon DEF FalseInv, ToldFalse, NothingInv, ToldNothing
<1> QED BY <1>1, <1>3, <1>4, <1>7, <1>8, <1>9 DEF IInv

\* A stuttering step keeps the invariant.
LEMMA StutterIInv ==
    ASSUME UNCHANGED vars
    PROVE  /\ QueueInv => QueueInv'
           /\ BoundInv => BoundInv'
           /\ SizeInv => SizeInv'
           /\ OrderInv => OrderInv'
           /\ KeptInv => KeptInv'
           /\ NothingInv => NothingInv'
           /\ FalseInv => FalseInv'
<1> USE DEF vars, channelVars
<1>1. (QueueInv => QueueInv') /\ (SizeInv => SizeInv')
  BY DEF QueueInv, SizeInv
<1>2. BoundInv => BoundInv'
  <2>1. \A s : Blocked(s)' <=> Blocked(s)
    BY DEF Blocked
  <2>2. {s \in Senders : Blocked(s)}' = {s \in Senders : Blocked(s)}
    BY <2>1
  <2> QED BY <2>2 DEF BoundInv
<1>3. \A r, x : (Out(r, x)' <=> Out(r, x)) /\ (OnItsWay(r, x)' <=> OnItsWay(r, x))
  BY DEF Out, OnItsWay
<1>4. \A x : Somewhere(x)' <=> Somewhere(x)
  BY <1>3 DEF Somewhere
<1>5. OrderInv => OrderInv'
  BY <1>3, <1>4 DEF OrderInv
<1>6. KeptInv => KeptInv'
  BY <1>4 DEF KeptInv, Somewhere, Out, OnItsWay
<1>7. (NothingInv => NothingInv') /\ (FalseInv => FalseInv')
  BY DEF NothingInv, ToldNothing, Drained, FalseInv, ToldFalse
<1> QED BY <1>1, <1>2, <1>5, <1>6, <1>7

\* Every step keeps the inductive invariant.
LEMMA StepIInv ==
    ASSUME IInv, [Next]_vars
    PROVE  IInv'
<1>1. CoreInv'
  BY CoreStep DEF IInv
<1>2. CASE Next
  <2>1. Move /\ TypeInv'
    BY <1>1, <1>2, MoveCases DEF IInv, CoreInv
  <2> QED BY <1>1, <2>1, QueueStep, BoundStep, OrderStep, KeptStep, NothingStep
        DEF IInv, CoreInv
<1>3. CASE UNCHANGED vars
  BY <1>1, <1>3, StutterIInv DEF IInv
<1> QED BY <1>2, <1>3

\* The inductive invariant holds in every reachable state of the channel.
THEOREM Invariance == Spec => []IInv
<1>1. Init => IInv
  BY InitFresh, InitIInv
<1>2. IInv /\ [Next]_vars => IInv'
  BY StepIInv
<1> QED BY <1>1, <1>2, PTL DEF Spec

\* Every variable holds a value the code can store in it, and the queue never
\* outgrows its largest size by more than one value per blocked sender.
THEOREM TypeCorrect == Spec => []TypeOK
<1>1. ASSUME IInv PROVE TypeOK
  <2> USE <1>1
  <2>1. /\ mReadyData \in Seq(Items) /\ mWaitingSender \in Seq(Senders)
        /\ mWaitingReceiver \in Seq(Receivers)
        /\ mSenderClosed \in BOOLEAN /\ mReceiverClosed \in BOOLEAN
        /\ mMaxQueueSize \in NewSizes \cup {QueueSize}
        /\ pc \in [Activities -> {"idle", "await", "stopped", "left"}]
    BY DEF IInv, CoreInv, TypeInv, ChannelType, ActivityType, Sizes, PCs
  <2>2. /\ Elements(mReadyData) \subseteq Senders \X (1..MaxItems)
        /\ Elements(mWaitingSender) \subseteq Senders
        /\ Elements(mWaitingReceiver) \subseteq Receivers
    BY <2>1, LenProperties DEF Elements, Items
  <2>3. Len(mReadyData) < QueueBound + Cardinality(Senders)
    <3>1. PICK B : B = {s \in Senders : Blocked(s)}
      OBVIOUS
    <3>2. Cardinality(B) \in Nat /\ Cardinality(B) <= Cardinality(Senders)
      BY <3>1, CountBlocked
    <3>3. Cardinality(Senders) \in Nat
      BY BothSides, FS_CardinalityType
    <3>4. Len(mReadyData) <= QueueBound - 1 + Cardinality(B)
      BY <3>1 DEF IInv, BoundInv
    <3>5. Len(mReadyData) \in Nat
      BY <2>1, LenProperties
    <3> QED BY <3>2, <3>3, <3>4, <3>5, BoundFacts
  <2>4. \A a \in Activities : Len(self[a]) \in 0..1
    <3>1. Len(<<>>) = 0 /\ \A o : Len(<<o>>) = 1
      OBVIOUS
    <3>2. \A v \in PushAnswers \cup PopAnswers : v = <<>> \/ \E o : v = <<o>>
      BY DEF PushAnswers, PopAnswers
    <3>3. \A v \in PushAnswers \cup PopAnswers : Len(v) \in 0..1
      BY <3>1, <3>2
    <3> QED BY <3>3 DEF IInv, CoreInv, TypeInv, ActivityType
  <2>5. \A a \in Activities : \A i \in 1..Len(notify[a]) : notify[a][i].to \in Activities
    <3> TAKE a \in Activities
    <3> TAKE i \in 1..Len(notify[a])
    <3>1. In(notify[a][i], notify[a])
      BY DEF In
    <3> QED BY <3>1, CallTargets DEF IInv, CoreInv
  <2>6. \A s \in Senders : sent[s] \in 0..MaxItems /\ accepted[s] \in 0..sent[s]
    <3> TAKE s \in Senders
    <3>1. sent[s] \in 0..MaxItems /\ accepted[s] \in Nat
      BY DEF IInv, CoreInv, TypeInv, CountType
    <3>2. accepted[s] = sent[s] \/ accepted[s] + 1 = sent[s]
      BY DEF IInv, CoreInv, CountInv
    <3> QED BY <3>1, <3>2, MaxItemsNat
  <2> QED BY <2>1, <2>2, <2>3, <2>4, <2>5, <2>6 DEF TypeOK
<1> QED BY <1>1, Invariance, PTL

\* Receivers wait only while there is no value, and senders only while the
\* values of those that do not wait are one short of the size of the queue. The
\* size in WaitOnlyIfNeeded tells whether setMaxQueueSize() was called: it is
\* never called with the initial size.
THEOREM NoNeedlessWait ==
    ASSUME QueueSize \notin NewSizes
    PROVE  Spec => []WaitOnlyIfNeeded
<1>1. Init => IInv /\ SizeInv
  BY InitFresh, InitIInv DEF Init
<1>2. IInv /\ SizeInv /\ [Next]_vars => (IInv /\ SizeInv)'
  <2> SUFFICES ASSUME IInv, SizeInv, [Next]_vars PROVE SizeInv'
    BY StepIInv
  <2>1. CASE Next
    <3>1. Move /\ TypeInv /\ TypeInv' /\ QueueInv
      BY <2>1, MoveCases, CoreStep DEF IInv, CoreInv
    <3> QED BY <3>1, SizeStep
  <2>2. CASE UNCHANGED vars
    BY <2>2, StutterIInv
  <2> QED BY <2>1, <2>2
<1>3. IInv /\ SizeInv => WaitOnlyIfNeeded
  <2> SUFFICES ASSUME IInv, SizeInv PROVE WaitOnlyIfNeeded
    OBVIOUS
  <2>1. mWaitingReceiver # <<>> => mReadyData = <<>> /\ mWaitingSender = <<>>
    BY LenFacts DEF IInv, CoreInv, QueueInv
  <2> QED BY <2>1 DEF WaitOnlyIfNeeded, SizeInv
<1> QED BY <1>1, <1>2, <1>3, PTL DEF Spec

\* A step keeps what a refused push() means, as long as nobody calls
\* setMaxQueueSize().
LEMMA RefusalStep ==
    ASSUME IInv, FalseInv, Controllers = {}, [Next]_vars
    PROVE  FalseInv'
<1>1. CASE Next
  <2>1. Move
    BY <1>1, MoveCases DEF IInv, CoreInv
  <2> QED BY <2>1, FalseStep DEF IInv
<1>2. CASE UNCHANGED vars
  BY <1>2, StutterIInv
<1> QED BY <1>1, <1>2

\* As long as nobody calls setMaxQueueSize(), push() returns false only when
\* the receivers have gone, as forEach() takes it: the two disagree only over
\* the false that setMaxQueueSize() answers.
THEOREM RefusedMeansClosed ==
    ASSUME Controllers = {}
    PROVE  Spec => []FalseMeansClosed
<1>1. Init => IInv /\ FalseInv
  BY InitFresh, InitIInv
<1>2. IInv /\ FalseInv /\ [Next]_vars => (IInv /\ FalseInv)'
  BY StepIInv, RefusalStep
<1>3. FalseInv => FalseMeansClosed
  BY DEF FalseInv, ToldFalse, FalseMeansClosed
<1> QED BY <1>1, <1>2, <1>3, PTL DEF Spec

\* Each receiver gets the values of a sender in the order they were pushed.
THEOREM PushOrder == Spec => []SenderOrder
<1>1. IInv => SenderOrder
  BY DEF IInv, OrderInv, SenderOrder, Ordered, Before
<1> QED BY <1>1, Invariance, PTL

\* A value is at one place at most, and at one if it is somewhere.
LEMMA OnePlace ==
    ASSUME IInv, NEW x \in Items
    PROVE  /\ \A p, q \in Places(x) : p = q
           /\ Places(x) # {} <=> Somewhere(x)
<1> DEFINE P1 == Tagged("queue", mReadyData, x)
           CallAt(a) == {i \in 1..Len(notify[a]) :
                           notify[a][i].to \in Receivers /\ notify[a][i].val = <<x>>}
           P2 == UNION {{<<"call", a, i>> : i \in CallAt(a)} : a \in Senders}
           P3 == {<<"self", r>> : r \in {r \in Receivers : self[r] = <<<<x>>>>}}
           P4 == UNION {{<<"received", r, i>> : i \in Positions(received[r], x)} : r \in Receivers}
<1>1. Places(x) = P1 \cup P2 \cup P3 \cup P4
  <2>1. P1 = {<<"queue", i>> : i \in Positions(mReadyData, x)}
    BY DEF Tagged
  <2>2. Places(x) = {<<"queue", i>> : i \in Positions(mReadyData, x)} \cup P2 \cup P3 \cup P4
    BY DEF Places
  <2> QED BY <2>1, <2>2
<1>2. CoreInv /\ OrderInv
  BY DEF IInv
<1>3. /\ Distinct(mReadyData)
      /\ \A r \in Receivers : Distinct(received[r])
  BY <1>2, OrderedDistinct DEF OrderInv, CoreInv, TypeInv, ChannelType, CountType
<1>b. ~Before(x, x)
  BY ItemFacts DEF Before
<1>4. (P1 # {} <=> In(x, mReadyData)) /\ \A p, q \in P1 : p = q
  BY <1>3, TaggedPositions
<1>5. ASSUME NEW a \in Senders, NEW i \in CallAt(a)
      PROVE  \E r \in Receivers : /\ notify[a][i] = Call(r, Some(x))
                                  /\ In(Call(r, Some(x)), notify[a])
                                  /\ OnItsWay(r, x) /\ self[r] = <<>>
  <2>1. In(notify[a][i], notify[a])
    BY DEF In
  <2>2. PICK r \in Receivers : notify[a][i] = Call(r, Some(x)) /\ notify[a][i].to = r
    BY <1>2, <2>1, CallTargets, CallFacts, Sides DEF CoreInv, Some
  <2>3. self[r] = <<>>
    BY <1>2, <2>1, <2>2, Sides DEF CoreInv, WakeInv, Waits
  <2> QED BY <2>1, <2>2, <2>3 DEF OnItsWay
<1>6. ASSUME NEW a \in Senders, NEW r \in Receivers, In(Call(r, Some(x)), notify[a])
      PROVE  \E i \in CallAt(a) : TRUE
  BY <1>6, CallFacts DEF In, Some
<1>7. \A p \in P2 : \E a \in Senders : \E i \in CallAt(a) : p = <<"call", a, i>>
  OBVIOUS
<1>8. \A p \in P3 : \E r \in Receivers : p = <<"self", r>> /\ self[r] = <<Some(x)>> /\ OnItsWay(r, x)
  BY DEF OnItsWay, Some
<1>9. \A p \in P4 : \E r \in Receivers : \E i \in Positions(received[r], x) : p = <<"received", r, i>>
  OBVIOUS
<1>10. \A r \in Receivers : \A i \in Positions(received[r], x) : In(x, received[r])
  BY DEF Positions, In
<1>11. \A r1, r2 \in Receivers : Out(r1, x) /\ Out(r2, x) => r1 = r2
  BY <1>2 DEF OrderInv
<1>12. \A r \in Receivers : ~(OnItsWay(r, x) /\ In(x, received[r]))
  BY <1>2, <1>b DEF OrderInv
<1>13. \A r \in Receivers : Out(r, x) => ~In(x, mReadyData)
  BY <1>2, <1>b DEF OrderInv
<1>14. \A p, q \in P2 : p = q
  <2>1. ASSUME NEW a \in Senders, NEW b \in Senders, NEW i \in CallAt(a), NEW j \in CallAt(b)
        PROVE  a = b /\ i = j
    <3>1. PICK r1 \in Receivers : /\ notify[a][i] = Call(r1, Some(x))
                                  /\ In(notify[a][i], notify[a]) /\ OnItsWay(r1, x)
      BY <1>5
    <3>2. PICK r2 \in Receivers : /\ notify[b][j] = Call(r2, Some(x))
                                  /\ In(notify[b][j], notify[b]) /\ OnItsWay(r2, x)
      BY <1>5
    <3>3. r1 = r2
      BY <1>11, <3>1, <3>2 DEF Out
    <3>4. a = b
      BY <1>2, <3>1, <3>2, <3>3, Sides DEF CoreInv, WakeInv
    <3>5. Distinct(notify[a])
      BY <1>2, Sides DEF CoreInv, WakeInv
    <3> QED BY <3>1, <3>2, <3>3, <3>4, <3>5 DEF Distinct
  <2> HIDE DEF CallAt, P2
  <2> QED BY <1>7, <2>1
<1>15. \A p, q \in P3 : p = q
  BY <1>8, <1>11 DEF Out
<1>16. \A p, q \in P4 : p = q
  <2>1. ASSUME NEW r \in Receivers, NEW i \in Positions(received[r], x),
               NEW t \in Receivers, NEW j \in Positions(received[t], x)
        PROVE  r = t /\ i = j
    <3>1. r = t
      BY <1>10, <1>11 DEF Out
    <3> QED BY <1>3, <3>1 DEF Positions, Distinct
  <2> HIDE DEF P4
  <2> QED BY <1>9, <2>1, SMTT(20)
<1>17. /\ P2 # {} => \E r \in Receivers : OnItsWay(r, x) /\ self[r] = <<>>
       /\ P3 # {} => \E r \in Receivers : OnItsWay(r, x) /\ self[r] = <<Some(x)>>
       /\ P4 # {} => \E r \in Receivers : In(x, received[r])
  <2> HIDE DEF P2, P3, P4, CallAt
  <2> QED BY <1>5, <1>7, <1>8, <1>9, <1>10
<1>18. /\ (\E r \in Receivers : OnItsWay(r, x)) => P2 # {} \/ P3 # {}
       /\ (\E r \in Receivers : In(x, received[r])) => P4 # {}
  <2>1. ASSUME NEW r \in Receivers, NEW a \in Senders, In(Call(r, Some(x)), notify[a])
        PROVE  P2 # {}
    <3>1. PICK i \in CallAt(a) : TRUE
      BY <1>6, <2>1
    <3>2. <<"call", a, i>> \in P2
      BY <3>1
    <3> QED BY <3>2
  <2>2. ASSUME NEW r \in Receivers, self[r] = <<Some(x)>>
        PROVE  P3 # {}
    BY <2>2 DEF Some
  <2>3. ASSUME NEW r \in Receivers, In(x, received[r])
        PROVE  P4 # {}
    <3>1. PICK i \in Positions(received[r], x) : TRUE
      BY <2>3 DEF Positions, In
    <3>2. <<"received", r, i>> \in P4
      BY <3>1
    <3> QED BY <3>2
  <2> HIDE DEF P2, P3, P4, CallAt
  <2> QED BY <2>1, <2>2, <2>3 DEF OnItsWay
<1>19. <<Some(x)>> # <<>>
  BY AnswerFacts
<1> HIDE DEF P1, P2, P3, P4, CallAt
<1>20. /\ P1 # {} => P2 = {} /\ P3 = {} /\ P4 = {}
       /\ P2 # {} => P3 = {} /\ P4 = {}
       /\ P3 # {} => P4 = {}
  <2>1. ~(P2 # {} /\ P3 # {})
    BY <1>11, <1>17, <1>19 DEF Out
  <2>2. ~(P4 # {} /\ (P2 # {} \/ P3 # {}))
    BY <1>11, <1>12, <1>17 DEF Out
  <2>3. P1 # {} => P2 = {} /\ P3 = {} /\ P4 = {}
    BY <1>4, <1>13, <1>17 DEF Out
  <2> QED BY <2>1, <2>2, <2>3
<1>21. \A p, q \in Places(x) : p = q
  BY <1>1, <1>4, <1>14, <1>15, <1>16, <1>20
<1>22. Places(x) # {} <=> Somewhere(x)
  BY <1>1, <1>4, <1>17, <1>18 DEF Somewhere, Out
<1> QED BY <1>21, <1>22

\* A value is neither lost nor delivered twice, whoever comes and goes.
THEOREM NothingLost == Spec => []ExactlyOnce
<1>1. ASSUME IInv PROVE ExactlyOnce
  <2> SUFFICES ASSUME NEW s \in Senders, NEW i \in 1..sent[s]
               PROVE  /\ Cardinality(Places(Item(s, i))) <= 1
                      /\ i <= accepted[s] \/ (pc[s] = "await" /\ self[s] # <<FALSE>>)
                           => Cardinality(Places(Item(s, i))) = 1
    BY DEF ExactlyOnce
  <2>1. sent[s] \in 0..MaxItems /\ accepted[s] \in Nat
    BY <1>1 DEF IInv, CoreInv, TypeInv, CountType
  <2>2. Item(s, i) \in Items
    BY <2>1, ItemFacts, MaxItemsNat
  <2>3. /\ Cardinality(Places(Item(s, i))) <= 1
        /\ Places(Item(s, i)) # {} => Cardinality(Places(Item(s, i))) = 1
    <3>1. PICK P : P = Places(Item(s, i))
      OBVIOUS
    <3>2. \A p, q \in P : p = q
      BY <1>1, <2>2, <3>1, OnePlace
    <3> QED BY <3>1, <3>2, AtMostOne
  <2>4. ASSUME i <= accepted[s] PROVE Somewhere(Item(s, i))
    <3>1. i \in 1..accepted[s]
      BY <2>1, <2>4
    <3>2. KeptInv
      BY <1>1 DEF IInv
    <3> QED BY <3>1, <3>2 DEF KeptInv
  <2>5. ASSUME pc[s] = "await", self[s] # <<FALSE>>
        PROVE  Somewhere(Item(s, i))
    <3>1. accepted[s] + 1 = sent[s] /\ Somewhere(Item(s, sent[s]))
      BY <1>1, <2>5 DEF IInv, CoreInv, CountInv, KeptInv
    <3>2. i <= accepted[s] \/ i = sent[s]
      BY <2>1, <3>1
    <3> QED BY <2>4, <3>1, <3>2
  <2> QED BY <1>1, <2>2, <2>3, <2>4, <2>5, OnePlace
<1> QED BY <1>1, Invariance, PTL

=============================================================================
