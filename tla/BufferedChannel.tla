-------------------------- MODULE BufferedChannel --------------------------
(***************************************************************************)
(* co::BufferedChannel<T> of include/co/channel.hpp with the handles that  *)
(* makeBufferedChannel() returns: the senders share one Sender and the     *)
(* receivers share one Receiver, and the last to let go of its handle      *)
(* closes that side.                                                       *)
(*                                                                         *)
(* What an operation does under mMutex is one step. The set_value() calls  *)
(* it makes after the unlock are steps of their own, and so is its return  *)
(* from co::await(self).                                                   *)
(***************************************************************************)
EXTENDS Integers, Sequences, FiniteSets

CONSTANTS Senders, Receivers,
          Controllers,  \* activities that call setMaxQueueSize()
          MaxItems,     \* bound on the values pushed per sender
          QueueSize,    \* the size given to makeBufferedChannel()
          NewSizes      \* the sizes given to setMaxQueueSize() later on

ASSUME PartsDisjoint == /\ Senders \cap Receivers = {}
                        /\ (Senders \cup Receivers) \cap Controllers = {}
ASSUME BothSides == Senders # {} /\ Receivers # {} /\ IsFiniteSet(Senders)
ASSUME SizesPositive == QueueSize \in Nat \ {0} /\ NewSizes \subseteq Nat \ {0}
ASSUME LargestSize == \E n \in NewSizes \cup {QueueSize} :
                          \A m \in NewSizes \cup {QueueSize} : m <= n
ASSUME MaxItemsNat == MaxItems \in Nat

Activities == Senders \cup Receivers \cup Controllers

VARIABLES mReadyData, mWaitingSender, mWaitingReceiver,  \* the three deques
          mSenderClosed, mReceiverClosed, mMaxQueueSize,
          self,      \* self[a]: the future of a's push() or pop(), <<>> until set
          notify,    \* notify[a]: the set_value() calls a has yet to make
          pc,        \* pc[a]: "idle", "await", "stopped" or "left"
          sent,      \* sent[s]: number of values s has passed to push()
          accepted,  \* accepted[s]: number of calls of push() that returned true
          received   \* received[r]: what the calls of pop() returned

channelVars == <<mReadyData, mWaitingSender, mWaitingReceiver, mSenderClosed,
                 mReceiverClosed, mMaxQueueSize>>
vars == <<channelVars, self, notify, pc, sent, accepted, received>>

\* The i-th value of sender s.
Item(s, i) == <<s, i>>

\* A std::optional<T> without a value.
NullOpt == <<>>

Init ==
    /\ mReadyData = <<>> /\ mWaitingSender = <<>> /\ mWaitingReceiver = <<>>
    /\ mSenderClosed = FALSE /\ mReceiverClosed = FALSE
    /\ mMaxQueueSize = QueueSize
    /\ self = [a \in Activities |-> <<>>]
    /\ notify = [a \in Activities |-> <<>>]
    /\ pc = [a \in Activities |-> "idle"]
    /\ sent = [s \in Senders |-> 0]
    /\ accepted = [s \in Senders |-> 0]
    /\ received = [r \in Receivers |-> <<>>]

-----------------------------------------------------------------------------
(* The decisions of the code, each with the wrong variants of it that the  *)
(* mutation runs substitute.                                               *)

KeepFront(queue) == queue
\* The helper pop(queue): what it leaves in the deque.
WithoutFront(queue) == Tail(queue)

PushFront(queue, val) == <<val>> \o queue
\* push(): the value joins the queue.
PushBack(queue, val) == Append(queue, val)

FullLater(size, max) == size > max
\* push(): the queue is full once the value is in it.
IsFull(size, max) == size >= max

WakeNobody(waiting) == <<>>
WakeLast(waiting) == IF waiting = <<>> THEN <<>> ELSE <<waiting[Len(waiting)]>>
\* pop(): the sender that may go on.
SenderToWake(waiting) == IF waiting = <<>> THEN <<>> ELSE <<Head(waiting)>>

QueueFirst(waiting) == FALSE
\* push(): a receiver waits and gets the value directly.
HandsOver(waiting) == waiting # <<>>

WakeFirst(waiting) == IF waiting = <<>> THEN <<>> ELSE <<Head(waiting)>>
\* closeSender() and closeReceiver() notify everybody who waits.
ToNotify(waiting) == waiting

\* setMaxQueueSize(): how many of the waiting senders may go on.
SendersToWake(cnt) ==
    IF Len(mReadyData) < cnt /\ mMaxQueueSize < cnt
      THEN IF cnt - mMaxQueueSize < Len(mWaitingSender)
             THEN cnt - mMaxQueueSize ELSE Len(mWaitingSender)
      ELSE 0

-----------------------------------------------------------------------------
Call(to, val) == [to |-> to, val |-> val]
Calls(waiting, val) == [i \in 1..Len(waiting) |-> Call(waiting[i], val)]

\* a goes on to make the calls, and then to await its own future if it has one.
Proceed(a, own, calls) ==
    /\ self' = [self EXCEPT ![a] = own]
    /\ notify' = [notify EXCEPT ![a] = calls]
    /\ pc' = [pc EXCEPT ![a] = "await"]

Push(s) ==
    LET item == Item(s, sent[s] + 1) IN
    /\ pc[s] = "idle"
    /\ sent[s] < MaxItems
    /\ sent' = [sent EXCEPT ![s] = @ + 1]
    /\ \/ /\ HandsOver(mWaitingReceiver)
          /\ mWaitingReceiver' = WithoutFront(mWaitingReceiver)
          /\ Proceed(s, <<TRUE>>, <<Call(Head(mWaitingReceiver), <<item>>)>>)
          /\ UNCHANGED <<mReadyData, mWaitingSender>>
       \/ /\ ~HandsOver(mWaitingReceiver)
          /\ mReceiverClosed
          /\ Proceed(s, <<FALSE>>, <<>>)
          /\ UNCHANGED <<mReadyData, mWaitingSender, mWaitingReceiver>>
       \/ /\ ~HandsOver(mWaitingReceiver)
          /\ ~mReceiverClosed
          /\ mReadyData' = PushBack(mReadyData, item)
          /\ IF IsFull(Len(mReadyData) + 1, mMaxQueueSize)
               THEN mWaitingSender' = Append(mWaitingSender, s) /\ Proceed(s, <<>>, <<>>)
               ELSE Proceed(s, <<TRUE>>, <<>>) /\ UNCHANGED mWaitingSender
          /\ UNCHANGED mWaitingReceiver
    /\ UNCHANGED <<mSenderClosed, mReceiverClosed, mMaxQueueSize, accepted, received>>

Pop(r) ==
    /\ pc[r] = "idle"
    /\ \/ /\ mReadyData # <<>>
          /\ mReadyData' = WithoutFront(mReadyData)
          /\ mWaitingSender' = IF SenderToWake(mWaitingSender) = <<>>
                                 THEN mWaitingSender ELSE WithoutFront(mWaitingSender)
          /\ Proceed(r, <<<<Head(mReadyData)>>>>, Calls(SenderToWake(mWaitingSender), TRUE))
          /\ UNCHANGED mWaitingReceiver
       \/ /\ mReadyData = <<>>
          /\ mSenderClosed
          /\ Proceed(r, <<NullOpt>>, <<>>)
          /\ UNCHANGED <<mReadyData, mWaitingSender, mWaitingReceiver>>
       \/ /\ mReadyData = <<>>
          /\ ~mSenderClosed
          /\ mWaitingReceiver' = Append(mWaitingReceiver, r)
          /\ Proceed(r, <<>>, <<>>)
          /\ UNCHANGED <<mReadyData, mWaitingSender>>
    /\ UNCHANGED <<mSenderClosed, mReceiverClosed, mMaxQueueSize, sent, accepted, received>>

\* One set_value() after the unlock.
Notify(a) ==
    /\ notify[a] # <<>>
    /\ self' = [self EXCEPT ![Head(notify[a]).to] = <<Head(notify[a]).val>>]
    /\ notify' = [notify EXCEPT ![a] = Tail(@)]
    /\ UNCHANGED <<channelVars, pc, sent, accepted, received>>

\* co::await(self) returns; a sender stops when it is told false, a receiver
\* when it gets nothing.
PushReturn(s) ==
    /\ pc[s] = "await" /\ notify[s] = <<>> /\ self[s] # <<>>
    /\ pc' = [pc EXCEPT ![s] = IF self[s][1] THEN "idle" ELSE "stopped"]
    /\ accepted' = [accepted EXCEPT ![s] = IF self[s][1] THEN @ + 1 ELSE @]
    /\ self' = [self EXCEPT ![s] = <<>>]
    /\ UNCHANGED <<channelVars, notify, sent, received>>

PopReturn(r) ==
    /\ pc[r] = "await" /\ notify[r] = <<>> /\ self[r] # <<>>
    /\ pc' = [pc EXCEPT ![r] = IF self[r][1] = NullOpt THEN "stopped" ELSE "idle"]
    /\ received' = [received EXCEPT ![r] = @ \o self[r][1]]
    /\ self' = [self EXCEPT ![r] = <<>>]
    /\ UNCHANGED <<channelVars, notify, sent, accepted>>

\* a lets go of the shared handle; the last of its side runs ~Sender() or
\* ~Receiver(), which close the channel from that side.
Leave(a) ==
    /\ pc[a] \in {"idle", "stopped"}
    /\ pc' = [pc EXCEPT ![a] = "left"]
    /\ UNCHANGED <<mReadyData, mMaxQueueSize, self, sent, accepted, received>>

NeverLast(a, side) == FALSE
\* a holds the last reference to the handle of its side.
Last(a, side) == \A b \in side \ {a} : pc[b] = "left"

SenderLeaves(s) ==
    /\ Leave(s)
    /\ IF Last(s, Senders)
         THEN /\ mSenderClosed' = TRUE
              /\ notify' = [notify EXCEPT ![s] = Calls(ToNotify(mWaitingReceiver), NullOpt)]
              /\ mWaitingReceiver' = <<>>
         ELSE UNCHANGED <<mSenderClosed, notify, mWaitingReceiver>>
    /\ UNCHANGED <<mWaitingSender, mReceiverClosed>>

ReceiverLeaves(r) ==
    /\ Leave(r)
    /\ IF Last(r, Receivers)
         THEN /\ mReceiverClosed' = TRUE
              /\ notify' = [notify EXCEPT ![r] = Calls(ToNotify(mWaitingSender), FALSE)]
              /\ mWaitingSender' = <<>>
         ELSE UNCHANGED <<mReceiverClosed, notify, mWaitingSender>>
    /\ UNCHANGED <<mWaitingReceiver, mSenderClosed>>

\* setMaxQueueSize(): the senders it lets go on are told false.
SetMaxQueueSize(c, cnt) ==
    LET k == SendersToWake(cnt) IN
    /\ notify[c] = <<>> /\ cnt # mMaxQueueSize
    /\ mMaxQueueSize' = cnt
    /\ mWaitingSender' = SubSeq(mWaitingSender, k + 1, Len(mWaitingSender))
    /\ notify' = [notify EXCEPT ![c] = Calls(SubSeq(mWaitingSender, 1, k), FALSE)]
    /\ UNCHANGED <<mReadyData, mWaitingReceiver, mSenderClosed, mReceiverClosed, self, pc,
                   sent, accepted, received>>

SenderStep(s) == Push(s) \/ PushReturn(s) \/ SenderLeaves(s) \/ Notify(s)
ReceiverStep(r) == Pop(r) \/ PopReturn(r) \/ ReceiverLeaves(r) \/ Notify(r)

Next == \/ \E s \in Senders : SenderStep(s)
        \/ \E r \in Receivers : ReceiverStep(r)
        \/ \E c \in Controllers : Notify(c) \/ \E cnt \in NewSizes : SetMaxQueueSize(c, cnt)

Spec == Init /\ [][Next]_vars

\* Everybody goes on with its operation, and sends, receives or leaves.
FairSpec == /\ Spec
            /\ \A s \in Senders : WF_vars(SenderStep(s))
            /\ \A r \in Receivers : WF_vars(ReceiverStep(r))
            /\ \A c \in Controllers : WF_vars(Notify(c))

-----------------------------------------------------------------------------
(* Properties.                                                             *)

Positions(q, x) == {i \in 1..Len(q) : q[i] = x}
Elements(q) == {q[i] : i \in 1..Len(q)}

\* The largest size the queue is ever given.
QueueBound == CHOOSE n \in NewSizes \cup {QueueSize} : \A m \in NewSizes \cup {QueueSize} : m <= n

\* Every variable holds a value the code can store in it, and the queue never
\* outgrows its size by more than one value per blocked sender.
TypeOK ==
    /\ Elements(mReadyData) \subseteq Senders \X (1..MaxItems)
    /\ Len(mReadyData) < QueueBound + Cardinality(Senders)
    /\ Elements(mWaitingSender) \subseteq Senders
    /\ Elements(mWaitingReceiver) \subseteq Receivers
    /\ mSenderClosed \in BOOLEAN /\ mReceiverClosed \in BOOLEAN
    /\ mMaxQueueSize \in NewSizes \cup {QueueSize}
    /\ \A a \in Activities : Len(self[a]) \in 0..1
    /\ \A a \in Activities : \A i \in 1..Len(notify[a]) : notify[a][i].to \in Activities
    /\ pc \in [Activities -> {"idle", "await", "stopped", "left"}]
    /\ \A s \in Senders : sent[s] \in 0..MaxItems /\ accepted[s] \in 0..sent[s]

\* The pending wakeups of a: its places in the deques and the set_value()
\* calls on their way to it.
Wakers(a) ==
    {<<"sender", i>> : i \in Positions(mWaitingSender, a)}
    \cup {<<"receiver", i>> : i \in Positions(mWaitingReceiver, a)}
    \cup UNION {{<<b, i>> : i \in {i \in 1..Len(notify[b]) : notify[b][i].to = a}} :
                b \in Activities}

\* Every push() or pop() that waits will be woken by exactly one other
\* operation, and none holds a pointer to a future whose owner has returned.
OneWakerEach ==
    \A a \in Activities :
        Cardinality(Wakers(a)) = IF pc[a] = "await" /\ self[a] = <<>> THEN 1 ELSE 0

\* Receivers wait only while there is no value. As long as setMaxQueueSize()
\* was not called (it does not move the values that are already queued),
\* senders wait exactly as the condition of push() has it, whatever was taken
\* and whoever was woken since: a sender waits from the value on that makes the
\* queue as long as mMaxQueueSize, so the values of those that do not wait
\* are at most mMaxQueueSize - 1, and exactly as many while somebody waits.
\* That is one value earlier than the comment above the class says ("if the
\* queue is full"): with size 1 a push() into an empty queue waits.
WaitOnlyIfNeeded ==
    /\ mWaitingReceiver # <<>> => mReadyData = <<>> /\ mWaitingSender = <<>>
    /\ ~mReceiverClosed /\ mMaxQueueSize = QueueSize =>
         /\ Len(mReadyData) - Len(mWaitingSender) <= mMaxQueueSize - 1
         /\ mWaitingSender # <<>> =>
              Len(mReadyData) - Len(mWaitingSender) = mMaxQueueSize - 1

\* The places where a value is between its push() and the return of a pop().
Places(item) ==
    {<<"queue", i>> : i \in Positions(mReadyData, item)}
    \cup (UNION {{<<"call", a, i>> : i \in {i \in 1..Len(notify[a]) :
                    notify[a][i].to \in Receivers /\ notify[a][i].val = <<item>>}} :
                 a \in Senders})
    \cup {<<"self", r>> : r \in {r \in Receivers : self[r] = <<<<item>>>>}}
    \cup (UNION {{<<"received", r, i>> : i \in Positions(received[r], item)} : r \in Receivers})

\* A value is neither lost nor delivered twice: no value is in two places, and
\* one whose push() returned true, or has not yet been told false, is in one.
\* (What is still queued when the receivers leave stays in the queue.)
ExactlyOnce ==
    \A s \in Senders : \A i \in 1..sent[s] :
        /\ Cardinality(Places(Item(s, i))) <= 1
        /\ (i <= accepted[s] \/ (pc[s] = "await" /\ self[s] # <<FALSE>>))
             => Cardinality(Places(Item(s, i))) = 1

\* Each receiver gets the values of a sender in the order they were pushed.
SenderOrder ==
    \A r \in Receivers : \A i, j \in 1..Len(received[r]) :
        i < j /\ received[r][i][1] = received[r][j][1] => received[r][i][2] < received[r][j][2]

\* The asserts of ~BufferedChannel(), when the last handle is gone: both sides
\* are closed, in whichever order they left, and nobody waits on either side.
EndIsClean ==
    (\A a \in Senders \cup Receivers : pc[a] = "left") =>
        /\ mSenderClosed /\ mReceiverClosed
        /\ mWaitingSender = <<>> /\ mWaitingReceiver = <<>>

\* include/co/foreach.hpp and test/CoForEachTests.cpp take false from push()
\* for "the receiver is closed".
FalseMeansClosed ==
    \A s \in Senders : self[s] = <<FALSE>> \/ pc[s] = "stopped" => mReceiverClosed

\* Every push() and every pop() returns, as long as the others go on sending,
\* receiving or leaving.
OperationsReturn ==
    \A a \in Senders \cup Receivers : pc[a] = "await" ~> pc[a] # "await"
=============================================================================
