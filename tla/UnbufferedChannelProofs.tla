---------------------- MODULE UnbufferedChannelProofs ----------------------
(***************************************************************************)
(* Proofs that the rendezvous of UnbufferedChannel keeps its safety        *)
(* properties for every number of values.                                  *)
(***************************************************************************)
EXTENDS UnbufferedChannel, SequenceTheorems, TLAPS

\* A future names the actor that sleeps on it, and a wakeup is on its way only
\* to an actor whose future has been set.
PointerInv ==
    /\ value.ptr = "receiver" <=> rpc = "suspended" /\ "receiver" \notin woken
    /\ "receiver" \in woken => rpc = "suspended" /\ value.ptr = Invalid
    /\ valueRead.ptr = "sender" <=> spc = "suspended" /\ "sender" \notin woken
    /\ "sender" \in woken => spc = "suspended" /\ valueRead.ptr = Invalid

\* A future as emplace() leaves it.
IsFresh(future) == future.ptr = Empty /\ future.val = NoValue

\* Where a receiver is that has not looked at the next value yet.
Before == {"idle", "await", "suspended"}

\* The value of the current push() is set and has not been released.
Offered ==
    /\ value.ptr = Invalid /\ value.val = <<sent>>
    /\ valueRead.ptr # Invalid /\ valueRead.val = NoValue
    /\ rpc \in Before \cup {"take", "emplace"}

\* The receiver has constructed value anew and is setting valueRead.
Releasing ==
    /\ IsFresh(value)
    /\ valueRead.ptr # Invalid
    /\ \/ rpc = "set" /\ valueRead.val = NoValue
       \/ rpc = "ready" /\ valueRead.val = IF closing THEN <<FALSE>> ELSE <<TRUE>>

\* The answer to the current push() is there.
Answered ==
    /\ value.ptr # Invalid /\ value.val = NoValue
    /\ valueRead.ptr = Invalid
    /\ \/ valueRead.val = <<TRUE>> /\ rpc \in Before
       \/ valueRead.val = <<FALSE>> /\ rpc = "left" /\ closing

\* The sender is gone, and the receiver sees it, or has closed its side as well.
SenderGone ==
    \/ /\ value.ptr = Invalid /\ value.val = <<Nullptr>> /\ IsFresh(valueRead)
       /\ \/ rpc \in Before \cup {"take", "ended"}
          \/ rpc \in {"emplace", "left"} /\ closing
    \/ /\ IsFresh(value) /\ closing
       /\ \/ rpc = "set" /\ IsFresh(valueRead)
          \/ rpc = "ready" /\ valueRead.ptr = Empty /\ valueRead.val = <<FALSE>>
          \/ rpc = "left" /\ valueRead.ptr = Invalid /\ valueRead.val = <<FALSE>>

\* What the two futures hold and where the receiver is, for each place where
\* the sender may be.
HandshakeInv ==
    /\ spc \in {"idle", "ready"} =>
         /\ rpc \in Before /\ IsFresh(valueRead)
         /\ value.ptr # Invalid /\ value.val = IF spc = "idle" THEN NoValue ELSE <<sent>>
    /\ spc \in {"await", "suspended"} => Offered \/ Releasing \/ Answered
    /\ spc = "result" => Answered
    /\ spc = "stopped" => IsFresh(value) /\ IsFresh(valueRead) /\ rpc = "left" /\ closing
    /\ spc = "close" => /\ value.ptr # Invalid /\ value.val = <<Nullptr>>
                        /\ IsFresh(valueRead)
                        /\ rpc \in Before \/ (rpc = "left" /\ closing)
    /\ spc = "left" => SenderGone
    /\ rpc = "idle" => ~closing

\* Whether the value of the current push() has been moved out of it.
Moved == \/ Offered /\ rpc = "emplace" /\ ~closing
         \/ Releasing /\ ~closing
         \/ Answered /\ valueRead.val = <<TRUE>>

\* How many values were taken and how many calls of push() have returned true.
CountInv ==
    /\ received = [i \in 1..Len(received) |-> i]
    /\ accepted <= sent
    /\ spc = "idle" => accepted = sent
    /\ spc \in {"ready", "await", "suspended", "result", "stopped"} => accepted = sent - 1
    /\ Len(received) =
         IF spc \in {"await", "suspended", "result"} /\ Moved THEN sent ELSE accepted

IInv == TypeOK /\ PointerInv /\ HandshakeInv /\ CountInv

-----------------------------------------------------------------------------
USE MaxItemsAssumption DEF Empty, Invalid, Nullptr

\* What can be stored in the variants of the two futures, and told apart there.
LEMMA Variants ==
    /\ NoValue \in ValueVariants /\ NoValue \in ReadVariants
    /\ \A i \in 0..MaxItems : <<i>> \in ValueVariants /\ <<i>> # NoValue /\ <<i>>[1] = i
    /\ \A i, j \in 0..MaxItems : <<i>> = <<j>> => i = j
    /\ <<TRUE>> \in ReadVariants /\ <<FALSE>> \in ReadVariants
    /\ <<TRUE>> # NoValue /\ <<FALSE>> # NoValue /\ <<TRUE>> # <<FALSE>>
    /\ <<TRUE>>[1] = TRUE /\ <<FALSE>>[1] = FALSE
BY DEF NoValue, ValueVariants, ReadVariants

ValueFutures == [ptr : {Empty, Invalid, "receiver"}, val : ValueVariants]
ReadFutures == [ptr : {Empty, Invalid, "sender"}, val : ReadVariants]

\* A future that was just constructed.
LEMMA FreshFuture == Fresh \in ValueFutures /\ Fresh \in ReadFutures /\ IsFresh(Fresh)
BY Variants DEF Fresh, IsFresh, ValueFutures, ReadFutures

\* The state after makeUnbufferedChannel() satisfies IInv.
LEMMA InitInv == Init => IInv
<1> SUFFICES ASSUME Init PROVE IInv
  OBVIOUS
<1>1. IsFresh(value) /\ IsFresh(valueRead) /\ value \in ValueFutures /\ valueRead \in ReadFutures
  BY FreshFuture DEF Init
<1>2. TypeOK
  <2>1. received \in Seq(1..MaxItems) /\ closing \in BOOLEAN
    BY EmptySeq DEF Init
  <2> QED BY <1>1, <2>1 DEF Init, TypeOK, ValueFutures, ReadFutures
<1>3. PointerInv /\ HandshakeInv
  BY <1>1 DEF Init, PointerInv, HandshakeInv, Before, IsFresh
<1>4. CountInv
  <2>1. Len(received) = 0 /\ received = [i \in 1..0 |-> i]
    BY DEF Init
  <2> QED BY <2>1 DEF Init, CountInv
<1> QED BY <1>2, <1>3, <1>4 DEF IInv

\* Taking the next value continues the numbers 1, 2, ... of those received.
LEMMA TakeNext ==
    ASSUME NEW q \in Seq(1..MaxItems), NEW x \in 1..MaxItems,
           q = [i \in 1..Len(q) |-> i], Len(q) = x - 1
    PROVE  /\ Append(q, x) \in Seq(1..MaxItems)
           /\ Len(Append(q, x)) = x
           /\ Append(q, x) = [i \in 1..x |-> i]
<1>1. /\ Append(q, x) \in Seq(1..MaxItems)
      /\ Len(Append(q, x)) = Len(q) + 1
      /\ \A i \in 1..Len(q) : Append(q, x)[i] = q[i]
      /\ Append(q, x)[Len(q) + 1] = x
  BY AppendProperties
<1>2. Len(Append(q, x)) = x
  BY <1>1
<1>3. Append(q, x) \in [1..x -> 1..MaxItems]
  BY <1>1, <1>2, LenProperties
<1>4. \A i \in 1..x : Append(q, x)[i] = i
  <2>1. ASSUME NEW i \in 1..x, i # x PROVE Append(q, x)[i] = i
    <3>1. i \in 1..Len(q)
      BY <2>1
    <3>2. q[i] = i
      BY <3>1
    <3> QED BY <1>1, <3>1, <3>2
  <2> QED BY <1>1, <2>1
<1>5. Append(q, x) = [i \in 1..x |-> i]
  BY <1>3, <1>4
<1> QED BY <1>1, <1>2, <1>5

\* The sender's steps.
LEMMA SenderInv ==
    ASSUME IInv, SenderStep
    PROVE  IInv'
<1> USE DEF IInv
<1>0. /\ value \in ValueFutures /\ valueRead \in ReadFutures
      /\ value.ptr \in {Empty, Invalid, "receiver"}
      /\ valueRead.ptr \in {Empty, Invalid, "sender"}
      /\ closing \in BOOLEAN /\ woken \subseteq {"sender", "receiver"}
      /\ sent \in 0..MaxItems /\ accepted \in 0..sent
      /\ received \in Seq(1..MaxItems) /\ Len(received) \in Nat
  BY LenProperties DEF TypeOK, ValueFutures, ReadFutures
<1>1. CASE Push
  <2>1. /\ spc = "idle" /\ spc' = "ready" /\ sent' = sent + 1 /\ sent' \in 0..MaxItems
        /\ value' \in ValueFutures /\ value'.ptr = value.ptr /\ value'.val = <<sent'>>
        /\ UNCHANGED <<valueRead, woken, accepted, rpc, closing, received>>
    BY <1>0, <1>1, Variants DEF Push, ValueFutures, ReadFutures, receiverVars
  <2>2. TypeOK'
    BY <1>0, <2>1 DEF TypeOK, ValueFutures, ReadFutures
  <2>3. PointerInv'
    BY <1>0, <2>1, Variants DEF PointerInv, HandshakeInv, Before, Offered, Releasing, Answered,
       SenderGone, IsFresh
  <2>4. HandshakeInv'
    BY <1>0, <2>1, Variants DEF TypeOK, PointerInv, HandshakeInv, Before, Offered, Releasing,
       Answered, SenderGone, IsFresh
  <2>5. CountInv'
    BY <1>0, <2>1, Variants DEF CountInv, Moved, PointerInv, HandshakeInv, Before,
       Offered, Releasing, Answered, IsFresh
  <2> QED BY <2>2, <2>3, <2>4, <2>5
<1>2. CASE CloseSender
  <2>1. /\ spc \in {"idle", "stopped"} /\ spc' = "close"
        /\ value' \in ValueFutures /\ value'.ptr = value.ptr /\ value'.val = <<Nullptr>>
        /\ UNCHANGED <<valueRead, woken, sent, accepted, rpc, closing, received>>
    BY <1>0, <1>2, Variants DEF CloseSender, ValueFutures, ReadFutures, CloseSenderStart, receiverVars
  <2>2. TypeOK'
    BY <1>0, <2>1 DEF TypeOK, ValueFutures, ReadFutures
  <2>3. PointerInv'
    BY <1>0, <2>1, Variants DEF PointerInv, HandshakeInv, Before, Offered, Releasing, Answered,
       SenderGone, IsFresh
  <2>4. HandshakeInv'
    BY <1>0, <2>1, Variants DEF TypeOK, PointerInv, HandshakeInv, Before, Offered, Releasing,
       Answered, SenderGone, IsFresh
  <2>5. CountInv'
    BY <1>0, <2>1, Variants DEF CountInv, Moved, PointerInv, HandshakeInv, Before,
       Offered, Releasing, Answered, IsFresh
  <2> QED BY <2>2, <2>3, <2>4, <2>5
<1>3. CASE SenderOnReady
  <2>1. /\ spc \in {"ready", "close"} /\ spc' = IF spc = "ready" THEN "await" ELSE "left"
        /\ value' \in ValueFutures /\ value'.ptr = Invalid /\ value'.val = value.val
        /\ woken' = IF value.ptr = "receiver" THEN woken \cup {"receiver"} ELSE woken
        /\ UNCHANGED <<valueRead, sent, accepted, rpc, closing, received>>
    BY <1>0, <1>3 DEF SenderOnReady, ValueFutures, ReadFutures, Wakes, receiverVars
  <2>2. TypeOK'
    BY <1>0, <2>1 DEF TypeOK, ValueFutures, ReadFutures
  <2>3. PointerInv'
    BY <1>0, <2>1, Variants DEF PointerInv, HandshakeInv, Before, Offered, Releasing, Answered,
       SenderGone, IsFresh
  <2>4. HandshakeInv'
    BY <1>0, <2>1, Variants DEF TypeOK, PointerInv, HandshakeInv, Before, Offered, Releasing,
       Answered, SenderGone, IsFresh
  <2>5. CountInv'
    BY <1>0, <2>1, Variants DEF CountInv, Moved, PointerInv, HandshakeInv, Before,
       Offered, Releasing, Answered, IsFresh
  <2> QED BY <2>2, <2>3, <2>4, <2>5
<1>4. CASE SenderAwait
  <2>1. /\ spc = "await"
        /\ spc' = IF valueRead.ptr = Invalid THEN "result" ELSE "suspended"
        /\ valueRead' \in ReadFutures /\ valueRead'.val = valueRead.val
        /\ valueRead'.ptr = IF valueRead.ptr = Invalid THEN Invalid ELSE "sender"
        /\ UNCHANGED <<value, woken, sent, accepted, rpc, closing, received>>
    BY <1>0, <1>4 DEF SenderAwait, ValueFutures, ReadFutures, receiverVars
  <2>2. TypeOK'
    BY <1>0, <2>1 DEF TypeOK, ValueFutures, ReadFutures
  <2>3. PointerInv'
    BY <1>0, <2>1, Variants DEF PointerInv, HandshakeInv, Before, Offered, Releasing, Answered,
       SenderGone, IsFresh
  <2>4. HandshakeInv'
    BY <1>0, <2>1, Variants DEF TypeOK, PointerInv, HandshakeInv, Before, Offered, Releasing,
       Answered, SenderGone, IsFresh
  <2>5. CountInv'
    BY <1>0, <2>1, Variants DEF CountInv, Moved, PointerInv, HandshakeInv, Before,
       Offered, Releasing, Answered, IsFresh
  <2> QED BY <2>2, <2>3, <2>4, <2>5
<1>5. CASE SenderResume
  <2>1. /\ spc = "suspended" /\ "sender" \in woken
        /\ spc' = "result" /\ woken' = woken \ {"sender"}
        /\ UNCHANGED <<value, valueRead, sent, accepted, rpc, closing, received>>
    BY <1>5 DEF SenderResume, receiverVars
  <2>2. TypeOK'
    BY <1>0, <2>1 DEF TypeOK, ValueFutures, ReadFutures
  <2>3. PointerInv'
    BY <1>0, <2>1, Variants DEF PointerInv, HandshakeInv, Before, Offered, Releasing, Answered,
       SenderGone, IsFresh
  <2>4. HandshakeInv'
    BY <1>0, <2>1, Variants DEF TypeOK, PointerInv, HandshakeInv, Before, Offered, Releasing,
       Answered, SenderGone, IsFresh
  <2>5. CountInv'
    BY <1>0, <2>1, Variants DEF CountInv, Moved, PointerInv, HandshakeInv, Before,
       Offered, Releasing, Answered, IsFresh
  <2> QED BY <2>2, <2>3, <2>4, <2>5
<1>6. CASE PushReturn
  <2>1. /\ spc = "result" /\ valueRead.val \in {<<TRUE>>, <<FALSE>>}
        /\ spc' = IF valueRead.val = <<TRUE>> THEN "idle" ELSE "stopped"
        /\ accepted' = IF valueRead.val = <<TRUE>> THEN accepted + 1 ELSE accepted
        /\ accepted' \in 0..sent
        /\ valueRead' \in ReadFutures /\ IsFresh(valueRead')
        /\ UNCHANGED <<value, woken, sent, rpc, closing, received>>
    <3>1. spc = "result" /\ valueRead.val \in {<<TRUE>>, <<FALSE>>}
      BY <1>6 DEF PushReturn, HandshakeInv, Answered
    <3>2. accepted = sent - 1
      BY <3>1 DEF CountInv
    <3>3. /\ spc' = IF valueRead.val = <<TRUE>> THEN "idle" ELSE "stopped"
          /\ accepted' = IF valueRead.val = <<TRUE>> THEN accepted + 1 ELSE accepted
      BY <1>6, <3>1, Variants DEF PushReturn, AfterPush
    <3>4. accepted' \in 0..sent
      <4>1. accepted + 1 \in 0..sent
        BY <1>0, <3>2
      <4> QED BY <1>0, <3>3, <4>1
    <3>5. valueRead' = Fresh /\ UNCHANGED <<value, woken, sent, rpc, closing, received>>
      BY <1>6 DEF PushReturn, receiverVars
    <3>6. valueRead' \in ReadFutures /\ IsFresh(valueRead')
      BY <3>5, FreshFuture
    <3> QED BY <3>1, <3>3, <3>4, <3>5, <3>6
  <2>2. TypeOK'
    BY <1>0, <2>1 DEF TypeOK, ValueFutures, ReadFutures
  <2>3. PointerInv'
    BY <1>0, <2>1, Variants DEF PointerInv, HandshakeInv, Before, Offered, Releasing, Answered,
       SenderGone, IsFresh
  <2>4. HandshakeInv'
    BY <1>0, <2>1, Variants DEF TypeOK, PointerInv, HandshakeInv, Before, Offered, Releasing,
       Answered, SenderGone, IsFresh
  <2>5. CountInv'
    <3>1. Answered /\ accepted = sent - 1
      BY <2>1 DEF HandshakeInv, CountInv
    <3>2. Moved <=> valueRead.val = <<TRUE>>
      BY <1>0, <2>1, <3>1, Variants DEF Moved, Offered, Releasing, Answered, Before, IsFresh
    <3>3. Len(received) = IF valueRead.val = <<TRUE>> THEN sent ELSE accepted
      BY <2>1, <3>2 DEF CountInv
    <3>4. CASE valueRead.val = <<TRUE>>
      BY <1>0, <2>1, <3>1, <3>3, <3>4 DEF CountInv
    <3>5. CASE valueRead.val # <<TRUE>>
      BY <1>0, <2>1, <3>1, <3>3, <3>5 DEF CountInv
    <3> QED BY <3>4, <3>5
  <2> QED BY <2>2, <2>3, <2>4, <2>5
<1> QED BY <1>1, <1>2, <1>3, <1>4, <1>5, <1>6 DEF SenderStep

\* The receiver's steps.
LEMMA ReceiverInv ==
    ASSUME IInv, ReceiverStep
    PROVE  IInv'
<1> USE DEF IInv
<1>0. /\ value \in ValueFutures /\ valueRead \in ReadFutures
      /\ value.ptr \in {Empty, Invalid, "receiver"}
      /\ valueRead.ptr \in {Empty, Invalid, "sender"}
      /\ closing \in BOOLEAN /\ woken \subseteq {"sender", "receiver"}
      /\ sent \in 0..MaxItems /\ accepted \in 0..sent
      /\ received \in Seq(1..MaxItems) /\ Len(received) \in Nat
  BY LenProperties DEF TypeOK, ValueFutures, ReadFutures
<1>1. ASSUME NEW close \in BOOLEAN, ReceiverCalls(close) PROVE IInv'
  <2>1. /\ rpc \in {"idle", "ended"} /\ rpc' = "await" /\ closing' = close
        /\ UNCHANGED <<value, valueRead, woken, received, spc, sent, accepted>>
    BY <1>1 DEF ReceiverCalls, senderVars
  <2>2. TypeOK'
    BY <1>0, <2>1 DEF TypeOK, ValueFutures, ReadFutures
  <2>3. PointerInv'
    BY <1>0, <2>1, Variants DEF PointerInv, HandshakeInv, Before, Offered, Releasing, Answered,
       SenderGone, IsFresh
  <2>4. HandshakeInv'
    BY <1>0, <2>1, Variants DEF TypeOK, PointerInv, HandshakeInv, Before, Offered, Releasing,
       Answered, SenderGone, IsFresh
  <2>5. CountInv'
    BY <1>0, <2>1, Variants DEF CountInv, Moved, PointerInv, HandshakeInv, Before,
       Offered, Releasing, Answered, IsFresh
  <2> QED BY <2>2, <2>3, <2>4, <2>5
<1>2. CASE ReceiverAwait
  <2>1. /\ rpc = "await"
        /\ rpc' = IF value.ptr = Invalid THEN "take" ELSE "suspended"
        /\ value' \in ValueFutures /\ value'.val = value.val
        /\ value'.ptr = IF value.ptr = Invalid THEN Invalid ELSE "receiver"
        /\ UNCHANGED <<valueRead, woken, closing, received, spc, sent, accepted>>
    BY <1>0, <1>2 DEF ReceiverAwait, ValueFutures, ReadFutures, senderVars
  <2>2. TypeOK'
    BY <1>0, <2>1 DEF TypeOK, ValueFutures, ReadFutures
  <2>3. PointerInv'
    BY <1>0, <2>1, Variants DEF PointerInv, HandshakeInv, Before, Offered, Releasing, Answered,
       SenderGone, IsFresh
  <2>4. HandshakeInv'
    BY <1>0, <2>1, Variants DEF TypeOK, PointerInv, HandshakeInv, Before, Offered, Releasing,
       Answered, SenderGone, IsFresh
  <2>5. CountInv'
    BY <1>0, <2>1, Variants DEF CountInv, Moved, PointerInv, HandshakeInv, Before,
       Offered, Releasing, Answered, IsFresh
  <2> QED BY <2>2, <2>3, <2>4, <2>5
<1>3. CASE ReceiverResume
  <2>1. /\ rpc = "suspended" /\ "receiver" \in woken
        /\ rpc' = "take" /\ woken' = woken \ {"receiver"}
        /\ UNCHANGED <<value, valueRead, closing, received, spc, sent, accepted>>
    BY <1>3 DEF ReceiverResume, senderVars
  <2>2. TypeOK'
    BY <1>0, <2>1 DEF TypeOK, ValueFutures, ReadFutures
  <2>3. PointerInv'
    BY <1>0, <2>1, Variants DEF PointerInv, HandshakeInv, Before, Offered, Releasing, Answered,
       SenderGone, IsFresh
  <2>4. HandshakeInv'
    BY <1>0, <2>1, Variants DEF TypeOK, PointerInv, HandshakeInv, Before, Offered, Releasing,
       Answered, SenderGone, IsFresh
  <2>5. CountInv'
    BY <1>0, <2>1, Variants DEF CountInv, Moved, PointerInv, HandshakeInv, Before,
       Offered, Releasing, Answered, IsFresh
  <2> QED BY <2>2, <2>3, <2>4, <2>5
<1>4. CASE Take
  <2>1. \/ spc \in {"await", "suspended"} /\ Offered
        \/ spc = "left" /\ value.ptr = Invalid /\ value.val = <<Nullptr>> /\ IsFresh(valueRead)
    BY <1>4, Variants DEF Take, HandshakeInv, Offered, Releasing, Answered, SenderGone, Before, TypeOK
  <2>2. rpc = "take" /\ UNCHANGED <<value, valueRead, woken, closing, spc, sent, accepted>>
    BY <1>4 DEF Take, senderVars
  <2>3. /\ rpc' = IF closing \/ spc # "left" THEN "emplace" ELSE "ended"
        /\ received' = IF closing \/ spc = "left" THEN received ELSE Append(received, sent)
        /\ spc # "left" => sent = accepted + 1
    BY <1>0, <1>4, <2>1, Variants DEF Take, IsValue, ReleaseOrder, CountInv, Offered
  <2>4. Len(received) = accepted
    BY <2>1, <2>2 DEF CountInv, Moved, Offered, Releasing, Answered
  <2>5. /\ received' \in Seq(1..MaxItems)
        /\ Len(received') = IF closing \/ spc = "left" THEN accepted ELSE sent
        /\ received' = [i \in 1..Len(received') |-> i]
    <3>1. CASE closing \/ spc = "left"
      BY <1>0, <2>3, <2>4, <3>1 DEF CountInv
    <3>2. CASE ~(closing \/ spc = "left")
      BY <1>0, <2>3, <2>4, <3>2, TakeNext DEF CountInv
    <3> QED BY <3>1, <3>2
  <2>6. TypeOK'
    BY <1>0, <2>2, <2>3, <2>5 DEF TypeOK
  <2>7. PointerInv'
    BY <2>2, <2>3 DEF PointerInv
  <2>8. HandshakeInv'
    BY <1>0, <2>1, <2>2, <2>3 DEF HandshakeInv, Before, Offered, SenderGone
  <2>9. CountInv'
    BY <1>0, <2>1, <2>2, <2>3, <2>5 DEF CountInv, Moved, Offered, Releasing, Answered
  <2> QED BY <2>6, <2>7, <2>8, <2>9
<1>5. CASE Emplace
  <2>1. /\ rpc = "emplace" /\ rpc' = "set"
        /\ value' \in ValueFutures /\ IsFresh(value')
        /\ UNCHANGED <<valueRead, woken, closing, received, spc, sent, accepted>>
    <3>1. value' = Fresh
      BY <1>5 DEF Emplace
    <3>2. value' \in ValueFutures /\ IsFresh(value')
      BY <3>1, FreshFuture
    <3> QED BY <1>5, <3>2 DEF Emplace, AfterRelease, ReleaseOrder, senderVars
  <2>2. TypeOK'
    BY <1>0, <2>1 DEF TypeOK, ValueFutures, ReadFutures
  <2>3. PointerInv'
    BY <1>0, <2>1, Variants DEF PointerInv, HandshakeInv, Before, Offered, Releasing, Answered,
       SenderGone, IsFresh
  <2>4. HandshakeInv'
    BY <1>0, <2>1, Variants DEF TypeOK, PointerInv, HandshakeInv, Before, Offered, Releasing,
       Answered, SenderGone, IsFresh
  <2>5. CountInv'
    BY <1>0, <2>1, Variants DEF CountInv, Moved, PointerInv, HandshakeInv, Before,
       Offered, Releasing, Answered, IsFresh
  <2> QED BY <2>2, <2>3, <2>4, <2>5
<1>6. CASE SetRead
  <2>1. /\ rpc = "set" /\ rpc' = "ready"
        /\ valueRead' \in ReadFutures /\ valueRead'.ptr = valueRead.ptr
        /\ valueRead'.val = IF closing THEN <<FALSE>> ELSE <<TRUE>>
        /\ UNCHANGED <<value, woken, closing, received, spc, sent, accepted>>
    <3>1. <<Answer(closing)>> = IF closing THEN <<FALSE>> ELSE <<TRUE>>
      BY <1>0 DEF Answer
    <3> QED BY <1>0, <1>6, <3>1, Variants DEF SetRead, ValueFutures, ReadFutures, senderVars
  <2>2. TypeOK'
    BY <1>0, <2>1 DEF TypeOK, ValueFutures, ReadFutures
  <2>3. PointerInv'
    BY <1>0, <2>1, Variants DEF PointerInv, HandshakeInv, Before, Offered, Releasing, Answered,
       SenderGone, IsFresh
  <2>4. HandshakeInv'
    BY <1>0, <2>1, Variants DEF TypeOK, PointerInv, HandshakeInv, Before, Offered, Releasing,
       Answered, SenderGone, IsFresh
  <2>5. CountInv'
    BY <1>0, <2>1, Variants DEF CountInv, Moved, PointerInv, HandshakeInv, Before,
       Offered, Releasing, Answered, IsFresh
  <2> QED BY <2>2, <2>3, <2>4, <2>5
<1>7. CASE ReceiverOnReady
  <2>1. /\ rpc = "ready" /\ rpc' = IF closing THEN "left" ELSE "idle"
        /\ valueRead' \in ReadFutures /\ valueRead'.ptr = Invalid /\ valueRead'.val = valueRead.val
        /\ woken' = IF valueRead.ptr = "sender" THEN woken \cup {"sender"} ELSE woken
        /\ UNCHANGED <<value, closing, received, spc, sent, accepted>>
    BY <1>0, <1>7 DEF ReceiverOnReady, ValueFutures, ReadFutures, AfterRelease, ReleaseOrder, Wakes, senderVars
  <2>2. TypeOK'
    BY <1>0, <2>1 DEF TypeOK, ValueFutures, ReadFutures
  <2>3. PointerInv'
    BY <1>0, <2>1, Variants DEF PointerInv, HandshakeInv, Before, Offered, Releasing, Answered,
       SenderGone, IsFresh
  <2>4. HandshakeInv'
    BY <1>0, <2>1, Variants DEF TypeOK, PointerInv, HandshakeInv, Before, Offered, Releasing,
       Answered, SenderGone, IsFresh
  <2>5. CountInv'
    BY <1>0, <2>1, Variants DEF CountInv, Moved, PointerInv, HandshakeInv, Before,
       Offered, Releasing, Answered, IsFresh
  <2> QED BY <2>2, <2>3, <2>4, <2>5
<1> QED
  BY <1>1, <1>2, <1>3, <1>4, <1>5, <1>6, <1>7 DEF ReceiverStep, Pop, CloseReceiver

\* IInv is an invariant of the channel.
THEOREM Invariance == Spec => []IInv
<1>1. IInv /\ [Next]_vars => IInv'
  <2> SUFFICES ASSUME IInv, [Next]_vars PROVE IInv'
    OBVIOUS
  <2>1. CASE UNCHANGED vars
    <3>1. UNCHANGED <<value, valueRead, woken, spc, sent, accepted, rpc, closing, received>>
      BY <2>1 DEF vars, senderVars, receiverVars
    <3>2. TypeOK' /\ PointerInv'
      BY <3>1 DEF IInv, TypeOK, PointerInv
    <3>3. HandshakeInv'
      BY <3>1 DEF IInv, HandshakeInv, Offered, Releasing, Answered, SenderGone, IsFresh
    <3>4. CountInv'
      BY <3>1 DEF IInv, CountInv, Moved, Offered, Releasing, Answered, IsFresh
    <3> QED BY <3>2, <3>3, <3>4 DEF IInv
  <2> QED BY <2>1, SenderInv, ReceiverInv DEF Next
<1> QED BY <1>1, InitInv, PTL DEF Spec

\* Every variable keeps its type: pop() dereferences no null pointer, whatever
\* the number of values.
THEOREM TypeCorrect == Spec => []TypeOK
<1>1. IInv => TypeOK
  BY DEF IInv
<1> QED BY <1>1, Invariance, PTL

\* emplace() of a future never meets an actor that sets it, and a future is set
\* once between two calls of emplace().
THEOREM Protocol == Spec => []FutureProtocol
<1>1. IInv => FutureProtocol
  BY DEF IInv, TypeOK, HandshakeInv, FutureProtocol, Before, Offered, Releasing, Answered,
     SenderGone, IsFresh
<1> QED BY <1>1, Invariance, PTL

\* push() returns true exactly for the values that were taken, in order, and a
\* value that is being taken is on the stack of its push().
THEOREM NoValueLost == Spec => []Rendezvous
<1>1. IInv => Rendezvous
  <2> SUFFICES ASSUME IInv PROVE Rendezvous
    OBVIOUS
  <2>1. /\ sent \in 0..MaxItems /\ accepted \in 0..sent
        /\ received \in Seq(1..MaxItems) /\ Len(received) \in Nat
    BY LenProperties DEF IInv, TypeOK
  <2>2. /\ received = [i \in 1..Len(received) |-> i]
        /\ Len(received) \in accepted..sent
    BY <2>1 DEF IInv, CountInv
  <2>3. /\ spc = "idle" => sent = Len(received) /\ accepted = sent
        /\ spc = "stopped" => closing /\ accepted = sent - 1 /\ accepted = Len(received)
    BY <2>1 DEF IInv, CountInv, HandshakeInv
  <2>4. rpc = "take" /\ IsValue(value.val[1]) => value.val = <<sent>> /\ spc \in {"await", "suspended"}
    BY DEF IInv, TypeOK, HandshakeInv, IsValue, Before, Offered, Releasing, Answered, SenderGone
  <2> QED BY <2>2, <2>3, <2>4 DEF Rendezvous
<1> QED BY <1>1, Invariance, PTL
=============================================================================
