------------------------- MODULE UnbufferedChannel -------------------------
(***************************************************************************)
(* co::UnbufferedChannel<T> of include/co/channel.hpp: a rendezvous of one *)
(* sender and one receiver over two futures that are set, awaited and then *)
(* constructed anew (emplace) for the next value. The sender is whoever    *)
(* owns the Sender, for instance the coroutine that generate() of          *)
(* include/co/generate.hpp detaches; the receiver owns the Receiver.       *)
(*                                                                         *)
(* A value is named by the number of the push() whose parameter val holds  *)
(* it; what the channel passes on is the address of that parameter.        *)
(***************************************************************************)
EXTENDS Integers, Sequences

CONSTANT MaxItems  \* bound on the number of calls of push()

ASSUME MaxItemsAssumption == MaxItems \in Nat

Empty == "empty"      \* EmptyHandle
Invalid == "invalid"  \* InvalidHandle
NoValue == <<>>       \* the variant of a future that is not set
Nullptr == 0          \* the T* that closeSender() sets

VARIABLES value, valueRead,  \* the futures: continuationPtr and variant
          spc, rpc,          \* where the sender and the receiver are
          closing,           \* the receiver is in closeReceiver()
          woken,             \* the suspended actors whose continuation was called
          sent,              \* number of calls of push()
          accepted,          \* number of calls of push() that returned true
          received           \* the values pop() returned

senderVars == <<spc, sent, accepted>>
receiverVars == <<rpc, closing, received>>
vars == <<value, valueRead, woken, senderVars, receiverVars>>

\* LightFutureData() after emplace().
Fresh == [ptr |-> Empty, val |-> NoValue]

Init ==
    /\ value = Fresh /\ valueRead = Fresh /\ woken = {}
    /\ spc = "idle" /\ sent = 0 /\ accepted = 0
    /\ rpc = "idle" /\ closing = FALSE /\ received = <<>>

-----------------------------------------------------------------------------
(* The decisions of the code, each with the wrong variants of it that the  *)
(* mutation runs substitute.                                               *)

TellSenderFirst == <<"set", "emplace">>
\* pop() and closeReceiver(): value.emplace() comes before valueRead->set_value().
ReleaseOrder == <<"emplace", "set">>

AlwaysTrue(close) == TRUE
\* What the sender is told: true by pop(), false by closeReceiver().
Answer(close) == ~close

TakeAnything(ptr) == TRUE
\* pop(): if (auto ptr = co::await(*value)).
IsValue(ptr) == ptr # Nullptr

LeaveSilently == "left"
\* Sender::close(): the receiver is told.
CloseSenderStart == "close"

\* The users of push() stop when it returns false.
AfterPush(res) == IF res THEN "idle" ELSE "stopped"

\* The continuation on_ready() finds, if any, is called.
Wakes(future) == woken \cup ({future.ptr} \ {Empty, Invalid})

-----------------------------------------------------------------------------
(* The sender. set_value() is two steps, the assignment of the variant and *)
(* the exchange of the pointer.                                            *)

Push ==
    /\ spc = "idle" /\ sent < MaxItems
    /\ sent' = sent + 1
    /\ value' = [value EXCEPT !.val = <<sent + 1>>]
    /\ spc' = "ready"
    /\ UNCHANGED <<valueRead, woken, accepted, receiverVars>>

\* The Sender goes away: ~Sender(), close() and closeSender().
CloseSender ==
    /\ spc \in {"idle", "stopped"}
    /\ spc' = CloseSenderStart
    /\ value' = IF CloseSenderStart = "close" THEN [value EXCEPT !.val = <<Nullptr>>] ELSE value
    /\ UNCHANGED <<valueRead, woken, sent, accepted, receiverVars>>

SenderOnReady ==
    /\ spc \in {"ready", "close"}
    /\ value' = [value EXCEPT !.ptr = Invalid]
    /\ woken' = Wakes(value)
    /\ spc' = IF spc = "ready" THEN "await" ELSE "left"
    /\ UNCHANGED <<valueRead, sent, accepted, receiverVars>>

\* co::await(*valueRead).
SenderAwait ==
    /\ spc = "await"
    /\ IF valueRead.ptr = Invalid
         THEN spc' = "result" /\ UNCHANGED valueRead
         ELSE spc' = "suspended" /\ valueRead' = [valueRead EXCEPT !.ptr = "sender"]
    /\ UNCHANGED <<value, woken, sent, accepted, receiverVars>>

SenderResume ==
    /\ spc = "suspended" /\ "sender" \in woken
    /\ woken' = woken \ {"sender"}
    /\ spc' = "result"
    /\ UNCHANGED <<value, valueRead, sent, accepted, receiverVars>>

\* push() takes the answer, valueRead.emplace() and returns.
PushReturn ==
    /\ spc = "result"
    /\ spc' = AfterPush(valueRead.val[1])
    /\ accepted' = IF valueRead.val[1] THEN accepted + 1 ELSE accepted
    /\ valueRead' = Fresh
    /\ UNCHANGED <<value, woken, sent, receiverVars>>

-----------------------------------------------------------------------------
(* The receiver.                                                           *)

\* pop(), from begin() or operator++ of the iterator, or closeReceiver() from
\* ~Receiver().
ReceiverCalls(close) ==
    /\ rpc \in {"idle", "ended"}
    /\ closing' = close
    /\ rpc' = "await"
    /\ UNCHANGED <<value, valueRead, woken, received, senderVars>>

Pop == ReceiverCalls(FALSE)
CloseReceiver == ReceiverCalls(TRUE)

\* co::await(*value).
ReceiverAwait ==
    /\ rpc = "await"
    /\ IF value.ptr = Invalid
         THEN rpc' = "take" /\ UNCHANGED value
         ELSE rpc' = "suspended" /\ value' = [value EXCEPT !.ptr = "receiver"]
    /\ UNCHANGED <<valueRead, woken, closing, received, senderVars>>

ReceiverResume ==
    /\ rpc = "suspended" /\ "receiver" \in woken
    /\ woken' = woken \ {"receiver"}
    /\ rpc' = "take"
    /\ UNCHANGED <<value, valueRead, closing, received, senderVars>>

\* pop() moves the value out of the sender's val, or returns nothing and leaves
\* the future as it is; closeReceiver() does not look at it.
Take ==
    /\ rpc = "take"
    /\ received' = IF ~closing /\ IsValue(value.val[1]) THEN Append(received, value.val[1])
                                                        ELSE received
    /\ rpc' = IF closing \/ IsValue(value.val[1]) THEN ReleaseOrder[1] ELSE "ended"
    /\ UNCHANGED <<value, valueRead, woken, closing, senderVars>>

\* Where the receiver goes after one of the two steps that release the sender.
AfterRelease(step) == IF step = ReleaseOrder[1] THEN ReleaseOrder[2]
                      ELSE IF closing THEN "left" ELSE "idle"

Emplace ==
    /\ rpc = "emplace"
    /\ value' = Fresh
    /\ rpc' = AfterRelease("emplace")
    /\ UNCHANGED <<valueRead, woken, closing, received, senderVars>>

SetRead ==
    /\ rpc = "set"
    /\ valueRead' = [valueRead EXCEPT !.val = <<Answer(closing)>>]
    /\ rpc' = "ready"
    /\ UNCHANGED <<value, woken, closing, received, senderVars>>

ReceiverOnReady ==
    /\ rpc = "ready"
    /\ valueRead' = [valueRead EXCEPT !.ptr = Invalid]
    /\ woken' = Wakes(valueRead)
    /\ rpc' = AfterRelease("set")
    /\ UNCHANGED <<value, closing, received, senderVars>>

SenderStep == Push \/ CloseSender \/ SenderOnReady \/ SenderAwait \/ SenderResume \/ PushReturn
ReceiverStep == \/ Pop \/ CloseReceiver \/ ReceiverAwait \/ ReceiverResume
                \/ Take \/ Emplace \/ SetRead \/ ReceiverOnReady

Next == SenderStep \/ ReceiverStep

Spec == Init /\ [][Next]_vars

\* The sender goes on until it closes its side, the receiver keeps receiving or
\* closes its side.
FairSpec == Spec /\ WF_vars(SenderStep) /\ WF_vars(ReceiverStep)

-----------------------------------------------------------------------------
(* Properties.                                                             *)

\* What the variants of the two futures may hold.
ValueVariants == {NoValue} \cup {<<i>> : i \in 0..MaxItems}
ReadVariants == {NoValue, <<TRUE>>, <<FALSE>>}

\* Every variable holds a value the code can store in it; in particular pop()
\* dereferences no null pointer.
TypeOK ==
    /\ value \in [ptr : {Empty, Invalid, "receiver"}, val : ValueVariants]
    /\ valueRead \in [ptr : {Empty, Invalid, "sender"}, val : ReadVariants]
    /\ spc \in {"idle", "ready", "await", "suspended", "result", "stopped", "close", "left"}
    /\ rpc \in {"idle", "await", "suspended", "take", "emplace", "set", "ready", "ended", "left"}
    /\ closing \in BOOLEAN
    /\ woken \subseteq {"sender", "receiver"}
    /\ sent \in 0..MaxItems /\ accepted \in 0..sent
    /\ received \in Seq(1..MaxItems)

\* The two futures are set once between two calls of emplace(), and emplace()
\* of a future never meets an actor that is about to set it or is in the middle
\* of it: the handshake alone orders the accesses of the two threads.
FutureProtocol ==
    /\ spc \in {"idle", "stopped", "ready", "close"} => value.ptr # Invalid /\ rpc # "emplace"
    /\ rpc \in {"set", "ready"} => valueRead.ptr # Invalid /\ spc # "result"
    /\ spc \in {"idle", "stopped"} => value.val = NoValue
    /\ rpc = "set" => valueRead.val = NoValue

\* The comment of the class: the sender is blocked in push() till there is a
\* receiver. The values come out in the order of the calls, none is lost or
\* doubled, push() returns true exactly for the values that were taken, and a
\* value that is being taken is still on the stack of its push().
Rendezvous ==
    /\ received = [i \in 1..Len(received) |-> i]
    /\ Len(received) \in accepted..sent
    /\ spc = "idle" => sent = Len(received) /\ accepted = sent
    /\ spc = "stopped" => closing /\ accepted = sent - 1 /\ accepted = Len(received)
    /\ rpc = "take" /\ IsValue(value.val[1]) => value.val = <<sent>> /\ spc \in {"await", "suspended"}

AtRest(pc) == pc \in {"idle", "stopped", "ended", "left"}

\* Every push(), pop() and close() returns; closeReceiver(), which starts by
\* waiting for a value, relies on the sender to push another one or to close.
OperationsReturn == (~AtRest(spc) ~> AtRest(spc)) /\ (~AtRest(rpc) ~> AtRest(rpc))
=============================================================================
