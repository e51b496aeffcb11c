------------------------------ MODULE ForEach ------------------------------
(***************************************************************************)
(* co::forEach() of include/co/foreach.hpp, for random-access ranges,      *)
(* which it splits between its coroutines, and for input ranges, which it  *)
(* sends to them through a BufferedChannel.                                *)
(*                                                                         *)
(* The coroutines are 1..MaxPar; each is an activity of its own, whichever *)
(* thread it runs on. An element is named by its position in the range.    *)
(***************************************************************************)
EXTENDS Integers, Sequences

CONSTANTS Kinds,    \* the kinds of ranges: "random", "input"
          MaxPar,   \* bound on the argument maxParallelity
          MaxSize,  \* bound on the number of elements
          MinRandom,  \* the smallest random-access range: 0, or 1 for those that
                      \* SplitRange can split
          NoError   \* firstError without an exception

ASSUME KindsAssumption == Kinds \subseteq {"random", "input"}
ASSUME BoundsAssumption == MaxPar \in Nat \ {0} /\ MaxSize \in Nat
ASSUME MinRandomAssumption == MinRandom \in 0..MaxSize
ASSUME NoErrorAssumption == NoError \notin 1..MaxSize

Coros == 1..MaxPar
Caller == 0  \* forEach() itself, which has the Sender
Own == -1    \* the handle chan.receiver of forEach() itself

VARIABLES mReadyData, mWaitingSender, mWaitingReceiver, mSenderClosed, mReceiverClosed,
          mMaxQueueSize, self, notify, pc, sent, accepted, received,  \* the channel
          kind, maxParallelity, size,  \* the arguments
          fe,              \* where forEach() is
          coroCnt,         \* number of coroutines to create
          created,         \* number of coroutines created so far
          end, remaining,  \* the locals of the partition
          itr, last,       \* itr[c], last[c]: the locals itr and end of coroutine c
          work,            \* work[c]: where coroutine c is
          firstError,      \* an exception is named by the element it is about
          done, errors     \* what the callable was executed with, and threw with

chanVars == <<mReadyData, mWaitingSender, mWaitingReceiver, mSenderClosed,
              mReceiverClosed, mMaxQueueSize, self, notify, pc, sent, accepted, received>>
args == <<kind, maxParallelity, size>>
loopVars == <<coroCnt, created, end, remaining>>
coroVars == <<itr, last, work, firstError, done, errors>>
vars == <<chanVars, args, fe, loopVars, coroVars>>

Chan == INSTANCE BufferedChannel
          WITH Senders <- {Caller}, Receivers <- Coros \cup {Own}, Controllers <- {},
               MaxItems <- MaxSize, QueueSize <- MaxPar, NewSizes <- {}

\* The channel is the one of makeBufferedChannel(maxParallelity); nobody uses
\* it when the range is a random-access range.
Init ==
    /\ kind \in Kinds /\ maxParallelity \in 0..MaxPar /\ size \in 0..MaxSize
    /\ kind = "random" => size >= MinRandom
    /\ mReadyData = <<>> /\ mWaitingSender = <<>> /\ mWaitingReceiver = <<>>
    /\ mSenderClosed = FALSE /\ mReceiverClosed = FALSE /\ mMaxQueueSize = maxParallelity
    /\ self = [a \in Own..MaxPar |-> <<>>] /\ notify = [a \in Own..MaxPar |-> <<>>]
    /\ pc = [a \in Own..MaxPar |-> IF a > maxParallelity THEN "left" ELSE "idle"]
    /\ sent = [s \in {Caller} |-> 0] /\ accepted = [s \in {Caller} |-> 0]
    /\ received = [r \in Coros \cup {Own} |-> <<>>]
    /\ fe = "start" /\ coroCnt = 0 /\ created = 0 /\ end = 0 /\ remaining = 0
    /\ itr = [c \in Coros |-> 0] /\ last = [c \in Coros |-> 0]
    /\ work = [c \in Coros |-> "none"]
    /\ firstError = NoError /\ done = {} /\ errors = {}

-----------------------------------------------------------------------------
(* The decisions of the code, each with the wrong variants of it that the  *)
(* mutation runs substitute.                                               *)

NeverOneMore(rest) == 0
\* The first coroutines get one of the remaining elements each.
OneMore(rest) == IF rest > 0 THEN 1 ELSE 0

NoHandler == "leave"
\* The catch block of the coroutines, with the call of handleError().
AfterThrow == "catch"

SenderLivesOn == "join"
\* The Sender goes out of scope before the coroutines are awaited.
AfterRange == "close"

\* handleError(): only the first error is kept.
KeptError(e) == IF firstError = NoError THEN e ELSE firstError

-----------------------------------------------------------------------------
(* forEach() up to the loop that awaits the coroutines.                    *)

\* s / coroCnt and s % coroCnt, which fail when there is nothing to divide by.
SplitRange ==
    /\ fe = "start" /\ kind = "random"
    /\ LET cnt == IF maxParallelity < size THEN maxParallelity ELSE size IN
       IF cnt = 0
         THEN fe' = "dividedByZero" /\ UNCHANGED loopVars
         ELSE /\ fe' = "create"
              /\ coroCnt' = cnt
              /\ remaining' = size % cnt
              /\ UNCHANGED <<created, end>>
    /\ UNCHANGED <<chanVars, args, coroVars>>

\* makeBufferedChannel(maxParallelity): setMaxQueueSize() asserts cnt > 0.
MakeChannel ==
    /\ fe = "start" /\ kind = "input"
    /\ IF maxParallelity = 0
         THEN fe' = "assertCnt" /\ UNCHANGED coroCnt
         ELSE fe' = "create" /\ coroCnt' = maxParallelity
    /\ UNCHANGED <<chanVars, args, created, end, remaining, coroVars>>

\* One turn of the loop over a random-access range: the next part and a
\* coroutine for it.
CreateForPart ==
    LET c == created + 1
        next == end + size \div coroCnt + OneMore(remaining)
    IN
    /\ fe = "create" /\ kind = "random" /\ created < coroCnt
    /\ created' = c
    /\ end' = next
    /\ remaining' = remaining - OneMore(remaining)
    /\ itr' = [itr EXCEPT ![c] = end]
    /\ last' = [last EXCEPT ![c] = next]
    /\ work' = [work EXCEPT ![c] = IF end = next THEN "leave" ELSE "func"]
    /\ UNCHANGED <<chanVars, args, fe, coroCnt, firstError, done, errors>>

CreateReceiver ==
    /\ fe = "create" /\ kind = "input" /\ created < coroCnt
    /\ created' = created + 1
    /\ work' = [work EXCEPT ![created + 1] = "pop"]
    /\ UNCHANGED <<chanVars, args, fe, coroCnt, end, remaining, itr, last, firstError, done, errors>>

\* The loop ends; for an input range with chan.receiver = nullptr.
AllCreated ==
    /\ fe = "create" /\ created = coroCnt
    /\ IF kind = "random"
         THEN fe' = "join" /\ UNCHANGED chanVars
         ELSE fe' = "range" /\ Chan!ReceiverLeaves(Own)
    /\ UNCHANGED <<args, loopVars, coroVars>>

\* The loop over an input range: another element, the end, or an exception of
\* the range.
PushNext ==
    /\ fe = "range" /\ sent[Caller] < size
    /\ Chan!Push(Caller)
    /\ fe' = "push"
    /\ UNCHANGED <<args, loopVars, coroVars>>

RangeEnds ==
    /\ fe = "range" /\ sent[Caller] = size
    /\ fe' = AfterRange
    /\ UNCHANGED <<chanVars, args, loopVars, coroVars>>

RangeThrows ==
    /\ fe = "range"
    /\ fe' = "unwind"
    /\ UNCHANGED <<chanVars, args, loopVars, coroVars>>

\* push() returns; false means that all the receivers are gone.
PushReturns ==
    /\ fe = "push"
    /\ Chan!PushReturn(Caller)
    /\ fe' = IF self[Caller][1] THEN "range"
             ELSE IF firstError # NoError THEN AfterRange ELSE "assertFirstError"
    /\ UNCHANGED <<args, loopVars, coroVars>>

\* The scope of chan is left.
CloseChannel ==
    /\ fe \in {"close", "unwind"}
    /\ Chan!SenderLeaves(Caller)
    /\ fe' = IF fe = "close" THEN "join" ELSE "destroy"
    /\ UNCHANGED <<args, loopVars, coroVars>>

\* The set_value() calls of push() and closeSender().
CallerNotifies ==
    /\ Chan!Notify(Caller)
    /\ UNCHANGED <<args, fe, loopVars, coroVars>>

-----------------------------------------------------------------------------
(* The end of forEach().                                                   *)

Ended(c) == work[c] = "done" /\ notify[c] = <<>>

\* await() of each coroutine, then the first error is rethrown.
JoinAll ==
    /\ fe = "join" /\ notify[Caller] = <<>>
    /\ \A c \in 1..coroCnt : Ended(c)
    /\ fe' = IF firstError = NoError THEN "returned" ELSE "threw"
    /\ UNCHANGED <<chanVars, args, loopVars, coroVars>>

\* The exception of the range destroys coros: ~Data() terminates the program
\* when a coroutine has not ended.
DestroyCoros ==
    /\ fe = "destroy" /\ notify[Caller] = <<>>
    /\ fe' = IF \A c \in 1..coroCnt : Ended(c) THEN "rangeThrew" ELSE "terminated"
    /\ UNCHANGED <<chanVars, args, loopVars, coroVars>>

-----------------------------------------------------------------------------
(* The coroutines.                                                         *)

Pop(c) ==
    /\ work[c] = "pop"
    /\ Chan!Pop(c)
    /\ work' = [work EXCEPT ![c] = "popping"]
    /\ UNCHANGED <<args, fe, loopVars, itr, last, firstError, done, errors>>

PopReturns(c) ==
    /\ work[c] = "popping"
    /\ Chan!PopReturn(c)
    /\ work' = [work EXCEPT ![c] = IF self[c][1] = Chan!NullOpt THEN "leave" ELSE "func"]
    /\ UNCHANGED <<args, fe, loopVars, itr, last, firstError, done, errors>>

\* The element coroutine c is at.
Element(c) == IF kind = "random" THEN itr[c] + 1 ELSE received[c][Len(received[c])][2]

\* func(*itr) or func(itm) returns, and the loop goes on,
FuncReturns(c) ==
    /\ work[c] = "func"
    /\ done' = done \cup {Element(c)}
    /\ itr' = IF kind = "random" THEN [itr EXCEPT ![c] = @ + 1] ELSE itr
    /\ work' = [work EXCEPT ![c] = IF kind = "input" THEN "pop"
                                   ELSE IF itr[c] + 1 = last[c] THEN "leave" ELSE "func"]
    /\ UNCHANGED <<chanVars, args, fe, loopVars, last, firstError, errors>>

\* or throws,
FuncThrows(c) ==
    /\ work[c] = "func"
    /\ done' = done \cup {Element(c)}
    /\ errors' = errors \cup {Element(c)}
    /\ work' = [work EXCEPT ![c] = AfterThrow]
    /\ UNCHANGED <<chanVars, args, fe, loopVars, itr, last, firstError>>

\* and the exception is kept, under the mutex.
HandleError(c) ==
    /\ work[c] = "catch"
    /\ firstError' = KeptError(Element(c))
    /\ work' = [work EXCEPT ![c] = "leave"]
    /\ UNCHANGED <<chanVars, args, fe, loopVars, itr, last, done, errors>>

\* The callable of the coroutine is destroyed, and the captured receiver with
\* it; the coroutine ends after the set_value() calls of closeReceiver().
CoroEnds(c) ==
    /\ work[c] = "leave"
    /\ IF kind = "input" THEN Chan!ReceiverLeaves(c) ELSE UNCHANGED chanVars
    /\ work' = [work EXCEPT ![c] = "done"]
    /\ UNCHANGED <<args, fe, loopVars, itr, last, firstError, done, errors>>

CoroNotifies(c) ==
    /\ Chan!Notify(c)
    /\ UNCHANGED <<args, fe, loopVars, coroVars>>

CallerStep ==
    \/ SplitRange \/ MakeChannel \/ CreateForPart \/ CreateReceiver \/ AllCreated
    \/ PushNext \/ RangeEnds \/ RangeThrows \/ PushReturns \/ CloseChannel
    \/ CallerNotifies \/ JoinAll \/ DestroyCoros

CoroStep(c) ==
    \/ Pop(c) \/ PopReturns(c) \/ FuncReturns(c) \/ FuncThrows(c) \/ HandleError(c)
    \/ CoroEnds(c) \/ CoroNotifies(c)

\* Nothing runs after std::terminate() or an abort.
Aborted == fe \in {"dividedByZero", "assertCnt", "assertFirstError", "terminated"}

Next == ~Aborted /\ (CallerStep \/ \E c \in Coros : CoroStep(c))

Spec == Init /\ [][Next]_vars

\* The caller and the coroutines are scheduled, and the callable returns.
FairSpec == /\ Spec
            /\ WF_vars(~Aborted /\ CallerStep)
            /\ \A c \in Coros : WF_vars(~Aborted /\ CoroStep(c))

-----------------------------------------------------------------------------
(* Properties.                                                             *)

\* assert(firstError): push() refuses an element only after every coroutine
\* has left the channel, which none does early but for an exception that
\* handleError() has then kept.
RefusedMeansError == fe # "assertFirstError"

\* How forEach() has ended, and what it threw.
Outcome == CASE fe \in {"returned", "threw"} -> fe
             [] Aborted \/ fe = "rangeThrew" -> "failed"
             [] OTHER -> "running"
Thrown == IF fe = "threw" THEN firstError ELSE NoError
\* The range has thrown.
Interrupted == fe \in {"unwind", "destroy", "rangeThrew", "terminated"}

Abs == INSTANCE AbstractForEach
         WITH Elements <- 1..MaxSize, range <- 1..size, parallelity <- maxParallelity,
              interrupted <- Interrupted, outcome <- Outcome, thrown <- Thrown

\* The comment above forEach(): each element is processed once, an exception
\* of the callable is rethrown, nothing runs once it has returned, and it
\* ends in any other way only for maxParallelity 0 or when the range throws.
ImplementsForEach == Abs!Spec

\* forEach() comes back: no coroutine waits for a value, and no push() for
\* room, for ever, whichever of the coroutines have failed.
Returns == <>(Aborted \/ fe \in {"returned", "threw", "rangeThrew"})
=============================================================================
