--------------------------- MODULE AbstractMutex ---------------------------
(***************************************************************************)
(* What a mutex with a waiting queue promises: one owner at a time, and    *)
(* ownership that goes from an owner with waiters directly to the next of  *)
(* them, never through a free mutex somebody else could grab.              *)
(***************************************************************************)
EXTENDS Naturals, Sequences

CONSTANTS Callers, NoCaller,
          FairPolicy  \* TRUE: the longest waiting caller is next, FALSE: the newest

VARIABLES owner,  \* the caller that is responsible for the mutex, or NoCaller
          queue   \* the callers that wait for it, oldest first

vars == <<owner, queue>>

Init == owner = NoCaller /\ queue = <<>>

Acquire(c) ==
    /\ owner = NoCaller
    /\ owner' = c
    /\ UNCHANGED queue

Enqueue(c) ==
    /\ owner \notin {c, NoCaller}
    /\ \A i \in 1..Len(queue) : queue[i] # c
    /\ queue' = Append(queue, c)
    /\ UNCHANGED owner

HandOver ==
    /\ owner # NoCaller
    /\ queue # <<>>
    /\ IF FairPolicy
         THEN owner' = Head(queue) /\ queue' = Tail(queue)
         ELSE owner' = queue[Len(queue)] /\ queue' = SubSeq(queue, 1, Len(queue) - 1)

Release ==
    /\ owner # NoCaller
    /\ queue = <<>>
    /\ owner' = NoCaller
    /\ UNCHANGED queue

Next == HandOver \/ Release \/ \E c \in Callers : Acquire(c) \/ Enqueue(c)

Spec == Init /\ [][Next]_vars
=============================================================================
