-------------------------- MODULE AbstractRoutine --------------------------
(***************************************************************************)
(* What coroutines promise their users: a coroutine that awaits something  *)
(* does not run before that has happened, an awaited coroutine has then    *)
(* ended and its result is ready, and the memory of a coroutine is         *)
(* released once, after that.                                              *)
(***************************************************************************)
CONSTANTS Routines, Futures, Null, Ioc, Timer

VARIABLES status,    \* status[r]: none, running, suspended, ended, ready or freed
          waitFor,   \* waitFor[r]: what a suspended coroutine awaits
          happened   \* the futures that have been set

vars == <<status, waitFor, happened>>

Init ==
    /\ status = [r \in Routines |-> "none"]
    /\ waitFor = [r \in Routines |-> Null]
    /\ happened = {}

Become(r, from, to) == status[r] = from /\ status' = [status EXCEPT ![r] = to]

Start(r) == Become(r, "none", "running") /\ UNCHANGED <<waitFor, happened>>

Suspend(r, x) ==
    /\ Become(r, "running", "suspended")
    /\ waitFor' = [waitFor EXCEPT ![r] = x]
    /\ UNCHANGED happened

Over(x) == \/ x \in happened \cup {Ioc, Timer}
           \/ x \in Routines /\ status[x] = "ready"

Resume(r) ==
    /\ Over(waitFor[r])
    /\ Become(r, "suspended", "running")
    /\ waitFor' = [waitFor EXCEPT ![r] = Null]
    /\ UNCHANGED happened

End(r) == Become(r, "running", "ended") /\ UNCHANGED <<waitFor, happened>>

\* The result of r is set.
Publish(r) == Become(r, "ended", "ready") /\ UNCHANGED <<waitFor, happened>>

Free(r) == Become(r, "ready", "freed") /\ UNCHANGED <<waitFor, happened>>

Happen(f) ==
    /\ f \notin happened
    /\ happened' = happened \cup {f}
    /\ UNCHANGED <<status, waitFor>>

Next ==
    \/ \E r \in Routines : Start(r) \/ Resume(r) \/ End(r) \/ Publish(r) \/ Free(r)
    \/ \E r \in Routines, x \in Routines \cup Futures \cup {Ioc, Timer} : Suspend(r, x)
    \/ \E f \in Futures : Happen(f)

Spec == Init /\ [][Next]_vars
=============================================================================
