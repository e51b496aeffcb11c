-------------------------- MODULE AbstractForEach --------------------------
(***************************************************************************)
(* What forEach() promises in the comment above it: the callable is        *)
(* executed once with each element of the range; if an execution throws,   *)
(* forEach() throws one of these exceptions, and it is then open which     *)
(* elements have been processed. Nothing is executed after it has ended.   *)
(* The comment says nothing of a range that throws, nor of maxParallelity  *)
(* 0: only then may forEach() end in another way.                          *)
(***************************************************************************)
EXTENDS Integers

CONSTANTS Elements,  \* what a range may contain
          NoError

VARIABLES range,    \* the elements of the range
          parallelity,  \* the argument maxParallelity
          interrupted,  \* the range has thrown
          done,     \* the elements the callable was executed with
          errors,   \* those of them with which it threw
          outcome,  \* "running", "returned", "threw" or "failed"
          thrown    \* the exception forEach() threw, named by its element

args == <<range, parallelity>>
vars == <<args, interrupted, done, errors, outcome, thrown>>

Init ==
    /\ range \subseteq Elements /\ parallelity \in Nat
    /\ interrupted = FALSE /\ outcome = "running"
    /\ done = {} /\ errors = {} /\ thrown = NoError

Execute(e, throws) ==
    /\ outcome = "running"
    /\ e \in range \ done
    /\ done' = done \cup {e}
    /\ errors' = IF throws THEN errors \cup {e} ELSE errors
    /\ UNCHANGED <<args, interrupted, outcome, thrown>>

Return ==
    /\ outcome = "running" /\ ~interrupted /\ done = range /\ errors = {}
    /\ outcome' = "returned"
    /\ UNCHANGED <<args, interrupted, done, errors, thrown>>

Throw(e) ==
    /\ outcome = "running" /\ ~interrupted /\ e \in errors
    /\ outcome' = "threw" /\ thrown' = e
    /\ UNCHANGED <<args, interrupted, done, errors>>

RangeThrows ==
    /\ outcome = "running" /\ ~interrupted
    /\ interrupted' = TRUE
    /\ UNCHANGED <<args, done, errors, outcome, thrown>>

\* The exception of the range is rethrown, or the program ends.
Fail ==
    /\ outcome = "running" /\ (interrupted \/ parallelity = 0)
    /\ outcome' = "failed"
    /\ UNCHANGED <<args, interrupted, done, errors, thrown>>

Next == \/ Return \/ RangeThrows \/ Fail
        \/ \E e \in Elements : Throw(e) \/ Execute(e, TRUE) \/ Execute(e, FALSE)

Spec == Init /\ [][Next]_vars
=============================================================================
