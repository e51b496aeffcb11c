------------------------------ MODULE OneShot ------------------------------
(***************************************************************************)
(* What a future promises its consumer: it becomes ready once, with an     *)
(* outcome that never changes afterwards, and whoever gets something from  *)
(* it gets that outcome.                                                   *)
(***************************************************************************)
CONSTANTS Outcomes,  \* the values and exceptions a promise may be given
          Unset      \* no outcome yet

VARIABLES outcome,  \* what the future is ready with, Unset while it is not
          got       \* what the consumer's last get returned

vars == <<outcome, got>>

Init == outcome \in Outcomes \cup {Unset} /\ got = Unset

Set(o) ==
    /\ outcome = Unset
    /\ outcome' = o
    /\ UNCHANGED got

Get ==
    /\ outcome # Unset
    /\ got' = outcome
    /\ UNCHANGED outcome

Next == Get \/ \E o \in Outcomes : Set(o)

Spec == Init /\ [][Next]_vars
=============================================================================
