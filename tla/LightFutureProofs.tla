------------------------- MODULE LightFutureProofs -------------------------
(***************************************************************************)
(* Proofs about LightFutureData for every bound and every set of outcomes. *)
(***************************************************************************)
EXTENDS LightFutureData, TLAPS

\* A sleeping call is registered or the setter has exchanged its task.
SleepInv == cpc \in {"sleep", "cancel"} => continuationPtr \in {n, Invalid}

\* The continuation the setter holds is not the task of a later call.
CallInv ==
    spc = "call" =>
        /\ continuation \in 1..n
        /\ continuation = n => \/ Alive(n) /\ continuationPtr = Invalid
                               \/ cpc = "idle"

\* The flag of the current task is set only by the setter that took the task.
FlagInv ==
    mDataReady => /\ spc \in {"notify", "done"}
                  /\ cpc \in {"sleep", "cancel", "result", "idle"}
                  /\ cpc # "idle" => continuationPtr = Invalid

\* wait_for() is the only call that cancels.
CancelInv == cpc = "cancel" => call = "wait_for"

\* Readiness comes after the value was stored.
StoredInv == /\ continuationPtr = Invalid => spc \notin {"idle", "stored"}
             /\ spc # "idle" <=> value # Unset
             /\ cpc # "idle" => n > 0

IInv == /\ TypeOK /\ RegisteredTaskAlive /\ GetUncheckedIsReady
        /\ SleepInv /\ CallInv /\ FlagInv /\ CancelInv /\ StoredInv

\* While InvalidHandle stands, the owner of the setter's continuation sleeps.
HandoverInv == spc = "call" /\ continuationPtr = Invalid => Alive(continuation)

-----------------------------------------------------------------------------
USE OutcomesAssumption, CallsAssumption, BoundsAssumption DEF Empty, Invalid

\* Both initial states, of a promise and of a ready future, satisfy the invariants.
LEMMA InitInv == Init => IInv /\ HandoverInv
<1> SUFFICES ASSUME Init PROVE IInv /\ HandoverInv
  OBVIOUS
<1> USE DEF Init
<1>1. TypeOK
  <2>1. mDataReady \in BOOLEAN
    OBVIOUS
  <2>2. 0 \in 0..(SpinLimit - 1) /\ 0 \in 0..MaxCalls
    OBVIOUS
  <2> QED BY <2>1, <2>2 DEF TypeOK
<1>2. RegisteredTaskAlive /\ GetUncheckedIsReady /\ SleepInv /\ CallInv
  BY DEF RegisteredTaskAlive, GetUncheckedIsReady, SleepInv, CallInv
<1>3. FlagInv /\ CancelInv /\ StoredInv /\ HandoverInv
  BY DEF FlagInv, CancelInv, StoredInv, HandoverInv
<1> QED BY <1>1, <1>2, <1>3 DEF IInv

\* The setter's steps.
LEMMA SetterInv ==
    ASSUME IInv, SetterStep
    PROVE  IInv'
<1> USE DEF IInv, setterVars
<1>1. ASSUME NEW o \in Outcomes, Store(o) PROVE IInv'
  BY <1>1 DEF Store, TypeOK, RegisteredTaskAlive, GetUncheckedIsReady, SleepInv,
     CallInv, FlagInv, CancelInv, StoredInv, Alive
<1>2. CASE OnReady
  <2>1. spc = "stored" /\ continuation' = continuationPtr /\ continuationPtr' = Invalid
    BY <1>2 DEF OnReady
  <2>2. UNCHANGED <<value, cpc, n, call, cnt, mDataReady, got>>
    BY <1>2 DEF OnReady
  <2>3. /\ spc' \in {"call", "done"}
        /\ spc' = "call" => continuationPtr # Empty
    BY <1>2 DEF OnReady, MustCall
  <2>4. TypeOK'
    BY <2>1, <2>2, <2>3 DEF TypeOK
  <2>5. CallInv'
    BY <2>1, <2>2, <2>3 DEF CallInv, RegisteredTaskAlive, Alive, StoredInv, TypeOK
  <2>6. RegisteredTaskAlive' /\ GetUncheckedIsReady' /\ SleepInv' /\ FlagInv'
    BY <2>1, <2>2 DEF RegisteredTaskAlive, GetUncheckedIsReady, SleepInv, FlagInv
  <2>7. CancelInv' /\ StoredInv'
    BY <2>1, <2>2, <2>3 DEF CancelInv, StoredInv
  <2> QED BY <2>4, <2>5, <2>6, <2>7
<1>3. CASE CallContinuation
  <2>1. /\ spc = "call" /\ spc' \in {"notify", "done"}
        /\ UNCHANGED <<continuationPtr, value, continuation, cpc, n, call, cnt, got>>
    BY <1>3 DEF CallContinuation
  <2>2. \/ mDataReady' = mDataReady
        \/ mDataReady' = TRUE /\ Alive(continuation)
    BY <1>3 DEF CallContinuation
  <2>3. TypeOK'
    <3>1. mDataReady' \in BOOLEAN
      BY <2>2 DEF TypeOK
    <3>2. spc' \in {"idle", "stored", "call", "notify", "done"}
      BY <2>1
    <3> QED BY <2>1, <3>1, <3>2 DEF TypeOK
  <2>4. RegisteredTaskAlive' /\ GetUncheckedIsReady' /\ SleepInv' /\ CancelInv'
    BY <2>1 DEF RegisteredTaskAlive, GetUncheckedIsReady, SleepInv, CancelInv, Alive
  <2>5. FlagInv'
    BY <2>1, <2>2 DEF FlagInv, CallInv, Alive
  <2>6. CallInv' /\ StoredInv'
    BY <2>1 DEF CallInv, StoredInv
  <2> QED BY <2>3, <2>4, <2>5, <2>6
<1>4. CASE Notify
  BY <1>4 DEF Notify, TypeOK, RegisteredTaskAlive, GetUncheckedIsReady, SleepInv,
     CallInv, FlagInv, CancelInv, StoredInv, Alive
<1> QED BY <1>1, <1>2, <1>3, <1>4 DEF SetterStep

\* The consumer's steps.
LEMMA ConsumerInv ==
    ASSUME IInv, ConsumerStep \/ \E c \in Calls : Begin(c)
    PROVE  IInv'
<1> USE DEF IInv, setterVars
<1>1. ASSUME NEW c \in Calls, Begin(c) PROVE IInv'
  <2>1. cpc' \in {"weak", "check", "suspend"}
    BY <1>1 DEF Begin, FirstStep
  <2>2. continuationPtr \in {Empty, Invalid}
    BY <1>1 DEF Begin, RegisteredTaskAlive, Alive
  <2>3. n \in Nat /\ n' = n + 1 /\ n' \in 0..MaxCalls
    BY <1>1 DEF Begin, TypeOK
  <2>4. TypeOK'
    <3>1. mDataReady' \in BOOLEAN
      BY <1>1 DEF Begin, TypeOK
    <3>2. cnt' \in 0..(SpinLimit - 1)
      BY <1>1 DEF Begin
    <3> QED BY <1>1, <2>1, <2>3, <3>1, <3>2 DEF Begin, TypeOK
  <2>5. CallInv'
    BY <1>1, <2>3 DEF Begin, CallInv
  <2> QED
    BY <1>1, <2>1, <2>2, <2>3, <2>4, <2>5 DEF Begin, RegisteredTaskAlive,
       GetUncheckedIsReady, SleepInv, FlagInv, CancelInv, StoredInv
<1>2. CASE IsReadyWeak
  BY <1>2 DEF IsReadyWeak, TypeOK, RegisteredTaskAlive, GetUncheckedIsReady, SleepInv,
     CallInv, FlagInv, CancelInv, StoredInv, Alive
<1>3. CASE IsReady
  <2>1. /\ cpc = "check"
        /\ cpc' \in {"idle", "check", "suspend", "result"}
        /\ cpc' = "result" => continuationPtr = Invalid
    BY <1>3 DEF IsReady, Ready
  <2>2. UNCHANGED <<continuationPtr, value, setterVars, n, call, mDataReady, got>>
    BY <1>3 DEF IsReady
  <2>3. cnt' \in 0..(SpinLimit - 1)
    <3>1. cnt' = 0 \/ (LookAgain(call, cnt) /\ cnt' = cnt + 1)
      BY <1>3 DEF IsReady
    <3>2. cnt \in 0..(SpinLimit - 1)
      BY DEF TypeOK
    <3> QED BY <3>1, <3>2 DEF LookAgain
  <2> QED
    BY <2>1, <2>2, <2>3 DEF TypeOK, RegisteredTaskAlive, GetUncheckedIsReady, SleepInv,
       CallInv, FlagInv, CancelInv, StoredInv, Alive
<1>4. CASE Suspend
  <2>1. cpc = "suspend" /\ UNCHANGED <<value, setterVars, n, call, cnt, mDataReady, got>>
    BY <1>4 DEF Suspend
  <2>2. n \in 1..MaxCalls /\ ~mDataReady /\ continuationPtr \in {Empty, Invalid}
    BY <2>1 DEF TypeOK, StoredInv, FlagInv, RegisteredTaskAlive, Alive
  <2>3. CASE continuationPtr = Empty
    <3>1. cpc' = "sleep" /\ continuationPtr' = n
      BY <1>4, <2>3 DEF Suspend, MaySuspend
    <3> QED
      BY <2>1, <2>2, <3>1 DEF TypeOK, RegisteredTaskAlive, GetUncheckedIsReady, SleepInv,
         CallInv, FlagInv, CancelInv, StoredInv, Alive
  <2>4. CASE continuationPtr = Invalid
    <3>1. cpc' \in {"result", "idle"} /\ continuationPtr' = Invalid
      BY <1>4, <2>4 DEF Suspend, MaySuspend, Ready
    <3> QED
      BY <2>1, <2>2, <2>4, <3>1 DEF TypeOK, RegisteredTaskAlive, GetUncheckedIsReady,
         SleepInv, CallInv, FlagInv, CancelInv, StoredInv, Alive
  <2> QED BY <2>2, <2>3, <2>4
<1>5. CASE WakeUp
  <2>1. /\ cpc = "sleep" /\ cpc' \in {"result", "idle"}
        /\ UNCHANGED <<continuationPtr, value, setterVars, n, call, cnt, mDataReady, got>>
    BY <1>5 DEF WakeUp, Ready
  <2>2. continuationPtr = Invalid /\ spc # "call"
    BY <1>5, <2>1 DEF WakeUp, FlagInv
  <2>3. TypeOK'
    BY <2>1 DEF TypeOK
  <2> QED
    BY <2>1, <2>2, <2>3 DEF RegisteredTaskAlive, GetUncheckedIsReady, SleepInv,
       CallInv, FlagInv, CancelInv, StoredInv
<1>6. CASE Timeout
  BY <1>6 DEF Timeout, TypeOK, RegisteredTaskAlive, GetUncheckedIsReady, SleepInv,
     CallInv, FlagInv, CancelInv, StoredInv, Alive
<1>7. CASE Cancel
  BY <1>7 DEF Cancel, AfterTimeout, TypeOK, RegisteredTaskAlive, GetUncheckedIsReady,
     SleepInv, CallInv, FlagInv, CancelInv, StoredInv, Alive
<1>8. CASE GetUnchecked
  BY <1>8 DEF GetUnchecked, TypeOK, RegisteredTaskAlive, GetUncheckedIsReady, SleepInv,
     CallInv, FlagInv, CancelInv, StoredInv, Alive
<1> QED BY <1>1, <1>2, <1>3, <1>4, <1>5, <1>6, <1>7, <1>8 DEF ConsumerStep

\* The inductive step: the setter, the consumer and a new call preserve IInv.
LEMMA NextInv == IInv /\ [Next]_vars => IInv'
<1> SUFFICES ASSUME IInv, [Next]_vars PROVE IInv'
  OBVIOUS
<1>1. CASE UNCHANGED vars
  BY <1>1 DEF vars, IInv, TypeOK, RegisteredTaskAlive, GetUncheckedIsReady, SleepInv,
     CallInv, FlagInv, CancelInv, StoredInv, Alive
<1> QED BY <1>1, SetterInv, ConsumerInv DEF Next

\* IInv is an invariant, wait_for() included.
THEOREM Invariance == Spec => []IInv
BY InitInv, NextInv, PTL DEF Spec

\* Every variable keeps its type, for any number of calls.
THEOREM TypeCorrect == Spec => []TypeOK
<1>1. IInv => TypeOK
  BY DEF IInv
<1> QED BY <1>1, Invariance, PTL

\* No continuation outlives its registration.
THEOREM TaskAlive == Spec => []RegisteredTaskAlive
<1>1. IInv => RegisteredTaskAlive
  BY DEF IInv
<1> QED BY <1>1, Invariance, PTL

\* The assert of get_unchecked() never fails.
THEOREM GetReady == Spec => []GetUncheckedIsReady
<1>1. IInv => GetUncheckedIsReady
  BY DEF IInv
<1> QED BY <1>1, Invariance, PTL

-----------------------------------------------------------------------------
\* Only the exchange of a timeout takes InvalidHandle out of the pointer again.
LEMMA HandoverStep ==
    ASSUME IInv, HandoverInv, [Next]_vars
    PROVE  HandoverInv'
<1> USE DEF IInv, setterVars
<1>1. ASSUME NEW o \in Outcomes, Store(o) PROVE HandoverInv'
  BY <1>1 DEF Store, HandoverInv
<1>2. CASE OnReady
  BY <1>2 DEF OnReady, MustCall, HandoverInv, StoredInv, RegisteredTaskAlive, Alive
<1>3. CASE CallContinuation \/ Notify
  BY <1>3 DEF CallContinuation, Notify, Notifies, HandoverInv
<1>4. ASSUME NEW c \in Calls, Begin(c) PROVE HandoverInv'
  BY <1>4 DEF Begin, FirstStep, HandoverInv, Alive
<1>5. CASE IsReadyWeak \/ IsReady \/ GetUnchecked
  BY <1>5 DEF IsReadyWeak, IsReady, GetUnchecked, HandoverInv, Alive
<1>6. CASE Suspend
  BY <1>6 DEF Suspend, MaySuspend, HandoverInv, Alive, TypeOK
<1>7. CASE WakeUp
  BY <1>7 DEF WakeUp, HandoverInv, FlagInv
<1>8. CASE Timeout
  BY <1>8 DEF Timeout, HandoverInv, Alive
<1>9. CASE Cancel
  BY <1>9 DEF Cancel, AfterTimeout, HandoverInv
<1>10. CASE UNCHANGED vars
  BY <1>10 DEF vars, HandoverInv, Alive
<1> QED
  BY <1>1, <1>2, <1>3, <1>4, <1>5, <1>6, <1>7, <1>8, <1>9, <1>10
     DEF Next, SetterStep, ConsumerStep

\* When the setter calls a continuation, its owner is still asleep, or a timeout
\* has erased InvalidHandle.
THEOREM CallLive == Spec => []CallEntersLiveTask
<1>1. IInv /\ HandoverInv /\ [Next]_vars => HandoverInv'
  BY HandoverStep
<1>2. HandoverInv => CallEntersLiveTask
  BY DEF HandoverInv, CallEntersLiveTask
<1> QED BY <1>1, <1>2, InitInv, Invariance, PTL DEF Spec

\* The steps of the code are steps of the one-shot specification.
LEMMA RefinementStep ==
    ASSUME IInv, [Next]_vars
    PROVE  [Abs!Next]_(Abs!vars)
<1> USE DEF IInv, setterVars
<1>1. ASSUME UNCHANGED <<spc, value, got>> PROVE [Abs!Next]_(Abs!vars)
  BY <1>1 DEF Abs!vars
<1>2. ASSUME NEW o \in Outcomes, Store(o) PROVE [Abs!Next]_(Abs!vars)
  BY <1>2 DEF Store, Abs!vars
<1>3. CASE OnReady
  <2>1. spc = "stored" /\ spc' \in {"call", "done"} /\ value' = value /\ got' = got
    BY <1>3 DEF OnReady
  <2>2. value \in Outcomes
    BY <2>1 DEF StoredInv, TypeOK
  <2>3. Abs!Set(value)
    BY <2>1 DEF Abs!Set
  <2> QED BY <2>2, <2>3 DEF Abs!Next
<1>4. CASE CallContinuation \/ Notify
  BY <1>4 DEF CallContinuation, Notify, Abs!vars
<1>5. CASE GetUnchecked
  <2>1. spc \notin {"idle", "stored"} /\ value # Unset
    BY <1>5 DEF GetUnchecked, GetUncheckedIsReady, StoredInv
  <2>2. Abs!Get
    BY <1>5, <2>1 DEF GetUnchecked, Abs!Get
  <2> QED BY <2>2 DEF Abs!Next
<1>6. CASE IsReadyWeak \/ IsReady \/ Suspend \/ WakeUp \/ Timeout \/ Cancel
           \/ (\E c \in Calls : Begin(c)) \/ UNCHANGED vars
  BY <1>1, <1>6 DEF IsReadyWeak, IsReady, Suspend, WakeUp, Timeout, Cancel, Begin, vars
<1> QED
  BY <1>2, <1>3, <1>4, <1>5, <1>6 DEF Next, SetterStep, ConsumerStep

\* The future is a one-shot future, for every mix of its functions.
THEOREM Refinement == Spec => ImplementsOneShot
<1>1. Init => Abs!Init
  BY DEF Init, Abs!Init
<1>2. IInv /\ [Next]_vars => [Abs!Next]_(Abs!vars)
  BY RefinementStep
<1> QED
  BY <1>1, <1>2, Invariance, PTL DEF Spec, ImplementsOneShot, Abs!Spec
=============================================================================
