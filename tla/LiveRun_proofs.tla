----------------------------- MODULE LiveRun_proofs -----------------------------
(***************************************************************************)
(* The spend guard of the live runners, for any number of calls, any       *)
(* limits and any costs.                                                   *)
(***************************************************************************)
EXTENDS LiveRun, TLAPS

\* Once a call was made the plan fitted the limit, and the guard has allowed as
\* much as every call may cost.
PlanFitted == attempted > 0 => Calls * MaxCallCost <= limit

\* What is billed, and with it the total, is paid for by the calls made and by
\* what single ones cost above the maximum.
CallsPay ==
    /\ total <= billed
    /\ billed <= attempted * MaxCallCost + excess

\* The counters between two steps, and why a run has left its loop.
Accounted ==
    /\ exit # 2 => attempted = valid + invalid + failures
    /\ matches <= valid
    /\ (runner = "validation" /\ failures > 0) => pc = "ended" /\ exit # 0 /\ failures = 1
    /\ pc # "ended" => exit = 0 /\ ~summarized
    /\ (pc = "ended" /\ exit = 0) => summarized /\ attempted = Calls
    /\ (pc = "ended" /\ runner = "evaluation") => (summarized <=> exit # 2)

StoppedForAReason ==
    \/ runner = "validation" /\ failures = 1
    \/ excess > 0
    \/ attempted = 0 /\ Calls * MaxCallCost > limit

ShortRuns ==
    /\ (pc = "summary" /\ attempted # Calls) => StoppedForAReason
    /\ (pc = "ended" /\ exit = 1) => StoppedForAReason

IInv == TypeOK /\ total <= limit + overrun /\ PlanFitted /\ CallsPay /\ Accounted /\ ShortRuns

(***************************************************************************)
(* Arithmetic of the guard                                                 *)
(***************************************************************************)
LEMMA OneMore ==
    ASSUME NEW n \in Nat, NEW m \in Nat
    PROVE  (n + 1) * m = n * m + m /\ n * m \in Nat
OBVIOUS

LEMMA FewerCost ==
    ASSUME NEW n \in Nat, NEW k \in Nat, NEW m \in Nat, n <= k
    PROVE  n * m <= k * m /\ (k - n) * m = k * m - n * m
<1>1. PICK d \in Nat : k = n + d
  <2>1. k - n \in Nat /\ k = n + (k - n)
    OBVIOUS
  <2> QED
    BY <2>1
<1>2. k * m = n * m + d * m /\ d * m \in Nat /\ k - n = d
  BY <1>1
<1> QED
  BY <1>2

\* A call the guard allowed leaves room for its own assumed cost, and at the
\* first call for those of the whole plan.
LEMMA GuardLeavesRoom ==
    ASSUME TypeOK, attempted < Calls, GuardAllows
    PROVE  /\ total + MaxCallCost <= limit
           /\ attempted = 0 => Calls * MaxCallCost <= limit
<1> USE CallsAssumption DEF TypeOK
<1>1. limit \in Nat /\ Calls \in Nat /\ attempted \in Nat
  OBVIOUS
<1>2. 1 * MaxCallCost <= (Calls - attempted) * MaxCallCost
  <2>1. Calls - attempted \in Nat /\ 1 <= Calls - attempted
    BY <1>1
  <2> QED
    BY <2>1, FewerCost
<1>3. (Calls - attempted) * MaxCallCost \in Nat
  BY <1>1, OneMore
<1> QED
  BY <1>1, <1>2, <1>3 DEF GuardAllows

\* A run the guard stops has a call above the maximum behind it, or a plan that
\* never fitted.
LEMMA BlockedForAReason ==
    ASSUME IInv, attempted < Calls, ~GuardAllows
    PROVE  StoppedForAReason
<1> USE CallsAssumption DEF IInv, TypeOK
<1>1. limit \in Nat /\ Calls \in Nat /\ attempted \in Nat
  OBVIOUS
<1>2. CASE attempted = 0
  <2>1. CASE total = 0
    BY <1>1, <1>2, <2>1 DEF GuardAllows, StoppedForAReason
  <2>2. CASE total # 0
    <3>1. attempted * MaxCallCost = 0
      BY <1>2
    <3> QED
      BY <2>2, <3>1 DEF CallsPay, StoppedForAReason
  <2> QED
    BY <2>1, <2>2
<1>3. CASE attempted > 0
  <2>1. (Calls - attempted) * MaxCallCost = Calls * MaxCallCost - attempted * MaxCallCost
    BY <1>1, FewerCost
  <2>2. Calls * MaxCallCost \in Nat /\ attempted * MaxCallCost \in Nat
    BY <1>1, OneMore
  <2>3. total > attempted * MaxCallCost
    BY <1>1, <1>3, <2>1, <2>2 DEF GuardAllows, PlanFitted
  <2> QED
    BY <2>2, <2>3 DEF CallsPay, StoppedForAReason
<1> QED
  BY <1>1, <1>2, <1>3

(***************************************************************************)
(* The invariant                                                           *)
(***************************************************************************)
LEMMA InitIInv == Init => IInv
<1> SUFFICES ASSUME Init PROVE IInv
  OBVIOUS
<1> USE CallsAssumption DEF Init
<1>1. TypeOK /\ total <= limit + overrun
  <2>1. limit \in Nat /\ 0 \in 0 .. Calls /\ 0 <= limit + 0
    OBVIOUS
  <2> QED
    BY <2>1 DEF TypeOK
<1>2. 0 * MaxCallCost = 0
  OBVIOUS
<1> QED
  BY <1>1, <1>2 DEF IInv, PlanFitted, CallsPay, Accounted, ShortRuns

LEMMA OverIsANumber == ASSUME NEW c \in Nat PROVE Over(c) \in Nat /\ c <= MaxCallCost + Over(c)
BY CallsAssumption DEF Over

LEMMA CallStep == IInv /\ Call => IInv'
<1> SUFFICES ASSUME IInv, Call PROVE IInv'
  OBVIOUS
<1> USE CallsAssumption
<1>1. PICK x \in Exchange, cost \in Costs :
        /\ Fail(x) \/ Raise(x) \/ Grade(x, cost)
        /\ \E amount \in Charges(x, cost) : Bill(amount)
  BY DEF Call
<1>2. PICK amount \in Charges(x, cost) : Bill(amount)
  BY <1>1
<1>3. AtCall /\ GuardAllows /\ UNCHANGED <<runner, limit>>
  BY DEF Call
<1>4. cost \in Nat
  OBVIOUS
<1>5. amount \in {0, cost}
  BY <1>2 DEF Charges, Exchange, Lost, Rejected, Success
<1>6. Complete(x) = "response" => amount = cost
  BY <1>2 DEF Charges, Complete, Exchange, Lost, Rejected, Success
<1>7. amount \in Nat /\ Over(amount) \in Nat /\ amount <= MaxCallCost + Over(amount)
  BY <1>4, <1>5, OverIsANumber
<1>8. Over(cost) \in Nat /\ cost <= MaxCallCost + Over(cost)
  BY <1>4, OverIsANumber
<1>9. attempted' = attempted + 1 /\ billed' = billed + amount /\ excess' = excess + Over(amount)
  BY <1>1, <1>2 DEF Bill, Fail, Raise, Grade
<1>10. TypeOK /\ attempted < Calls /\ pc = "loop" /\ exit = 0 /\ ~summarized /\ limit \in Nat
  BY <1>3 DEF AtCall, IInv, TypeOK, Accounted
<1>11. TypeOK'
  <2>1. /\ valid' \in Nat /\ invalid' \in Nat /\ failures' \in Nat /\ matches' \in Nat
        /\ total' \in Nat /\ overrun' \in Nat
    BY <1>1, <1>4, <1>8, <1>10 DEF TypeOK, Fail, Raise, Grade, End
  <2>2. pc' \in {"loop", "summary", "ended"} /\ summarized' \in BOOLEAN /\ exit' \in {0, 1, 2}
    BY <1>1, <1>10 DEF TypeOK, Fail, Raise, Grade, End
  <2>3. attempted' \in 0 .. Calls /\ billed' \in Nat /\ excess' \in Nat
    BY <1>7, <1>9, <1>10 DEF TypeOK
  <2> QED
    BY <1>3, <1>10, <2>1, <2>2, <2>3 DEF TypeOK
<1>12. total + MaxCallCost <= limit /\ (attempted = 0 => Calls * MaxCallCost <= limit)
  BY <1>3, <1>10, GuardLeavesRoom DEF AtCall
<1>13. (total <= limit + overrun)'
  <2>1. CASE Grade(x, cost)
    BY <2>1, <1>3, <1>4, <1>8, <1>10, <1>12 DEF Grade, TypeOK
  <2>2. CASE Fail(x) \/ Raise(x)
    BY <2>2, <1>3 DEF Fail, Raise, IInv
  <2> QED
    BY <1>1, <2>1, <2>2
<1>14. PlanFitted'
  BY <1>3, <1>10, <1>12 DEF IInv, TypeOK, PlanFitted
<1>15. CallsPay'
  <2>1. total' <= billed'
    <3>1. total' = total \/ (total' = total + cost /\ amount = cost)
      BY <1>1, <1>6 DEF Fail, Raise, Grade
    <3> QED
      BY <1>4, <1>7, <1>9, <1>10, <3>1 DEF IInv, CallsPay, TypeOK
  <2>2. (attempted + 1) * MaxCallCost = attempted * MaxCallCost + MaxCallCost
        /\ attempted * MaxCallCost \in Nat
    BY <1>10, OneMore DEF TypeOK
  <2>3. billed <= attempted * MaxCallCost + excess
    BY DEF IInv, CallsPay
  <2>4. billed \in Nat /\ excess \in Nat
    BY <1>10 DEF TypeOK
  <2>5. billed + amount <= attempted * MaxCallCost + MaxCallCost + (excess + Over(amount))
    BY <1>7, <2>2, <2>3, <2>4
  <2>6. billed' <= attempted' * MaxCallCost + excess'
    BY <1>9, <2>2, <2>5
  <2> QED
    BY <2>1, <2>6 DEF CallsPay
<1>16. Accounted' /\ ShortRuns'
  <2> USE <1>3, <1>9, <1>10 DEF IInv, TypeOK, Accounted, ShortRuns, StoppedForAReason
  <2>1. CASE Fail(x)
    BY <2>1 DEF Fail, End
  <2>2. CASE Raise(x)
    BY <2>2 DEF Raise, End
  <2>3. CASE Grade(x, cost)
    BY <2>3 DEF Grade
  <2> QED
    BY <1>1, <2>1, <2>2, <2>3
<1> QED
  BY <1>11, <1>13, <1>14, <1>15, <1>16 DEF IInv

LEMMA IInvStep == IInv /\ [Next]_vars => IInv'
<1> SUFFICES ASSUME IInv, [Next]_vars PROVE IInv'
  OBVIOUS
<1> USE CallsAssumption
<1>1. CASE Call
  BY <1>1, CallStep
<1>2. CASE Block
  <2>1. AtCall /\ StoppedForAReason
    BY <1>2, BlockedForAReason DEF Block, AtCall
  <2> QED
    BY <1>2, <2>1 DEF Block, End, AtCall, counters, history, IInv, TypeOK, PlanFitted, CallsPay,
       Accounted, ShortRuns, StoppedForAReason
<1>3. CASE Finish
  BY <1>3 DEF Finish, counters, history, IInv, TypeOK, PlanFitted, CallsPay,
     Accounted, ShortRuns, StoppedForAReason
<1>4. CASE Summarize
  BY <1>4 DEF Summarize, counters, history, IInv, TypeOK, PlanFitted, CallsPay,
     Accounted, ShortRuns, StoppedForAReason
<1>5. CASE UNCHANGED vars
  BY <1>5 DEF vars, counters, history, IInv, TypeOK, PlanFitted, CallsPay,
     Accounted, ShortRuns, StoppedForAReason
<1> QED
  BY <1>1, <1>2, <1>3, <1>4, <1>5 DEF Next

LEMMA Invariance == Spec => []IInv
<1> QED
  BY InitIInv, IInvStep, PTL DEF Spec

(***************************************************************************)
(* Theorems                                                                *)
(***************************************************************************)
LEMMA BillIsBounded == IInv => SpendIsBounded
<1> SUFFICES ASSUME IInv PROVE SpendIsBounded
  OBVIOUS
<1> USE CallsAssumption DEF IInv, TypeOK
<1>1. limit \in Nat /\ Calls \in Nat /\ attempted \in Nat /\ attempted <= Calls
  OBVIOUS
<1>2. attempted * MaxCallCost <= limit
  <2>1. CASE attempted = 0
    BY <1>1, <2>1
  <2>2. CASE attempted > 0
    <3>1. attempted * MaxCallCost <= Calls * MaxCallCost
      BY <1>1, FewerCost
    <3>2. attempted * MaxCallCost \in Nat /\ Calls * MaxCallCost \in Nat
      BY <1>1, OneMore
    <3> QED
      BY <1>1, <2>2, <3>1, <3>2 DEF PlanFitted
  <2> QED
    BY <1>1, <2>1, <2>2
<1>3. attempted * MaxCallCost \in Nat
  BY <1>1, OneMore
<1> QED
  BY <1>1, <1>2, <1>3 DEF SpendIsBounded, CallsPay

\* The guard of the live runners: the reported total passes the authorized limit
\* by no more than the last call cost above the assumed maximum, and the bill by
\* no more than all calls did, whatever was never counted.
THEOREM SpendStaysAuthorized == Spec => []SpendIsBounded
<1> QED
  BY Invariance, BillIsBounded, PTL

\* The summary and the exit code of the live runners account for every call, and
\* a run stops short only for a failure, an overrun or a plan that never fitted.
THEOREM ReportsAreComplete == Spec => []ReportIsComplete
<1>1. IInv => ReportIsComplete
  BY DEF IInv, TypeOK, CallsPay, Accounted, ShortRuns, StoppedForAReason, ReportIsComplete
<1> QED
  BY Invariance, <1>1, PTL

================================================================================
