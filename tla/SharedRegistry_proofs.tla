------------------------- MODULE SharedRegistry_proofs -------------------------
(***************************************************************************)
(* Proofs about workflow runs that share an ExecutionRegistry, for any     *)
(* sets of cases, dispositions and runs and any attempt limit.             *)
(***************************************************************************)
EXTENDS SharedRegistry, TLAPS

(***************************************************************************)
(* The methods of the registry: what each leaves in the store              *)
(***************************************************************************)

\* get_or_create keeps an operation that exists and creates one not started.
LEMMA GetOrCreateStep ==
    ASSUME NEW k \in Keys, operations \in [Keys -> Operation], GetOrCreate(k)
    PROVE  /\ operations' \in [Keys -> Operation]
           /\ \A j \in Keys \ {k} : operations'[j] = operations[j]
           /\ \/ operations'[k] = operations[k] /\ operations[k].status # "absent"
              \/ operations[k].status = "absent" /\ operations'[k].status = "not_started"
<1>1. CASE UNCHANGED operations /\ IsCreated(k)
  BY <1>1 DEF IsCreated
<1>2. CASE /\ ~IsCreated(k)
           /\ operations' = [operations EXCEPT ![k] = [status |-> "not_started", attempts |-> 0]]
  <2>1. [status |-> "not_started", attempts |-> 0] \in Operation
    BY DEF Operation, OperationStatus
  <2> QED
    BY <1>2, <2>1 DEF IsCreated
<1> QED
  BY <1>1, <1>2 DEF GetOrCreate

\* start_attempt opens an attempt on an operation that is new or has failed.
LEMMA StartAttemptStep ==
    ASSUME NEW k \in Keys, operations \in [Keys -> Operation], StartAttempt(k)
    PROVE  /\ operations' \in [Keys -> Operation]
           /\ \A j \in Keys \ {k} : operations'[j] = operations[j]
           /\ operations[k].status \in {"not_started", "failed"}
           /\ operations'[k].status = "in_progress"
<1> DEFINE n == operations[k].attempts + 1
           new == [status |-> "in_progress", attempts |-> n]
<1>1. operations[k] \in [status : OperationStatus \cup {"absent"}, attempts : Nat]
  BY DEF Operation
<1>2. operations' = [operations EXCEPT ![k] = new]
  BY <1>1 DEF StartAttempt
<1>3. n \in Nat /\ n # 0
  BY <1>1
<1>4. new \in Operation
  BY <1>3 DEF Operation, OperationStatus
<1> QED
  BY <1>2, <1>4 DEF StartAttempt, CanStartAttempt

\* record_success and record_failure close an attempt that is open.
LEMMA FinishStep ==
    ASSUME NEW k \in Keys, NEW s \in {"succeeded", "failed"},
           operations \in [Keys -> Operation], Finish(k, s)
    PROVE  /\ operations' \in [Keys -> Operation]
           /\ \A j \in Keys \ {k} : operations'[j] = operations[j]
           /\ operations[k].status = "in_progress"
           /\ operations'[k].status = s
<1> DEFINE new == [status |-> s, attempts |-> operations[k].attempts]
<1>1. /\ operations[k] \in [status : OperationStatus \cup {"absent"}, attempts : Nat]
      /\ operations[k].status = "in_progress"
      /\ operations[k].attempts # 0
  BY DEF Operation, Finish, CanFinish
<1>2. operations' = [operations EXCEPT ![k] = new]
  <2>1. [operations[k] EXCEPT !.status = s] = new
    BY <1>1
  <2>2. operations' = [operations EXCEPT ![k] = [operations[k] EXCEPT !.status = s]]
    BY DEF Finish
  <2> QED
    BY <2>1, <2>2
<1>3. new \in Operation
  BY <1>1 DEF Operation, OperationStatus
<1> QED
  BY <1>1, <1>2, <1>3

(***************************************************************************)
(* The inductive invariant.  OneAttemptAtATime and StoreIsTruthful speak   *)
(* of the store; what makes them inductive is what a run may rely on       *)
(* between its steps while others take theirs.                             *)
(***************************************************************************)
\* between start_attempt and the record nobody else acts on the key
RunsRelyOn(r) ==
    /\ phase[r] # "idle" => key[r] \in Keys
    /\ phase[r] \in {"idle", "obtained"} => tries[r] < MaxAttemptsPerCall
    /\ phase[r] \in {"calling", "refused"} => effects[key[r]] = 0
    /\ phase[r] = "acted" => effects[key[r]] = 1
    /\ (phase[r] = "obtained" /\ observed[r] = "succeeded")
          => operations[key[r]].status = "succeeded"
    /\ reported[r] # <<>> => phase[r] = "done"

IInv == TypeOK /\ OneAttemptAtATime /\ StoreIsTruthful /\ \A r \in Runs : RunsRelyOn(r)

LEMMA InitIInv == Init => IInv
<1> SUFFICES ASSUME Init PROVE IInv
  OBVIOUS
<1>1. Absent \in Operation /\ Absent.status = "absent"
  BY DEF Absent, Operation, OperationStatus
<1>2. TypeOK
  BY <1>1, AttemptsAssumption DEF Init, RegistryInit, TypeOK, Phases
<1>3. OneAttemptAtATime /\ StoreIsTruthful
  BY <1>1 DEF Init, RegistryInit, OneAttemptAtATime, StoreIsTruthful, Owns
<1>4. \A r \in Runs : RunsRelyOn(r)
  BY AttemptsAssumption DEF Init, RunsRelyOn
<1> QED
  BY <1>2, <1>3, <1>4 DEF IInv

(***************************************************************************)
(* Steps that leave the store alone move one run; the others also change   *)
(* the operation of its key.  Each action is looked at once per conjunct.  *)
(***************************************************************************)
LEMMA TypeStep ==
    ASSUME IInv, NEW q \in Runs, RunStep(q)
    PROVE  TypeOK'
<1> USE AttemptsAssumption DEF IInv, TypeOK, Phases
<1>0. key[q] \in Keys \/ phase[q] = "idle"
  BY DEF RunsRelyOn
<1>1. ASSUME NEW c \in Cases, NEW d \in Dispositions, Obtain(q, c, d) PROVE TypeOK'
  <2> DEFINE k == <<c, d>>
  <2>1. k \in Keys /\ GetOrCreate(k)
    BY <1>1 DEF Obtain, IdempotencyKey, Keys
  <2>2. operations' \in [Keys -> Operation]
    BY <2>1, GetOrCreateStep
  <2>3. operations'[k].status \in OperationStatus \cup {"absent"}
    BY <2>1, <2>2 DEF Operation
  <2> QED
    BY <1>1, <2>1, <2>2, <2>3 DEF Obtain, IdempotencyKey
<1>2. CASE SuppressDuplicate(q)
  BY <1>0, <1>2 DEF SuppressDuplicate, Finished
<1>3. CASE BeginAttempt(q)
  <2>1. key[q] \in Keys /\ StartAttempt(key[q])
    BY <1>0, <1>3 DEF BeginAttempt
  <2>2. operations' \in [Keys -> Operation] /\ operations'[key[q]].status = "in_progress"
    BY <2>1, StartAttemptStep
  <2>3. tries[q] + 1 \in 0 .. MaxAttemptsPerCall
    BY <1>3 DEF BeginAttempt, RunsRelyOn
  <2> QED
    BY <1>3, <2>2, <2>3 DEF BeginAttempt, See, OperationStatus
<1>4. CASE AttemptRejected(q)
  BY <1>0, <1>4 DEF AttemptRejected, Finished
<1>5. CASE BudgetRefuses(q)
  BY <1>0, <1>5 DEF BudgetRefuses, Finished
<1>6. CASE AdapterActs(q)
  BY <1>0, <1>6 DEF AdapterActs
<1>7. CASE AdapterRefuses(q)
  BY <1>7 DEF AdapterRefuses
<1>8. CASE AdapterLost(q)
  BY <1>0, <1>8 DEF AdapterLost, Finished
<1>9. CASE RecordActed(q)
  <2>1. key[q] \in Keys /\ Finish(key[q], "succeeded")
    BY <1>0, <1>9 DEF RecordActed, RecordSuccess
  <2>2. operations' \in [Keys -> Operation] /\ operations'[key[q]].status = "succeeded"
    BY <2>1, FinishStep
  <2> QED
    BY <1>9, <2>1, <2>2 DEF RecordActed, See, Finished, OperationStatus
<1>10. CASE RecordRefused(q)
  <2>1. key[q] \in Keys /\ Finish(key[q], "failed")
    BY <1>0, <1>10 DEF RecordRefused, RecordFailure
  <2>2. operations' \in [Keys -> Operation] /\ operations'[key[q]].status = "failed"
    BY <2>1, FinishStep
  <2> QED
    BY <1>10, <2>1, <2>2 DEF RecordRefused, See, Finished, OperationStatus
<1>11. CASE RetryRefused(q)
  <2>1. key[q] \in Keys /\ Finish(key[q], "failed")
    BY <1>0, <1>11 DEF RetryRefused, RecordFailure
  <2>2. operations' \in [Keys -> Operation] /\ operations'[key[q]].status = "failed"
    BY <2>1, FinishStep
  <2> QED
    BY <1>11, <2>2 DEF RetryRefused, See, OperationStatus
<1> QED
  BY <1>1, <1>2, <1>3, <1>4, <1>5, <1>6, <1>7, <1>8, <1>9, <1>10, <1>11 DEF RunStep

SafeStore == OneAttemptAtATime /\ StoreIsTruthful /\ \A r \in Runs : RunsRelyOn(r)

LEMMA SafeStep ==
    ASSUME IInv, NEW q \in Runs, RunStep(q)
    PROVE  SafeStore'
<1> USE DEF IInv, TypeOK, SafeStore, OneAttemptAtATime, StoreIsTruthful, RunsRelyOn, Owns
<1>0. key[q] \in Keys \/ phase[q] = "idle"
  OBVIOUS
<1>1. ASSUME NEW c \in Cases, NEW d \in Dispositions, Obtain(q, c, d) PROVE SafeStore'
  <2> DEFINE k == <<c, d>>
  <2>1. k \in Keys /\ GetOrCreate(k)
    BY <1>1 DEF Obtain, IdempotencyKey, Keys
  <2>2. /\ \A j \in Keys \ {k} : operations'[j] = operations[j]
        /\ \/ operations'[k] = operations[k] /\ operations[k].status # "absent"
           \/ operations[k].status = "absent" /\ operations'[k].status = "not_started"
    BY <2>1, GetOrCreateStep
  <2>3. /\ phase[q] = "idle" /\ phase'[q] = "obtained"
        /\ key'[q] = k /\ observed'[q] = operations'[k].status
        /\ \A r \in Runs \ {q} :
              key'[r] = key[r] /\ phase'[r] = phase[r] /\ observed'[r] = observed[r]
        /\ UNCHANGED <<tries, effects, reported>>
    BY <1>1 DEF Obtain, IdempotencyKey
  <2>4. ASSUME NEW j \in Keys
        PROVE  /\ operations[j].status = "in_progress" <=> operations'[j].status = "in_progress"
               /\ operations[j].status = "succeeded" <=> operations'[j].status = "succeeded"
               /\ operations[j].status = "failed" <=> operations'[j].status = "failed"
    <3>1. CASE j = k
      BY <2>2, <3>1
    <3>2. CASE j # k
      BY <2>2, <3>2
    <3> QED
      BY <3>1, <3>2
  <2>5. ASSUME NEW j \in Keys, NEW r \in Runs
        PROVE  Owns(r, j)' <=> Owns(r, j)
    BY <2>3
  <2>6. OneAttemptAtATime'
    <3> HIDE DEF Owns
    <3> QED
      BY <2>4, <2>5
  <2>7. StoreIsTruthful'
    <3> SUFFICES ASSUME NEW j \in Keys
                 PROVE  /\ operations'[j].status = "succeeded" => effects'[j] = 1
                        /\ operations'[j].status \in {"absent", "not_started", "failed"}
                              => effects'[j] = 0
      OBVIOUS
    <3>1. CASE j = k
      BY <2>1, <2>2, <2>3, <3>1
    <3>2. CASE j # k
      BY <2>2, <2>3, <3>2
    <3> QED
      BY <3>1, <3>2
  <2>8. RunsRelyOn(q)'
    BY <2>1, <2>2, <2>3
  <2>9. ASSUME NEW r \in Runs \ {q} PROVE RunsRelyOn(r)'
    <3>1. RunsRelyOn(r)
      OBVIOUS
    <3> QED
      BY <2>3, <2>4, <3>1
  <2> QED
    BY <2>6, <2>7, <2>8, <2>9
<1>2. CASE SuppressDuplicate(q)
  BY <1>2 DEF SuppressDuplicate, Finished
<1>3. CASE BeginAttempt(q)
  <2>1. key[q] \in Keys /\ StartAttempt(key[q])
    BY <1>0, <1>3 DEF BeginAttempt
  <2>2. /\ \A j \in Keys \ {key[q]} : operations'[j] = operations[j]
        /\ operations[key[q]].status \in {"not_started", "failed"}
        /\ operations'[key[q]].status = "in_progress"
    BY <2>1, StartAttemptStep
  <2>3. OneAttemptAtATime' /\ StoreIsTruthful'
    BY <1>3, <2>1, <2>2 DEF BeginAttempt, See
  <2>4. \A r \in Runs : RunsRelyOn(r)'
    BY <1>3, <2>1, <2>2 DEF BeginAttempt, See
  <2> QED
    BY <2>3, <2>4
<1>4. CASE AttemptRejected(q)
  BY <1>4 DEF AttemptRejected, Finished
<1>5. CASE BudgetRefuses(q)
  BY <1>5 DEF BudgetRefuses, Finished
<1>6. CASE AdapterActs(q)
  <2>1. OneAttemptAtATime' /\ StoreIsTruthful'
    BY <1>0, <1>6 DEF AdapterActs
  <2>2. \A r \in Runs : RunsRelyOn(r)'
    BY <1>0, <1>6 DEF AdapterActs
  <2> QED
    BY <2>1, <2>2
<1>7. CASE AdapterRefuses(q)
  BY <1>7 DEF AdapterRefuses
<1>8. CASE AdapterLost(q)
  <2>1. OneAttemptAtATime' /\ StoreIsTruthful'
    BY <1>0, <1>8 DEF AdapterLost, Finished
  <2>2. \A r \in Runs : RunsRelyOn(r)'
    BY <1>0, <1>8 DEF AdapterLost, Finished
  <2> QED
    BY <2>1, <2>2
<1>9. CASE RecordActed(q)
  <2>1. key[q] \in Keys /\ Finish(key[q], "succeeded")
    BY <1>0, <1>9 DEF RecordActed, RecordSuccess
  <2>2. /\ \A j \in Keys \ {key[q]} : operations'[j] = operations[j]
        /\ operations[key[q]].status = "in_progress"
        /\ operations'[key[q]].status = "succeeded"
    BY <2>1, FinishStep
  <2>3. /\ phase[q] = "acted" /\ phase'[q] = "done"
        /\ \A r \in Runs \ {q} : phase'[r] = phase[r] /\ reported'[r] = reported[r]
        /\ UNCHANGED <<key, tries, effects>>
        /\ \A r \in Runs \ {q} : observed'[r] = observed[r]
    BY <1>9 DEF RecordActed, See, Finished
  <2>4. OneAttemptAtATime'
    BY <2>1, <2>2, <2>3
  <2>5. StoreIsTruthful'
    BY <2>1, <2>2, <2>3
  <2>6. RunsRelyOn(q)'
    BY <2>1, <2>3
  <2>7. ASSUME NEW r \in Runs \ {q} PROVE RunsRelyOn(r)'
    <3>1. RunsRelyOn(r) /\ (phase[r] # "idle" => key[r] \in Keys)
      OBVIOUS
    <3>2. ASSUME key[r] \in Keys, operations[key[r]].status = "succeeded"
          PROVE  operations'[key[r]].status = "succeeded"
      BY <2>2, <3>2
    <3> QED
      BY <2>3, <3>1, <3>2
  <2> QED
    BY <2>4, <2>5, <2>6, <2>7
<1>10. ASSUME phase[q] = "refused", Finish(key[q], "failed"), UNCHANGED <<key, effects, tries>>,
              \A r \in Runs \ {q} : phase'[r] = phase[r] /\ observed'[r] = observed[r]
                                    /\ reported'[r] = reported[r],
              \/ phase'[q] = "done"
              \/ /\ phase'[q] = "obtained" /\ observed'[q] = "failed"
                 /\ tries[q] < MaxAttemptsPerCall /\ reported'[q] = <<>>
       PROVE  SafeStore'
  <2>1. key[q] \in Keys
    BY <1>0, <1>10
  <2>2. /\ \A j \in Keys \ {key[q]} : operations'[j] = operations[j]
        /\ operations[key[q]].status = "in_progress"
        /\ operations'[key[q]].status = "failed"
    BY <2>1, <1>10, FinishStep
  <2>3. OneAttemptAtATime'
    BY <1>10, <2>1, <2>2
  <2>4. StoreIsTruthful'
    <3> SUFFICES ASSUME NEW j \in Keys
                 PROVE  /\ operations'[j].status = "succeeded" => effects'[j] = 1
                        /\ operations'[j].status \in {"absent", "not_started", "failed"}
                              => effects'[j] = 0
      OBVIOUS
    <3>1. CASE j = key[q]
      BY <1>10, <2>1, <2>2, <3>1
    <3>2. CASE j # key[q]
      BY <1>10, <2>2, <3>2
    <3> QED
      BY <3>1, <3>2
  <2>5. RunsRelyOn(q)'
    BY <1>10, <2>1, <2>2
  <2>6. ASSUME NEW r \in Runs \ {q} PROVE RunsRelyOn(r)'
    <3>1. RunsRelyOn(r) /\ (phase[r] # "idle" => key[r] \in Keys)
      OBVIOUS
    <3>2. ASSUME key[r] \in Keys, operations[key[r]].status = "succeeded"
          PROVE  operations'[key[r]].status = "succeeded"
      BY <2>2, <3>2
    <3> QED
      BY <1>10, <3>1, <3>2
  <2> QED
    BY <2>3, <2>4, <2>5, <2>6
<1>11. CASE RecordRefused(q)
  BY <1>10, <1>11 DEF RecordRefused, RecordFailure, See, Finished
<1>12. CASE RetryRefused(q)
  <2>1. Finish(key[q], "failed") /\ key[q] \in Keys
    BY <1>0, <1>12 DEF RetryRefused, RecordFailure
  <2>2. operations'[key[q]].status = "failed"
    BY <2>1, FinishStep
  <2> QED
    BY <1>10, <1>12, <2>1, <2>2 DEF RetryRefused, See
<1> QED
  BY <1>1, <1>2, <1>3, <1>4, <1>5, <1>6, <1>7, <1>8, <1>9, <1>11, <1>12 DEF RunStep

LEMMA IInvStep == IInv /\ [Next]_vars => IInv'
<1>1. ASSUME IInv, Next PROVE IInv'
  BY <1>1, TypeStep, SafeStep DEF Next, IInv, SafeStore
<1>2. ASSUME IInv, UNCHANGED vars PROVE IInv'
  BY <1>2 DEF vars, IInv, TypeOK, OneAttemptAtATime, StoreIsTruthful, RunsRelyOn, Owns
<1> QED
  BY <1>1, <1>2

THEOREM Invariance == Spec => []IInv
BY InitIInv, IInvStep, PTL DEF Spec

\* An attempt on a key is one run's, and only that run records its outcome
\* (OneAttemptAtATime; start_attempt and _finish, execution.py 134-163).
THEOREM AttemptsAreExclusive == Spec => []OneAttemptAtATime
BY Invariance, PTL DEF IInv

\* The store agrees with the outside world: a succeeded operation happened once,
\* one that is not begun or has failed did not (StoreIsTruthful).
THEOREM StoreTellsTheTruth == Spec => []StoreIsTruthful
BY Invariance, PTL DEF IInv

\* An attempt whose run was lost is neither repeated nor resolved by any later
\* run (UnknownIsNeverResolved; start_attempt, execution.py 134-147).
THEOREM UnknownStaysUnknown == Spec => UnknownIsNeverResolved
<1> DEFINE Lost(k) == operations[k].status = "in_progress" /\ ~\E r \in Runs : Owns(r, k)
           Kept == \A k \in Keys :
              Lost(k) => operations'[k] = operations[k] /\ effects'[k] = effects[k]
<1>1. ASSUME IInv, [Next]_vars, NEW k \in Keys, Lost(k)
      PROVE  operations'[k] = operations[k] /\ effects'[k] = effects[k]
  <2> USE DEF IInv, TypeOK
  <2>1. CASE UNCHANGED vars
    BY <2>1 DEF vars
  <2>2. ASSUME NEW q \in Runs, RunStep(q)
        PROVE  operations'[k] = operations[k] /\ effects'[k] = effects[k]
    <3>0. key[q] = k => phase[q] \notin {"calling", "acted", "refused"}
      BY <1>1 DEF Owns
    <3>1. ASSUME NEW c \in Cases, NEW d \in Dispositions, Obtain(q, c, d)
          PROVE  operations'[k] = operations[k] /\ effects'[k] = effects[k]
      <4>1. <<c, d>> \in Keys /\ GetOrCreate(<<c, d>>) /\ effects' = effects
        BY <3>1 DEF Obtain, IdempotencyKey, Keys
      <4> QED
        BY <1>1, <4>1, GetOrCreateStep
    <3>2. ASSUME key[q] \in Keys, StartAttempt(key[q]) PROVE operations'[k] = operations[k]
      BY <1>1, <3>2, StartAttemptStep
    <3>3. ASSUME key[q] \in Keys, NEW v \in {"succeeded", "failed"}, Finish(key[q], v), key[q] # k
          PROVE  operations'[k] = operations[k]
      BY <1>1, <3>3, FinishStep
    <3>4. CASE BeginAttempt(q)
      BY <1>1, <3>2, <3>4 DEF BeginAttempt, RunsRelyOn
    <3>5. CASE RecordActed(q) \/ RecordRefused(q) \/ RetryRefused(q)
      BY <1>1, <3>0, <3>3, <3>5 DEF RecordActed, RecordRefused, RetryRefused, RecordSuccess,
         RecordFailure, RunsRelyOn
    <3>6. CASE \/ SuppressDuplicate(q) \/ AttemptRejected(q) \/ BudgetRefuses(q)
               \/ AdapterActs(q) \/ AdapterRefuses(q) \/ AdapterLost(q)
      BY <1>1, <3>0, <3>6 DEF SuppressDuplicate, AttemptRejected, BudgetRefuses,
         AdapterActs, AdapterRefuses, AdapterLost
    <3> QED
      BY <2>2, <3>1, <3>4, <3>5, <3>6 DEF RunStep
  <2> QED
    BY <1>1, <2>1, <2>2 DEF Next
<1>2. IInv /\ [Next]_vars => Kept
  BY <1>1
<1> QED
  BY <1>2, Invariance, PTL DEF Spec, UnknownIsNeverResolved

(***************************************************************************)
(* Runs that share a registry implement OnceOnlyEffect: the adapter's act  *)
(* is Perform, the last step of a run is Report, the rest are stutters.    *)
(***************************************************************************)
absVars == <<effects, reported>>

\* The effect of a key happens at most once and success is reported only for an
\* effect that happened (OnceOnly; workflow.py 1298-1525 over execution.py).
THEOREM EffectsHappenOnce == Spec => OnceOnly
<1>1. Init => Promise!Init
  BY DEF Init, Promise!Init
<1>2. IInv /\ [Next]_vars => [Promise!Next]_absVars
  <2> SUFFICES ASSUME IInv, [Next]_vars PROVE [Promise!Next]_absVars
    OBVIOUS
  <2>1. CASE UNCHANGED vars
    BY <2>1 DEF vars, absVars
  <2>2. ASSUME NEW q \in Runs, RunStep(q) PROVE [Promise!Next]_absVars
    <3>0. RunsRelyOn(q) /\ StoreIsTruthful /\ effects \in [Keys -> Nat]
      BY DEF IInv, TypeOK
    <3>1. ASSUME key[q] \in Keys, reported[q] = <<>>, NEW v \in Promise!Verdicts,
                 reported' = [reported EXCEPT ![q] = <<key[q], v>>],
                 v = "succeeded" => effects'[key[q]] = 1,
                 Promise!Perform(key[q]) \/ UNCHANGED effects
          PROVE  Promise!Next
      BY <3>1 DEF Promise!Next, Promise!Report
    <3>2. ASSUME key[q] \in Keys, reported[q] = <<>>, NEW v \in Promise!Verdicts,
                 Finished(q, v), v = "succeeded" => effects[key[q]] = 1, UNCHANGED effects
          PROVE  Promise!Next
      BY <3>1, <3>2 DEF Finished
    <3>3. CASE SuppressDuplicate(q)
      <4>1. key[q] \in Keys /\ reported[q] = <<>> /\ effects[key[q]] = 1
        BY <3>0, <3>3 DEF SuppressDuplicate, RunsRelyOn, StoreIsTruthful
      <4> QED
        BY <3>2, <3>3, <4>1 DEF SuppressDuplicate, Promise!Verdicts
    <3>4. CASE RecordActed(q)
      <4>1. key[q] \in Keys /\ reported[q] = <<>> /\ effects[key[q]] = 1
        BY <3>0, <3>4 DEF RecordActed, RunsRelyOn
      <4> QED
        BY <3>2, <3>4, <4>1 DEF RecordActed, Promise!Verdicts
    <3>5. CASE AttemptRejected(q)
      BY <3>0, <3>2, <3>5 DEF AttemptRejected, RunsRelyOn, Promise!Verdicts
    <3>6. CASE BudgetRefuses(q) \/ RecordRefused(q)
      BY <3>0, <3>2, <3>6 DEF BudgetRefuses, RecordRefused, RunsRelyOn, Promise!Verdicts
    <3>7. CASE AdapterActs(q)
      <4>1. key[q] \in Keys /\ effects[key[q]] = 0
        BY <3>0, <3>7 DEF AdapterActs, RunsRelyOn
      <4>2. Promise!Perform(key[q]) /\ UNCHANGED reported
        BY <3>0, <3>7, <4>1 DEF AdapterActs, Promise!Perform
      <4> QED
        BY <4>1, <4>2 DEF Promise!Next
    <3>8. CASE AdapterLost(q)
      <4>1. key[q] \in Keys /\ effects[key[q]] = 0 /\ reported[q] = <<>>
        BY <3>0, <3>8 DEF AdapterLost, RunsRelyOn
      <4>2. Promise!Perform(key[q]) \/ UNCHANGED effects
        BY <3>0, <3>8, <4>1 DEF AdapterLost, Promise!Perform
      <4> QED
        BY <3>1, <3>8, <4>1, <4>2 DEF AdapterLost, Finished, Promise!Verdicts
    <3>9. CASE \/ \E c \in Cases, d \in Dispositions : Obtain(q, c, d)
               \/ BeginAttempt(q) \/ AdapterRefuses(q) \/ RetryRefused(q)
      BY <3>9 DEF Obtain, BeginAttempt, AdapterRefuses, RetryRefused, absVars
    <3> QED
      BY <2>2, <3>3, <3>4, <3>5, <3>6, <3>7, <3>8, <3>9 DEF RunStep
  <2> QED
    BY <2>1, <2>2 DEF Next
<1> QED
  BY <1>1, <1>2, Invariance, PTL DEF Spec, OnceOnly, Promise!Spec, absVars

(***************************************************************************)
(* Winding down: what the fairness of the runs has left to do              *)
(***************************************************************************)
\* The steps that run r may still take: three to an attempt (begun, answered,
\* recorded), for each attempt the retry policy leaves it, and its first and last.
StepsAhead(r) ==
    LET left == 3 * (MaxAttemptsPerCall - tries[r]) IN
    CASE phase[r] = "idle"                 -> left + 2
      [] phase[r] = "obtained"             -> left + 1
      [] phase[r] = "calling"              -> left + 3
      [] phase[r] \in {"acted", "refused"} -> left + 2
      [] phase[r] = "done"                 -> 0

Reported(r) == reported[r] # <<>>

EndsReported == \A r \in Runs : phase[r] = "done" => Reported(r)

LEMMA AheadIsNatural ==
    ASSUME TypeOK, NEW r \in Runs
    PROVE  StepsAhead(r) \in Nat /\ (StepsAhead(r) = 0 <=> phase[r] = "done")
<1>1. MaxAttemptsPerCall - tries[r] \in Nat /\ phase[r] \in Phases
  BY AttemptsAssumption DEF TypeOK
<1> QED
  BY <1>1 DEF StepsAhead, Phases

LEMMA StepsWindDown ==
    ASSUME IInv, NEW q \in Runs, RunStep(q)
    PROVE  /\ StepsAhead(q)' < StepsAhead(q)
           /\ \A r \in Runs \ {q} : StepsAhead(r)' = StepsAhead(r)
           /\ (phase'[q] = "done") => Reported(q)'
<1> USE AttemptsAssumption DEF IInv, TypeOK
<1>1. tries[q] \in 0 .. MaxAttemptsPerCall /\ MaxAttemptsPerCall \in Nat
  OBVIOUS
<1>2. \A r \in Runs \ {q} : phase'[r] = phase[r] /\ tries'[r] = tries[r]
  BY DEF RunStep, Obtain, SuppressDuplicate, BeginAttempt, AttemptRejected, BudgetRefuses,
     AdapterActs, AdapterRefuses, AdapterLost, RecordActed, RecordRefused, RetryRefused, Finished
<1>3. \A r \in Runs \ {q} : StepsAhead(r)' = StepsAhead(r)
  BY <1>2 DEF StepsAhead
<1>4. \/ phase[q] = "idle" /\ phase'[q] = "obtained" /\ tries'[q] = tries[q]
      \/ phase[q] = "obtained" /\ phase'[q] = "calling" /\ tries'[q] = tries[q] + 1
      \/ phase[q] = "calling" /\ phase'[q] \in {"acted", "refused"} /\ tries'[q] = tries[q]
      \/ phase[q] = "refused" /\ phase'[q] = "obtained" /\ tries'[q] = tries[q]
      \/ /\ phase[q] \in {"obtained", "calling", "acted", "refused"} /\ phase'[q] = "done"
         /\ tries'[q] = tries[q]
  BY DEF RunStep, Obtain, SuppressDuplicate, BeginAttempt, AttemptRejected, BudgetRefuses,
     AdapterActs, AdapterRefuses, AdapterLost, RecordActed, RecordRefused, RetryRefused, Finished
<1>5. phase[q] = "obtained" => tries[q] < MaxAttemptsPerCall
  BY DEF RunsRelyOn
<1>6. StepsAhead(q)' < StepsAhead(q)
  BY <1>1, <1>4, <1>5 DEF StepsAhead
<1>7. ASSUME NEW v, Finished(q, v) PROVE Reported(q)'
  <2>1. reported'[q] = <<key[q], v>>
    BY <1>7 DEF Finished
  <2> QED
    BY <2>1 DEF Reported
<1>8. phase'[q] = "done" => \E v \in {"succeeded", "failed", "unknown"} : Finished(q, v)
  BY DEF RunStep, Obtain, SuppressDuplicate, BeginAttempt, AttemptRejected, BudgetRefuses,
     AdapterActs, AdapterRefuses, AdapterLost, RecordActed, RecordRefused, RetryRefused
<1> QED
  BY <1>3, <1>6, <1>7, <1>8

\* A run still has as many steps ahead as its place says.
RunsProgress ==
    /\ [](\A r \in Runs : StepsAhead(r) \in Nat)
    /\ [](\A r \in Runs : StepsAhead(r) = 0 <=> Reported(r))
    /\ [][\A q \in Runs : RunStep(q) =>
            /\ StepsAhead(q)' < StepsAhead(q)
            /\ \A r \in Runs \ {q} : StepsAhead(r)' = StepsAhead(r)]_vars

LEMMA EndsReportedInvariant == Spec => []EndsReported
<1>1. Init => EndsReported
  BY DEF Init, EndsReported
<1>2. ASSUME IInv, IInv', EndsReported, [Next]_vars PROVE EndsReported'
  <2>1. CASE UNCHANGED vars
    BY <1>2, <2>1 DEF vars, EndsReported, Reported
  <2>2. ASSUME NEW q \in Runs, RunStep(q) PROVE EndsReported'
    <3>1. (phase'[q] = "done") => Reported(q)'
      BY <1>2, <2>2, StepsWindDown
    <3>2. \A r \in Runs \ {q} : phase'[r] = phase[r] /\ reported'[r] = reported[r]
      BY <1>2, <2>2 DEF RunStep, Obtain, SuppressDuplicate, BeginAttempt, AttemptRejected,
         BudgetRefuses, AdapterActs, AdapterRefuses, AdapterLost, RecordActed, RecordRefused,
         RetryRefused, Finished, IInv, TypeOK
    <3> QED
      BY <1>2, <3>1, <3>2 DEF EndsReported, Reported
  <2> QED
    BY <1>2, <2>1, <2>2 DEF Next
<1> QED
  BY <1>1, <1>2, Invariance, PTL DEF Spec

\* A run is never kept busy by the others: each of its steps brings it nearer to its
\* report and no step of another run takes it back, whatever the store was left with
\* (tool_call, workflow.py 610-799, around the registry's methods).
THEOREM RunsWindDown == Spec => RunsProgress
<1>1. ASSUME IInv, EndsReported, NEW r \in Runs
      PROVE  StepsAhead(r) \in Nat /\ (StepsAhead(r) = 0 <=> Reported(r))
  <2>1. Reported(r) <=> phase[r] = "done"
    BY <1>1 DEF IInv, RunsRelyOn, EndsReported, Reported
  <2> QED
    BY <1>1, <2>1, AheadIsNatural DEF IInv
<1>2. IInv /\ EndsReported => \A r \in Runs : StepsAhead(r) \in Nat
  BY <1>1
<1>3. IInv /\ EndsReported => \A r \in Runs : StepsAhead(r) = 0 <=> Reported(r)
  BY <1>1
<1> DEFINE Nearer == \A q \in Runs : RunStep(q) =>
              /\ StepsAhead(q)' < StepsAhead(q)
              /\ \A r \in Runs \ {q} : StepsAhead(r)' = StepsAhead(r)
<1>4. IInv /\ [Next]_vars => [Nearer]_vars
  BY StepsWindDown
<1> HIDE DEF Nearer
<1>5. Spec => [][Nearer]_vars
  BY <1>4, Invariance, PTL DEF Spec
<1> QED
  BY <1>2, <1>3, <1>5, Invariance, EndsReportedInvariant, PTL DEF RunsProgress, Nearer

\* Every run that has called the adapter may record the outcome: _finish never
\* raises in a run (execution.py 155-163; its callers, workflow.py 1355-1392).
RecordsAreAccepted ==
    \A r \in Runs : phase[r] \in {"acted", "refused"} => key[r] \in Keys /\ CanFinish(key[r])

\* The record of an attempt is never refused, however the other runs' steps fall
\* between the attempt and its record (RecordsAreAccepted).
THEOREM RecordsAreNeverRefused == Spec => []RecordsAreAccepted
<1>1. IInv => RecordsAreAccepted
  BY DEF IInv, TypeOK, OneAttemptAtATime, RunsRelyOn, Owns, CanFinish, RecordsAreAccepted
<1> QED
  BY <1>1, Invariance, PTL

================================================================================
