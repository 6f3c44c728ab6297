--------------------------- MODULE ExecutionRegistry ---------------------------
(***************************************************************************)
(* The in-process operation store of support_agent/execution.py: one       *)
(* operation per idempotency key, and the methods that create and advance  *)
(* it.  A method is one action; when its guard fails the method raises     *)
(* ValueError and the store is as it was, so the caller's module says what *)
(* the exception does to the caller.                                       *)
(***************************************************************************)
EXTENDS Naturals

CONSTANTS Cases,        \* case identifiers
          Dispositions  \* executable dispositions in play

OperationStatus == {"not_started", "in_progress", "succeeded", "failed"}

\* generate_idempotency_key: the case and the disposition, nothing else
Keys == Cases \X Dispositions
IdempotencyKey(case, disposition) == <<case, disposition>>

\* "absent" is a key with no operation in the dict; the record refuses attempts
\* of an operation that is not started and any other status without an attempt
Operation == {o \in [status : OperationStatus \cup {"absent"}, attempts : Nat] :
                (o.status \in {"absent", "not_started"}) <=> (o.attempts = 0)}
Absent == [status |-> "absent", attempts |-> 0]

VARIABLE operations

RegistryInit == operations = [k \in Keys |-> Absent]

IsCreated(k) == operations[k].status # "absent"

\* Mutant: every request creates the operation anew
CreateAlways(k) ==
    operations' = [operations EXCEPT ![k] = [status |-> "not_started", attempts |-> 0]]

\* returns the operation and whether it is new; an existing one is untouched
GetOrCreate(k) ==
    \/ /\ IsCreated(k)
       /\ UNCHANGED operations
    \/ /\ ~IsCreated(k)
       /\ operations' = [operations EXCEPT ![k] = [status |-> "not_started", attempts |-> 0]]

\* Mutant: an attempt in progress may be tried again
CanStartUnknown(k) == operations[k].status \in {"not_started", "in_progress", "failed"}

\* Mutant: only an attempt in progress keeps another from starting
CanStartAgain(k) == operations[k].status # "in_progress"

CanStartAttempt(k) == operations[k].status \in {"not_started", "failed"}

StartAttempt(k) ==
    /\ CanStartAttempt(k)
    /\ operations' = [operations EXCEPT ![k].status = "in_progress",
                                        ![k].attempts = @ + 1]

CanFinish(k) == operations[k].status = "in_progress"

\* _finish, the common body of record_success and record_failure
Finish(k, status) ==
    /\ CanFinish(k)
    /\ operations' = [operations EXCEPT ![k].status = status]

RecordSuccess(k) == Finish(k, "succeeded")
RecordFailure(k) == Finish(k, "failed")

================================================================================
