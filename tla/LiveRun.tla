-------------------------------- MODULE LiveRun --------------------------------
(***************************************************************************)
(* The runners that spend money: a fixed list of cases, one model call     *)
(* each, no retries, and a guard that must not let a run cost more than    *)
(* was authorized.  The three evaluations (scripts/run_live_extraction_    *)
(* evaluation.py, run_live_hard_extraction_evaluation.py and its reuse for *)
(* semantic robustness) go on after a provider failure, the validation     *)
(* (run_live_extraction_validation.py) stops.  Every call is one exchange  *)
(* of the Anthropic adapter.                                               *)
(*                                                                         *)
(* The runner counts what answers say they cost; what the provider bills   *)
(* is a history variable.  Costs are natural numbers.                      *)
(***************************************************************************)
EXTENDS Integers

CONSTANTS
    Calls,          \* MAX_ATTEMPTED_CALLS, one for every case
    MaxCallCost,    \* MAXIMUM_COST_PER_CALL_USD: assumed, the input is not capped
    Limits,         \* authorized spend limits
    Costs           \* what a call may cost

ASSUME CallsAssumption ==
    /\ Calls \in Nat \ {0} /\ MaxCallCost \in Nat
    /\ Limits \subseteq Nat /\ Costs \subseteq Nat

VARIABLES
    runner, limit,
    attempted, valid, invalid, failures, matches, total,
    pc,             \* "loop", "summary", or "ended"
    summarized,     \* the summary record was written
    exit,           \* exit code; 2 stands for an exception
    billed,         \* history: what the provider charges
    excess,         \* history: what single calls cost above MaxCallCost
    overrun         \* history: what the last counted call cost above it

counters == <<attempted, valid, invalid, failures, matches, total>>
history == <<billed, excess, overrun>>
vars == <<runner, limit, counters, pc, summarized, exit, history>>

Over(cost) == IF cost > MaxCallCost THEN cost - MaxCallCost ELSE 0

(***************************************************************************)
(* The adapter: one exchange                                               *)
(***************************************************************************)
\* no key is configured, or the transport gives no status and body: its own
\* timeouts and connection errors are caught, others are not
Lost == [kind : {"no_key", "timeout", "connection", "interrupted"}]

Rejected == [kind : {"rejected"}]

\* a 2xx status: is the body an object, has it text, a model name that is no
\* blank, a stop reason that is none, and token counts?
Success == [kind : {"success"}, object : BOOLEAN, names : BOOLEAN, text : BOOLEAN, usage : BOOLEAN]

Exchange == Lost \cup Rejected \cup Success

Malformed(x) == ~x.object \/ ~x.names \/ ~x.text \/ ~x.usage

Complete(x) ==
    CASE x.kind \in {"no_key", "interrupted"} -> "raised"
      [] x.kind \in {"timeout", "connection", "rejected"} -> "provider_error"
      [] x.kind = "success" -> IF Malformed(x) THEN "provider_error" ELSE "response"

\* what the provider charges for an exchange that cost it this much; it may bill
\* one it rejected, or whose answer was lost
Charges(x, cost) ==
    CASE x.kind = "no_key" -> {0}
      [] x.kind = "success" -> {cost}
      [] OTHER -> {0, cost}

Bill(amount) ==
    /\ billed' = billed + amount
    /\ excess' = excess + Over(amount)

(***************************************************************************)
(* The runner                                                              *)
(***************************************************************************)
Init ==
    /\ runner \in {"evaluation", "validation"}
    /\ limit \in Limits
    /\ attempted = 0 /\ valid = 0 /\ invalid = 0 /\ failures = 0 /\ matches = 0
    /\ total = 0 /\ billed = 0 /\ excess = 0 /\ overrun = 0
    /\ pc = "loop" /\ summarized = FALSE /\ exit = 0

\* Mutant: the pending call is not counted
GuardAllowsNext == total + (Calls - attempted - 1) * MaxCallCost <= limit

\* spend_guard_allows_call: what was counted, and the most that every call left,
\* the pending one included, is assumed to cost
GuardAllows == total + (Calls - attempted) * MaxCallCost <= limit

End(code) == pc' = "ended" /\ exit' = code /\ UNCHANGED summarized

AtCall == pc = "loop" /\ attempted < Calls

Block ==
    /\ AtCall
    /\ ~GuardAllows
    /\ \/ runner = "evaluation" /\ pc' = "summary" /\ UNCHANGED <<exit, summarized>>
       \/ runner = "validation" /\ End(1)
    /\ UNCHANGED <<runner, limit, counters, history>>

\* Mutant: a malformed answer is attempted and no failure
FailUncounted(x) ==
    /\ Complete(x) = "provider_error"
    /\ attempted' = attempted + 1
    /\ failures' = IF x.kind = "success" THEN failures ELSE failures + 1
    /\ \/ runner = "evaluation" /\ UNCHANGED <<pc, exit, summarized>>
       \/ runner = "validation" /\ End(1)
    /\ UNCHANGED <<valid, invalid, matches, total, overrun>>

\* AnthropicProviderError: nothing is added to the total
Fail(x) ==
    /\ Complete(x) = "provider_error"
    /\ attempted' = attempted + 1
    /\ failures' = failures + 1
    /\ \/ runner = "evaluation" /\ UNCHANGED <<pc, exit, summarized>>
       \/ runner = "validation" /\ End(1)
    /\ UNCHANGED <<valid, invalid, matches, total, overrun>>

\* any other exception leaves the script
Raise(x) ==
    /\ Complete(x) = "raised"
    /\ attempted' = attempted + 1
    /\ End(2)
    /\ UNCHANGED <<valid, invalid, failures, matches, total, overrun>>

\* an answer is counted whether extraction accepts it or not; an evaluation
\* grades an accepted one against the expected fields
Grade(x, cost) ==
    /\ Complete(x) = "response"
    /\ attempted' = attempted + 1
    /\ total' = total + cost
    /\ overrun' = Over(cost)
    /\ \/ invalid' = invalid + 1 /\ UNCHANGED <<valid, matches>>
       \/ /\ valid' = valid + 1 /\ UNCHANGED invalid
          /\ matches' \in {matches} \cup (IF runner = "evaluation" THEN {matches + 1} ELSE {})
    /\ UNCHANGED <<failures, pc, exit, summarized>>

Call ==
    /\ AtCall
    /\ GuardAllows
    /\ \E x \in Exchange, cost \in Costs :
          /\ Fail(x) \/ Raise(x) \/ Grade(x, cost)
          /\ \E amount \in Charges(x, cost) : Bill(amount)
    /\ UNCHANGED <<runner, limit>>

Finish ==
    /\ pc = "loop" /\ attempted = Calls
    /\ pc' = "summary"
    /\ UNCHANGED <<runner, limit, counters, summarized, exit, history>>

\* an evaluation succeeds when it attempted every call; a validation that comes
\* here completed every call
Summarize ==
    /\ pc = "summary"
    /\ summarized' = TRUE
    /\ pc' = "ended"
    /\ exit' = IF attempted = Calls THEN 0 ELSE 1
    /\ UNCHANGED <<runner, limit, counters, history>>

Next == Block \/ Call \/ Finish \/ Summarize

Spec == Init /\ [][Next]_vars

--------------------------------------------------------------------------------
TypeOK ==
    /\ runner \in {"evaluation", "validation"} /\ limit \in Limits
    /\ attempted \in 0 .. Calls
    /\ valid \in Nat /\ invalid \in Nat /\ failures \in Nat /\ matches \in Nat
    /\ total \in Nat /\ billed \in Nat /\ excess \in Nat /\ overrun \in Nat
    /\ pc \in {"loop", "summary", "ended"} /\ summarized \in BOOLEAN /\ exit \in {0, 1, 2}

\* The guard keeps what a run costs within what was authorized, except for what
\* single calls cost above the assumed maximum.  The reported total passes the
\* limit by no more than the last call did.  The bill also has the calls that were
\* rejected, malformed or lost, which nobody counted.
SpendIsBounded ==
    /\ total <= limit + overrun
    /\ billed <= limit + excess

\* The report accounts for every call: no call is in two classes or in none, the
\* total is never more than the bill, success means that every call was made
\* (and, for a validation, answered), and a run that stops short had a failure
\* it must stop for, a call above the assumed maximum, or a limit too small for
\* the plan.  The guard never stops a run whose calls keep the maximum.
ReportIsComplete ==
    /\ exit # 2 => attempted = valid + invalid + failures
    /\ matches <= valid /\ total <= billed
    /\ (pc = "ended" /\ exit = 0) =>
          summarized /\ attempted = Calls /\ (runner = "validation" => failures = 0)
    /\ (pc = "ended" /\ runner = "evaluation") => (summarized <=> exit # 2)
    /\ (pc = "ended" /\ exit = 1) =>
          \/ runner = "validation" /\ failures = 1
          \/ excess > 0
          \/ attempted = 0 /\ Calls * MaxCallCost > limit

================================================================================
