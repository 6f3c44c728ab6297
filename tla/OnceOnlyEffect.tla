---------------------------- MODULE OnceOnlyEffect -----------------------------
(***************************************************************************)
(* What idempotent execution promises, whatever the mechanism: the outside *)
(* effect of a key happens at most once, and a run reports success only    *)
(* for an effect that happened.  A run reports once.                       *)
(***************************************************************************)
EXTENDS Naturals

CONSTANTS Keys, Runs

VARIABLES effects,   \* how often the effect of each key happened
          reported   \* what each run told its caller: nothing yet, or <<key, verdict>>

Verdicts == {"succeeded", "failed", "unknown"}

Init ==
    /\ effects = [k \in Keys |-> 0]
    /\ reported = [r \in Runs |-> <<>>]

Perform(k) ==
    /\ effects[k] = 0
    /\ effects' = [effects EXCEPT ![k] = 1]

Report(r, k, verdict) ==
    /\ reported[r] = <<>>
    /\ verdict = "succeeded" => effects'[k] = 1
    /\ reported' = [reported EXCEPT ![r] = <<k, verdict>>]

\* the effect and the report of an unknown outcome may be one step: the call
\* acts and is then lost
Next ==
    \/ \E k \in Keys : Perform(k) /\ UNCHANGED reported
    \/ \E r \in Runs, k \in Keys, v \in Verdicts :
          /\ Perform(k) \/ UNCHANGED effects
          /\ Report(r, k, v)

Spec == Init /\ [][Next]_<<effects, reported>>

================================================================================
