# A TLA+ model of the support agent

The repository is a deterministic lab around one workflow: a customer says that a
delivered parcel did not arrive, and the support agent gathers evidence, decides on
a remedy and carries it out. All paths below `src/` of this document are relative to
the repository root; the program is the package `src/support_agent`, its documents
are in `projects/support-agent/docs`. Line numbers are those of the modelled commit.

The modules model the program's own logic: the case aggregate, the policy that
routes a case, the retry loop and its budget, the registry that makes an action
happen once, the orchestrator that puts these together with the trace it writes, the
intake that lets a language model start it, what the demo tells the customer of it, and
the runners that spend money on model calls. TLC checks them on small instances; TLAPS
proves every invariant and every action property of the passing runs for every value of the
constants, and that each step of a run, a call and a run among others brings it nearer to
its end. What is left to TLC alone is liveness.

## 1. The system

### Components

| Component | Source (under `src/support_agent`) | State | Operations | What makes it correct |
|---|---|---|---|---|
| SupportCase aggregate | `domain.py` | status, disposition, execution status, follow-up status, closing time, linkage, shipments, evidence, evaluations, reviews | some twenty public methods, each guarded by the status and the records | statuses agree with each other; a closed case is final; linkage is matched and permanent; a compensation is settled once; a review decides once and on the records of the case |
| Structural policy | `domain.py` 1095-1183 | none | `evaluate_synthetic_structural_policy` | proceeds only with complete, consistent facts; asks the customer only where asking can help; facts never lift a review |
| Execution registry | `execution.py` | one operation per idempotency key | `get_or_create`, `start_attempt`, `record_success`, `record_failure` | one attempt at a time; an outcome that is unknown stays unknown; an effect happens once |
| Execution budget, retry policy | `budgets.py`, `tool_call` in `workflow.py` 610-799 | calls, retries, elapsed time, cost, the exhausted dimension; the attempt under way | attempt allowed / started / finished, wait allowed / recorded | no limit is passed; a run knows which limit stopped it; every call ends |
| Workflow orchestrator | `workflow.py` 563-1586 | the program counter of a run, its result | a run, a correction of an unmatched order | results agree with the case and the registry; a refund only within the autonomous limit; nothing before linkage |
| Extraction and intake routing | `extraction.py`, `workflow.py` 1589-1653, `modeling.py` | none between messages | extract a proposal, validate it, route it | only a validated order in the customer's own words starts a workflow |
| Workflow trace | `tracing.py`, `record` and `change` in `workflow.py` 585-608 | an append-only log | append; continue the log of an earlier result | it tells what became of the case |
| Trajectory evaluation | `trajectory_evaluation.py` | none | check a finished trace | every trace a run hands back is accepted |
| Failure injection | `failures.py` | a call counter | raises operational errors at chosen calls; expects a safe route of each | every stop leaves the case where a person can go on |
| Anthropic adapter | `anthropic_adapter.py` | none | one HTTP exchange | an answer, or a provider error |
| Live runners | `scripts/run_live_*.py` | calls, answers, failures, the cost counted so far | guard, call, grade, report | the authorized spend is kept; the report accounts for every call |
| Demo | `demo.py` | none | run one case, project its result for a page | the customer is told what happened |
| Demo server, synthetic retailer, extraction evaluation, offline scripts | the remaining files | fixed data | presentation | not modelled |

### How they interact

    customer message -> extraction (model client) -> routing
                                                       | validated, complete, linked to an order
                                                       v
                          orchestrator --- tool_call ---> dependencies
                            |      \                     (lookups, comparison, reviewer, adapter)
                            |       \-- ExecutionRegistry (outlives the run)
                            v
                        SupportCase <-- structural policy

    live runners --- spend guard ---> extraction ---> Anthropic adapter
    demo         ---> intake, orchestrator ---> outcome for the customer
    trace        <--- orchestrator;  trajectory evaluation ---> trace

A run is one thread. It calls the aggregate and the policy directly, and every
dependency through `tool_call`, which charges the budget and retries. Two things
outlive a run: the case, when a correction goes on with it, and the registry, which
a caller may hand to any number of runs. Runs that share a registry interleave.

### What is hard here

* **Interleaving.** Two runs read an operation at `get_or_create` and act on what
  they read; the operation may have been started, finished or failed since.
* **Unknown outcomes.** An exception that is not a `SyntheticOperationalError`
  passes every handler and leaves the operation in progress, whether the adapter
  acted or not.
* **Partial failure.** The budget may refuse before, after or between attempts. A
  success recorded in the registry may be followed by a stop of the run. An error of
  the aggregate ends a run half-way.
* **Long sequences.** The aggregate's methods are public: status, disposition,
  execution and follow-up are four machines that each method moves together, and
  reviews and evaluations of an earlier round stay on the case.
* **The trace.** A correction goes on with the trace of the result it is given, which
  need not be the latest, and a step that raises leaves no event.
* **Uncounted costs.** The provider may bill a call whose answer was lost or malformed;
  the guard of a runner sees only what answers say.
* **Boundaries.** Some limits are compared with `>`, some with `>=`, and an attempt
  that ends exactly at the elapsed limit throws its result away.

`PROJECT.json` lists every such hazard at its line, with the properties that would
catch it going wrong.

## 2. The modules

| Module | Models | Abstracted |
|---|---|---|
| `SupportCase` | every state-changing method of `SupportCase`: `Can...` is the guard, the action assigns every field the method assigns | time stamps (closing time is a flag), texts, audit trail and alerts (no method reads them) |
| `StructuralPolicy` | the policy evaluation as an operator `Route` on a record of facts | wording of reasons |
| `ExecutionRegistry` | the store: a function from key to operation, and its methods | result texts (present or not, tied to the status) |
| `SharedRegistry` | runs that interleave on one registry: the execution stage, one step per registry method or adapter call | the case and the other stages |
| `OnceOnlyEffect` | the promise: an effect at most once per key, a success reported only for an effect that happened | everything else |
| `ToolCall` | `_BudgetTracker` and the retry loop; one step per attempt begun, ended, refused or retried | clocks (a latency from a set), money (natural numbers) |
| `Workflow` | one run from intake to result, corrections and reruns; composes the instances `C` (SupportCase), `T` (ToolCall), `P` (StructuralPolicy) and `Op` (ExecutionRegistry) | contents of the records beyond what a guard compares |
| `Trajectory` | every step of `Workflow` with the events it appends; `check_trajectory` and the safe routes of `failures.py` as operators on the trace | an event is its type, in the order of first occurrence; the events of the retry loop and of a run's start and end |
| `Demo` | the outcome shown to the customer, as an operator on a finished run of `Workflow` | wording: an outcome is its name |
| `LiveRun` | the loop of a live runner, its guard, counters, summary and exit code, around one exchange of the adapter per call; what the provider bills is a history variable | tokens and prices (a natural number), records, arguments, HTTP headers |
| `Intake` | request, parse, validate, route, for any answer of the model | prompts, token counts; an identifier is a model value, a message the set of identifiers in it and the words a guard looks for |

The modules named `MC...` give TLC its symmetry sets and the operators only a run needs (a
module without one is checked as it is); `MCStructuralPolicy` also turns the policy's input
into a state, so that an action property can compare neighbouring inputs, and says on which
facts a route may be taken. The modules named `..._proofs` hold the theorems.

How the code becomes actions:

* A method of the aggregate that raises changes nothing, so a rejected call is one
  action, `Reject`, which stutters. In `Workflow` a `TransitionRejected` leaves the
  run: the step unwinds to `idle` with no result.
* A run is sequential, so in `Workflow` one call of the aggregate is one step and the
  value a dependency returned is chosen where the run first looks at it. Dependencies
  may return any value their type allows, raise an operational error, retryable or
  not, or raise anything else.
* In `Workflow` an operational error of the adapter means that nothing happened:
  `FailureInjectingCallable` (`failures.py`) never calls the wrapped adapter when it
  raises. Any other exception may follow an effect (`AdapterLost` in
  `SharedRegistry`, `ExecutionRaises` in `Workflow`).
* In `Trajectory` a run that raises keeps no trace, as no result is there to hold it. The
  results a correction may go on with are kept with the trace each was returned with,
  and `TraceNewCorrection` takes any of them.
* `Demo` looks at the runs of `Workflow` that a configuration of `run_demo` allows: a first
  run, no reviewer, a refund or a question to the customer. Its other runs are there, unread.
* An exception that leaves `tool_call` comes before the attempt is counted when the
  dependency or the hook in front of it raised it, and after when a later hook or the wait
  did. `Propagate` does not tell these apart: the tracker belongs to the run, and nothing
  reads it once the run raised.
* In `LiveRun` an exchange that failed may or may not be billed (`Charges`): nothing is sent
  without a key, and a call that was rejected, lost or answered with something malformed may
  cost what an answer would. An answer costs what it says. The two kinds of runner differ in
  what ends them, so `runner` is chosen once.
* A method of the registry is atomic. The local dict does not promise this between
  threads and the docstring (`execution.py` 94-98) says so: a production store has
  to. No code of the repository shares a registry between threads.

## 3. The runs

| Run | Module | Question | Distinct states |
|---|---|---|---|
| `case_lifecycle` | MCSupportCase | do the four statuses stay consistent over two evaluations and two reviews, is a closed case final, does a review decide once? | 228,400 |
| `case_records` | MCSupportCase | are linkage and review records right with two orders and carrier evidence? | 568,144 |
| `structural_policy` | MCStructuralPolicy | does the policy proceed on complete facts only, and always on them, ask the customer only where nothing else is wrong, and never lift a review for a new fact? | 1,248 |
| `tool_call` | MCToolCall | do the loop and the budget respect every limit, and does every call end? | 8,592 |
| `shared_registry` | SharedRegistry | do three interleaved runs implement `OnceOnlyEffect`, and does every run report, whatever an earlier run left behind? | 53,315 |
| `workflow` | MCTrajectory | over runs, corrections and reruns of one case: is the effect unique, do result, case, registry and trace agree, is every stop safe, is no case stranded by a result or an exception? | 901,011 |
| `workflow_demo` | Demo | does every run end, a correction or rerun as well, and is the customer of the demo's one run told what happened? | 96,248 |
| `live_run` | LiveRun | is the spend authorized, and does the report account for every call? | 5,358 |
| `intake` | MCIntake | what may start a workflow, for any message and any answer of the model? | 54,500 |
| `case_closes_unexecuted` | MCSupportCase | (violation) does the aggregate alone keep an unexecuted refund open? | |
| `case_correction_bypassed` | MCSupportCase | (violation) does the aggregate alone hold a case that awaits a correction? | |
| `demo_gate_row` | Demo | (violation) is the row of the structural gate true of the run it is shown for? | |

### Bounds, and why they are enough

* `case_lifecycle`: one order, no shipment, two evaluations, two reviews, one policy.
  Two rounds are the least in which something of an earlier round (a review still
  open, a failed attempt, an answered follow-up) meets a later decision.
* `case_records`: two orders and one snapshot, with one evaluation and one review.
  Two orders are what one replacing the other takes.
* `shared_registry`: three runs on one case, each with either of two dispositions, two
  attempts each. Two runs race; the third arrives after one was lost. Two attempts give
  a retry, two dispositions two keys.
* `tool_call`: five calls, three retries, an elapsed limit of 8 against latencies 0, 1
  and 3 and waits 1, 2 and 3, a cost limit of 5 against costs 0, 1 and 2. Every dimension
  is the one that stops a run in some behaviour, and time meets its limit exactly.
* `workflow`: three runs, so that a correction that failed is followed by another one,
  from the latest result or from an older one; two orders and two shipments (a corrected
  order may not match, evidence may belong to another shipment), two reviews, two attempts
  with one retry in the run, an elapsed limit of 2 against latencies 0 and 1, and six
  tool calls. A run has up to seven, so the budget stops a run at its last dependency as
  well, and all of them are made in a correction, which starts at its second.
* `workflow_demo`: two runs, so that a correction and a rerun after a lost run end as well,
  with six calls, one for every stage of a run without a review, so that a lookup after a
  retry finds the budget used up; one order, shipment and review, which is all that
  ending and the outcome depend on. The demo runs a case once, on a registry of its own,
  so its property reads the first run (`InDemo`); `demo_gate_row` has only that.
* `live_run`: three calls assumed to cost at most 2 and costing 0, 1, 2 or 4, with limits
  below, at and above the plan of 6. A cost above the maximum is what lets the guard stop
  a run in the middle. The validation has three calls; the evaluations have more of the same.
* `MaxRuns`, the sets of evaluations and reviews and the budgets are the only bounds of
  the case and its runs; none is a bound of the code except the budgets.

Deadlock is checked where the program can always go on. `CHECK_DEADLOCK FALSE` stands
where it stops: every run has reported (`SharedRegistry`), every fact has arrived
(`MCStructuralPolicy`), the script has ended (`LiveRun`).

### Fairness

`FairSpec` of `SharedRegistry`, `ToolCall` and `Workflow` is weak fairness of the run's
own steps, taken together: a run is a loop in one thread, it has no lock to wait for,
and its dependencies return or raise. Nothing is assumed of which outcome a dependency
has: a run that always meets retryable errors ends because the loop is bounded. Nothing
makes a caller begin a call or a run, and nothing makes a lost run come back.

### Three disagreements between documents and code

* `ApprovalIsNotExecution`. `docs/03-system-boundaries.md` 130: "A refund or replacement
  cannot close the case until execution succeeds." `transition_to` (`domain.py` 748)
  takes a case from `human_review` to `closed` whatever its disposition and execution
  status are, so a refund that was approved and blocked, or failed, can be closed. The
  orchestrator never does this: `workflow` checks the same property as
  `ClosedOnlyWhenExecuted`.
* `NoEvidenceBeforeCorrection`. `docs/04-decision-log.md` 330 rules out to "continue to
  evidence gathering or policy" when the order is not found. `transition_to` (`domain.py` 753)
  does not look at `_awaiting_order_identifier_correction`. Again the orchestrator never
  does this (`NothingBeforeLinkage`).
* `GateRowIsGrounded`. `docs/04-decision-log.md` 65: the demo's projection "exposes the real
  trace without changing system behavior or inventing reasoning." The row of the structural
  gate has the fixed result text "Structural evidence complete" (`demo.py` 326), also in a
  run that stopped because evidence is missing (`carrier-evidence-unavailable`), next to
  the status "Stopped". The text is a constant, so the row says the same after any route;
  the property asks it only of runs whose customer is told that evidence is missing, and fails
  on all of them. The outcome told to the customer is right (`CustomerIsToldTheTruth`).

## 4. The proofs

TLAPS proves each of these for every value of the constants. The assumptions are the
named `ASSUME`s of the modules: an attempt limit that is a positive number in
`SharedRegistry`; numbers for limits, latencies and costs in `ToolCall` and `LiveRun`, with
at least one attempt or call; in `Workflow`, those of its `ToolCall` instance
(`LoopAssumption`), a number of runs (`MaxRunsAssumption`), and that the mark for a missing
order is no order. The others need none. `ExecutionBudget` and `RetryPolicy` check the same
of their fields (`budgets.py`).

`SupportCase_proofs` (`SupportCase.Spec` implies the property, always):

| Theorem | Property |
|---|---|
| `TypeCorrect` | `TypeOK` |
| `SafetyCorrect` | `SafetyInv`: the next four, `ClosedAtMatchesStatus` and `LinkageIsMatched` |
| `ExecutionFits`, `AttemptsHoldTheCase`, `CompensationsAreSettled`, `FollowUpsAreFiled` | `ExecutionFollowsDisposition`, `AttemptHoldsCase`, `CompensationIsSettled`, `PendingFollowUpIsFiled` |
| `ClosedCasesAreFinal`, `LinkageNeverChanges`, `OutcomesAreKept`, `ReviewsDecideOnce` | the four action properties |
| `ReviewsRestOnTheCase` | `ReviewsAreGrounded` |

The safety invariants are not inductive. `PendingFollowUpIsFiled` and
`CompensationIsSettled` say nothing of an inquiry that succeeded and left
`executing`: `InquiryIsAwaited` adds that its follow-up is pending or answered, so a
recorded success is given up only after an answer (`OutcomesAreKept`). `LinkageIsMatched`
says nothing of `intake`, where `link` writes both references: `IntakeIsFresh` adds
that nothing is linked there. `IInv` is the conjunction; it is proved in two halves,
`StatusInv` and `LinkInv`, because no action but one writes to both. Within a half
there is one case per action. The tables of `domain.py` are two lemmas
(`TransitionTable`, `DispositionPath`), the only places where they are expanded.

`StructuralPolicy_proofs` (`MCStructuralPolicy.Spec` implies the property, always):

| Theorem | Property |
|---|---|
| `PolicyFollowsFacts` | `RouteFollowsFacts` |
| `ReviewIsNotLiftedByFacts` | `FactsNeverLiftReview` |

Every reachable input is a record of facts, and the route of a record is found by cases on
what is missing, failed or unsettled. No fact that arrives removes one of the three
reasons for a review: a failed retrieval stays in its set, and an address is compared once.

`Workflow_proofs` (`Workflow.Spec` implies the property, always, for any number of runs, any
budget and retry policy):

| Theorem | Property |
|---|---|
| `TypesAreKept` | `TypeOK` |
| `EffectsHappenOnce` | `OneEffectPerOperation` |
| `CasesAgreeWithTheStore` | `CaseAgreesWithStore` |
| `ClosedCasesWereExecuted` | `ClosedOnlyWhenExecuted` |
| `RefundsAreAuthorized` | `RefundNeedsAuthority` |
| `LinkageComesFirst` | `NothingBeforeLinkage` |
| `ResultsAreTrue` | `ResultAgreesWithCase` |
| `CorrectionsRemain` | `CorrectionStaysPossible` |
| `CasesCanGoOn` | `NoCaseIsStranded` |
| `CustomersHearTheTruth` | `CustomerIsToldTheTruth` of `Demo` |
| `RunsUseTheLoop` | `T!Spec`: the orchestrator implements `ToolCall` |
| `RunsAreBudgeted` | the invariants of `ToolCall`, of the runs' calls |
| `RunsKeepTheCaseSafe` | the type and safety invariants of `SupportCase`, of the runs' case |
| `ReviewsAreCurrent` | `ReviewsAreOnTheLastEvaluation`: no request of a run's case names a policy a newer evaluation settled |
| `NoCallIsRejected` | `CallsAreAccepted`: the guards of the aggregate and the registry hold where the run calls them |
| `RunsWindDown` | the steps ahead of a run are a number, nought when it has ended, and every step leaves fewer |

*Effects.* What makes an effect unique is that the registry never understates
(`EffectsAreKnown`: only an operation in progress may have had an effect it does not show)
and that a run calls the adapter only for an operation it has just taken from a status
without effect (`AttemptIsFresh`). The case then agrees because between the choice of the
disposition and the result the key does not change (`Committed`, `CommittedIsAuthorized`),
and the one case that fails without the registry knowing the outcome is that of an exhausted
budget (`RefusalIsRecorded`).

*Places.* Which statuses a case may have is told by where its run stands
(`StatusIsPlaced`), so a run that has returned has left none of those that only it
could leave, and a case waits for the carrier only with a follow-up. Three properties are
parts of one induction with it (`Stages`), because each needs the others: a correction needs
a case without an order, which needs the run to be at its lookups, which needs the outcome of
the call it waits for.

*Parts.* The theorems of `SupportCase_proofs` and `ToolCall_proofs` are used as they stand,
on the instances `CP` and `TP`. A step of a run is a step of the loop or leaves it alone,
which is the refinement `RunsUseTheLoop`. It is one call of the aggregate at most, but a first
run begins with a new case, which the aggregate's specification has no step for: so
`RunsKeepTheCaseSafe` carries the aggregate's inductive invariant from case to case
(`CaseStep`). `TypesAreKept` adds the variables of
the run (`RunTypeOK`): the place is one of the code's, and a return hands back a result.

*What the customer hears.* Until a second run begins, an effect is one the case has been told
of, or will be by the run under way, or that of a run that raised (`FirstEffect`); the stage
of a result says where the case is (`StageTells`).

*Calls.* `CallsAreAccepted` lists, place by place, the calls the code makes without a handler
for their rejection. Left out are those it is ready to have refused: a correction
that does not match, evidence of another shipment, a review and its decision, and an attempt
on an operation in progress. It needs two more facts of each place: what a place is the first
to write has not been written (`FirstWrites`), and which execution status a committed run
finds there (`ExecutionIsPlaced`).

*Runs that raise.* `NoCaseIsStranded` has a half for results, which follows from `Stages`,
and a half for exceptions (`AbandonedCaseIsUndecided`): the case stands before a disposition,
or a refund was chosen whose limit could not be checked and nothing was started, or an attempt
is in progress in the registry too, where the next run of the case meets it. A run hands
nothing back at eight places only (`WhereRunsRaise`); that each leaves the case so rests on
two facts more (`Abandoned`): the authority is unasked until the limit is checked, and a run
gives up a started operation only over one in progress (`OperationIsKnown`). Such a case has
no result and is not resumed: a rerun starts a new one.

*Reviews.* The aggregate lets a request be decided in a later visit to `human_review`, on
policies that a newer evaluation has settled (`domain.py` 834). A run evaluates once
(`FirstWrites`) and opens reviews after that (`ReviewsFollowEvaluation`), so its case has no
such request.

*Ends.* `StepsAhead` weighs the places that may follow with the steps of one call and adds
what the call under way may still take. With `FairSpec` this is the reason for `RunEnds`; what
TLC adds is that a step is possible until there.

`Trajectory_proofs` (`Trajectory`'s `TSpec` implies the property, always; assumptions as for
`Workflow`):

| Theorem | Property |
|---|---|
| `TracedRunsAreRuns` | `Spec`: recording changes nothing of a run |
| `TracesAreAccepted` | `TrajectoryIsAccepted` |
| `TracesReplayTheCase` | `TraceReplaysTheCase` |
| `RunsStopSafely` | `StopsAreSafe` |

By the first theorem all that is proved of `Workflow` holds of traced runs. `TraceInv` says
what a trace holds while its run is under way: the checks of the order of events
(`InOrder`), and, by the status of the case, that no event came too early (`NothingTooEarly`)
and none that the status presupposes is missing (`NothingMissed`). A step then records an
event only when what has to precede it is there (`InTime`), and a correction goes on with
events of the intake only (`ResumableIsEarly`). The checks that compare trace and result
follow from these and `Stages` when the run returns. For `TraceReplaysTheCase`, `Replayed`
adds what a correction needs of the results it may start from: as long as the case
has no order, each of them ends in the snapshot the case is still in. `StopsAreSafe` is proved
stop by stop, of a lookup and of the execution; no other end of a run is a stop.

`LiveRun_proofs` (`LiveRun.Spec` implies the property, always):

| Theorem | Property |
|---|---|
| `SpendStaysAuthorized` | `SpendIsBounded` |
| `ReportsAreComplete` | `ReportIsComplete` |

The guard counts the pending call, so at the first call the whole plan fits the limit
(`PlanFitted`), and the bill is paid for by the calls made and by what single calls cost
above the maximum (`CallsPay`); neither needs what the counted total is. The total
alone passes the limit by no more than the last call did, because the guard allowed it.
A run is stopped by the guard only after an excess: otherwise the calls left still fit
(`ShortRuns`). The products of two variables are kept in three lemmas.

`SharedRegistry_proofs` (`SharedRegistry.Spec` implies the property, always):

| Theorem | Property |
|---|---|
| `AttemptsAreExclusive` | `OneAttemptAtATime` |
| `StoreTellsTheTruth` | `StoreIsTruthful` |
| `UnknownStaysUnknown` | `UnknownIsNeverResolved` |
| `EffectsHappenOnce` | `OnceOnly`: the specification implements `OnceOnlyEffect` |
| `RecordsAreNeverRefused` | `RecordsAreAccepted`: an attempt's run finds it in progress when it records the outcome |
| `RunsWindDown` | `RunsProgress`: each step leaves its run fewer steps, and no other run more |

`IInv` adds `RunsRelyOn(r)` for every run: what the run counts on between two of its
steps while others move. That an adapter about to act finds no effect yet (`calling`)
is the fact the whole argument turns on: the attempt is exclusive, so nobody else acts
on the key, and the store was not `succeeded` when the attempt was opened, so nobody
has. That a run which saw `succeeded` may rely on it later holds because a succeeded
operation is never reopened. The refinement maps `AdapterActs` and the lost call to
`Perform`, the end of a run to `Report`, and every other step to a stutter. No step of
another run adds to what a run has ahead (`RunsWindDown`): a store in any state can refuse it
an attempt, which ends it, and cannot send it round again.

`ToolCall_proofs` (`ToolCall.Spec` implies the property, always; assumptions: the limits,
latencies, costs and waits are natural numbers, at least one attempt):

| Theorem | Property |
|---|---|
| `TypeCorrect` | `TypeOK`, which holds the attempt in the range of the loop |
| `BudgetIsKept` | `WithinBudget` |
| `StopsAreExplained` | `StoppedIffExhausted` |
| `CallsWindDown` | a call has at most two steps for each attempt left, and every step leaves fewer |

`IInv` adds `CallsFollowResults`: a call is under way only after calls that returned, so
nothing is exhausted when an attempt begins. The cost of an attempt is reserved when it
begins (`AllowedMeansRoom`), which is why it cannot pass the limit when it ends.

`Intake_proofs` (`Intake.Spec` implies the property, always; no assumptions):

| Theorem | Property |
|---|---|
| `OnlyTheCustomersOrder` | `OnlyGroundedOrdersEnter` |
| `OneQuestionToTheCustomer` | `ClarifiesOnlyAMissingOrder` |
| `RoutingAgreesWithExtraction` | `RoutingNeverRejects` |

`ValidProposal` is what validation guarantees of one proposal; `StatusIsEarned` carries it
from extraction to routing (a status other than invalid goes with a valid proposal, and the
workflow runs only on the route that names it). Routing's own checks then follow.

Checked by TLC and not proved: the liveness properties `EveryCallEnds`, `EveryRunReports` and
`RunEnds`. Each follows from a theorem above (`CallsWindDown`, the two `RunsWindDown`), the
fairness assumed and the fact that a step is possible until the end; the last two, and the
induction on the number of steps, are out of the prover's reach.

## 5. Not modelled

* **Demo server, package exports, offline scripts**: presentation of one finished run. Each
  request of the server runs a case of its own, with its own registry.
* **The other rows of the demo's projection**, the summaries and the page: wording from
  fixed tables.
* **Synthetic retailer, scenarios, evaluation cases**: fixed data. The models let
  every dependency return any value instead, which includes theirs.
* **Grading of extractions**: a field-by-field comparison with a fixed expectation, which
  `LiveRun` sees as a match or none.
* **Adapter details**: the `retryable` flag, the request identifier and `retry-after` are
  reported; nothing in the code decides by them.
* **Events of the retry loop and sequence numbers** in the trace: no check of
  `trajectory_evaluation.py` reads them. Two corrections from one result number their events
  alike; that is how a result is reused and no property is stated of it.
* **Call counts and required events** of the failure regression cases: they speak of one
  fixture with one injected failure each. The routes and the forbidden events are checked of
  every stop (`StopsAreSafe`).
* **A spend limit over several runs**: the guard knows its own run only, and a script may be
  started again.
* **Floating point**: amounts and times are natural numbers.
* **Audit trail and alerts** of the case: logs no method reads.
* **A registry whose methods are not atomic**: disclaimed by the code (`execution.py` 94-98),
  and no code shares a registry between threads.

## 6. Plan

Done: all modules of section 2 and the proofs of section 4. What could follow, in the
order of importance:

1. A bound on what a live runner has ahead, as for the calls and the runs.
2. A registry whose methods are split at the read and the write, to say which of the
   properties of `SharedRegistry` need atomicity, if the code ever shares one between threads.
