--------------------------- MODULE Trajectory_proofs ---------------------------
(***************************************************************************)
(* Proofs about the trace a run writes and the result it hands back, for   *)
(* any number of runs and corrections, any budget and retry policy.        *)
(***************************************************************************)
EXTENDS Trajectory, Workflow_proofs, SequenceTheorems

\* The event types a trace holds.
Seen(log) == {log[i] : i \in DOMAIN log}

(***************************************************************************)
(* The trace as a sequence                                                 *)
(***************************************************************************)

\* An event is seen once it occurs.
LEMMA OccursIsSeen == \A log, event : Occurs(log, event) <=> event \in Seen(log)
BY DEF Occurs, Seen

LEMMA AppendShape ==
    ASSUME NEW S, NEW log \in Seq(S), NEW event \in S
    PROVE  /\ Append(log, event) \in Seq(S)
           /\ DOMAIN Append(log, event) = 1 .. (Len(log) + 1)
           /\ DOMAIN log = 1 .. Len(log) /\ Len(log) \in Nat
           /\ \A i \in 1 .. Len(log) : Append(log, event)[i] = log[i]
           /\ Append(log, event)[Len(log) + 1] = event
<1> DEFINE longer == Append(log, event)
<1>1. /\ longer \in Seq(S) /\ Len(longer) = Len(log) + 1
      /\ \A i \in 1 .. Len(log) : longer[i] = log[i]
      /\ longer[Len(log) + 1] = event
  BY AppendProperties
<1>2. DOMAIN longer = 1 .. Len(longer) /\ DOMAIN log = 1 .. Len(log) /\ Len(log) \in Nat
  BY <1>1, LenProperties
<1> QED
  BY <1>1, <1>2

\* Recording an event adds it, and nothing else.
LEMMA AppendedIsSeen ==
    ASSUME NEW S, NEW log \in Seq(S), NEW event \in S
    PROVE  /\ Appended(log, event) \in Seq(S)
           /\ Seen(Appended(log, event)) = Seen(log) \cup {event}
<1>1. CASE Occurs(log, event)
  BY <1>1 DEF Appended, Occurs, Seen
<1>2. CASE ~Occurs(log, event)
  <2>1. Appended(log, event) = Append(log, event)
    BY <1>2 DEF Appended
  <2>2. Seen(Append(log, event)) \subseteq Seen(log) \cup {event}
    BY AppendShape DEF Seen
  <2>3. ASSUME NEW e \in Seen(log) PROVE e \in Seen(Append(log, event))
    <3>1. PICK i \in 1 .. Len(log) : log[i] = e
      BY <2>3, AppendShape DEF Seen
    <3>2. i \in DOMAIN Append(log, event) /\ Append(log, event)[i] = e
      BY <3>1, AppendShape
    <3> QED
      BY <3>2 DEF Seen
  <2>4. event \in Seen(Append(log, event))
    BY AppendShape DEF Seen
  <2> QED
    BY <2>1, <2>2, <2>3, <2>4, AppendShape
<1> QED
  BY <1>1, <1>2

\* An order of events is kept when what has to come first has been seen.
LEMMA AppendedKeepsOrder ==
    ASSUME NEW S, NEW log \in Seq(S), NEW event \in S, NEW later, NEW earlier,
           Preceded(log, later, earlier),
           event \in later => Seen(log) \cap earlier # {}
    PROVE  Preceded(Appended(log, event), later, earlier)
<1>1. CASE Occurs(log, event)
  BY <1>1 DEF Appended
<1>2. CASE ~Occurs(log, event)
  <2>1. Appended(log, event) = Append(log, event)
    BY <1>2 DEF Appended
  <2>2. /\ DOMAIN Append(log, event) = 1 .. (Len(log) + 1)
        /\ DOMAIN log = 1 .. Len(log) /\ Len(log) \in Nat
        /\ \A i \in 1 .. Len(log) : Append(log, event)[i] = log[i]
        /\ Append(log, event)[Len(log) + 1] = event
    BY AppendShape
  <2>3. ASSUME NEW j \in 1 .. (Len(log) + 1), Append(log, event)[j] \in later
        PROVE  \E i \in 1 .. (j - 1) : Append(log, event)[i] \in earlier
    <3>1. CASE j \in 1 .. Len(log)
      <4>1. log[j] \in later
        BY <2>2, <2>3, <3>1
      <4>2. PICK i \in 1 .. (j - 1) : log[i] \in earlier
        BY <2>2, <3>1, <4>1 DEF Preceded
      <4>3. i \in 1 .. Len(log)
        BY <2>2, <3>1
      <4> QED
        BY <2>2, <4>2, <4>3
    <3>2. CASE j = Len(log) + 1
      <4>1. PICK i \in 1 .. Len(log) : log[i] \in earlier
        BY <2>2, <2>3, <3>2 DEF Seen
      <4>2. i \in 1 .. (j - 1) /\ Append(log, event)[i] \in earlier
        BY <2>2, <3>2, <4>1
      <4> QED
        BY <4>2
    <3> QED
      BY <2>2, <3>1, <3>2
  <2> QED
    BY <2>1, <2>2, <2>3 DEF Preceded
<1> QED
  BY <1>1, <1>2

--------------------------------------------------------------------------------
(***************************************************************************)
(* What a trace holds at each place of a run                               *)
(***************************************************************************)
IntakeEvents ==
    {"customer_report_recorded", "intake_failed", "customer_correction_requested",
     "order_identifier_correction_recorded"}
LinkedEvents == IntakeEvents \cup {"linkage_completed", "shipment_attached"}
GatheringEvents == LinkedEvents \cup
    {"evidence_gathering_entered", "carrier_evidence_attached", "address_comparison_recorded"}
ReviewEvents == GatheringEvents \cup PolicyEvents \cup {"human_review_opened"}

EventType == ReviewEvents \cup DispositionEvents \cup ExecutionEvents \cup
    {"execution_authority_granted", "execution_authority_blocked",
     "duplicate_execution_suppressed", "successful_operation_recorded",
     "failed_operation_recorded", "external_follow_up_entered", "execution_failure_routed"}

\* Nothing is recorded before its time: the status of the case bounds what the
\* trace of its run holds.
NothingTooEarly ==
    /\ caseStatus \in {"intake", "awaiting_customer_action"}
          => Seen(trace) \subseteq IntakeEvents
    /\ caseStatus = "linked" => Seen(trace) \subseteq LinkedEvents
    /\ caseStatus = "evidence_gathering" =>
          /\ Seen(trace) \subseteq GatheringEvents
          /\ pc # "enter_policy" => "address_comparison_recorded" \notin Seen(trace)
    /\ caseStatus = "policy_review"
          => Seen(trace) \subseteq GatheringEvents \cup {"policy_review_entered"}
    /\ caseStatus \in {"human_review", "disposition_selection"}
          => Seen(trace) \subseteq ReviewEvents
    /\ caseStatus = "executing" =>
          /\ "execution_authority_blocked" \notin Seen(trace)
          /\ pc \in {"authorize", "obtain"} => Seen(trace) \cap ExecutionEvents = {}
          /\ "successful_operation_recorded" \in Seen(trace) =>
                pc \in {"record_execution", "complete"} /\ operations[Key].status = "succeeded"

\* Nothing is missing: what a status of the case presupposes has been recorded.
NothingMissed ==
    /\ caseStatus \notin {"intake", "awaiting_customer_action"}
          => Seen(trace) \cap LinkageEvents # {}
    /\ caseStatus \notin {"intake", "awaiting_customer_action", "linked"}
          => "evidence_gathering_entered" \in Seen(trace)
    /\ caseStatus \in {"human_review", "disposition_selection", "executing"}
          => "policy_route_recorded" \in Seen(trace)
    /\ caseStatus = "executing" => Seen(trace) \cap DispositionEvents # {}
    /\ (/\ outcome = "budget_exceeded"
        /\ \/ pc = "complete"
           \/ pc = "record_execution" /\ operations[Key].status = "succeeded")
          => "successful_operation_recorded" \in Seen(trace)

\* The checks that are about the trace alone.
InOrder(log) ==
    /\ Preceded(log, DownstreamEvents, LinkageEvents)
    /\ Preceded(log, PolicyEvents, {"evidence_gathering_entered"})
    /\ Preceded(log, DispositionEvents, {"policy_route_recorded"})
    /\ Preceded(log, {"execution_started"}, DispositionEvents)
    /\ "execution_authority_blocked" \in Seen(log) => Seen(log) \cap ExecutionEvents = {}

\* What a correction may go on with holds the events of the intake only.
ResumableIsEarly ==
    \A stopped \in resumable :
        stopped.trace \in Seq(EventType) /\ Seen(stopped.trace) \subseteq IntakeEvents

TraceIsPlaced == pc # "idle" => NothingTooEarly /\ NothingMissed

TraceInv == trace \in Seq(EventType) /\ InOrder(trace) /\ TraceIsPlaced /\ ResumableIsEarly

\* What has to have been seen when an event is recorded.
InTime(log, event) ==
    /\ event \in DownstreamEvents => Seen(log) \cap LinkageEvents # {}
    /\ event \in PolicyEvents => "evidence_gathering_entered" \in Seen(log)
    /\ event \in DispositionEvents => "policy_route_recorded" \in Seen(log)
    /\ event = "execution_started" => Seen(log) \cap DispositionEvents # {}
    /\ event = "execution_authority_blocked" => Seen(log) \cap ExecutionEvents = {}
    /\ event \in ExecutionEvents => "execution_authority_blocked" \notin Seen(log)

\* An event recorded in time keeps the trace in order.
LEMMA RecordedInOrder ==
    ASSUME NEW log \in Seq(EventType), NEW event \in EventType, InOrder(log), InTime(log, event)
    PROVE  /\ Appended(log, event) \in Seq(EventType)
           /\ Seen(Appended(log, event)) = Seen(log) \cup {event}
           /\ InOrder(Appended(log, event))
<1>1. /\ Appended(log, event) \in Seq(EventType)
      /\ Seen(Appended(log, event)) = Seen(log) \cup {event}
  BY AppendedIsSeen
<1>2. /\ Preceded(Appended(log, event), DownstreamEvents, LinkageEvents)
      /\ Preceded(Appended(log, event), PolicyEvents, {"evidence_gathering_entered"})
      /\ Preceded(Appended(log, event), DispositionEvents, {"policy_route_recorded"})
      /\ Preceded(Appended(log, event), {"execution_started"}, DispositionEvents)
  <2>1. Preceded(Appended(log, event), DownstreamEvents, LinkageEvents)
    BY AppendedKeepsOrder DEF InOrder, InTime
  <2>2. Preceded(Appended(log, event), PolicyEvents, {"evidence_gathering_entered"})
    BY AppendedKeepsOrder DEF InOrder, InTime
  <2>3. Preceded(Appended(log, event), DispositionEvents, {"policy_route_recorded"})
    BY AppendedKeepsOrder DEF InOrder, InTime
  <2>4. Preceded(Appended(log, event), {"execution_started"}, DispositionEvents)
    BY AppendedKeepsOrder DEF InOrder, InTime
  <2> QED
    BY <2>1, <2>2, <2>3, <2>4
<1>3. "execution_authority_blocked" \in Seen(log) \cup {event}
        => (Seen(log) \cup {event}) \cap ExecutionEvents = {}
  BY DEF InOrder, InTime, ExecutionEvents
<1> QED
  BY <1>1, <1>2, <1>3 DEF InOrder

\* A trace of intake events is in order.
LEMMA IntakeIsInOrder ==
    ASSUME NEW log, Seen(log) \subseteq IntakeEvents PROVE InOrder(log)
<1>1. \A i \in DOMAIN log : log[i] \in IntakeEvents
  BY DEF Seen
<1>2. /\ IntakeEvents \cap DownstreamEvents = {} /\ IntakeEvents \cap PolicyEvents = {}
      /\ IntakeEvents \cap DispositionEvents = {} /\ "execution_started" \notin IntakeEvents
      /\ "execution_authority_blocked" \notin IntakeEvents
  BY DEF IntakeEvents, DownstreamEvents, PolicyEvents, DispositionEvents
<1> QED
  BY <1>1, <1>2 DEF InOrder, Preceded

--------------------------------------------------------------------------------
(***************************************************************************)
(* The steps of a run and what they record                                 *)
(***************************************************************************)

\* A step that records an event in time, or nothing, keeps what is known of the
\* trace when its place is right and what it hands back to a correction early.
LEMMA RecordingStep ==
    ASSUME TraceInv, KeepResult,
           \/ trace' = trace
           \/ \E event \in EventType : trace' = Appended(trace, event) /\ InTime(trace, event)
           \/ \E first, second \in EventType :
                 /\ trace' = Appended(Appended(trace, first), second)
                 /\ InTime(trace, first) /\ InTime(Appended(trace, first), second),
           TraceIsPlaced',
           (pc' = "idle" /\ StoppedAtOrderLookup(result')) => Seen(trace') \subseteq IntakeEvents
    PROVE  TraceInv'
<1> USE DEF TraceInv
<1>1. trace' \in Seq(EventType) /\ InOrder(trace')
  <2>1. CASE \E event \in EventType : trace' = Appended(trace, event) /\ InTime(trace, event)
    BY <2>1, RecordedInOrder
  <2>2. CASE \E first, second \in EventType :
                 /\ trace' = Appended(Appended(trace, first), second)
                 /\ InTime(trace, first) /\ InTime(Appended(trace, first), second)
    <3>1. PICK first \in EventType, second \in EventType :
                 /\ trace' = Appended(Appended(trace, first), second)
                 /\ InTime(trace, first) /\ InTime(Appended(trace, first), second)
      BY <2>2
    <3>2. Appended(trace, first) \in Seq(EventType) /\ InOrder(Appended(trace, first))
      BY <3>1, RecordedInOrder
    <3> QED
      BY <3>1, <3>2, RecordedInOrder
  <2> QED
    BY <2>1, <2>2
<1>2. ResumableIsEarly'
  BY <1>1 DEF ResumableIsEarly, KeepResult
<1>3. InOrder(trace)'
  BY <1>1 DEF InOrder, Preceded, Seen
<1> QED
  BY <1>1, <1>2, <1>3

LEMMA InitTrace == TInit => TraceInv
<1> SUFFICES ASSUME TInit PROVE TraceInv
  OBVIOUS
<1>1. trace \in Seq(EventType) /\ Seen(trace) = {} /\ resumable = {} /\ pc = "idle"
  BY EmptySeq DEF TInit, Init, Seen
<1>2. InOrder(trace)
  BY <1>1, IntakeIsInOrder
<1> QED
  BY <1>1, <1>2 DEF TraceInv, TraceIsPlaced, ResumableIsEarly

\* A new run begins with an empty trace, a correction with one of the intake.
LEMMA NewRunTrace ==
    ASSUME TraceInv, TraceNewRun \/ TraceNewCorrection PROVE TraceInv'
<1>1. /\ trace' \in Seq(EventType) /\ Seen(trace') \subseteq IntakeEvents
      /\ caseStatus' \in {"intake", "awaiting_customer_action"}
      /\ outcome' # "budget_exceeded"
      /\ resumable' \subseteq resumable
  <2>1. CASE TraceNewRun
    BY <2>1, EmptySeq DEF TraceNewRun, NewRun, T!NewRun, Seen
  <2>2. CASE TraceNewCorrection
    <3>1. PICK stopped \in resumable : trace' = stopped.trace
      BY <2>2 DEF TraceNewCorrection
    <3>2. trace' \in Seq(EventType) /\ Seen(trace') \subseteq IntakeEvents
      BY <3>1 DEF TraceInv, ResumableIsEarly
    <3> QED
      BY <2>2, <3>2 DEF TraceNewCorrection, NewCorrection, Correctable, T!NewRun, caseVars
  <2> QED
    BY <2>1, <2>2
<1>2. InOrder(trace')
  BY <1>1, IntakeIsInOrder
<1>3. InOrder(trace)'
  BY <1>2 DEF InOrder, Preceded, Seen
<1>4. TraceIsPlaced'
  BY <1>1 DEF TraceIsPlaced, NothingTooEarly, NothingMissed, Seen
<1>5. ResumableIsEarly'
  BY <1>1 DEF TraceInv, ResumableIsEarly
<1> QED
  BY <1>1, <1>3, <1>4, <1>5 DEF TraceInv

\* What an event adds to the trace.
LEMMA SeenAfter ==
    ASSUME TraceInv, NEW event \in EventType, trace' = Appended(trace, event)
    PROVE  Seen(trace') = Seen(trace) \cup {event}
BY AppendedIsSeen DEF TraceInv

\* Linkage, evidence and the way into the policy review: each event is recorded
\* as its status is left or entered.
LEMMA EarlyTrace ==
    ASSUME Located, TraceInv, KeepResult,
           \/ RecordReport /\ Change("customer_report_recorded")
           \/ FailIntake /\ Change("intake_failed")
           \/ RequestCorrection /\ Change("customer_correction_requested")
           \/ Link /\ Change("linkage_completed")
           \/ AttachShipment /\ Change("shipment_attached")
           \/ GatherEvidence /\ Change("evidence_gathering_entered")
           \/ RecordAddress /\ Change("address_comparison_recorded")
           \/ EnterPolicy /\ Change("policy_review_entered")
    PROVE  TraceInv'
<1> USE DEF Located, StatusOfThePlace, TraceIsPlaced, NothingTooEarly, NothingMissed, InTime,
            IntakeEvents, LinkedEvents, GatheringEvents, ReviewEvents, EventType,
            LinkageEvents, PolicyEvents, DispositionEvents, DownstreamEvents, ExecutionEvents,
            Call, GoTo, Return, Change
<1>1. CASE RecordReport /\ Change("customer_report_recorded")
  <2>1. Seen(trace') = Seen(trace) \cup {"customer_report_recorded"}
    BY <1>1, SeenAfter
  <2>2. /\ InTime(trace, "customer_report_recorded") /\ TraceIsPlaced'
        /\ (pc' = "idle" /\ StoppedAtOrderLookup(result')) => Seen(trace') \subseteq IntakeEvents
    BY <1>1, <2>1 DEF TraceInv, RecordReport, C!RecordCustomerReport, C!statusVars
  <2> QED
    BY <1>1, <2>2, RecordingStep
<1>2. CASE FailIntake /\ Change("intake_failed")
  <2>1. Seen(trace') = Seen(trace) \cup {"intake_failed"}
    BY <1>2, SeenAfter
  <2>2. /\ InTime(trace, "intake_failed") /\ TraceIsPlaced'
        /\ (pc' = "idle" /\ StoppedAtOrderLookup(result')) => Seen(trace') \subseteq IntakeEvents
    BY <1>2, <2>1 DEF TraceInv, FailIntake, C!FailIntake
  <2> QED
    BY <1>2, <2>2, RecordingStep
<1>3. CASE RequestCorrection /\ Change("customer_correction_requested")
  <2>1. Seen(trace') = Seen(trace) \cup {"customer_correction_requested"}
    BY <1>3, SeenAfter
  <2>2. /\ InTime(trace, "customer_correction_requested") /\ TraceIsPlaced'
        /\ (pc' = "idle" /\ StoppedAtOrderLookup(result')) => Seen(trace') \subseteq IntakeEvents
    BY <1>3, <2>1 DEF TraceInv, RequestCorrection, C!RequestOrderIdentifierCorrection
  <2> QED
    BY <1>3, <2>2, RecordingStep
<1>4. CASE Link /\ Change("linkage_completed")
  <2>1. Seen(trace') = Seen(trace) \cup {"linkage_completed"}
    BY <1>4, SeenAfter
  <2>2. /\ InTime(trace, "linkage_completed") /\ TraceIsPlaced'
        /\ (pc' = "idle" /\ StoppedAtOrderLookup(result')) => Seen(trace') \subseteq IntakeEvents
    BY <1>4, <2>1 DEF TraceInv, Link, C!Link
  <2> QED
    BY <1>4, <2>2, RecordingStep
<1>5. CASE AttachShipment /\ Change("shipment_attached")
  <2>1. Seen(trace') = Seen(trace) \cup {"shipment_attached"}
    BY <1>5, SeenAfter
  <2>2. /\ InTime(trace, "shipment_attached") /\ TraceIsPlaced'
        /\ (pc' = "idle" /\ StoppedAtOrderLookup(result')) => Seen(trace') \subseteq IntakeEvents
    BY <1>5, <2>1 DEF TraceInv, AttachShipment, C!AttachShipment, C!statusVars
  <2> QED
    BY <1>5, <2>2, RecordingStep
<1>6. CASE GatherEvidence /\ Change("evidence_gathering_entered")
  <2>1. Seen(trace') = Seen(trace) \cup {"evidence_gathering_entered"}
    BY <1>6, SeenAfter
  <2>2. /\ InTime(trace, "evidence_gathering_entered") /\ TraceIsPlaced'
        /\ (pc' = "idle" /\ StoppedAtOrderLookup(result')) => Seen(trace') \subseteq IntakeEvents
    BY <1>6, <2>1 DEF TraceInv, GatherEvidence, C!TransitionTo
  <2> QED
    BY <1>6, <2>2, RecordingStep
<1>7. CASE RecordAddress /\ Change("address_comparison_recorded")
  <2>1. Seen(trace') = Seen(trace) \cup {"address_comparison_recorded"}
    BY <1>7, SeenAfter
  <2>2. /\ InTime(trace, "address_comparison_recorded") /\ TraceIsPlaced'
        /\ (pc' = "idle" /\ StoppedAtOrderLookup(result')) => Seen(trace') \subseteq IntakeEvents
    BY <1>7, <2>1 DEF TraceInv, RecordAddress, C!RecordAddressMatchResult, C!statusVars
  <2> QED
    BY <1>7, <2>2, RecordingStep
<1>8. CASE EnterPolicy /\ Change("policy_review_entered")
  <2>1. Seen(trace') = Seen(trace) \cup {"policy_review_entered"}
    BY <1>8, SeenAfter
  <2>2. /\ InTime(trace, "policy_review_entered") /\ TraceIsPlaced'
        /\ (pc' = "idle" /\ StoppedAtOrderLookup(result')) => Seen(trace') \subseteq IntakeEvents
    BY <1>8, <2>1 DEF TraceInv, EnterPolicy, C!TransitionTo
  <2> QED
    BY <1>8, <2>2, RecordingStep
<1> QED
  BY <1>1, <1>2, <1>3, <1>4, <1>5, <1>6, <1>7, <1>8

\* A call the aggregate may reject is recorded unless it raised.
LEMMA ReviewTrace ==
    ASSUME Stages, Located, TraceInv, KeepResult,
           \/ TraceCorrection
           \/ AttachEvidence /\ ChangeUnlessRaised("carrier_evidence_attached")
           \/ EvaluatePolicy /\ Change("policy_route_recorded")
           \/ OpenReview /\ ChangeUnlessRaised("human_review_opened")
    PROVE  TraceInv'
<1> USE DEF Located, StatusOfThePlace, TraceIsPlaced, NothingTooEarly, NothingMissed, InTime,
            IntakeEvents, LinkedEvents, GatheringEvents, ReviewEvents, EventType,
            LinkageEvents, PolicyEvents, DispositionEvents, DownstreamEvents, ExecutionEvents,
            Call, GoTo, Change, ChangeUnlessRaised, Silent, Raised, StoppedAtOrderLookup
<1>1. CASE pc' = "idle" /\ result' = NoResult /\ trace' = trace
  <2>1. TraceIsPlaced' /\ ~StoppedAtOrderLookup(result')
    BY <1>1 DEF NoResult
  <2> QED
    BY <1>1, <2>1, RecordingStep
<1>2. CASE ApplyCorrection /\ Change("order_identifier_correction_recorded") /\ ~Raised
  <2>1. Seen(trace') = Seen(trace) \cup {"order_identifier_correction_recorded"}
    BY <1>2, SeenAfter
  <2>2. /\ InTime(trace, "order_identifier_correction_recorded") /\ TraceIsPlaced'
        /\ pc' = "idle" => Seen(trace') \subseteq IntakeEvents
    BY <1>2, <2>1, ReturnKeepsCorrectable DEF TraceInv, ApplyCorrection, Raise,
       C!ApplyOrderIdentifierCorrection
  <2> QED
    BY <1>2, <2>2, RecordingStep
<1>3. CASE AttachEvidence /\ Change("carrier_evidence_attached") /\ ~Raised
  <2>1. Seen(trace') = Seen(trace) \cup {"carrier_evidence_attached"}
    BY <1>3, SeenAfter
  <2>2. InTime(trace, "carrier_evidence_attached") /\ TraceIsPlaced' /\ pc' # "idle"
    BY <1>3, <2>1 DEF TraceInv, AttachEvidence, Raise, C!AttachCarrierEvidence, C!statusVars
  <2> QED
    BY <1>3, <2>2, RecordingStep
<1>4. CASE EvaluatePolicy /\ Change("policy_route_recorded")
  <2>1. Seen(trace') = Seen(trace) \cup {"policy_route_recorded"}
    BY <1>4, SeenAfter
  <2>2. /\ caseStatus = "policy_review" /\ pc # "idle"
        /\ caseStatus' \in {"awaiting_customer_action", "human_review", "disposition_selection"}
        /\ pc' # "idle" =>
              /\ caseStatus' \in {"human_review", "disposition_selection"}
              /\ pc' \in {"tool", "select"}
        /\ ~(pc' = "idle" /\ StoppedAtOrderLookup(result'))
    BY <1>4, ReturnKeepsCorrectable DEF EvaluatePolicy, Completed, StoppedAt
  <2>3. InTime(trace, "policy_route_recorded") /\ TraceIsPlaced'
    BY <2>1, <2>2 DEF TraceInv
  <2> QED
    BY <1>4, <2>2, <2>3, RecordingStep
<1>5. CASE OpenReview /\ Change("human_review_opened") /\ ~Raised
  <2>1. Seen(trace') = Seen(trace) \cup {"human_review_opened"}
    BY <1>5, SeenAfter
  <2>2. InTime(trace, "human_review_opened") /\ TraceIsPlaced' /\ pc' # "idle"
    BY <1>5, <2>1 DEF TraceInv, OpenReview, Raise, C!OpenHumanReview, C!statusVars
  <2> QED
    BY <1>5, <2>2, RecordingStep
<1> QED
  BY <1>1, <1>2, <1>3, <1>4, <1>5 DEF TraceCorrection

\* A disposition is recorded after the route that led to it.
LEMMA ChoiceTrace ==
    ASSUME Located, TraceInv, KeepResult,
           \/ Decide /\ ChangeUnlessRaised("human_review_decided")
           \/ SelectDisposition /\ Change("disposition_selected")
    PROVE  TraceInv'
<1>1. CASE pc' = "idle" /\ result' = NoResult /\ trace' = trace
  <2>1. TraceIsPlaced' /\ ~StoppedAtOrderLookup(result')
    BY <1>1 DEF NoResult, TraceIsPlaced, StoppedAtOrderLookup
  <2> QED
    BY <1>1, <2>1, RecordingStep
<1>2. ASSUME NEW event \in DispositionEvents, trace' = Appended(trace, event),
             pc \in {"decide", "select"},
             \E d \in C!Disposition : C!ApplyDispositionPath(d) /\ AfterDisposition
      PROVE  TraceInv'
  <2>1. Seen(trace') = Seen(trace) \cup {event}
    BY <1>2, SeenAfter DEF EventType
  <2>2. caseStatus \in {"human_review", "disposition_selection"}
    BY <1>2 DEF Located, StatusOfThePlace
  <2>3. /\ caseStatus' = "executing" => pc' \in {"authorize", "obtain"}
        /\ caseStatus' # "executing" => pc' = "idle" /\ result' = Completed
    BY <1>2, PathOfADisposition
  <2>4. InTime(trace, event)
    BY <1>2, <2>2 DEF TraceInv, TraceIsPlaced, NothingTooEarly, NothingMissed, InTime,
       DispositionEvents, DownstreamEvents, PolicyEvents, ExecutionEvents
  <2>5. TraceIsPlaced'
    BY <1>2, <2>1, <2>2, <2>3 DEF TraceInv, TraceIsPlaced, NothingTooEarly, NothingMissed,
       IntakeEvents, LinkedEvents, GatheringEvents, ReviewEvents, PolicyEvents,
       DispositionEvents, ExecutionEvents
  <2>6. ~(pc' = "idle" /\ StoppedAtOrderLookup(result'))
    <3>1. caseStatus' # "executing" => ~StoppedAtOrderLookup(result')
      BY <2>3 DEF StoppedAtOrderLookup, Completed
    <3> QED
      BY <2>3, <3>1
  <2> QED
    BY <1>2, <2>4, <2>5, <2>6, RecordingStep DEF EventType
<1>3. \/ pc' = "idle" /\ result' = NoResult /\ trace' = trace
      \/ /\ pc \in {"decide", "select"}
         /\ \E event \in DispositionEvents : trace' = Appended(trace, event)
         /\ \E d \in C!Disposition : C!ApplyDispositionPath(d) /\ AfterDisposition
  <2>1. CASE Decide /\ ChangeUnlessRaised("human_review_decided")
    BY <2>1 DEF Decide, C!RecordHumanReviewDecision, C!ReviewDecision, Raise, Raised, Silent,
       Change, ChangeUnlessRaised, DispositionEvents
  <2>2. CASE SelectDisposition /\ Change("disposition_selected")
    BY <2>2 DEF SelectDisposition, C!SelectDisposition, Change, DispositionEvents
  <2> QED
    BY <2>1, <2>2
<1> QED
  BY <1>1, <1>2, <1>3

\* A lookup records nothing, however it ends.
LEMMA LookupTrace ==
    ASSUME Located, TraceInv, KeepResult, Silent,
           \/ BeginCall /\ stage # "execution"
           \/ LookupAttempt \/ LookupRetry \/ LookupReturns \/ LookupStops \/ LookupRaises
    PROVE  TraceInv'
<1> USE DEF Looking, InCall, runVars
<1>1. pc = "tool" /\ stage # "execution" /\ caseStatus' = caseStatus
  BY DEF BeginCall, LookupAttempt, LookupRetry, LookupReturns, LookupStops, LookupRaises, caseVars
<1>2. \/ UNCHANGED <<pc, stage>>
      \/ /\ pc' = "idle"
         /\ result' = NoResult \/ result'.stage = stage
      \/ AfterResult
  <2>1. CASE BeginCall \/ LookupAttempt \/ LookupRetry
    BY <2>1 DEF BeginCall, LookupAttempt, LookupRetry
  <2>2. CASE LookupReturns
    BY <2>2, ReturnKeepsCorrectable DEF LookupReturns, StoppedAt
  <2>3. CASE LookupStops \/ LookupRaises
    BY <2>3, ReturnKeepsCorrectable DEF LookupStops, LookupRaises, Raise, StoppedAt
  <2> QED
    BY <2>1, <2>2, <2>3
<1>3. pc' \notin {"enter_policy", "authorize", "obtain", "record_execution", "complete"}
  BY <1>1, <1>2 DEF AfterResult, Call, GoTo
<1>4. caseStatus # "executing"
  BY <1>1 DEF Located, StatusOfThePlace, PlaceIsKnown, ToolStage, AtCall
<1>5. TraceIsPlaced'
  BY <1>1, <1>3, <1>4 DEF Silent, TraceInv, TraceIsPlaced, NothingTooEarly, NothingMissed, Seen
<1>6. (pc' = "idle" /\ StoppedAtOrderLookup(result')) => Seen(trace') \subseteq IntakeEvents
  <2>1. (pc' = "idle" /\ StoppedAtOrderLookup(result')) => stage = "order_lookup"
    BY <1>1, <1>2 DEF StoppedAtOrderLookup, NoResult, AfterResult, Call, GoTo
  <2> QED
    BY <1>1, <2>1 DEF Located, StatusOfThePlace, AtCall, Silent, TraceInv, TraceIsPlaced,
       NothingTooEarly
<1> QED
  BY <1>5, <1>6, RecordingStep DEF Silent

--------------------------------------------------------------------------------

\* A step of a committed run: what has been recorded stays, and the success of
\* the operation is recorded exactly when the adapter reported it.
LEMMA CommittedRecording ==
    ASSUME Located, Located', TraceInv, KeepResult, Committed, pc' = "idle" \/ Committed',
           \/ trace' = trace
           \/ \E event \in EventType : trace' = Appended(trace, event) /\ InTime(trace, event)
           \/ \E first, second \in EventType :
                 /\ trace' = Appended(Appended(trace, first), second)
                 /\ InTime(trace, first) /\ InTime(Appended(trace, first), second),
           Seen(trace) \subseteq Seen(trace'),
           pc' # "idle" => "execution_authority_blocked" \notin Seen(trace'),
           pc' \in {"authorize", "obtain"} => Seen(trace') \cap ExecutionEvents = {},
           (pc' # "idle" /\ "successful_operation_recorded" \in Seen(trace'))
              => pc' \in {"record_execution", "complete"} /\ operations'[Key'].status = "succeeded",
           (/\ outcome' = "budget_exceeded"
            /\ \/ pc' = "complete"
               \/ pc' = "record_execution" /\ operations'[Key'].status = "succeeded")
              => "successful_operation_recorded" \in Seen(trace'),
           ~(pc' = "idle" /\ StoppedAtOrderLookup(result'))
    PROVE  TraceInv'
<1>1. caseStatus = "executing" /\ pc # "idle"
  BY DEF Located, CommitmentIsKnown, Committed, Executing, InCall
<1>2. pc' # "idle" => caseStatus' = "executing"
  BY DEF Located, CommitmentIsKnown
<1>3. (Seen(trace) \cap LinkageEvents # {} /\ Seen(trace) \cap DispositionEvents # {})
        => Seen(trace') \cap LinkageEvents # {} /\ Seen(trace') \cap DispositionEvents # {}
  OBVIOUS
<1>4. pc' # "idle" => NothingTooEarly'
  BY <1>2 DEF NothingTooEarly, Seen
<1>5. pc' # "idle" => NothingMissed'
  <2>1. NothingMissed
    BY <1>1 DEF TraceInv, TraceIsPlaced
  <2>2. Seen(trace)' = Seen(trace')
    BY DEF Seen
  <2> HIDE DEF Seen
  <2> QED
    BY <1>1, <1>2, <1>3, <2>1, <2>2 DEF NothingMissed
<1> QED
  BY <1>4, <1>5, RecordingStep DEF TraceIsPlaced

\* Authority is granted, refused, or cannot be asked for.
LEMMA AuthorityTrace ==
    ASSUME Located, Located', TraceInv, KeepResult,
           \/ GrantAuthority /\ Record("execution_authority_granted")
           \/ BlockForAuthority /\ Change("execution_authority_blocked")
           \/ AuthorityRaises /\ Silent
    PROVE  TraceInv'
<1> USE DEF Committed, Executing, InCall, EventType, DownstreamEvents, PolicyEvents,
            DispositionEvents, ExecutionEvents
<1>1. pc = "authorize" /\ NothingTooEarly /\ caseStatus = "executing"
  BY DEF GrantAuthority, BlockForAuthority, AuthorityRaises, TraceInv, TraceIsPlaced, Located,
     CommitmentIsKnown
<1>2. /\ "execution_authority_blocked" \notin Seen(trace)
      /\ "successful_operation_recorded" \notin Seen(trace)
      /\ Seen(trace) \cap ExecutionEvents = {}
  BY <1>1 DEF NothingTooEarly
<1>3. CASE GrantAuthority /\ Record("execution_authority_granted")
  <2>1. Seen(trace') = Seen(trace) \cup {"execution_authority_granted"}
    BY <1>3, SeenAfter DEF Record
  <2>2. pc' = "obtain" /\ InTime(trace, "execution_authority_granted")
    BY <1>3 DEF GrantAuthority, GoTo, InTime
  <2> QED
    BY <1>1, <1>2, <1>3, <2>1, <2>2, CommittedRecording DEF Record
<1>4. CASE BlockForAuthority /\ Change("execution_authority_blocked")
  <2>1. Seen(trace') = Seen(trace) \cup {"execution_authority_blocked"}
    BY <1>4, SeenAfter DEF Change
  <2>2. pc' = "idle" /\ InTime(trace, "execution_authority_blocked")
    BY <1>2, <1>4 DEF BlockForAuthority, Return, InTime
  <2>3. ~StoppedAtOrderLookup(result')
    BY <1>4, ReturnKeepsCorrectable DEF BlockForAuthority, StoppedAt, StoppedAtOrderLookup
  <2> QED
    BY <1>1, <1>4, <2>1, <2>2, <2>3, CommittedRecording DEF Change
<1>5. CASE AuthorityRaises /\ Silent
  <2>1. pc' = "idle" /\ trace' = trace /\ ~StoppedAtOrderLookup(result')
    BY <1>5 DEF AuthorityRaises, Raise, Silent, StoppedAtOrderLookup, NoResult
  <2> QED
    BY <1>1, <2>1, CommittedRecording
<1> QED
  BY <1>3, <1>4, <1>5

\* The operation is obtained, and the execution started or found done.
LEMMA StartTrace ==
    ASSUME Stages, Located, Located', TraceInv, KeepResult, TraceObtained \/ TraceStarted
    PROVE  TraceInv'
<1> USE DEF Committed, Executing, InCall, EventType, DownstreamEvents, PolicyEvents,
            DispositionEvents, ExecutionEvents
<1>1. /\ pc \in {"obtain", "start_execution"} /\ NothingTooEarly /\ NothingMissed
      /\ caseStatus = "executing" /\ outcome = "result"
  BY DEF TraceObtained, TraceStarted, ObtainOperation, StartExecution, TraceInv, TraceIsPlaced,
     Located, CommitmentIsKnown, Stages, OutcomeIsPlaced
<1>2. /\ "execution_authority_blocked" \notin Seen(trace)
      /\ "successful_operation_recorded" \notin Seen(trace)
      /\ Seen(trace) \cap LinkageEvents # {} /\ Seen(trace) \cap DispositionEvents # {}
  BY <1>1 DEF NothingTooEarly, NothingMissed
<1>3. CASE TraceObtained
  <2>1. pc' = "start_execution"
    BY <1>3 DEF TraceObtained, ObtainOperation, GoTo
  <2>2. CASE trace' = trace
    BY <1>1, <1>2, <2>1, <2>2, CommittedRecording
  <2>3. CASE trace' = Appended(trace, "execution_operation_created")
    <3>1. Seen(trace') = Seen(trace) \cup {"execution_operation_created"}
      BY <2>3, SeenAfter
    <3>2. InTime(trace, "execution_operation_created")
      BY <1>2 DEF InTime
    <3> QED
      BY <1>1, <1>2, <2>1, <2>3, <3>1, <3>2, CommittedRecording
  <2> QED
    BY <1>3, <2>2, <2>3 DEF TraceObtained, Record, Silent
<1>4. CASE TraceStarted
  <2> DEFINE started == Appended(trace, "execution_started")
  <2>1. /\ started \in Seq(EventType) /\ Seen(started) = Seen(trace) \cup {"execution_started"}
        /\ InTime(trace, "execution_started")
    BY <1>2, AppendedIsSeen DEF InTime, TraceInv
  <2>2. /\ pc' \in {"tool", "record_execution"} /\ outcome' = "result"
        /\ pc' = "tool" => stage' = "execution"
    BY <1>1, <1>4 DEF TraceStarted, StartExecution, GoTo, Call, notCase, budgetVars
  <2> HIDE DEF started
  <2>3. CASE trace' = started
    <3>1. /\ Seen(trace) \subseteq Seen(trace')
          /\ "execution_authority_blocked" \notin Seen(trace')
          /\ "successful_operation_recorded" \notin Seen(trace')
      BY <1>2, <2>1, <2>3
    <3>2. \E event \in EventType : trace' = Appended(trace, event) /\ InTime(trace, event)
      BY <2>1, <2>3 DEF started
    <3> QED
      BY <1>1, <2>2, <3>1, <3>2, CommittedRecording
  <2>4. CASE trace' = Appended(started, "duplicate_execution_suppressed")
    <3>1. Seen(trace') = Seen(started) \cup {"duplicate_execution_suppressed"}
      BY <2>1, <2>4, AppendedIsSeen
    <3>2. InTime(started, "duplicate_execution_suppressed")
      BY DEF InTime
    <3>3. \E first, second \in EventType :
             /\ trace' = Appended(Appended(trace, first), second)
             /\ InTime(trace, first) /\ InTime(Appended(trace, first), second)
      BY <2>1, <2>4, <3>2 DEF started
    <3>4. /\ Seen(trace) \subseteq Seen(trace')
          /\ "execution_authority_blocked" \notin Seen(trace')
          /\ "successful_operation_recorded" \notin Seen(trace')
      BY <1>2, <2>1, <3>1
    <3> QED
      BY <1>1, <2>2, <3>3, <3>4, CommittedRecording
  <2> QED
    BY <1>4, <2>3, <2>4 DEF TraceStarted, started
<1> QED
  BY <1>3, <1>4

\* The call of the adapter, and what the registry hears of it.
LEMMA ExecutionTrace ==
    ASSUME IInv, Stages, Located, Located', TraceInv, KeepResult,
           \/ TraceAttempt \/ TraceOutcome
           \/ Silent /\ \/ BeginCall /\ stage = "execution"
                        \/ Unwind \/ ExecutionRefused \/ ExecutionRaises
    PROVE  TraceInv'
<1> USE DEF Committed, Executing, InCall
<1>1. /\ pc \in {"tool", "unwind"} /\ Committed /\ NothingTooEarly /\ caseStatus = "executing"
      /\ pc = "tool" => stage = "execution"
  BY DEF TraceAttempt, TraceOutcome, BeginCall, Unwind, ExecutionRefused, ExecutionRaises,
     ExecutionAttempt, ExecutionReturns, ExecutionErrs, TraceInv, TraceIsPlaced, Located,
     CommitmentIsKnown
<1>2. /\ "execution_authority_blocked" \notin Seen(trace)
      /\ "successful_operation_recorded" \notin Seen(trace)
  BY <1>1 DEF NothingTooEarly
<1>3. Key \in Op!Keys /\ Key' = Key
  <2>1. disposition' = disposition
    BY DEF TraceAttempt, TraceOutcome, BeginCall, Unwind, ExecutionRefused, ExecutionRaises,
       ExecutionAttempt, ExecutionReturns, ExecutionErrs, caseVars
  <2> QED
    BY <1>1, <2>1, CommittedHasAKey DEF Key
<1>4. CASE Silent /\ \/ BeginCall /\ stage = "execution"
                     \/ Unwind \/ ExecutionRefused \/ ExecutionRaises
  <2>1. /\ pc' = "idle" => result' = NoResult
        /\ pc' \in {"idle", "tool", "record_execution"}
        /\ pc' = "tool" => stage' = "execution"
        /\ pc' = "record_execution" => operations'[Key'].status # "succeeded"
    BY <1>1, <1>3, <1>4 DEF BeginCall, Unwind, ExecutionRefused, ExecutionRaises, Raise, GoTo,
       runVars, Stages, OutcomeIsPlaced
  <2>2. ~(pc' = "idle" /\ StoppedAtOrderLookup(result'))
    BY <2>1 DEF StoppedAtOrderLookup, NoResult
  <2> QED
    BY <1>1, <1>2, <1>4, <2>1, <2>2, CommittedRecording DEF Silent
<1>5. CASE TraceAttempt
  <2>1. pc' \in {"tool", "unwind"} /\ (pc' = "tool" => stage' = "execution")
    BY <1>1, <1>5 DEF TraceAttempt, ExecutionAttempt
  <2>2. CASE trace' = trace
    BY <1>1, <1>2, <2>1, <2>2, CommittedRecording
  <2>3. CASE trace' = Appended(trace, "execution_adapter_invoked")
    <3>1. Seen(trace') = Seen(trace) \cup {"execution_adapter_invoked"}
      BY <2>3, SeenAfter DEF EventType, ExecutionEvents
    <3>2. InTime(trace, "execution_adapter_invoked")
      BY <1>2 DEF InTime, DownstreamEvents, PolicyEvents, DispositionEvents
    <3> QED
      BY <1>1, <1>2, <2>1, <2>3, <3>1, <3>2, CommittedRecording DEF EventType, ExecutionEvents
  <2> QED
    BY <1>5, <2>2, <2>3 DEF TraceAttempt, Record, Silent
<1>6. CASE TraceOutcome
  <2>1. /\ pc' \in {"tool", "record_execution"} /\ (pc' = "tool" => stage' = "execution")
        /\ \/ /\ trace' = Appended(trace, "successful_operation_recorded")
              /\ pc' = "record_execution" /\ operations'[Key].status = "succeeded"
           \/ /\ trace' = Appended(trace, "failed_operation_recorded")
              /\ operations'[Key].status # "succeeded"
    <3>1. CASE /\ ExecutionReturns
               /\ Record(IF operations'[Key].status = "succeeded"
                         THEN "successful_operation_recorded" ELSE "failed_operation_recorded")
      BY <1>1, <3>1 DEF ExecutionReturns, GoTo, Record
    <3>2. CASE ExecutionErrs /\ Record("failed_operation_recorded")
      <4>1. operations' = [operations EXCEPT ![Key].status = "failed"]
        BY <3>2 DEF ExecutionErrs, Op!RecordFailure, Op!Finish
      <4> QED
        BY <1>1, <1>3, <3>2, <4>1 DEF ExecutionErrs, GoTo, Record, IInv, StoreTyped
    <3> QED
      BY <1>6, <3>1, <3>2 DEF TraceOutcome
  <2>2. CASE /\ trace' = Appended(trace, "successful_operation_recorded")
             /\ pc' = "record_execution" /\ operations'[Key].status = "succeeded"
    <3>1. Seen(trace') = Seen(trace) \cup {"successful_operation_recorded"}
      BY <2>2, SeenAfter DEF EventType
    <3>2. InTime(trace, "successful_operation_recorded")
      BY <1>2 DEF InTime, DownstreamEvents, PolicyEvents, DispositionEvents, ExecutionEvents
    <3> QED
      BY <1>1, <1>2, <1>3, <2>2, <3>1, <3>2, CommittedRecording DEF EventType
  <2>3. CASE /\ trace' = Appended(trace, "failed_operation_recorded")
             /\ operations'[Key].status # "succeeded"
    <3>1. Seen(trace') = Seen(trace) \cup {"failed_operation_recorded"}
      BY <2>3, SeenAfter DEF EventType
    <3>2. InTime(trace, "failed_operation_recorded")
      BY <1>2 DEF InTime, DownstreamEvents, PolicyEvents, DispositionEvents, ExecutionEvents
    <3> QED
      BY <1>1, <1>2, <1>3, <2>1, <2>3, <3>1, <3>2, CommittedRecording DEF EventType
  <2> QED
    BY <2>1, <2>2, <2>3
<1> QED
  BY <1>4, <1>5, <1>6

\* The case is told the outcome, and the run ends with it.
LEMMA EndTrace ==
    ASSUME IInv, Located, Located', TraceInv, KeepResult, TraceExecution PROVE TraceInv'
<1> USE DEF Committed
<1>1. /\ pc \in {"record_execution", "complete", "route_failure"} /\ Committed
      /\ NothingTooEarly /\ NothingMissed /\ caseStatus = "executing"
      /\ Key' = Key /\ UNCHANGED <<operations, outcome>>
  BY DEF TraceExecution, RecordExecution, CompleteExecution, RouteFailure, TraceInv,
     TraceIsPlaced, Located, CommitmentIsKnown, notCase, budgetVars, C!RecordExecutionStatus,
     C!CompleteExecution, C!RouteExecutionFailureToReview, Key
<1>2. PICK event \in {"execution_result_recorded", "execution_completed",
                      "external_follow_up_entered", "execution_failure_routed"} :
         trace' = Appended(trace, event)
  BY DEF TraceExecution, Change
<1>3. Seen(trace') = Seen(trace) \cup {event} /\ event \in EventType
  BY <1>2, SeenAfter DEF EventType, ExecutionEvents
<1>4. InTime(trace, event)
  BY <1>1, <1>2 DEF NothingTooEarly, InTime, DownstreamEvents, PolicyEvents, DispositionEvents,
     ExecutionEvents
<1>5. CASE RecordExecution
  <2>1. \/ pc = "record_execution" /\ pc' = "complete" /\ operations[Key].status = "succeeded"
        \/ pc = "record_execution" /\ pc' = "route_failure" /\ operations[Key].status # "succeeded"
    BY <1>5 DEF RecordExecution, GoTo
  <2>2. /\ "successful_operation_recorded" \in Seen(trace') <=>
              "successful_operation_recorded" \in Seen(trace)
        /\ "execution_authority_blocked" \notin Seen(trace')
    BY <1>1, <1>2, <1>3 DEF NothingTooEarly
  <2>3. (pc' # "idle" /\ "successful_operation_recorded" \in Seen(trace'))
              => pc' \in {"record_execution", "complete"} /\ operations'[Key'].status = "succeeded"
    BY <1>1, <2>1, <2>2 DEF NothingTooEarly
  <2>4. outcome' = "budget_exceeded" /\ pc' = "complete"
              => "successful_operation_recorded" \in Seen(trace')
    BY <1>1, <2>1, <2>2 DEF NothingMissed
  <2> QED
    BY <1>1, <1>2, <1>3, <1>4, <2>1, <2>2, <2>3, <2>4, CommittedRecording
<1>6. CASE CompleteExecution \/ RouteFailure
  <2>1. pc' = "idle" /\ ~StoppedAtOrderLookup(result')
    BY <1>6, ReturnKeepsCorrectable DEF CompleteExecution, RouteFailure, Completed, StoppedAt,
       StoppedAtOrderLookup
  <2> QED
    BY <1>1, <1>2, <1>3, <1>4, <2>1, CommittedRecording
<1> QED
  BY <1>5, <1>6 DEF TraceExecution

--------------------------------------------------------------------------------
(***************************************************************************)
(* A traced run is a run, and its trace is what it should be               *)
(***************************************************************************)

LEMMA TraceRunIsARunStep == TraceRun => RunStep
BY DEF TraceRun, Quiet, TraceCorrection, TraceIntake, TraceEvidence, TraceDecision,
   TraceObtained, TraceStarted, TraceAttempt, TraceOutcome, TraceExecution, RunStep

\* Recording changes nothing of what the workflow does.
LEMMA TracedStepIsAStep == [TNext]_tvars => [Next]_vars
<1>1. TraceNewRun \/ TraceNewCorrection => Next
  BY DEF TraceNewRun, TraceNewCorrection, Next
<1> QED
  BY <1>1, TraceRunIsARunStep DEF TNext, Next, tvars

\* Every run of Trajectory is one of Workflow, so all that is proved of the
\* orchestrator holds of the runs that are traced.
THEOREM TracedRunsAreRuns == TSpec => Spec
<1>1. TInit => Init
  BY DEF TInit
<1> QED
  BY <1>1, TracedStepIsAStep, PTL DEF TSpec, Spec

LEMMA TraceStep ==
    ASSUME IInv, Stages, Located, Located', TraceInv, [TNext]_tvars PROVE TraceInv'
<1>1. CASE UNCHANGED tvars
  BY <1>1 DEF tvars, vars, runVars, caseVars, budgetVars, TraceInv, InOrder, Preceded, Seen,
     TraceIsPlaced, NothingTooEarly, NothingMissed, ResumableIsEarly, Key
<1>2. CASE TraceNewRun \/ TraceNewCorrection
  BY <1>2, NewRunTrace
<1>3. CASE TraceRun /\ KeepResult
  <2>1. CASE Quiet /\ Silent
    BY <1>3, <2>1, LookupTrace, AuthorityTrace, ExecutionTrace DEF Quiet
  <2>2. CASE TraceCorrection \/ TraceIntake \/ TraceEvidence
    BY <1>3, <2>2, EarlyTrace, ReviewTrace DEF TraceIntake, TraceEvidence
  <2>3. CASE TraceDecision
    BY <1>3, <2>3, EarlyTrace, ReviewTrace, ChoiceTrace, AuthorityTrace DEF TraceDecision
  <2>4. CASE TraceObtained \/ TraceStarted \/ TraceAttempt \/ TraceOutcome \/ TraceExecution
    BY <1>3, <2>4, StartTrace, ExecutionTrace, EndTrace
  <2> QED
    BY <1>3, <2>1, <2>2, <2>3, <2>4 DEF TraceRun
<1> QED
  BY <1>1, <1>2, <1>3 DEF TNext

LEMMA TraceInvariant == TSpec => [](IInv /\ Stages /\ Located /\ TraceInv)
<1>1. TSpec => [](IInv /\ Stages /\ Located)
  BY TracedRunsAreRuns, Invariant, StagesInvariant, LocatedInvariant, PTL
<1>2. /\ IInv /\ Stages /\ Located /\ Located' /\ TraceInv /\ [TNext]_tvars => TraceInv'
  BY TraceStep
<1> QED
  BY <1>1, <1>2, InitTrace, PTL DEF TSpec

\* Every trace a run hands back passes check_trajectory (trajectory_evaluation.py
\* 42-127), whatever was retried, corrected or rerun before, also the trace of
\* a correction that went on with an older result.
THEOREM TracesAreAccepted == TSpec => []TrajectoryIsAccepted
<1>1. IInv /\ TraceInv => TrajectoryIsAccepted
  <2> SUFFICES ASSUME IInv, TraceInv PROVE CheckTrajectory
    BY DEF TrajectoryIsAccepted
  <2>1. InOrder(trace)
    BY DEF TraceInv
  <2>2. ~(executionStatus = "failed" /\ caseStatus = "closed")
    BY DEF IInv, OutcomeIsKnown
  <2>3. Occurs(trace, "execution_authority_blocked")
          => \A e \in ExecutionEvents : ~Occurs(trace, e)
    BY <2>1, OccursIsSeen DEF InOrder
  <2> QED
    BY <2>1, <2>2, <2>3 DEF InOrder, CheckTrajectory
<1> QED
  BY <1>1, TraceInvariant, PTL

--------------------------------------------------------------------------------
(***************************************************************************)
(* The trace ends in the snapshot the case is in                           *)
(***************************************************************************)

\* A run is traced up to its case, a first run has nothing to go on with, and
\* what a correction can go on with ends where the unlinked case still stands.
Replayed ==
    /\ pc # "idle" => traced = Snapshot
    /\ (pc # "idle" /\ ~correcting) => resumable = {}
    /\ (\/ pc # "idle" /\ correcting /\ orderRef = NoOrder
        \/ pc = "idle" /\ Correctable)
          => \A stopped \in resumable : stopped.traced = Snapshot

\* A step that records a snapshot records the one after it, and a step that
\* records none leaves the case as it was.
LEMMA SnapshotIsTaken ==
    ASSUME TraceRun, traced = Snapshot PROVE traced' = Snapshot' \/ Raised
<1>1. CASE Quiet /\ Silent
  <2>1. UNCHANGED caseVars
    BY <1>1 DEF Quiet, BeginCall, LookupAttempt, LookupRetry, LookupReturns, LookupStops,
       LookupRaises, AuthorityRaises, Unwind, ExecutionRefused, ExecutionRaises
  <2> QED
    BY <1>1, <2>1 DEF Silent, Snapshot, caseVars
<1>2. CASE TraceObtained \/ TraceAttempt \/ TraceOutcome
           \/ (GrantAuthority /\ Record("execution_authority_granted"))
  <2>1. UNCHANGED caseVars
    BY <1>2 DEF TraceObtained, ObtainOperation, TraceAttempt, ExecutionAttempt, TraceOutcome,
       ExecutionReturns, ExecutionErrs, GrantAuthority
  <2>2. UNCHANGED traced
    BY <1>2 DEF TraceObtained, TraceAttempt, TraceOutcome, Record, Silent
  <2> QED
    BY <2>1, <2>2 DEF Snapshot, caseVars
<1>3. CASE /\ TraceCorrection \/ TraceIntake \/ TraceEvidence \/ TraceDecision \/ TraceStarted
              \/ TraceExecution
           /\ ~(GrantAuthority /\ Record("execution_authority_granted"))
  BY <1>3 DEF TraceCorrection, TraceIntake, TraceEvidence, TraceDecision, TraceStarted,
     TraceExecution, Change, ChangeUnlessRaised
<1> QED
  BY <1>1, <1>2, <1>3 DEF TraceRun

\* Only an attempt to correct it is made on a case a correction has not linked.
LEMMA UnlinkedStays ==
    ASSUME Stages, Located, RunStep, correcting, orderRef' = NoOrder
    PROVE  orderRef = NoOrder /\ Snapshot' = Snapshot
<1> USE DEF Located, StatusOfThePlace, AtCall, Stages, Unlinked, Snapshot, caseVars
<1>1. CASE \/ BeginCall \/ LookupAttempt \/ LookupRetry \/ LookupReturns \/ LookupStops
           \/ LookupRaises
  BY <1>1 DEF BeginCall, LookupAttempt, LookupRetry, LookupReturns, LookupStops, LookupRaises
<1>2. CASE RecordReport \/ FailIntake \/ RequestCorrection \/ Link
  BY <1>2 DEF RecordReport, FailIntake, RequestCorrection, Link
<1>3. CASE ApplyCorrection
  BY <1>3, NoOrderAssumption DEF ApplyCorrection, C!ApplyOrderIdentifierCorrection, C!Reject,
     C!vars, C!statusVars, C!linkVars
<1>4. CASE \/ AttachShipment \/ GatherEvidence \/ AttachEvidence \/ RecordAddress
           \/ EnterPolicy \/ EvaluatePolicy \/ OpenReview \/ Decide \/ SelectDisposition
  <2>1. UNCHANGED orderRef
    BY <1>4 DEF AttachShipment, GatherEvidence, AttachEvidence, RecordAddress, EnterPolicy,
       EvaluatePolicy, OpenReview, Decide, SelectDisposition, C!AttachShipment,
       C!TransitionTo, C!AttachCarrierEvidence, C!RecordAddressMatchResult,
       C!RecordPolicyEvaluation, C!OpenHumanReview, C!RecordHumanReviewDecision,
       C!SelectDisposition, C!Reject, C!vars, C!linkVars
  <2> QED
    BY <1>4, <2>1 DEF AttachShipment, GatherEvidence, AttachEvidence, RecordAddress,
       EnterPolicy, EvaluatePolicy, OpenReview, Decide, SelectDisposition
<1>5. CASE \/ GrantAuthority \/ BlockForAuthority \/ AuthorityRaises
           \/ ObtainOperation \/ StartExecution \/ ExecutionAttempt \/ Unwind
           \/ ExecutionRefused \/ ExecutionReturns \/ ExecutionErrs \/ ExecutionRaises
           \/ RecordExecution \/ CompleteExecution \/ RouteFailure
  <2>1. UNCHANGED orderRef
    BY <1>5 DEF GrantAuthority, BlockForAuthority, AuthorityRaises, ObtainOperation,
       StartExecution, ExecutionAttempt, Unwind, ExecutionRefused, ExecutionReturns,
       ExecutionErrs, ExecutionRaises, RecordExecution, CompleteExecution, RouteFailure,
       C!BlockRefundExecutionForAuthority, C!RecordExecutionStatus, C!CompleteExecution,
       C!RouteExecutionFailureToReview, C!linkVars
  <2> QED
    BY <1>5, <2>1 DEF GrantAuthority, BlockForAuthority, AuthorityRaises, ObtainOperation,
       StartExecution, ExecutionAttempt, Unwind, ExecutionRefused, ExecutionReturns,
       ExecutionErrs, ExecutionRaises, RecordExecution, CompleteExecution, RouteFailure,
       Executing, InCall
<1> QED
  BY <1>1, <1>2, <1>3, <1>4, <1>5 DEF RunStep

\* A correction belongs to the run and is not changed by it.
LEMMA CorrectingStays == RunStep => UNCHANGED correcting
BY DEF RunStep, BeginCall, LookupAttempt, LookupRetry, LookupReturns, LookupStops,
   LookupRaises, RecordReport, FailIntake, RequestCorrection, ApplyCorrection, Link,
   AttachShipment, GatherEvidence, AttachEvidence, RecordAddress, EnterPolicy, EvaluatePolicy,
   OpenReview, Decide, SelectDisposition, GrantAuthority, BlockForAuthority, AuthorityRaises,
   ObtainOperation, StartExecution, ExecutionAttempt, Unwind, ExecutionRefused,
   ExecutionReturns, ExecutionErrs, ExecutionRaises, RecordExecution, CompleteExecution,
   RouteFailure, runVars, notCase, unmoved

\* A step of a run is taken while there is one.
LEMMA RunStepIsInARun == RunStep => pc # "idle"
BY DEF RunStep, BeginCall, LookupAttempt, LookupRetry, LookupReturns, LookupStops,
   LookupRaises, RecordReport, FailIntake, RequestCorrection, ApplyCorrection, Link,
   AttachShipment, GatherEvidence, AttachEvidence, RecordAddress, EnterPolicy, EvaluatePolicy,
   OpenReview, Decide, SelectDisposition, GrantAuthority, BlockForAuthority, AuthorityRaises,
   ObtainOperation, StartExecution, ExecutionAttempt, Unwind, ExecutionRefused,
   ExecutionReturns, ExecutionErrs, ExecutionRaises, RecordExecution, CompleteExecution,
   RouteFailure, Looking, Executing, InCall

LEMMA InitReplayed == TInit => Replayed
BY DEF TInit, Init, Replayed

LEMMA ReplayedStep ==
    ASSUME Stages, Located, Replayed, [TNext]_tvars PROVE Replayed'
<1> USE DEF Replayed
<1>1. CASE UNCHANGED tvars
  BY <1>1 DEF tvars, vars, runVars, caseVars, Snapshot, Correctable
<1>2. CASE TraceNewRun
  BY <1>2 DEF TraceNewRun, NewRun, Snapshot, Correctable
<1>3. CASE TraceNewCorrection
  <2>1. /\ pc = "idle" /\ Correctable /\ pc' = "tool" /\ correcting' = TRUE
        /\ Snapshot' = Snapshot /\ resumable' = resumable
        /\ \E stopped \in resumable : traced' = stopped.traced
    BY <1>3 DEF TraceNewCorrection, NewCorrection, Call, Snapshot, caseVars
  <2> QED
    BY <2>1
<1>4. CASE TraceRun /\ KeepResult
  <2>1. RunStep
    BY <1>4, TraceRunIsARunStep
  <2>2. pc # "idle" /\ correcting' = correcting
    BY <2>1, CorrectingStays, RunStepIsInARun
  <2>3. traced' = Snapshot' \/ Raised
    BY <1>4, <2>2, SnapshotIsTaken
  <2>4. \A stopped \in resumable' :
            stopped \in resumable \/ (stopped.traced = Snapshot' /\ pc' = "idle")
    <3>1. CASE pc' = "idle" /\ StoppedAtOrderLookup(result')
      <4>1. traced' = Snapshot'
        BY <2>3, <3>1 DEF Raised, StoppedAtOrderLookup, NoResult
      <4> QED
        BY <1>4, <3>1, <4>1 DEF KeepResult
    <3>2. CASE ~(pc' = "idle" /\ StoppedAtOrderLookup(result'))
      BY <1>4, <3>2 DEF KeepResult
    <3> QED
      BY <3>1, <3>2
  <2>5. CASE ~correcting
    BY <2>2, <2>3, <2>4, <2>5 DEF Raised
  <2>6. CASE correcting
    <3>1. ASSUME orderRef' = NoOrder, NEW stopped \in resumable'
          PROVE  stopped.traced = Snapshot'
      <4>1. orderRef = NoOrder /\ Snapshot' = Snapshot
        BY <2>1, <2>6, <3>1, UnlinkedStays
      <4> QED
        BY <2>2, <2>4, <2>6, <4>1
    <3>2. orderRef' = NoOrder => \A stopped \in resumable' : stopped.traced = Snapshot'
      BY <3>1
    <3> QED
      BY <2>2, <2>3, <2>6, <3>2 DEF Raised, Correctable
  <2> QED
    BY <2>5, <2>6
<1>5. CASE NoMoreRuns /\ UNCHANGED tvars
  BY <1>1, <1>5
<1> QED
  BY <1>1, <1>2, <1>3, <1>4, <1>5 DEF TNext

\* During a run the trace ends in the snapshot the case is in, and so does the
\* trace of every result a correction may go on with, the older ones included
\* (change and correct_unmatched_order_identifier, workflow.py 563-608).
THEOREM TracesReplayTheCase == TSpec => []TraceReplaysTheCase
<1>1. Stages /\ Located /\ Replayed /\ [TNext]_tvars => Replayed'
  BY ReplayedStep
<1>2. Replayed => TraceReplaysTheCase
  BY DEF Replayed, TraceReplaysTheCase
<1> QED
  BY <1>1, <1>2, InitReplayed, TraceInvariant, PTL DEF TSpec

--------------------------------------------------------------------------------
(***************************************************************************)
(* Where a run stops                                                       *)
(***************************************************************************)

\* A lookup that stops the run leaves the case where its stage stands, and the
\* trace without what comes later.
LEMMA LookupStopsSafely ==
    ASSUME Stages, Located, TraceInv, Silent, LookupReturns \/ LookupStops,
           pc' = "idle", result' # NoResult
    PROVE  StopsAreSafe'
<1> USE DEF Looking, InCall, unmoved, caseVars
<1>1. /\ pc = "tool" /\ stage # "execution" /\ UNCHANGED <<caseVars, correcting, trace>>
      /\ result' = StoppedAt(stage, outcome')
  <2>1. CASE LookupReturns
    BY <2>1, ReturnKeepsCorrectable DEF LookupReturns, AfterResult, Call, GoTo, Silent
  <2>2. CASE LookupStops
    BY <2>2, ReturnKeepsCorrectable DEF LookupStops, Silent
  <2> QED
    BY <2>1, <2>2
<1>2. executionStatus = "not_applicable" /\ disposition = "none_selected" /\ NothingTooEarly
  BY <1>1 DEF Stages, StatusIsPlaced, Located, CommitmentIsKnown, Committed, Executing, TraceInv,
     TraceIsPlaced
<1>3. /\ stage \in ToolStage /\ caseStatus = SafeRoute(stage)
  BY <1>1 DEF Located, StatusOfThePlace, PlaceIsKnown, AtCall, ToolStage, SafeRoute
<1>4. \A e \in ForbiddenEvents(stage) : e \notin Seen(trace)
  BY <1>1, <1>2, <1>3 DEF ToolStage, SafeRoute, ForbiddenEvents, NothingTooEarly, IntakeEvents,
     LinkedEvents, GatheringEvents, ReviewEvents, PolicyEvents
<1>5. \A e \in ForbiddenEvents(stage) : ~Occurs(trace', e)
  BY <1>1, <1>4, OccursIsSeen
<1> QED
  BY <1>1, <1>2, <1>3, <1>5 DEF StopsAreSafe, StoppedAt, SafeRoute, ForbiddenEvents, Occurs

\* An execution that failed goes to review, and one that succeeded and used up
\* the budget completes its case.
LEMMA ExecutionStopsSafely ==
    ASSUME IInv, Stages, Located, TraceInv, TraceInv', TraceExecution, pc' = "idle"
    PROVE  StopsAreSafe'
<1>1. NothingTooEarly /\ NothingMissed /\ caseStatus = "executing"
  BY DEF TraceExecution, RecordExecution, CompleteExecution, RouteFailure, TraceInv,
     TraceIsPlaced, Located, CommitmentIsKnown, Committed
<1>2. CASE /\ CompleteExecution
           /\ \E event \in {"external_follow_up_entered", "execution_completed"} :
                 trace' = Appended(trace, event)
  <2>1. /\ result' = IF outcome = "result" THEN Completed ELSE StoppedAt("execution", outcome)
        /\ outcome \in {"result", "budget_exceeded"}
        /\ executionStatus' = "succeeded" /\ caseStatus' \in {"closed", "awaiting_external_follow_up"}
    BY <1>2, ReturnKeepsCorrectable DEF CompleteExecution, Stages, OutcomeIsPlaced,
       C!CompleteExecution, C!CanCompleteExecution
  <2>2. outcome = "budget_exceeded" => Occurs(trace', "successful_operation_recorded")
    <3>1. PICK event \in {"external_follow_up_entered", "execution_completed"} :
             trace' = Appended(trace, event)
      BY <1>2
    <3>2. Seen(trace') = Seen(trace) \cup {event}
      BY <3>1, SeenAfter DEF EventType, ExecutionEvents
    <3>3. pc = "complete"
      BY <1>2 DEF CompleteExecution
    <3> QED
      BY <1>1, <3>2, <3>3, OccursIsSeen DEF NothingMissed
  <2> QED
    BY <2>1, <2>2 DEF StopsAreSafe, StoppedAt, Completed, Occurs
<1>3. CASE RouteFailure /\ trace' = Appended(trace, "execution_failure_routed")
  <2>1. /\ result' = StoppedAt("execution", IF outcome = "result" THEN "refused" ELSE outcome)
        /\ executionStatus' = "failed" /\ caseStatus' = "human_review"
    BY <1>3, ReturnKeepsCorrectable DEF RouteFailure, C!RouteExecutionFailureToReview,
       C!CanRouteFailure
  <2>2. ~Occurs(trace', "successful_operation_recorded")
    <3>1. Seen(trace') = Seen(trace) \cup {"execution_failure_routed"}
      BY <1>3, SeenAfter DEF EventType
    <3>2. pc = "route_failure"
      BY <1>3 DEF RouteFailure
    <3> QED
      BY <1>1, <3>1, <3>2, OccursIsSeen DEF NothingTooEarly
  <2> QED
    BY <2>1, <2>2 DEF StopsAreSafe, StoppedAt, SafeRoute, ForbiddenEvents, Occurs
<1> QED
  BY <1>2, <1>3 DEF TraceExecution, RecordExecution, GoTo, Change

\* A run that ends anywhere else was refused, raised, or completed.
LEMMA OtherEndsAreNoStops ==
    ASSUME \/ BeginCall \/ LookupAttempt \/ LookupRetry \/ LookupRaises
           \/ RecordReport \/ FailIntake \/ RequestCorrection \/ ApplyCorrection \/ Link
           \/ AttachShipment \/ GatherEvidence \/ AttachEvidence \/ RecordAddress
           \/ EnterPolicy \/ EvaluatePolicy \/ OpenReview \/ Decide \/ SelectDisposition
           \/ GrantAuthority \/ BlockForAuthority \/ AuthorityRaises
           \/ ObtainOperation \/ StartExecution \/ ExecutionAttempt \/ Unwind
           \/ ExecutionRefused \/ ExecutionReturns \/ ExecutionErrs \/ ExecutionRaises
           \/ RecordExecution,
           pc' = "idle"
    PROVE  result'.cause \in {"none", "refused"}
<1>1. CASE \/ Return(Completed)
           \/ \E s \in ToolStage \cup {"authority"} : Return(StoppedAt(s, "refused"))
  <2>1. \/ result' = Completed
        \/ \E s \in ToolStage \cup {"authority"} : result' = StoppedAt(s, "refused")
    BY <1>1, ReturnKeepsCorrectable
  <2> QED
    BY <2>1 DEF Completed, StoppedAt
<1>2. CASE Raise
  BY <1>2 DEF Raise, NoResult
<1>3. CASE \/ BeginCall \/ LookupAttempt \/ LookupRetry \/ LookupRaises
           \/ GrantAuthority \/ AuthorityRaises \/ ObtainOperation \/ StartExecution
           \/ ExecutionAttempt \/ Unwind \/ ExecutionRefused \/ ExecutionReturns
           \/ ExecutionErrs \/ ExecutionRaises \/ RecordExecution
  BY <1>2, <1>3 DEF BeginCall, LookupAttempt, LookupRetry, LookupRaises, GrantAuthority,
     AuthorityRaises, ObtainOperation, StartExecution, ExecutionAttempt, Unwind,
     ExecutionRefused, ExecutionReturns, ExecutionErrs, ExecutionRaises, RecordExecution,
     Looking, Executing, InCall, GoTo, Call, runVars
<1>4. CASE FailIntake
  <2>1. Return(StoppedAt(stage, "refused"))
    BY <1>4 DEF FailIntake
  <2> QED
    BY <2>1, ReturnKeepsCorrectable DEF StoppedAt
<1>5. CASE \/ RecordReport \/ RequestCorrection \/ Link \/ AttachShipment
           \/ GatherEvidence \/ RecordAddress \/ EnterPolicy \/ BlockForAuthority
  BY <1>1, <1>5 DEF RecordReport, RequestCorrection, Link, AttachShipment, GatherEvidence,
     RecordAddress, EnterPolicy, BlockForAuthority, GoTo, Call, ToolStage
<1>6. CASE ApplyCorrection \/ AttachEvidence \/ OpenReview \/ EvaluatePolicy
  BY <1>1, <1>2, <1>6 DEF ApplyCorrection, AttachEvidence, OpenReview, EvaluatePolicy, GoTo,
     Call, ToolStage
<1>7. CASE Decide \/ SelectDisposition
  BY <1>1, <1>2, <1>7 DEF Decide, SelectDisposition, AfterDisposition, GoTo
<1> QED
  BY <1>3, <1>4, <1>5, <1>6, <1>7

LEMMA StopsStep ==
    ASSUME IInv, Stages, Located, TraceInv, TraceInv', StopsAreSafe, [TNext]_tvars
    PROVE  StopsAreSafe'
<1>1. CASE UNCHANGED tvars
  BY <1>1 DEF tvars, vars, runVars, caseVars, StopsAreSafe, HandedBack, SafeRoute,
     ForbiddenEvents, Occurs
<1>2. CASE pc' # "idle"
  BY <1>2 DEF StopsAreSafe, HandedBack
<1>3. CASE TraceRun /\ pc' = "idle"
  <2>1. CASE result'.cause \in {"none", "refused"}
    BY <2>1 DEF StopsAreSafe
  <2>2. CASE Quiet /\ Silent
    <3>1. CASE LookupReturns \/ LookupStops
      <4>1. CASE result' = NoResult
        BY <4>1 DEF StopsAreSafe, HandedBack
      <4> QED
        BY <1>3, <2>2, <3>1, <4>1, LookupStopsSafely
    <3> QED
      BY <1>3, <2>1, <2>2, <3>1, OtherEndsAreNoStops DEF Quiet
  <2>3. CASE TraceCorrection \/ TraceIntake \/ TraceEvidence \/ TraceDecision
             \/ TraceObtained \/ TraceStarted \/ TraceAttempt \/ TraceOutcome
    BY <1>3, <2>1, <2>3, OtherEndsAreNoStops DEF TraceCorrection, TraceIntake, TraceEvidence,
       TraceDecision, TraceObtained, TraceStarted, TraceAttempt, TraceOutcome
  <2>4. CASE TraceExecution
    BY <1>3, <2>4, ExecutionStopsSafely
  <2> QED
    BY <1>3, <2>2, <2>3, <2>4 DEF TraceRun
<1> QED
  BY <1>1, <1>2, <1>3 DEF TNext, TraceNewRun, NewRun, TraceNewCorrection, NewCorrection, Call

\* A run that a dependency or the budget stopped leaves the case on the safe
\* route of its stage, with nothing done that comes later, whatever retries and
\* corrections went before (the regression cases of failures.py 239-363).
THEOREM RunsStopSafely == TSpec => []StopsAreSafe
<1>1. /\ IInv /\ Stages /\ Located /\ TraceInv /\ TraceInv' /\ StopsAreSafe /\ [TNext]_tvars
        => StopsAreSafe'
  BY StopsStep
<1>2. TInit => StopsAreSafe
  BY DEF TInit, Init, StopsAreSafe, HandedBack
<1> QED
  BY <1>1, <1>2, TraceInvariant, PTL DEF TSpec

================================================================================
