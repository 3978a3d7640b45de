-------------------------- MODULE AwsWorkerProofs --------------------------
(***************************************************************************)
(* Type correctness of AwsWorker, that retries and duplicates agree, that  *)
(* only faults are dead-lettered, and that a settled delivery stays so,    *)
(* for any events, environments, number of copies and of attempts.         *)
(***************************************************************************)
EXTENDS AwsWorker, RuntimeProofs, FiniteSetTheorems

Busy == {"starting", "guarding", "called"}

(* Who serves what: busy environments serve running deliveries, one each. *)
Serving ==
    /\ \A i \in Instances : job[i] # NoJob <=> worker[i] \in Busy
    /\ \A i \in Instances : job[i] # NoJob => status[job[i]] = "running"
    /\ \A i, j \in Instances : job[i] = job[j] /\ job[i] # NoJob => i = j
    /\ \A d \in Deliveries : status[d] = "running" => \E i \in Instances : job[i] = d

(* An environment serves a delivery exactly while the delivery is running,   *)
(* and no delivery is served twice at a time.                                *)
OneEnvironmentPerAttempt ==
    /\ \A i \in Instances : job[i] # NoJob <=> worker[i] \in {"starting", "guarding", "called"}
    /\ \A d \in Deliveries : status[d] = "running" <=>
         Cardinality({i \in Instances : job[i] = d}) = 1
    /\ \A d \in Deliveries : Cardinality({i \in Instances : job[i] = d}) <= 1

(* An attempt that is over and did not answer was a fault. *)
Counting ==
    \A d \in Deliveries :
        /\ attempts[d] = faults[d] + (IF status[d] \in {"running", "answered"} THEN 1 ELSE 0)
        /\ status[d] \in {"unsent", "queued"} => attempts[d] < AttemptsOf(d)
        /\ status[d] = "dead" => Asynchronous(d) /\ attempts[d] = MaxAttempts
        /\ status[d] = "failed" => ~Asynchronous(d) /\ attempts[d] = 1
        /\ attempts[d] <= AttemptsOf(d)

(* Every receipt is the one the event determines, and answers come from them.*)
Answering ==
    /\ \A e \in Events : receipts[e] \subseteq {Computed(e)}
    /\ \A i \in Instances : worker[i] = "called" =>
           Computed(EventOf(job[i])) \in receipts[EventOf(job[i])]
    /\ \A d \in Deliveries : IF status[d] = "answered" THEN answer[d] \in receipts[EventOf(d)]
                             ELSE answer[d] = NoAnswer

(* Without a policy no environment gets past its cold start. *)
Guarding ==
    ~policy => /\ \A i \in Instances : worker[i] \in {"cold", "starting"}
               /\ \A e \in Events : receipts[e] = {}
               /\ \A d \in Deliveries : status[d] # "answered"

IInv == TypeOK /\ Serving /\ Counting /\ Answering /\ Guarding

-----------------------------------------------------------------------------
(* What the two functions compute (aws.rs:63-69, health.rs:30-36). *)
LEMMA AwsReceipt ==
    ASSUME NEW e \in Events
    PROVE  /\ Computed(e) \in AwsReceipts
           /\ Computed(e).provider = "aws-lambda"
           /\ Computed(e).requestId = IF FunctionOf[e] = "worker" THEN SafeRequestId(InvocationId[e])
                                      ELSE InvocationId[e]
<1>1. EventPayload[e] \in RawInvocations(Nat) /\ InvocationId[e] \in Ids
    BY AwsAssumption
<1>2. "aws-lambda" \in Providers
    BY DEF Providers
<1>3. AwsMetaBytes \in Nat
    <2>1. MaxInvocationBytes \in Nat
        BY DEF MaxInvocationBytes
    <2> QED
        BY <2>1, AwsMetaAssumption
<1>4. CompleteEnvelope(EventPayload[e], InvocationId[e]) \in RawInvocations(Nat)
    <2>1. ASSUME NEW raw \in RawInvocations(Nat), NEW id \in Ids
          PROVE  [raw EXCEPT !.provider = "aws-lambda", !.requestId = id,
                             !.meta = AwsMetaBytes, !.repeated = FALSE] \in RawInvocations(Nat)
        BY <1>2, <1>3, <2>1, Zenon DEF RawInvocations
    <2> QED
        BY <1>1, <2>1, Zenon DEF CompleteEnvelope
<1>5. CASE FunctionOf[e] = "worker"
    <2>1. Computed(e) = HandleBound(CompleteEnvelope(EventPayload[e], InvocationId[e]),
                                    "aws-lambda", InvocationId[e])
        BY <1>5 DEF Computed, FromEvent
    <2> DEFINE raw == CompleteEnvelope(EventPayload[e], InvocationId[e])
    <2>2. /\ HandleBound(raw, "aws-lambda", InvocationId[e]) \in Receipts
          /\ HandleBound(raw, "aws-lambda", InvocationId[e]).provider = "aws-lambda"
          /\ HandleBound(raw, "aws-lambda", InvocationId[e]).requestId = SafeRequestId(InvocationId[e])
        <3> HIDE DEF raw
        <3> QED
            BY <1>2, <1>4, BoundReceipt DEF raw
    <2> QED
        BY <1>5, <2>1, <2>2 DEF AwsReceipts
<1>6. CASE FunctionOf[e] # "worker"
    BY <1>1, <1>6 DEF Computed, HealthReceipt, AwsReceipts
<1> QED
    BY <1>5, <1>6

(* A delivery has its event, and is not the mark of an idle environment; it  *)
(* may be attempted at least once.                                           *)
LEMMA DeliveryFacts ==
    ASSUME NEW d \in Deliveries
    PROVE  /\ EventOf(d) \in Events /\ d # NoJob
           /\ AttemptsOf(d) \in 1..MaxAttempts
           /\ Asynchronous(d) \in BOOLEAN
           /\ AttemptsOf(d) = IF Asynchronous(d) THEN MaxAttempts ELSE 1
<1>1. EventOf(d) \in Events /\ d # NoJob
    BY DEF Deliveries, EventOf, NoJob
<1>2. MaxAttempts \in Nat \ {0}
    BY AwsAssumption
<1>3. Asynchronous(d) \in BOOLEAN
    BY DEF Asynchronous
<1> QED
    BY <1>1, <1>2, <1>3 DEF AttemptsOf

(* The invariant holds initially. *)
LEMMA InvInit == Init => IInv
<1> SUFFICES ASSUME Init PROVE IInv
    OBVIOUS
<1> USE DEF Init
<1>1. MaxAttempts \in Nat \ {0}
    BY AwsAssumption
<1>2. TypeOK
    BY <1>1 DEF TypeOK
<1>3. Serving
    BY DEF Serving, Busy
<1>4. Counting
    BY <1>1, DeliveryFacts DEF Counting
<1>5. Answering
    BY DEF Answering
<1>6. Guarding
    BY DEF Guarding
<1> QED
    BY <1>2, <1>3, <1>4, <1>5, <1>6 DEF IInv

(* A second delivery of an event preserves it. *)
LEMMA DuplicateStep ==
    ASSUME IInv, NEW d \in Deliveries, Duplicate(d)
    PROVE  IInv'
<1> USE DEF IInv, Duplicate
<1>1. TypeOK'
    BY DEF TypeOK
<1>2. Serving'
    BY DeliveryFacts DEF TypeOK, Serving
<1>3. Counting'
    BY DEF TypeOK, Counting
<1>4. Answering'
    BY DEF TypeOK, Answering
<1>5. Guarding'
    BY DEF TypeOK, Guarding
<1> QED
    BY <1>1, <1>2, <1>3, <1>4, <1>5

(* A new attempt preserves it: only a free environment takes a delivery. *)
LEMMA DeliverStep ==
    ASSUME IInv, NEW i \in Instances, NEW d \in Deliveries, Deliver(i, d)
    PROVE  IInv'
<1> USE AwsAssumption DEF IInv, Deliver
<1>1. d # NoJob /\ EventOf(d) \in Events
    BY DeliveryFacts
<1>2. worker[i] \in {"cold", "ready"}
    BY DEF TypeOK, Serving, Busy
<1>3. attempts[d] < AttemptsOf(d) /\ AttemptsOf(d) \in 1..MaxAttempts
    BY DeliveryFacts DEF Counting
<1>4. TypeOK'
    BY <1>3 DEF TypeOK
<1>5. Serving'
    <2>1. \A j \in Instances : job[j] # d
        BY <1>1 DEF Serving
    <2>2. \A c \in Deliveries : status'[c] = "running" => \E j \in Instances : job'[j] = c
        <3> SUFFICES ASSUME NEW c \in Deliveries, status'[c] = "running", c # d
                     PROVE  \E j \in Instances : job'[j] = c
            BY DEF TypeOK
        <3>1. PICK j \in Instances : job[j] = c
            BY DEF TypeOK, Serving
        <3>2. j # i
            BY <3>1, DeliveryFacts
        <3> QED
            BY <3>1, <3>2 DEF TypeOK
    <2> QED
        BY <1>1, <1>2, <2>1, <2>2 DEF TypeOK, Serving, Busy
<1>6. Counting'
    BY <1>3 DEF TypeOK, Counting
<1>7. Answering'
    BY DEF TypeOK, Answering
<1>8. Guarding'
    BY <1>2 DEF TypeOK, Guarding
<1> QED
    BY <1>4, <1>5, <1>6, <1>7, <1>8

(* A failed attempt preserves it: the retry policy bounds the attempts. *)
LEMMA FaultStep ==
    ASSUME IInv, NEW i \in Instances, worker[i] \in Busy,
           NEW next \in {"cold", "ready"}, next = "cold" \/ worker[i] # "starting",
           AttemptFailed(i, next),
           faults' = [faults EXCEPT ![job[i]] = @ + 1],
           UNCHANGED <<policy, attempts, receipts, answer>>
    PROVE  IInv'
<1> DEFINE d == job[i]
<1> USE AwsAssumption DEF IInv, AttemptFailed
<1>1. d \in Deliveries /\ status[d] = "running"
    BY DEF TypeOK, Serving
<1>2. /\ d # NoJob /\ attempts[d] = faults[d] + 1
      /\ attempts[d] \in 0..MaxAttempts /\ faults[d] \in 0..MaxAttempts
    BY <1>1, DeliveryFacts DEF TypeOK, Counting
<1>7. After(d, AttemptsOf(d)) \in {"queued", "dead", "failed"}
    BY DEF After
<1>3. TypeOK'
    BY <1>1, <1>2, <1>7 DEF TypeOK
<1>4. Serving'
    <2>1. \A j \in Instances : j # i => job[j] # d
        BY <1>2 DEF Serving
    <2> QED
        BY <1>1, <1>7, <2>1 DEF TypeOK, Serving, Busy
<1>5. Counting'
    <2>1. status' = [status EXCEPT ![d] = After(d, AttemptsOf(d))]
        OBVIOUS
    <2>2. /\ After(d, AttemptsOf(d)) = "queued" => attempts[d] < AttemptsOf(d)
          /\ After(d, AttemptsOf(d)) = "dead" => Asynchronous(d) /\ attempts[d] = MaxAttempts
          /\ After(d, AttemptsOf(d)) = "failed" => ~Asynchronous(d) /\ attempts[d] = 1
        BY <1>1, <1>2, DeliveryFacts DEF After, Counting
    <2> QED
        BY <1>1, <1>2, <1>7, <2>1, <2>2 DEF TypeOK, Counting
<1>6. Answering'
    BY <1>1, <1>7 DEF TypeOK, Answering
<1>8. Guarding'
    <2>1. ASSUME ~policy PROVE next = "cold"
        BY <2>1 DEF Guarding, Busy
    <2> QED
        BY <1>1, <1>7, <2>1 DEF TypeOK, Guarding
<1> QED
    BY <1>3, <1>4, <1>5, <1>6, <1>8

(* A cold start preserves it, with a policy and without. *)
LEMMA ColdStartStep ==
    ASSUME IInv, NEW i \in Instances, ColdStart(i)
    PROVE  IInv'
<1> USE DEF ColdStart
<1>1. CASE policy
    <2> USE <1>1 DEF IInv
    <2>1. TypeOK'
        BY DEF TypeOK
    <2>2. Serving'
        BY DEF TypeOK, Serving, Busy
    <2>3. Counting'
        BY DEF TypeOK, Counting
    <2>4. Answering'
        BY DEF TypeOK, Answering
    <2>5. Guarding'
        BY DEF Guarding
    <2> QED
        BY <2>1, <2>2, <2>3, <2>4, <2>5
<1>2. CASE ~policy
    BY <1>2, FaultStep DEF Busy
<1> QED
    BY <1>1, <1>2

(* The callback adds the receipt the event determines. *)
LEMMA CallbackStep ==
    ASSUME IInv, NEW i \in Instances, Callback(i)
    PROVE  IInv'
<1> DEFINE e == EventOf(job[i])
<1> USE DEF IInv, Callback
<1>1. job[i] \in Deliveries /\ e \in Events
    BY DeliveryFacts DEF TypeOK, Serving, Busy
<1>2. receipts' = [receipts EXCEPT ![e] = @ \cup {Computed(e)}]
    OBVIOUS
<1>3. TypeOK'
    BY <1>1, <1>2, AwsReceipt DEF TypeOK
<1>4. Serving'
    BY DEF TypeOK, Serving, Busy
<1>5. Counting'
    BY DEF Counting
<1>6. Answering'
    <2>1. \A f \in Events : receipts'[f] \subseteq {Computed(f)} /\ receipts[f] \subseteq receipts'[f]
        BY <1>1, <1>2 DEF TypeOK, Answering
    <2>2. \A j \in Instances : worker'[j] = "called" => Computed(EventOf(job[j])) \in receipts'[EventOf(job[j])]
        <3> SUFFICES ASSUME NEW j \in Instances, worker'[j] = "called"
                     PROVE  Computed(EventOf(job[j])) \in receipts'[EventOf(job[j])]
            OBVIOUS
        <3>1. CASE j = i
            BY <1>1, <1>2, <3>1 DEF TypeOK
        <3>2. CASE j # i
            <4>1. worker[j] = "called"
                BY <3>2 DEF TypeOK
            <4>2. EventOf(job[j]) \in Events
                BY <4>1, DeliveryFacts DEF TypeOK, Serving, Busy
            <4> QED
                BY <2>1, <4>1, <4>2 DEF Answering
        <3> QED
            BY <3>1, <3>2
    <2>3. \A d \in Deliveries : EventOf(d) \in Events
        BY DeliveryFacts
    <2> QED
        BY <2>1, <2>2, <2>3 DEF Answering
<1>7. Guarding'
    BY DEF Guarding
<1> QED
    BY <1>3, <1>4, <1>5, <1>6, <1>7

(* Completion answers with a receipt the callback computed. *)
LEMMA CompleteStep ==
    ASSUME IInv, NEW i \in Instances, Complete(i)
    PROVE  IInv'
<1> DEFINE d == job[i]
<1> USE DEF IInv, Complete
<1>1. d \in Deliveries /\ status[d] = "running"
    BY DEF TypeOK, Serving, Busy
<1>2. d # NoJob /\ EventOf(d) \in Events
    BY <1>1, DeliveryFacts
<1>3. answer' = [answer EXCEPT ![d] = Computed(EventOf(d))]
    OBVIOUS
<1>4. TypeOK'
    BY <1>1, <1>2, <1>3, AwsReceipt DEF TypeOK
<1>5. Serving'
    <2>1. \A j \in Instances : j # i => job[j] # d
        BY <1>2 DEF Serving
    <2> QED
        BY <1>1, <2>1 DEF TypeOK, Serving, Busy
<1>6. Counting'
    BY <1>1 DEF TypeOK, Counting
<1>7. Answering'
    <2>1. Computed(EventOf(d)) \in receipts[EventOf(d)]
        BY DEF Answering
    <2> QED
        BY <1>1, <1>3, <2>1 DEF TypeOK, Answering
<1>8. Guarding'
    BY DEF Guarding
<1> QED
    BY <1>4, <1>5, <1>6, <1>7, <1>8

(* Recycling an idle environment preserves it. *)
LEMMA RecycleStep ==
    ASSUME IInv, NEW i \in Instances, Recycle(i)
    PROVE  IInv'
<1> USE DEF IInv, Recycle
<1>1. TypeOK'
    BY DEF TypeOK
<1>2. Serving'
    BY DEF TypeOK, Serving, Busy
<1>3. Counting'
    BY DEF Counting
<1>4. Answering'
    BY DEF TypeOK, Answering
<1>5. Guarding'
    BY DEF TypeOK, Guarding
<1> QED
    BY <1>1, <1>2, <1>3, <1>4, <1>5

(* Every step preserves it. *)
LEMMA InvStep == IInv /\ [Next]_vars => IInv'
<1> SUFFICES ASSUME IInv, [Next]_vars PROVE IInv'
    OBVIOUS
<1>1. ASSUME NEW i \in Instances, BoundaryFails(i) PROVE IInv'
    BY <1>1, FaultStep DEF BoundaryFails, Busy
<1>2. ASSUME NEW i \in Instances, Crash(i) PROVE IInv'
    BY <1>2, FaultStep DEF Crash, Busy
<1>3. CASE UNCHANGED vars
    BY <1>3 DEF vars, IInv, TypeOK, Serving, Counting, Answering, Guarding
<1>4. CASE Next
    BY <1>1, <1>2, <1>4, DuplicateStep, DeliverStep, ColdStartStep, CallbackStep, CompleteStep,
       RecycleStep DEF Next, InstanceStep
<1> QED
    BY <1>3, <1>4

(* The invariant holds throughout. *)
LEMMA Invariance == Spec => []IInv
BY InvInit, InvStep, PTL DEF Spec

-----------------------------------------------------------------------------
(* Type correctness: no delivery is attempted more than MaxAttempts times,   *)
(* and every receipt and answer is a well-formed one.                        *)
THEOREM TypeCorrect == Spec => []TypeOK
<1>1. IInv => TypeOK
    BY DEF IInv
<1> QED
    BY <1>1, Invariance, PTL

(* An environment serves a delivery exactly while the delivery is running,   *)
(* and no delivery is served twice at a time (template.yaml:25-29).          *)
THEOREM OneEnvironmentEach == Spec => []OneEnvironmentPerAttempt
<1>1. IInv => OneEnvironmentPerAttempt
    <2> SUFFICES ASSUME IInv, NEW d \in Deliveries
                 PROVE  LET serving == {i \in Instances : job[i] = d}
                        IN  /\ status[d] = "running" <=> Cardinality(serving) = 1
                            /\ Cardinality(serving) <= 1
        BY DEF OneEnvironmentPerAttempt, IInv, Serving, Busy
    <2> DEFINE serving == {i \in Instances : job[i] = d}
    <2>1. CASE status[d] = "running"
        <3>1. PICK i \in Instances : job[i] = d
            BY <2>1 DEF IInv, Serving
        <3>2. serving = {i}
            BY <3>1, DeliveryFacts DEF IInv, Serving
        <3>3. Cardinality({i}) = 1
            BY FS_Singleton
        <3> QED
            BY <2>1, <3>2, <3>3
    <2>2. CASE status[d] # "running"
        <3>1. serving = {}
            BY <2>2, DeliveryFacts DEF IInv, Serving
        <3> QED
            BY <2>2, <3>1, FS_EmptySet
    <2> QED
        BY <2>1, <2>2
<1> QED
    BY <1>1, Invariance, PTL

(* Without an admissible policy no callback runs, however often environments *)
(* are started for the retries (worker_aws.rs:21-23, health.rs:22).          *)
THEOREM NothingWithoutPolicy == Spec => []NoCallWithoutPolicy
<1>1. IInv => NoCallWithoutPolicy
    BY DEF IInv, Guarding, NoCallWithoutPolicy
<1> QED
    BY <1>1, Invariance, PTL

(* An answered health check says what the core would say (health.rs:30-36).  *)
THEOREM HealthAgreesWithCore == Spec => []HealthSpeaksForTheCore
<1> DEFINE command == [shape |-> "object", repeated |-> FALSE, provider |-> "absent",
                       requestId |-> "absent", schema |-> "supported", operation |-> "health",
                       payload |-> "absent", extra |-> FALSE, body |-> 0, meta |-> 0]
           completed(id) == CompleteEnvelope(command, id)
           bound(id) == Bind(completed(id), "aws-lambda", id)
<1>1. ASSUME NEW id \in Ids
      PROVE  FromEvent(command, id) =
             [requestId |-> SafeRequestId(id), provider |-> "aws-lambda", ok |-> TRUE,
              operation |-> "health", result |-> "status", error |-> "none"]
    <2>1. completed(id) = [shape |-> "object", repeated |-> FALSE, provider |-> "aws-lambda",
                           requestId |-> id, schema |-> "supported", operation |-> "health",
                           payload |-> "absent", extra |-> FALSE, body |-> 0, meta |-> AwsMetaBytes]
        BY DEF CompleteEnvelope
    <2>2. /\ bound(id).provider = "aws-lambda" /\ bound(id).requestId = SafeRequestId(id)
          /\ bound(id).schema = "supported" /\ bound(id).operation = "health"
          /\ bound(id).payload = "absent" /\ bound(id).extra = FALSE
        <3> HIDE DEF completed
        <3> QED
            BY <2>1 DEF Bind
    <2>3. SafeRequestId(id) \in ValidIds
        BY IdAssumption DEF SafeRequestId
    <2>4. Decodes(bound(id)) /\ Validate(bound(id)) = "none"
        <3> HIDE DEF bound
        <3> QED
            BY <2>2, <2>3 DEF Decodes, Validate, Providers, Operations, Ids
    <2>5. ~(Size(completed(id)) > MaxInvocationBytes)
        <3>1. MaxInvocationBytes \in Nat
            BY DEF MaxInvocationBytes
        <3>2. Size(completed(id)) = 0 + AwsMetaBytes
            BY <2>1 DEF Size
        <3> QED
            BY <3>1, <3>2, AwsMetaAssumption
    <2>6. BoundError(completed(id), "aws-lambda", id) = "none"
        <3>1. completed(id).shape = "object"
            BY <2>1
        <3> HIDE DEF completed
        <3> QED
            BY <2>4, <2>5, <3>1 DEF BoundError
    <2>7. FromEvent(command, id) = Dispatch(bound(id))
        BY <2>6 DEF FromEvent, HandleBound
    <2>8. Dispatch(bound(id)) =
          [requestId |-> SafeRequestId(id), provider |-> "aws-lambda", ok |-> TRUE,
           operation |-> "health", result |-> "status", error |-> "none"]
        <3> HIDE DEF bound
        <3> QED
            BY <2>2 DEF Dispatch
    <2> QED
        BY <2>7, <2>8
<1> HIDE DEF command
<1>2. IInv => HealthSpeaksForTheCore
    <2> SUFFICES ASSUME IInv, NEW d \in Deliveries, status[d] = "answered", ~Asynchronous(d),
                        NEW field \in {"provider", "ok", "operation", "result", "error"}
                 PROVE  answer[d][field] = FromEvent(command, InvocationId[EventOf(d)])[field]
        BY DEF HealthSpeaksForTheCore, command
    <2>1. EventOf(d) \in Events /\ InvocationId[EventOf(d)] \in Ids
        BY DeliveryFacts, AwsAssumption
    <2>2. answer[d] = Computed(EventOf(d))
        BY <2>1 DEF IInv, Answering
    <2>3. Computed(EventOf(d)) = HealthReceipt(EventPayload[EventOf(d)], InvocationId[EventOf(d)])
        BY DEF Computed, Asynchronous
    <2>4. FromEvent(command, InvocationId[EventOf(d)]) =
          [requestId |-> SafeRequestId(InvocationId[EventOf(d)]), provider |-> "aws-lambda",
           ok |-> TRUE, operation |-> "health", result |-> "status", error |-> "none"]
        BY <1>1, <2>1
    <2>5. answer[d] = [requestId |-> InvocationId[EventOf(d)], provider |-> "aws-lambda",
                       ok |-> TRUE, operation |-> "health", result |-> "status", error |-> "none"]
        BY <2>2, <2>3 DEF HealthReceipt
    <2>6. CASE field = "ok"
        BY <2>4, <2>5, <2>6
    <2>7. CASE field # "ok"
        BY <2>4, <2>5, <2>7
    <2> QED
        BY <2>6, <2>7
<1> QED
    BY <1>2, Invariance, PTL

(* Only faults outside the core fill the dead-letter queue, and a delivery   *)
(* is answered by the first attempt that was not a fault                     *)
(* (worker_aws.rs:8-17, template.yaml:25).                                   *)
THEOREM OnlyFaultsAreDeadLettered == Spec => []DeadLettersAreFaults
<1>1. IInv => DeadLettersAreFaults
    BY AwsAssumption DEF IInv, TypeOK, Counting, Answering, DeadLettersAreFaults
<1> QED
    BY <1>1, Invariance, PTL

(* Retries and duplicates of an event agree on one receipt, which carries    *)
(* the runtime's identity (aws.rs:63-69, health.rs:26-37).                   *)
THEOREM RetriesAlwaysAgree == Spec => []RetriesAgree
<1>1. IInv => RetriesAgree
    <2> SUFFICES ASSUME IInv, NEW e \in Events
                 PROVE  /\ Cardinality(receipts[e]) <= 1
                        /\ \A r \in receipts[e] :
                               /\ r.provider = "aws-lambda"
                               /\ r.requestId = IF FunctionOf[e] = "worker"
                                                THEN SafeRequestId(InvocationId[e])
                                                ELSE InvocationId[e]
        BY DEF RetriesAgree
    <2>1. receipts[e] \subseteq {Computed(e)}
        BY DEF IInv, Answering
    <2>2. receipts[e] = {} \/ receipts[e] = {Computed(e)}
        BY <2>1
    <2>3. Cardinality(receipts[e]) <= 1
        BY <2>2, FS_EmptySet, FS_Singleton
    <2> QED
        BY <2>1, <2>3, AwsReceipt
<1> QED
    BY <1>1, Invariance, PTL

(* A settled delivery is never reopened and its answer never changes.        *)
THEOREM SettledStaysSettled == Spec => SettledIsFinal
<1> DEFINE Final == \A d \in Deliveries : status[d] \in Settled =>
                        status'[d] = status[d] /\ answer'[d] = answer[d]
<1>1. IInv /\ [Next]_vars => [Final]_vars
    <2> SUFFICES ASSUME IInv, Next PROVE Final
        OBVIOUS
    <2> USE DEF IInv
    <2>1. ASSUME NEW i \in Instances, worker[i] \in Busy
          PROVE  job[i] \in Deliveries /\ status[job[i]] = "running"
        BY <2>1 DEF TypeOK, Serving
    <2>2. ASSUME NEW d \in Deliveries, Duplicate(d) PROVE Final
        BY <2>2 DEF Duplicate, TypeOK, Settled
    <2>3. ASSUME NEW d \in Deliveries, NEW i \in Instances, Deliver(i, d) PROVE Final
        BY <2>3 DEF Deliver, TypeOK, Settled
    <2>4. ASSUME NEW i \in Instances, ColdStart(i) PROVE Final
        BY <2>1, <2>4 DEF ColdStart, AttemptFailed, TypeOK, Busy, Settled
    <2>5. ASSUME NEW i \in Instances, Callback(i) \/ Recycle(i) PROVE Final
        BY <2>5 DEF Callback, Recycle
    <2>6. ASSUME NEW i \in Instances, Complete(i) PROVE Final
        BY <2>1, <2>6 DEF Complete, TypeOK, Busy, Settled
    <2>7. ASSUME NEW i \in Instances, BoundaryFails(i) \/ Crash(i) PROVE Final
        BY <2>1, <2>7 DEF BoundaryFails, Crash, AttemptFailed, TypeOK, Busy, Settled
    <2> QED
        BY <2>2, <2>3, <2>4, <2>5, <2>6, <2>7 DEF Next, InstanceStep
<1> QED
    BY <1>1, Invariance, PTL DEF Spec, SettledIsFinal
=============================================================================
