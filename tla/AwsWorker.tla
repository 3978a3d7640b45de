----------------------------- MODULE AwsWorker -----------------------------
(***************************************************************************)
(* The two AWS functions of deploy/aws/template.yaml.  Events of the worker*)
(* (bin/worker_aws.rs) are asynchronous: the Lambda service hands each     *)
(* delivery of an event to an execution environment; a failed attempt is   *)
(* retried, a delivery that has failed MaxAttempts times goes to the dead- *)
(* letter queue.  The service delivers at least once, so one event may have*)
(* several deliveries, in several environments at once.  A GET of the      *)
(* health function (bin/health.rs) is one attempt, whose failure is        *)
(* reported to the caller.                                                 *)
(*                                                                         *)
(* The Lambda service and the ores_middleware boundary are external: the   *)
(* boundary may refuse before the callback, or fail after it.              *)
(***************************************************************************)
EXTENDS Adapters, FiniteSets

CONSTANTS
    Events,        \* asynchronous events
    Instances,     \* execution environments
    FunctionOf,    \* the function each event is for
    Serves,        \* the function each environment runs
    EventPayload,  \* the JSON value each event carries
    InvocationId,  \* the invocation id the runtime context gives each event
    Copies,        \* bound: deliveries the service may make of each event
    MaxAttempts    \* 1 + MaximumRetryAttempts

Functions == {"worker", "health"}

ASSUME AwsAssumption ==
    /\ \A e \in Events : FunctionOf[e] \in Functions
    /\ \A i \in Instances : Serves[i] \in Functions
    /\ \A e \in Events : /\ EventPayload[e] \in RawInvocations(Nat)
                         /\ InvocationId[e] \in Ids
    /\ Copies \in [Events -> Nat \ {0}] /\ MaxAttempts \in Nat \ {0}

Deliveries == UNION {{e} \X (1..Copies[e]) : e \in Events}
EventOf(d) == d[1]
NoJob == <<>>
Asynchronous(d) == FunctionOf[EventOf(d)] = "worker"
AttemptsOf(d) == IF Asynchronous(d) THEN MaxAttempts ELSE 1

(* What the function computes of an event. *)
Computed(e) ==
    IF FunctionOf[e] = "worker" THEN FromEvent(EventPayload[e], InvocationId[e])
    ELSE HealthReceipt(EventPayload[e], InvocationId[e])

VARIABLES
    policy,    \* can the image's middleware policy be admitted?
    worker,    \* state of each environment
    job,       \* the delivery it serves
    status,    \* state of each delivery
    attempts,  \* how often it was attempted
    faults,    \* how many of these attempts failed outside the core
    receipts,  \* receipts the callback computed for each event
    answer     \* the receipt returned for each delivery

vars == <<policy, worker, job, status, attempts, faults, receipts, answer>>

NoAnswer == [requestId |-> Fallback, provider |-> "local", ok |-> FALSE,
             operation |-> "none", result |-> "none", error |-> "none"]

Init ==
    /\ policy \in BOOLEAN
    /\ worker = [i \in Instances |-> "cold"]
    /\ job = [i \in Instances |-> NoJob]
    /\ status = [d \in Deliveries |-> IF d[2] = 1 THEN "queued" ELSE "unsent"]
    /\ attempts = [d \in Deliveries |-> 0]
    /\ faults = [d \in Deliveries |-> 0]
    /\ receipts = [e \in Events |-> {}]
    /\ answer = [d \in Deliveries |-> NoAnswer]

-----------------------------------------------------------------------------
(* The service delivers an asynchronous event once more. *)
Duplicate(d) ==
    /\ Asynchronous(d)
    /\ status[d] = "unsent" /\ status[<<d[1], 1>>] # "queued"
    /\ status' = [status EXCEPT ![d] = "queued"]
    /\ UNCHANGED <<policy, worker, job, attempts, faults, receipts, answer>>

(* The service starts an attempt in a warm environment or in a new one. *)
Deliver(i, d) ==
    /\ status[d] = "queued" /\ job[i] = NoJob
    /\ Serves[i] = FunctionOf[EventOf(d)]
    /\ status' = [status EXCEPT ![d] = "running"]
    /\ attempts' = [attempts EXCEPT ![d] = @ + 1]
    /\ job' = [job EXCEPT ![i] = d]
    /\ worker' = [worker EXCEPT ![i] = IF @ = "cold" THEN "starting" ELSE "guarding"]
    /\ UNCHANGED <<policy, faults, receipts, answer>>

(* A failed attempt is retried, or the delivery is given up. *)
After(d, limit) ==
    IF attempts[d] < limit THEN "queued" ELSE IF Asynchronous(d) THEN "dead" ELSE "failed"

(* Mutant: one attempt too many. *)
MutAttemptFailedLate(i, next) ==
    LET d == job[i]
    IN  /\ worker' = [worker EXCEPT ![i] = next]
        /\ job' = [job EXCEPT ![i] = NoJob]
        /\ status' = [status EXCEPT ![d] = After(d, AttemptsOf(d) + 1)]

(* The service's retry policy for an attempt that failed. *)
AttemptFailed(i, next) ==
    LET d == job[i]
    IN  /\ worker' = [worker EXCEPT ![i] = next]
        /\ job' = [job EXCEPT ![i] = NoJob]
        /\ status' = [status EXCEPT ![d] = After(d, AttemptsOf(d))]

(* Mutant: a missing policy is not noticed. *)
MutColdStartOpen(i) ==
    /\ worker[i] = "starting"
    /\ worker' = [worker EXCEPT ![i] = "guarding"]
    /\ UNCHANGED <<policy, job, status, attempts, faults, receipts, answer>>

(* invocation_boundary, before the runtime polls: without an admissible      *)
(* policy main returns the error and the process ends.                       *)
ColdStart(i) ==
    /\ worker[i] = "starting"
    /\ \/ /\ policy
          /\ worker' = [worker EXCEPT ![i] = "guarding"]
          /\ UNCHANGED <<job, status, faults>>
       \/ /\ ~policy
          /\ AttemptFailed(i, "cold")
          /\ faults' = [faults EXCEPT ![job[i]] = @ + 1]
    /\ UNCHANGED <<policy, attempts, receipts, answer>>

(* boundary.run admits the invocation and polls the callback to its end. *)
Callback(i) ==
    LET e == EventOf(job[i])
    IN  /\ worker[i] = "guarding"
        /\ worker' = [worker EXCEPT ![i] = "called"]
        /\ receipts' = [receipts EXCEPT ![e] = @ \cup {Computed(e)}]
        /\ UNCHANGED <<policy, job, status, attempts, faults, answer>>

(* Mutants: a rejection is an invocation error; the attempt is not closed;   *)
(* the answer is not posted.                                                 *)
MutCompleteStrict(i) ==
    LET d == job[i]
        receipt == Computed(EventOf(d))
    IN  /\ worker[i] = "called"
        /\ IF receipt.ok
           THEN /\ worker' = [worker EXCEPT ![i] = "ready"] /\ job' = [job EXCEPT ![i] = NoJob]
                /\ status' = [status EXCEPT ![d] = "answered"]
                /\ answer' = [answer EXCEPT ![d] = receipt]
           ELSE AttemptFailed(i, "ready") /\ UNCHANGED answer
        /\ UNCHANGED <<policy, attempts, faults, receipts>>
MutCompleteOpen(i) ==
    LET d == job[i]
    IN  /\ worker[i] = "called"
        /\ status' = [status EXCEPT ![d] = "answered"]
        /\ answer' = [answer EXCEPT ![d] = Computed(EventOf(d))]
        /\ UNCHANGED <<policy, worker, job, attempts, faults, receipts>>
MutCompleteSilent(i) ==
    /\ worker[i] = "called"
    /\ worker' = [worker EXCEPT ![i] = "ready"] /\ job' = [job EXCEPT ![i] = NoJob]
    /\ UNCHANGED <<policy, status, attempts, faults, receipts, answer>>

(* The outcome of boundary.run becomes the attempt's: a completed callback   *)
(* answers, whatever its receipt says; a failed one or an error of the       *)
(* boundary is an invocation error (require_completed, `?`).                 *)
Complete(i) ==
    LET d == job[i]
    IN  /\ worker[i] = "called"
        /\ worker' = [worker EXCEPT ![i] = "ready"]
        /\ job' = [job EXCEPT ![i] = NoJob]
        /\ status' = [status EXCEPT ![d] = "answered"]
        /\ answer' = [answer EXCEPT ![d] = Computed(EventOf(d))]
        /\ UNCHANGED <<policy, attempts, faults, receipts>>

BoundaryFails(i) ==
    /\ worker[i] \in {"guarding", "called"}
    /\ AttemptFailed(i, "ready")
    /\ faults' = [faults EXCEPT ![job[i]] = @ + 1]
    /\ UNCHANGED <<policy, attempts, receipts, answer>>

(* The environment dies or runs into the function's timeout. *)
Crash(i) ==
    /\ worker[i] \in {"starting", "guarding", "called"}
    /\ AttemptFailed(i, "cold")
    /\ faults' = [faults EXCEPT ![job[i]] = @ + 1]
    /\ UNCHANGED <<policy, attempts, receipts, answer>>

(* The service discards an idle environment. *)
Recycle(i) ==
    /\ worker[i] = "ready" /\ job[i] = NoJob
    /\ worker' = [worker EXCEPT ![i] = "cold"]
    /\ UNCHANGED <<policy, job, status, attempts, faults, receipts, answer>>

InstanceStep(i) == ColdStart(i) \/ Callback(i) \/ Complete(i) \/ BoundaryFails(i) \/ Crash(i)

Next ==
    \/ \E d \in Deliveries : Duplicate(d) \/ \E i \in Instances : Deliver(i, d)
    \/ \E i \in Instances : InstanceStep(i) \/ Recycle(i)

Spec == Init /\ [][Next]_vars

(* An attempt ends, at the latest at the function's timeout, and the service *)
(* keeps starting attempts while an environment is free.                     *)
FairSpec ==
    /\ Spec
    /\ \A i \in Instances : WF_vars(InstanceStep(i))
    /\ \A d \in Deliveries : SF_vars(\E i \in Instances : Deliver(i, d))

-----------------------------------------------------------------------------
(* PROPERTIES *)

Settled == {"answered", "dead", "failed"}
AwsReceipts ==
    Receipts \cup [requestId : Ids, provider : {"aws-lambda"}, ok : {TRUE},
                  operation : {"health"}, result : {"status"}, error : {"none"}]

TypeOK ==
    /\ policy \in BOOLEAN
    /\ worker \in [Instances -> {"cold", "starting", "ready", "guarding", "called"}]
    /\ job \in [Instances -> Deliveries \cup {NoJob}]
    /\ status \in [Deliveries -> {"unsent", "queued", "running", "answered", "dead", "failed"}]
    /\ attempts \in [Deliveries -> 0..MaxAttempts]
    /\ faults \in [Deliveries -> 0..MaxAttempts]
    /\ receipts \in [Events -> SUBSET AwsReceipts]
    /\ answer \in [Deliveries -> AwsReceipts \cup {NoAnswer}]

(* However often an event is delivered and retried, every execution of the   *)
(* callback computes one and the same receipt, bound to the runtime's        *)
(* identity and not to what the payload says (aws.rs:63-69, health.rs:26-37). *)
RetriesAgree ==
    \A e \in Events :
        /\ Cardinality(receipts[e]) <= 1
        /\ \A r \in receipts[e] : /\ r.provider = "aws-lambda"
                                  /\ r.requestId = IF FunctionOf[e] = "worker"
                                                   THEN SafeRequestId(InvocationId[e])
                                                   ELSE InvocationId[e]

(* Only faults outside the core fill the dead-letter queue: a delivery in it *)
(* has failed MaxAttempts times that way, and one that failed less often     *)
(* never gets there, however its envelope was rejected; a health check never *)
(* does (worker_aws.rs:8-17, template.yaml:25).                              *)
DeadLettersAreFaults ==
    \A d \in Deliveries :
        /\ status[d] = "dead" => Asynchronous(d) /\ faults[d] = MaxAttempts /\ answer[d] = NoAnswer
        /\ status[d] = "failed" => ~Asynchronous(d) /\ faults[d] = 1 /\ answer[d] = NoAnswer
        /\ status[d] = "answered" =>
             /\ faults[d] = attempts[d] - 1
             /\ answer[d] \in receipts[EventOf(d)]

(* Without an admissible middleware policy no callback ever runs, and no     *)
(* event is answered (worker_aws.rs:21-23).                                  *)
NoCallWithoutPolicy ==
    ~policy => /\ \A e \in Events : receipts[e] = {}
               /\ \A d \in Deliveries : status[d] # "answered"

(* A settled delivery stays settled: neither a late failure nor a duplicate  *)
(* reopens it or changes its answer.                                         *)
SettledIsFinal ==
    [][\A d \in Deliveries : status[d] \in Settled =>
           status'[d] = status[d] /\ answer'[d] = answer[d]]_vars

(* A health check that is answered says what the worker says of a well-formed*)
(* health command, whatever its own payload: the literal of health.rs:30-36  *)
(* and the core's receipt do not drift apart.                                *)
HealthSpeaksForTheCore ==
    \A d \in Deliveries : status[d] = "answered" /\ ~Asynchronous(d) =>
        LET id == InvocationId[EventOf(d)]
            command == [shape |-> "object", repeated |-> FALSE, provider |-> "absent",
                        requestId |-> "absent", schema |-> "supported", operation |-> "health",
                        payload |-> "absent", extra |-> FALSE, body |-> 0, meta |-> 0]
        IN  \A field \in {"provider", "ok", "operation", "result", "error"} :
                answer[d][field] = FromEvent(command, id)[field]

(* Every delivery the service makes is answered or given up. *)
EventuallySettled ==
    \A d \in Deliveries : status[d] = "queued" ~> status[d] \in Settled
=============================================================================
