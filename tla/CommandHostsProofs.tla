------------------------- MODULE CommandHostsProofs -------------------------
(***************************************************************************)
(* What every synchronous host dispatches, under whose identity, and what  *)
(* its code tells, for any invocation, headers, environment and set of     *)
(* identifiers and payloads.                                               *)
(***************************************************************************)
EXTENDS CommandHosts, RuntimeProofs

(* The invariant: what is being served is a possible request, and an answer *)
(* is the one its host computes of it.                                      *)
Computed ==
    CASE host = "http" /\ Size(body) > BodyLimit -> [code |-> 413, receipt |-> NoReceipt]
      [] host = "http" /\ ~(Size(body) > BodyLimit) ->
           LET receipt == HandleBound(body, DetectProvider(env), TrustedId)
           IN  [code |-> HttpStatus(receipt), receipt |-> receipt]
      [] host = "vercel" ->
           LET receipt == Vercel(body, headers.requestId)
           IN  [code |-> VercelStatus(receipt), receipt |-> receipt]
      [] host = "portable" -> [code |-> PortableExit(Portable(body)), receipt |-> Portable(body)]

Served ==
    /\ host \in {"http", "vercel", "portable"}
    /\ body \in RawInvocations(Nat)
    /\ Answered => reply = Computed

LEMMA Invariance == Spec => []Served
<1>1. Init => Served
    BY RequestAssumption DEF Init, Served, Answered
<1>2. Served /\ [Next]_vars => Served'
    <2> SUFFICES ASSUME Served, [Next]_vars PROVE Served'
        OBVIOUS
    <2> USE DEF Served, Answered
    <2>0. Size(body) \in Nat /\ BodyLimit \in Nat
        BY DEF Size, RawInvocations, BodyLimit, MaxInvocationBytes
    <2>1. CASE RefuseBody
        BY <2>1 DEF RefuseBody, Answer, Computed, TrustedId
    <2>2. CASE Invoke
        BY <2>0, <2>2 DEF Invoke, Answer, Computed, TrustedId
    <2>3. CASE InvokeVercel
        BY <2>3 DEF InvokeVercel, Answer, Computed, TrustedId
    <2>4. CASE RunPortable
        BY <2>4 DEF RunPortable, Answer, Computed, TrustedId
    <2>5. CASE UNCHANGED vars
        BY <2>5 DEF vars, Computed, TrustedId
    <2> QED
        BY <2>1, <2>2, <2>3, <2>4, <2>5 DEF Next
<1> QED
    BY <1>1, <1>2, PTL DEF Spec

-----------------------------------------------------------------------------
(* The limits the layers apply to a body (http.rs:39, runtime.rs:15-18). *)
LEMMA Limits ==
    ASSUME Served
    PROVE  /\ Size(body) \in Nat /\ MaxInvocationBytes \in Nat
           /\ BodyLimit = MaxInvocationBytes + 1
BY DEF Served, Size, RawInvocations, BodyLimit, MaxInvocationBytes

(* Exactly the admissible envelopes are dispatched (runtime.rs:145-237): the *)
(* property DispatchedExactly of the runs, for invocations of every form.    *)
THEOREM AdmissibleAreDispatched == Spec => []DispatchedExactly
<1>1. Served => DispatchedExactly
    <2> SUFFICES ASSUME Served, Answered PROVE DispatchedExactly
        BY DEF DispatchedExactly
    <2>0. reply = Computed /\ body \in RawInvocations(Nat)
        BY DEF Served
    <2>1. CASE host = "http" /\ Size(body) > BodyLimit
        <3>1. ~reply.receipt.ok
            BY <2>0, <2>1 DEF Computed, NoReceipt
        <3>2. ~CommandAdmissible
            BY <2>1, Limits DEF CommandAdmissible
        <3> QED
            BY <3>1, <3>2 DEF DispatchedExactly
    <2>2. CASE host = "http" /\ ~(Size(body) > BodyLimit)
        <3>1. reply.receipt = HandleBound(body, DetectProvider(env), TrustedId)
            BY <2>0, <2>2 DEF Computed
        <3>2. reply.receipt.ok <=> CommandAdmissible /\ body.shape = "object"
            BY <2>0, <3>1, BoundReceipt, Detected DEF CommandAdmissible
        <3> QED
            BY <2>2, <3>2 DEF DispatchedExactly
    <2>3. CASE host # "http"
        <3>1. \E provider \in Providers : \E id : reply.receipt = Handle(body, provider, id)
            <4>1. "vercel" \in Providers /\ "local" \in Providers
                BY DEF Providers
            <4> QED
                BY <2>0, <2>3, <4>1 DEF Served, Computed, Vercel, Portable
        <3>2. reply.receipt.ok <=>
                  /\ CommandAdmissible
                  /\ body.shape \in {"array", "object"} /\ ~body.repeated
                  /\ body.provider \in Providers /\ body.requestId \in ValidIds
            BY <2>0, <3>1, DirectReceipt DEF CommandAdmissible
        <3> QED
            BY <2>3, <3>2 DEF DispatchedExactly
    <2> QED
        BY <2>1, <2>2, <2>3
<1> QED
    BY <1>1, Invariance, PTL

(* What the worker trusts is what the header it listens to names, and no     *)
(* identifier or "http" where that names none (http.rs:43-62).               *)
LEMMA HeardIsTrusted ==
    /\ \A id : Names(Heard, id) => TrustedId = id /\ id \in ValidIds
    /\ TrustedId \in ValidIds => TrustedId = "http" \/ Names(Heard, TrustedId)
<1>1. SlashedId \notin ValidIds
    BY IdAssumption, SlashAssumption DEF SlashedId
<1>2. NoHeader.kind = "absent"
    BY DEF NoHeader
<1>3. TrustedId = IF Heard.kind # "text" THEN "http"
                  ELSE IF Heard.slashed /\ DetectProvider(env) # "gcp-cloud-run" THEN SlashedId
                  ELSE Heard.first
    BY <1>2 DEF TrustedId, HttpRequestId, Heard, Absent
<1> QED
    BY <1>1, <1>3 DEF Names

(* The HTTP worker's receipt names the platform and bears the identifier the *)
(* header it listens to names, and nothing the caller says of itself changes *)
(* it (http.rs:43-62, runtime.rs:202-237).                                   *)
THEOREM HostsVouchForProvenance == Spec => []ProvenanceIsTheHosts
<1>1. Served => ProvenanceIsTheHosts
    <2> SUFFICES ASSUME Served, Answered, host = "http", reply.receipt # NoReceipt
                 PROVE  /\ reply.receipt.provider = DetectProvider(env)
                        /\ \A id \in Ids : Names(Heard, id) => reply.receipt.requestId = id
                        /\ \/ reply.receipt.requestId \in {"http", Fallback}
                           \/ Names(Heard, reply.receipt.requestId)
                        /\ \A p \in Providers \cup {"unknown", "absent"}, id \in Ids \cup {"absent"} :
                             HandleBound([body EXCEPT !.provider = p, !.requestId = id],
                                         DetectProvider(env), TrustedId) = reply.receipt
        BY DEF ProvenanceIsTheHosts
    <2>1. reply.receipt = HandleBound(body, DetectProvider(env), TrustedId)
        BY DEF Served, Computed
    <2>2. /\ reply.receipt.provider = DetectProvider(env)
          /\ reply.receipt.requestId = SafeRequestId(TrustedId)
        BY <2>1, BoundReceipt, Detected DEF Served
    <2>3. ASSUME NEW id \in Ids, Names(Heard, id)
          PROVE  reply.receipt.requestId = id
        BY <2>2, <2>3, HeardIsTrusted DEF SafeRequestId
    <2>5. ASSUME reply.receipt.requestId \notin {"http", Fallback}
          PROVE  Names(Heard, reply.receipt.requestId)
        BY <2>2, <2>5, HeardIsTrusted DEF SafeRequestId
    <2>4. ASSUME NEW p, NEW id
          PROVE  HandleBound([body EXCEPT !.provider = p, !.requestId = id],
                             DetectProvider(env), TrustedId) = reply.receipt
        <3> DEFINE other == [body EXCEPT !.provider = p, !.requestId = id]
        <3>1. Bind(other, DetectProvider(env), TrustedId) = Bind(body, DetectProvider(env), TrustedId)
            BY DEF Served, Bind, RawInvocations
        <3>2. Size(other) = Size(body) /\ other.shape = body.shape
            BY DEF Served, Size, RawInvocations
        <3> HIDE DEF other
        <3>3. HandleBound(other, DetectProvider(env), TrustedId) = reply.receipt
            BY <2>1, <3>1, <3>2, MetadataIsIgnored
        <3> QED
            BY <3>3 DEF other
    <2> QED
        BY <2>2, <2>3, <2>4, <2>5
<1> QED
    BY <1>1, Invariance, PTL

(* Too long is told apart from every other refusal on both sides of axum's   *)
(* limit, and success from failure (http.rs:39, 71-82).                      *)
THEOREM CodesTellReasons == Spec => []CodeTellsTheReason
<1>1. Served => CodeTellsTheReason
    <2> SUFFICES ASSUME Served, Answered PROVE CodeTellsTheReason
        BY DEF CodeTellsTheReason
    <2>0. reply = Computed /\ body \in RawInvocations(Nat)
        BY DEF Served
    <2>1. CASE host = "http" /\ Size(body) > BodyLimit
        <3>1. reply.code = 413 /\ ~reply.receipt.ok
            BY <2>0, <2>1 DEF Computed, NoReceipt
        <3>2. Size(body) > MaxInvocationBytes
            BY <2>1, Limits
        <3> QED
            BY <2>1, <3>1, <3>2 DEF CodeTellsTheReason
    <2>2. CASE host = "http" /\ ~(Size(body) > BodyLimit)
        <3> DEFINE receipt == HandleBound(body, DetectProvider(env), TrustedId)
        <3>1. reply.receipt = receipt /\ reply.code = HttpStatus(receipt)
            BY <2>0, <2>2 DEF Computed
        <3>2. /\ receipt.ok => ~(Size(body) > MaxInvocationBytes)
              /\ receipt.error = "invocation_too_large" <=> Size(body) > MaxInvocationBytes
              /\ receipt \in Receipts
            BY <2>0, BoundReceipt, Detected, Limits
        <3>3. receipt.ok \in BOOLEAN
            BY <3>2 DEF Receipts
        <3> HIDE DEF receipt
        <3> QED
            BY <2>2, <3>1, <3>2, <3>3 DEF CodeTellsTheReason, HttpStatus
    <2>3. CASE host # "http"
        BY <2>0, <2>3 DEF Served, Computed, CodeTellsTheReason, VercelStatus, PortableExit
    <2> QED
        BY <2>1, <2>2, <2>3
<1> QED
    BY <1>1, Invariance, PTL
=============================================================================
