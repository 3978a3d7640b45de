--------------------------- MODULE RuntimeProofs ---------------------------
(***************************************************************************)
(* What the command core returns for every invocation, of whatever size    *)
(* and with whatever fields, on both of its paths: the lemmas on which the *)
(* theorems about its hosts rest.                                          *)
(***************************************************************************)
EXTENDS Adapters, TLAPS

(* An identifier a receipt carries is always a valid one (runtime.rs:246-252). *)
LEMMA SafeId == ASSUME NEW id PROVE SafeRequestId(id) \in ValidIds
BY IdAssumption DEF SafeRequestId

(* A refusal is a well-formed receipt (runtime.rs:219-236). *)
LEMMA RejectedReceipt ==
    ASSUME NEW provider \in Providers, NEW id,
           NEW reason \in {"invocation_too_large", "invalid_invocation",
                           "unsupported_schema_version", "unbounded_identifier"}
    PROVE  /\ Rejected(provider, id, reason) \in Receipts
           /\ ~Rejected(provider, id, reason).ok
           /\ Rejected(provider, id, reason).error = reason
           /\ Rejected(provider, id, reason).provider = provider
           /\ Rejected(provider, id, reason).requestId = SafeRequestId(id)
BY SafeId DEF Rejected, Receipts

(* So is the answer to an invocation that decodes and is valid.            *)
LEMMA DispatchReceipt ==
    ASSUME NEW raw, Decodes(raw), raw.requestId \in ValidIds
    PROVE  /\ Dispatch(raw) \in Receipts
           /\ Dispatch(raw).ok /\ Dispatch(raw).error = "none"
           /\ Dispatch(raw).provider = raw.provider
           /\ Dispatch(raw).requestId = raw.requestId
BY PayloadAssumption DEF Dispatch, Decodes, Receipts

(* Bound, an envelope keeps the command and takes the adapter's metadata.  *)
LEMMA BoundFields ==
    ASSUME NEW raw \in RawInvocations(Nat), NEW provider \in Providers, NEW id
    PROVE  LET bound == Bind(raw, provider, id)
           IN  /\ bound.provider = provider /\ bound.requestId = SafeRequestId(id)
               /\ bound.schema = raw.schema /\ bound.operation = raw.operation
               /\ bound.payload = raw.payload /\ bound.extra = raw.extra
BY DEF Bind, RawInvocations

(* On the bound path the core accepts the objects within the limit whose   *)
(* command is well formed, says so when the limit was the reason, and every*)
(* receipt carries the adapter's provenance (runtime.rs:202-237).          *)
LEMMA BoundReceipt ==
    ASSUME NEW raw \in RawInvocations(Nat), NEW provider \in Providers, NEW id
    PROVE  LET receipt == HandleBound(raw, provider, id)
           IN  /\ receipt \in Receipts
               /\ receipt.provider = provider
               /\ receipt.requestId = SafeRequestId(id)
               /\ receipt.ok <=>
                    /\ Size(raw) <= MaxInvocationBytes
                    /\ raw.shape = "object" /\ raw.schema = "supported"
                    /\ raw.operation \in Operations
                    /\ raw.payload \in Payloads \cup {"absent"} /\ ~raw.extra
               /\ receipt.error = "invocation_too_large" <=> Size(raw) > MaxInvocationBytes
<1> DEFINE bound == Bind(raw, provider, id)
           reason == BoundError(raw, provider, id)
<1>1. Size(raw) \in Nat /\ MaxInvocationBytes \in Nat
    BY DEF Size, RawInvocations, MaxInvocationBytes
<1>2. SafeRequestId(id) \in ValidIds
    BY SafeId
<1>3. Decodes(bound) <=> /\ raw.schema # "absent" /\ raw.operation \in Operations
                         /\ raw.payload \in Payloads \cup {"absent"} /\ ~raw.extra
    BY <1>2, BoundFields DEF Decodes, Ids
<1>4. Validate(bound) = IF raw.schema # "supported" THEN "unsupported_schema_version" ELSE "none"
    BY <1>2, BoundFields DEF Validate
<1>5. reason = "none" <=> /\ ~(Size(raw) > MaxInvocationBytes)
                          /\ raw.shape = "object" /\ raw.schema = "supported"
                          /\ raw.operation \in Operations
                          /\ raw.payload \in Payloads \cup {"absent"} /\ ~raw.extra
    BY <1>3, <1>4 DEF BoundError
<1>6. /\ reason = "invocation_too_large" <=> Size(raw) > MaxInvocationBytes
      /\ reason # "none" => reason \in {"invocation_too_large", "invalid_invocation",
                                        "unsupported_schema_version", "unbounded_identifier"}
    BY <1>4 DEF BoundError
<1>7. CASE reason = "none"
    <2>1. HandleBound(raw, provider, id) = Dispatch(bound)
        BY <1>7 DEF HandleBound
    <2>2. Decodes(bound)
        BY <1>3, <1>5, <1>7
    <2>3. bound.provider = provider /\ bound.requestId = SafeRequestId(id)
        BY BoundFields
    <2> HIDE DEF bound, reason
    <2> QED
        BY <1>1, <1>2, <1>5, <1>6, <1>7, <2>1, <2>2, <2>3, DispatchReceipt
<1>8. CASE reason # "none"
    <2>1. HandleBound(raw, provider, id) = Rejected(provider, id, reason)
        BY <1>8 DEF HandleBound
    <2> HIDE DEF bound, reason
    <2> QED
        BY <1>1, <1>5, <1>6, <1>8, <2>1, RejectedReceipt
<1> QED
    BY <1>7, <1>8

(* Invocations that differ in their own metadata only, which Bind replaces,*)
(* get the same receipt (runtime.rs:213-218).                              *)
LEMMA MetadataIsIgnored ==
    ASSUME NEW raw, NEW other, NEW provider, NEW id,
           Bind(other, provider, id) = Bind(raw, provider, id),
           Size(other) = Size(raw), other.shape = raw.shape
    PROVE  HandleBound(other, provider, id) = HandleBound(raw, provider, id)
<1>1. BoundError(other, provider, id) = BoundError(raw, provider, id)
    BY DEF BoundError
<1> QED
    BY <1>1 DEF HandleBound

(* On the direct path the envelope must vouch for its own metadata         *)
(* (runtime.rs:145-200).                                                   *)
LEMMA DirectReceipt ==
    ASSUME NEW raw \in RawInvocations(Nat), NEW provider \in Providers, NEW fallback
    PROVE  LET receipt == Handle(raw, provider, fallback)
           IN  /\ receipt \in Receipts
               /\ receipt.ok <=>
                    /\ Size(raw) <= MaxInvocationBytes
                    /\ raw.shape \in {"array", "object"} /\ ~raw.repeated
                    /\ raw.provider \in Providers /\ raw.requestId \in ValidIds
                    /\ raw.schema = "supported" /\ raw.operation \in Operations
                    /\ raw.payload \in Payloads \cup {"absent"} /\ ~raw.extra
<1> DEFINE reason == ParseError(raw)
<1>1. Size(raw) \in Nat /\ MaxInvocationBytes \in Nat
    BY DEF Size, RawInvocations, MaxInvocationBytes
<1>2. reason = "none" <=>
          /\ ~(Size(raw) > MaxInvocationBytes)
          /\ DecodesDirectly(raw) /\ raw.schema = "supported" /\ raw.requestId \in ValidIds
    BY DEF ParseError, Validate
<1>3. reason # "none" => reason \in {"invocation_too_large", "invalid_invocation",
                                     "unsupported_schema_version", "unbounded_identifier"}
    BY DEF ParseError, Validate
<1>4. CASE reason = "none"
    BY <1>1, <1>2, <1>4, DispatchReceipt DEF Handle, DecodesDirectly, Decodes, Ids
<1>5. CASE reason # "none"
    <2>1. Handle(raw, provider, fallback) = Rejected(provider, fallback, reason)
        BY <1>5 DEF Handle
    <2>2. ~(/\ ~(Size(raw) > MaxInvocationBytes)
            /\ DecodesDirectly(raw) /\ raw.schema = "supported" /\ raw.requestId \in ValidIds)
        BY <1>2, <1>5
    <2> HIDE DEF reason
    <2> QED
        BY <1>1, <1>3, <1>5, <2>1, <2>2, RejectedReceipt DEF DecodesDirectly, Decodes, Ids
<1> QED
    BY <1>4, <1>5

(* An HTTP worker always has a provider (http.rs:23-37). *)
LEMMA Detected == ASSUME NEW env PROVE DetectProvider(env) \in Providers
BY DEF DetectProvider, Providers
=============================================================================
