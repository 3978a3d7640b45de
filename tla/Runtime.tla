------------------------------ MODULE Runtime ------------------------------
(***************************************************************************)
(* The command core (src/runtime.rs): what `parse`, `handle` and           *)
(* `handle_bound` make of one raw invocation.  Pure operators.             *)
(*                                                                         *)
(* A raw invocation is abstracted to what the core can tell apart: its     *)
(* JSON shape, whether a key is repeated, the decoded value of every field *)
(* ("absent" when missing or of the wrong JSON type), whether a field the  *)
(* schema does not know is present, and its size, split into the bytes of  *)
(* the caller's provider/requestId members and all the others.             *)
(***************************************************************************)
EXTENDS Naturals

CONSTANTS
    ValidIds,    \* identifiers valid_request_id accepts
    InvalidIds,  \* identifiers it refuses: empty, too long, other bytes
    Payloads     \* JSON objects a command may carry

Fallback == "request"
EmptyPayload == "{}"

ASSUME IdAssumption ==
    /\ ValidIds \cap InvalidIds = {}
    /\ {Fallback, "http", "stdin", "vercel"} \subseteq ValidIds
    /\ "absent" \notin ValidIds \cup InvalidIds

ASSUME PayloadAssumption == EmptyPayload \in Payloads /\ "absent" \notin Payloads

Ids == ValidIds \cup InvalidIds
MaxInvocationBytes == 256 * 1024

Providers == {"aws-lambda", "gcp-cloud-run", "azure-functions", "vercel",
              "cloudflare-workers", "scintilla", "local"}
Operations == {"health", "version", "echo"}

RawInvocations(bytes) ==
    [shape : {"malformed", "scalar", "array", "object"}, repeated : BOOLEAN,
     provider : Providers \cup {"unknown", "absent"}, requestId : Ids \cup {"absent"},
     schema : {"supported", "other", "absent"},
     operation : Operations \cup {"unknown", "absent"},
     payload : Payloads \cup {"absent", "scalar"}, extra : BOOLEAN,
     body : bytes, meta : bytes]

Size(raw) == raw.body + raw.meta

-----------------------------------------------------------------------------
(* safe_request_id: a valid identifier, else the fallback. *)
SafeRequestId(id) == IF id \in ValidIds THEN id ELSE Fallback

Receipts ==
    [requestId : ValidIds, provider : Providers, ok : {TRUE},
     operation : Operations, result : {"status", "version"} \cup Payloads, error : {"none"}]
    \cup
    [requestId : ValidIds, provider : Providers, ok : {FALSE},
     operation : {"none"}, result : {"none"},
     error : {"invocation_too_large", "invalid_invocation", "unsupported_schema_version",
              "unbounded_identifier"}]

Rejected(provider, id, reason) ==
    [requestId |-> SafeRequestId(id), provider |-> provider, ok |-> FALSE,
     operation |-> "none", result |-> "none", error |-> reason]

(* Mutant: unknown fields are ignored. *)
MutDecodesLenient(raw) ==
    /\ raw.provider \in Providers /\ raw.requestId \in Ids /\ raw.schema # "absent"
    /\ raw.operation \in Operations /\ raw.payload \in Payloads \cup {"absent"}

(* serde accepts the fields: every required one is there with a value its    *)
(* type admits, nothing else is, and an absent payload defaults.             *)
Decodes(raw) ==
    /\ raw.provider \in Providers
    /\ raw.requestId \in Ids
    /\ raw.schema # "absent"
    /\ raw.operation \in Operations
    /\ raw.payload \in Payloads \cup {"absent"}
    /\ ~raw.extra

(* Straight from the bytes a struct also decodes from an array of its fields,*)
(* and a repeated key is an error.                                           *)
DecodesDirectly(raw) == raw.shape \in {"array", "object"} /\ ~raw.repeated /\ Decodes(raw)

(* The first reason to refuse a decoded invocation, or "none". *)
Validate(raw) ==
    IF raw.schema # "supported" THEN "unsupported_schema_version"
    ELSE IF raw.requestId \notin ValidIds THEN "unbounded_identifier"
    ELSE "none"

Dispatch(inv) ==
    [requestId |-> inv.requestId, provider |-> inv.provider, ok |-> TRUE,
     operation |-> inv.operation,
     result |-> IF inv.operation = "health" THEN "status"
                ELSE IF inv.operation = "version" THEN "version"
                ELSE IF inv.payload = "absent" THEN EmptyPayload ELSE inv.payload,
     error |-> "none"]

(* parse: why raw bytes are refused, size first; "none" when they are not. *)
ParseError(raw) ==
    IF Size(raw) > MaxInvocationBytes THEN "invocation_too_large"
    ELSE IF ~DecodesDirectly(raw) THEN "invalid_invocation"
    ELSE Validate(raw)

(* handle: the envelope's own metadata is authoritative. *)
Handle(raw, provider, fallback) ==
    IF ParseError(raw) = "none" THEN Dispatch(raw)
    ELSE Rejected(provider, fallback, ParseError(raw))

(* Mutant: the adapter's provenance is only a default. *)
MutBindDefaults(raw, provider, id) ==
    [raw EXCEPT !.provider = IF @ = "absent" THEN provider ELSE @,
                !.requestId = IF @ = "absent" THEN SafeRequestId(id) ELSE @]

(* The rebuilt object: the caller's members are dropped, the adapter's own   *)
(* provenance takes their place.                                             *)
Bind(raw, provider, id) ==
    [raw EXCEPT !.provider = provider, !.requestId = SafeRequestId(id)]

(* The same through a JSON value: only objects, where the last of repeated   *)
(* keys wins, bound to the adapter's provenance before they are decoded.     *)
BoundError(raw, provider, id) ==
    IF Size(raw) > MaxInvocationBytes THEN "invocation_too_large"
    ELSE IF raw.shape # "object" THEN "invalid_invocation"
    ELSE IF ~Decodes(Bind(raw, provider, id)) THEN "invalid_invocation"
    ELSE Validate(Bind(raw, provider, id))

(* handle_bound: the adapter's metadata is authoritative. *)
HandleBound(raw, provider, id) ==
    IF BoundError(raw, provider, id) = "none" THEN Dispatch(Bind(raw, provider, id))
    ELSE Rejected(provider, id, BoundError(raw, provider, id))
=============================================================================
