---------------------------- MODULE CommandHosts ----------------------------
(***************************************************************************)
(* The synchronous hosts of the command core serving one request: the HTTP *)
(* worker on Cloud Run, Azure, Scintilla or locally, the Vercel function,  *)
(* and the portable worker on stdin.  No host keeps state from one request *)
(* to the next, so a behaviour is one request under one environment.       *)
(***************************************************************************)
EXTENDS Adapters

CONSTANTS
    Bodies,        \* raw invocations callers send
    HeaderSets,    \* HTTP headers they arrive with
    Environments   \* sets of platform variables an HTTP worker may find set

PlatformVariables == {"FUNCTIONS_CUSTOMHANDLER_PORT", "FUNCTIONS_WORKER_RUNTIME",
                      "K_SERVICE", "CLOUD_RUN_JOB", "SCINTILLA_FUNCTION"}

ASSUME RequestAssumption ==
    /\ \A raw \in Bodies : raw \in RawInvocations(Nat)
    /\ HeaderSets \subseteq Headers
    /\ Environments \subseteq SUBSET PlatformVariables

VARIABLES
    host,     \* "http", "vercel" or "portable"
    env,      \* the platform variables that are set
    phase,    \* "received" or "answered"
    body,     \* the invocation being served
    headers,  \* and its headers
    reply     \* [code, receipt]

vars == <<host, env, phase, body, headers, reply>>

(* A reply that carries no receipt. *)
NoReceipt == [requestId |-> Fallback, provider |-> "local", ok |-> FALSE,
              operation |-> "none", result |-> "none", error |-> "none"]

Init ==
    /\ \/ host = "http" /\ env \in Environments
       \/ host \in {"vercel", "portable"} /\ env = {}
    /\ phase = "received"
    /\ body \in Bodies /\ headers \in HeaderSets
    /\ reply = [code |-> 0, receipt |-> NoReceipt]

Answer(code, receipt) ==
    /\ phase = "received"
    /\ phase' = "answered"
    /\ reply' = [code |-> code, receipt |-> receipt]
    /\ UNCHANGED <<host, env, body, headers>>

(* axum's body limit: 413 without a receipt, the handler is not called. *)
RefuseBody ==
    /\ host = "http" /\ Size(body) > BodyLimit
    /\ Answer(413, NoReceipt)

Invoke ==
    LET provider == DetectProvider(env)
        receipt == HandleBound(body, provider, HttpRequestId(provider, headers))
    IN  /\ host = "http" /\ Size(body) <= BodyLimit
        /\ Answer(HttpStatus(receipt), receipt)

InvokeVercel ==
    LET receipt == Vercel(body, headers.requestId)
    IN  host = "vercel" /\ Answer(VercelStatus(receipt), receipt)

(* One run of the portable worker; the code is its exit status. *)
RunPortable ==
    host = "portable" /\ Answer(PortableExit(Portable(body)), Portable(body))

Next == RefuseBody \/ Invoke \/ InvokeVercel \/ RunPortable

Spec == Init /\ [][Next]_vars

-----------------------------------------------------------------------------
(* PROPERTIES *)

Answered == phase = "answered"
TrustedId == HttpRequestId(DetectProvider(env), headers)

(* The envelope's command, whoever vouches for its metadata, is well formed. *)
CommandAdmissible ==
    /\ Size(body) <= MaxInvocationBytes
    /\ body.schema = "supported" /\ body.operation \in Operations
    /\ body.payload \in Payloads \cup {"absent"}
    /\ ~body.extra

(* Exactly the admissible envelopes are dispatched: the HTTP worker needs an *)
(* object and nothing of the caller's metadata; the others need metadata     *)
(* that is complete, known and bounded, and no key twice (runtime.rs:145-237)*)
DispatchedExactly ==
    Answered => (reply.receipt.ok <=>
        /\ CommandAdmissible
        /\ IF host = "http" THEN body.shape = "object"
           ELSE /\ body.shape \in {"array", "object"} /\ ~body.repeated
                /\ body.provider \in Providers /\ body.requestId \in ValidIds)

(* A header's text that is an identifier names the request; before a slash   *)
(* it does so on Cloud Run only.                                             *)
Names(header, id) ==
    /\ header.kind = "text" /\ header.first = id /\ id \in ValidIds
    /\ header.slashed => DetectProvider(env) = "gcp-cloud-run"

(* The header that is listened to: x-request-id, unless the platform has     *)
(* sent the header it names requests by, readable or not.                    *)
Heard ==
    CASE DetectProvider(env) = "gcp-cloud-run" /\ ~Absent(headers.cloudTrace) -> headers.cloudTrace
      [] DetectProvider(env) = "azure-functions" /\ ~Absent(headers.azureInvocation) ->
             headers.azureInvocation
      [] OTHER -> headers.requestId

(* On the HTTP worker the receipt names the platform, bears the identifier   *)
(* the platform's header names (x-request-id's only where the platform sent  *)
(* none, and a fallback exactly where neither names one), and would be the   *)
(* same under any metadata the caller could have written into the envelope   *)
(* (http.rs:43-62, runtime.rs:202-237).                                      *)
ProvenanceIsTheHosts ==
    Answered /\ host = "http" /\ reply.receipt # NoReceipt =>
        /\ reply.receipt.provider = DetectProvider(env)
        /\ \A id \in Ids : Names(Heard, id) => reply.receipt.requestId = id
        /\ \/ reply.receipt.requestId \in {"http", Fallback}
           \/ Names(Heard, reply.receipt.requestId)
        /\ \A p \in Providers \cup {"unknown", "absent"}, id \in Ids \cup {"absent"} :
             HandleBound([body EXCEPT !.provider = p, !.requestId = id],
                         DetectProvider(env), TrustedId) = reply.receipt

(* The reply's code separates an invocation over the limit from any other    *)
(* refusal, on both sides of axum's own limit, which is one byte higher      *)
(* (http.rs:39, 71-82); success is 200, or exit status 0.                    *)
CodeTellsTheReason ==
    Answered =>
        /\ host = "http" => (reply.code = 413 <=> Size(body) > MaxInvocationBytes)
        /\ reply.receipt.ok <=> reply.code = (IF host = "portable" THEN 0 ELSE 200)

(* What docs/architecture.md says of identifiers: unbounded ones are         *)
(* rejected.  The bound path replaces them by the fallback instead.          *)
UnboundedIdentifierRejected ==
    Answered /\ host = "http" /\ TrustedId \in InvalidIds => ~reply.receipt.ok
=============================================================================
