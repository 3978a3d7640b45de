------------------------------ MODULE Adapters ------------------------------
(***************************************************************************)
(* What each host does around the command core, as pure operators: the     *)
(* HTTP worker (adapters/http.rs), the AWS callback (adapters/aws.rs), the *)
(* portable worker (adapters/portable.rs, bin/worker_portable.rs) and the  *)
(* Vercel function (api/[[...slug]].rs).                                   *)
(***************************************************************************)
EXTENDS Runtime

(* Bytes the completed AWS envelope spends on its own two members, commas    *)
(* included: what the adapter inserts instead of the caller's.               *)
CONSTANT AwsMetaBytes

ASSUME AwsMetaAssumption == AwsMetaBytes \in 1..MaxInvocationBytes

(* A text with a slash is no identifier, so there are such texts. *)
ASSUME SlashAssumption == InvalidIds # {}

(* detect_provider: the first platform whose variable is set wins. *)
DetectProvider(env) ==
    IF env \cap {"FUNCTIONS_CUSTOMHANDLER_PORT", "FUNCTIONS_WORKER_RUNTIME"} # {}
        THEN "azure-functions"
    ELSE IF env \cap {"K_SERVICE", "CLOUD_RUN_JOB"} # {} THEN "gcp-cloud-run"
    ELSE IF "SCINTILLA_FUNCTION" \in env THEN "scintilla"
    ELSE "local"

(* A header: missing, not readable as text, or a text with the identifier    *)
(* before its first '/' and whether a '/' follows, which no identifier has.  *)
HeaderValues == [kind : {"absent", "unreadable", "text"}, first : Ids, slashed : BOOLEAN]
Absent(header) == header.kind = "absent"
NoHeader == [kind |-> "absent", first |-> Fallback, slashed |-> FALSE]
SlashedId == CHOOSE id \in InvalidIds : TRUE
Headers == [cloudTrace : HeaderValues, azureInvocation : HeaderValues, requestId : HeaderValues]

(* Mutant: an unreadable platform header is passed over. *)
MutHttpRequestIdPasses(provider, headers) ==
    LET platform == IF provider = "gcp-cloud-run" THEN headers.cloudTrace
                    ELSE IF provider = "azure-functions" THEN headers.azureInvocation
                    ELSE NoHeader
        chosen == IF platform.kind # "text" THEN headers.requestId ELSE platform
    IN  IF chosen.kind # "text" THEN "http"
        ELSE IF chosen.slashed /\ provider # "gcp-cloud-run" THEN SlashedId
        ELSE chosen.first

(* request_id: the platform's header if it is there at all, else x-request-id;*)
(* unreadable or missing is "http"; Cloud Run keeps what precedes a '/'.      *)
HttpRequestId(provider, headers) ==
    LET platform == IF provider = "gcp-cloud-run" THEN headers.cloudTrace
                    ELSE IF provider = "azure-functions" THEN headers.azureInvocation
                    ELSE NoHeader
        chosen == IF Absent(platform) THEN headers.requestId ELSE platform
    IN  IF chosen.kind # "text" THEN "http"
        ELSE IF chosen.slashed /\ provider # "gcp-cloud-run" THEN SlashedId
        ELSE chosen.first

(* Mutant: the layer's limit is below the core's. *)
MutBodyLimit == MaxInvocationBytes - 1

(* axum refuses a body over the layer's limit before the handler runs. *)
BodyLimit == MaxInvocationBytes + 1

HttpStatus(receipt) ==
    IF receipt.ok THEN 200 ELSE IF receipt.error = "invocation_too_large" THEN 413 ELSE 400

(* complete_envelope, then the common bound path on the re-serialised value, *)
(* whose size is that of the completed object.                               *)
CompleteEnvelope(raw, id) ==
    IF raw.shape # "object" THEN raw
    ELSE [raw EXCEPT !.provider = "aws-lambda", !.requestId = id,
                     !.meta = AwsMetaBytes, !.repeated = FALSE]

(* Mutant: the event's own metadata is authoritative. *)
MutFromEventTrusts(raw, id) == Handle(raw, "aws-lambda", id)

FromEvent(raw, id) == HandleBound(CompleteEnvelope(raw, id), "aws-lambda", id)

(* Mutant: the caller's event is looked at. *)
MutHealthReceiptAsks(raw, id) == FromEvent(raw, id)

(* The health function's own receipt: the payload does not count, and the    *)
(* runtime's identifier is reported as it is.                                *)
HealthReceipt(raw, id) ==
    [requestId |-> id, provider |-> "aws-lambda", ok |-> TRUE,
     operation |-> "health", result |-> "status", error |-> "none"]

(* portable::run reads at most one byte over the limit, so a longer input is *)
(* seen as exactly that long; it is over the limit when the whole input is.  *)
Portable(raw) == Handle(raw, "local", "stdin")
PortableExit(receipt) == IF receipt.ok THEN 0 ELSE 2

(* The Vercel handler trusts the envelope and falls back to x-vercel-id. *)
Vercel(raw, header) ==
    Handle(raw, "vercel",
           IF header.kind # "text" THEN "vercel"
           ELSE IF header.slashed THEN SlashedId ELSE header.first)
VercelStatus(receipt) == IF receipt.ok THEN 200 ELSE 400
=============================================================================
