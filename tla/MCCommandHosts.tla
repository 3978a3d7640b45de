--------------------------- MODULE MCCommandHosts ---------------------------
(* Small instances of CommandHosts for TLC. *)
EXTENDS CommandHosts

MCValidIds == {Fallback, "http", "stdin", "vercel", "id-1"}
MCInvalidIds == {"bad id"}
MCPayloads == {EmptyPayload, "p1"}

(* Sizes on both sides of the limit, and of axum's. *)
MCBytes == {0, 100, MaxInvocationBytes - 100, MaxInvocationBytes + 1, MaxInvocationBytes - 99}

Good == [shape |-> "object", repeated |-> FALSE, provider |-> "local", requestId |-> "id-1",
         schema |-> "supported", operation |-> "echo", payload |-> "p1", extra |-> FALSE,
         body |-> 100, meta |-> 0]

(* The ways one field of an envelope can differ from a good one. *)
Vary(S) ==
    S \cup {[r EXCEPT !.shape = x] : r \in S, x \in {"malformed", "scalar", "array"}}
      \cup {[r EXCEPT !.repeated = TRUE] : r \in S}
      \cup {[r EXCEPT !.provider = x] : r \in S, x \in {"aws-lambda", "unknown", "absent"}}
      \cup {[r EXCEPT !.requestId = x] : r \in S, x \in {"bad id", "absent"}}
      \cup {[r EXCEPT !.schema = x] : r \in S, x \in {"other", "absent"}}
      \cup {[r EXCEPT !.operation = x] : r \in S, x \in {"health", "version", "unknown", "absent"}}
      \cup {[r EXCEPT !.payload = x] : r \in S, x \in {"absent", "scalar"}}
      \cup {[r EXCEPT !.extra = TRUE] : r \in S}
      \cup {[r EXCEPT !.body = x] : r \in S, x \in MCBytes}
      \cup {[r EXCEPT !.meta = 100] : r \in S}

(* Every envelope at most two changes away from a good one. *)
MCBodies == Vary(Vary({Good}))

Text(id, slashed) == [kind |-> "text", first |-> id, slashed |-> slashed]
MCHeader == {NoHeader, [NoHeader EXCEPT !.kind = "unreadable"], Text("id-1", FALSE),
             Text("id-1", TRUE), Text("bad id", FALSE)}
MCHeaderSets == {[cloudTrace |-> x, azureInvocation |-> x, requestId |-> y] :
                     x \in MCHeader, y \in {NoHeader, Text("stdin", FALSE), Text("stdin", TRUE)}}

(* Every platform alone, none, and platforms that overlap. *)
MCEnvironments == {{}, {"K_SERVICE"}, {"SCINTILLA_FUNCTION"}, {"FUNCTIONS_WORKER_RUNTIME"},
                   {"SCINTILLA_FUNCTION", "CLOUD_RUN_JOB"},
                   {"FUNCTIONS_CUSTOMHANDLER_PORT", "K_SERVICE"}}
=============================================================================
