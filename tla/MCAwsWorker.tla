---------------------------- MODULE MCAwsWorker ----------------------------
(* Small instances of AwsWorker for TLC. *)
EXTENDS AwsWorker, TLC

CONSTANTS e1, e2, h, i1, i2, j

MCValidIds == {Fallback, "http", "stdin", "vercel", "lambda-1"}
MCInvalidIds == {"bad id"}
MCPayloads == {EmptyPayload, "p1"}
MCEvents == {e1, e2, h}
MCInstances == {i1, i2, j}
MCFunctionOf == [e \in MCEvents |-> IF e = h THEN "health" ELSE "worker"]
MCServes == [i \in MCInstances |-> IF i = j THEN "health" ELSE "worker"]

(* One event the core accepts and whose caller claims another identity, one  *)
(* it rejects, and a health check, whose payload is no command at all.       *)
Claimed == [shape |-> "object", repeated |-> FALSE, provider |-> "local", requestId |-> "stdin",
            schema |-> "supported", operation |-> "echo", payload |-> "p1", extra |-> FALSE,
            body |-> 100, meta |-> 40]
MCEventPayload == (e1 :> Claimed) @@ (e2 :> [Claimed EXCEPT !.operation = "unknown"])
                  @@ (h :> [Claimed EXCEPT !.schema = "absent", !.operation = "absent"])
MCCopies == (e1 :> 2) @@ (e2 :> 1) @@ (h :> 1)
MCInvocationId == (e1 :> "lambda-1") @@ (e2 :> "bad id") @@ (h :> "bad id")
=============================================================================
