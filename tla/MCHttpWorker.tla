---------------------------- MODULE MCHttpWorker ----------------------------
(* Small instances of HttpWorker for TLC. *)
EXTENDS HttpWorker, TLC

CONSTANTS r1, r2

MCValidIds == {Fallback, "http", "stdin", "vercel", "id-1"}
MCInvalidIds == {"bad id"}
MCPayloads == {EmptyPayload, "p1"}

(* As the image starts it. *)
Plain == [override |-> "file", shipped |-> {"share"}, positionals |-> <<"executable">>,
          unknown |-> 0, errors |-> 0, spoofed |-> FALSE, ambient |-> {"PORT"}, options |-> {},
          malformed |-> {}, bind |-> "address", shielded |-> FALSE]

(* One thing is different: how it is called, where it runs, or by whom. *)
MCStarts ==
    {Plain, [Plain EXCEPT !.shielded = TRUE]}
    \cup {[Plain EXCEPT !.override = x, !.shipped = s] :
            x \in {"unset", "relative", "missing"}, s \in {{}, {"share", "bin"}, {"bin", "source"}, {"source"}}}
    \cup {[Plain EXCEPT !.positionals = p, !.spoofed = x] :
            p \in {<<>>, <<"other">>, <<"executable", "executable">>, <<"executable", "other">>}, x \in BOOLEAN}
    \cup {[Plain EXCEPT !.unknown = 1], [Plain EXCEPT !.errors = 1],
          [Plain EXCEPT !.malformed = {"PORT"}], [Plain EXCEPT !.malformed = Ports],
          [Plain EXCEPT !.bind = "socket"], [Plain EXCEPT !.bind = "neither"]}
    \cup {[Plain EXCEPT !.ambient = a, !.options = o] :
            a \in {{}, {"PORT", "K_SERVICE"}, {"FUNCTIONS_WORKER_RUNTIME"}, {"FUNCTIONS_CUSTOMHANDLER_PORT"}},
            o \in {{}, {"FUNCTIONS_CUSTOMHANDLER_PORT"}}}

(* One request the core accepts and one it rejects. *)
Echo == [shape |-> "object", repeated |-> FALSE, provider |-> "local", requestId |-> "stdin",
         schema |-> "supported", operation |-> "echo", payload |-> "p1", extra |-> FALSE,
         body |-> 100, meta |-> 40]
MCRequests == {r1, r2}
MCInvocation == (r1 :> Echo) @@ (r2 :> [Echo EXCEPT !.operation = "unknown"])
Named(id) == [cloudTrace |-> NoHeader, azureInvocation |-> NoHeader,
              requestId |-> [kind |-> "text", first |-> id, slashed |-> FALSE]]
MCHeadersOf == (r1 :> Named("id-1")) @@ (r2 :> Named("bad id"))
=============================================================================
