---------------------------- MODULE PageContract ----------------------------
(***************************************************************************)
(* What a page host promises of each request (docs/page-http-runtime.md,   *)
(* "Required execution order"): product admission is asked at most once,   *)
(* generated page code runs at most once and only for a request that was   *)
(* admitted, a refused request is answered without it, and a request that  *)
(* is over is left alone.                                                  *)
(***************************************************************************)
CONSTANT Slots   \* requests

VARIABLES
    verdict,  \* "open", "asked", "refused" or "admitted"
    runs,     \* has page code been called?
    reply     \* "none", "refusal", "page", or "lost"

vars == <<verdict, runs, reply>>

Init ==
    /\ verdict = [s \in Slots |-> "open"]
    /\ runs = [s \in Slots |-> FALSE]
    /\ reply = [s \in Slots |-> "none"]

Ask(s) ==
    /\ verdict[s] = "open" /\ reply[s] = "none"
    /\ verdict' = [verdict EXCEPT ![s] = "asked"]
    /\ UNCHANGED <<runs, reply>>

(* Refused by the host before the product is asked, or by the product. *)
Refuse(s) ==
    /\ verdict[s] \in {"open", "asked"} /\ reply[s] = "none"
    /\ verdict' = [verdict EXCEPT ![s] = "refused"]
    /\ reply' = [reply EXCEPT ![s] = "refusal"]
    /\ UNCHANGED runs

Run(s) ==
    /\ verdict[s] = "asked" /\ reply[s] = "none"
    /\ verdict' = [verdict EXCEPT ![s] = "admitted"]
    /\ runs' = [runs EXCEPT ![s] = TRUE]
    /\ UNCHANGED reply

Serve(s) ==
    /\ runs[s] /\ reply[s] = "none"
    /\ reply' = [reply EXCEPT ![s] = "page"]
    /\ UNCHANGED <<verdict, runs>>

Lose(s) ==
    /\ reply[s] = "none"
    /\ reply' = [reply EXCEPT ![s] = "lost"]
    /\ UNCHANGED <<verdict, runs>>

Next == \E s \in Slots : Ask(s) \/ Refuse(s) \/ Run(s) \/ Serve(s) \/ Lose(s)

Spec == Init /\ [][Next]_vars
=============================================================================
