------------------------------ MODULE Container ------------------------------
(***************************************************************************)
(* What a container promises whoever runs it, sidecars or not: it starts   *)
(* its workload at most once, goes down once, and the status it then       *)
(* reports has a reason: its own refusal to start the workload, the        *)
(* workload's status, a sidecar's under the closed policy, or a signal.    *)
(* Entrypoint implements it.                                               *)
(***************************************************************************)
EXTENDS Integers

CONSTANTS
    Refusals,       \* statuses of a container that starts no workload
    Interruptions   \* statuses that name a signal

VARIABLES
    up,       \* is it up?
    work,     \* "none", "alive" or "ended"
    result,   \* the status the workload ended with
    told,     \* was a signal sent?
    strict,   \* does a sidecar's failure count?
    report    \* the status the container reports

vars == <<up, work, result, told, strict, report>>

Init ==
    /\ up = TRUE /\ work = "none" /\ told = FALSE
    /\ strict \in BOOLEAN
    /\ result = -1 /\ report = -1

Start ==
    /\ up /\ work = "none" /\ work' = "alive"
    /\ UNCHANGED <<up, result, told, strict, report>>

(* The workload ends, with whatever status. *)
End ==
    /\ work = "alive" /\ work' = "ended"
    /\ result' \in 0..255

(* A signal may end the workload, and its container in the same moment. *)
Hear ==
    /\ up /\ told'
    /\ End \/ UNCHANGED <<work, result>>
    /\ \/ UNCHANGED <<up, report>>
       \/ work = "none" /\ ~up' /\ report' \in Interruptions
    /\ UNCHANGED strict

(* A success, or a failure of the workload, is reported as it is; while the  *)
(* workload is alive only a signal takes the container down.                 *)
Report ==
    /\ up /\ ~up'
    /\ \/ work = "none" /\ report' \in Refusals
       \/ work = "ended" /\ report' = result
       \/ work = "ended" /\ result = 0 /\ strict /\ report' \in 1..255
       \/ work # "none" /\ told /\ report' \in Interruptions
    /\ UNCHANGED <<work, result, told, strict>>

(* What is still alive when the container goes down is killed. *)
Kill == ~up /\ End /\ UNCHANGED <<up, told, strict, report>>

Next ==
    \/ Start \/ Hear \/ Report \/ Kill
    \/ up /\ End /\ UNCHANGED <<up, told, strict, report>>

Spec == Init /\ [][Next]_vars
=============================================================================
