------------------------------ MODULE Workload ------------------------------
(***************************************************************************)
(* What the supervisor relies on of a process it started: how it may react *)
(* to a signal, that it ends by itself with a status of its own, and that  *)
(* once it was told to drain it does end.  Entrypoint uses Reactions for   *)
(* each of its processes; HttpWorker is one such workload.                 *)
(***************************************************************************)
EXTENDS Naturals

CONSTANTS
    Statuses,  \* statuses the process may choose to exit with
    Signals    \* signals it may receive

VARIABLES
    life,      \* "running", "draining" or "exited"
    status,    \* the status it exited with, 0 before
    shielded   \* was it started with SIGINT ignored?

vars == <<life, status, shielded>>

Number(sig) == CASE sig = "HUP" -> 1 [] sig = "INT" -> 2 [] OTHER -> 15

(* A background job of a non-interactive shell starts with SIGINT ignored;   *)
(* a program it runs may still install a handler, and then it drains.  A     *)
(* process that still opens its FIFOs has no handler yet.                    *)
Reactions(state, ignored) ==
    CASE state \in {"none", "exited"} -> {state}
      [] state = "opening"  -> IF ignored THEN {"opening"} ELSE {"exited"}
      [] state = "running"  -> {"draining", IF ignored THEN "running" ELSE "exited"}
      [] state = "draining" -> {"draining", IF ignored THEN "draining" ELSE "exited"}

Init == life = "running" /\ status = 0 /\ shielded \in BOOLEAN

Receive(sig) ==
    /\ life # "exited"
    /\ life' \in Reactions(life, sig = "INT" /\ shielded)
    /\ status' = IF life' = "exited" THEN 128 + Number(sig) ELSE status
    /\ UNCHANGED shielded

Finish ==
    /\ life # "exited" /\ life' = "exited"
    /\ status' \in Statuses
    /\ UNCHANGED shielded

Next == Finish \/ \E sig \in Signals : Receive(sig)

(* A workload that was told to drain ends. *)
DrainEnds == life = "draining" ~> life = "exited"

Spec == Init /\ [][Next]_vars /\ DrainEnds
=============================================================================
