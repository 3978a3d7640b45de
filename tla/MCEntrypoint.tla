---------------------------- MODULE MCEntrypoint ----------------------------
(* Small instances of Entrypoint for TLC. *)
EXTENDS Entrypoint

(* A workload that succeeds or fails on its own; sidecars that do the same,  *)
(* and whose failures can be told apart.                                     *)
MCAppStatuses == {0, 23}
MCSidecarStatuses == {0, 17, 18}
MCSignals == {"INT", "TERM"}

(* A workload that would succeed; sidecars that fail. *)
Success == {0}
Failure == {17}
=============================================================================
