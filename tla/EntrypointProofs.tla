-------------------------- MODULE EntrypointProofs --------------------------
(***************************************************************************)
(* What TLAPS proves about the supervisor for every set of statuses, every *)
(* set of signals and every number of them: its types, that success is     *)
(* never invented, that it cleans up, what it waits for and reports, and   *)
(* that it implements Container.                                           *)
(***************************************************************************)
EXTENDS Entrypoint, TLAPS

States == {"none", "opening", "running", "draining", "exited"}

(* Delivering a signal keeps the types, and never brings an exited process   *)
(* back nor changes its status.                                              *)
LEMMA DeliverLemma ==
    ASSUME TypeOK, NEW P \in SUBSET Procs, NEW sig, Deliver(P, sig)
    PROVE  /\ proc' \in [Procs -> States]
           /\ code' \in [Procs -> Status]
           /\ opened' = opened
           /\ \A p \in Procs : proc[p] = "exited" => proc'[p] = "exited" /\ code'[p] = code[p]
<1>1. PICK react \in [P -> States] :
          /\ \A p \in P : react[p] \in Reactions(p, sig)
          /\ proc' = [p \in Procs |-> IF p \in P THEN react[p] ELSE proc[p]]
          /\ code' = [p \in Procs |-> IF Alive(p) /\ p \in P /\ react[p] = "exited"
                                      THEN 128 + App!Number(sig) ELSE code[p]]
          /\ UNCHANGED opened
  BY DEF Deliver, States
<1>2. 128 + App!Number(sig) \in Status
  BY DEF App!Number, Status
<1>3. proc' \in [Procs -> States]
  BY <1>1 DEF TypeOK, States
<1>4. code' \in [Procs -> Status]
  BY <1>1, <1>2 DEF TypeOK
<1>5. ASSUME NEW p \in Procs, proc[p] = "exited"
      PROVE  proc'[p] = "exited" /\ code'[p] = code[p]
  <2>1. ~Alive(p)
    BY <1>5 DEF Alive
  <2>2. p \in P => react[p] = "exited"
    BY <1>1, <1>5 DEF Reactions, App!Reactions
  <2> QED
    BY <1>1, <1>5, <2>1, <2>2
<1> QED
  BY <1>1, <1>3, <1>4, <1>5

(* The EXIT trap: Deliver to $sidecar_pids, then the fields it assigns. *)
LEMMA ExitLemma ==
    ASSUME TypeOK, NEW st \in Status, Exit(st)
    PROVE  /\ pc' = "exited" /\ exitStatus' = st /\ runtimeDir' = FALSE
           /\ proc' \in [Procs -> States]
           /\ code' \in [Procs -> Status]
           /\ opened' = opened
           /\ \A p \in Procs : proc[p] = "exited" => proc'[p] = "exited" /\ code'[p] = code[p]
<1>1. sidecarPids \in SUBSET Procs
  BY DEF TypeOK, Procs
<1> QED
  BY <1>1, DeliverLemma DEF Exit

(* A fork that fails: Deliver to $sidecar_pids, and the shell is gone. *)
LEMMA ForkFailsLemma ==
    ASSUME TypeOK, ForkFails
    PROVE  /\ pc' = "exited" /\ exitStatus' = CannotFork /\ runtimeDir' \in BOOLEAN
           /\ proc' \in [Procs -> States]
           /\ code' \in [Procs -> Status]
           /\ opened' = opened
           /\ \A p \in Procs : proc[p] = "exited" => proc'[p] = "exited" /\ code'[p] = code[p]
<1>1. sidecarPids \in SUBSET Procs
  BY DEF TypeOK, Procs
<1>2. runtimeDir' \in BOOLEAN
  BY DEF ForkFails, TypeOK
<1> QED
  BY <1>1, <1>2, DeliverLemma DEF ForkFails

(* exec either hands the process to the workload or leaves through the trap. *)
LEMMA ExecLemma ==
    ASSUME TypeOK, Exec
    PROVE  /\ \/ pc' = "execed" /\ exitStatus' = exitStatus
              \/ pc' = "exited" /\ exitStatus' = 127
           /\ runtimeDir' \in BOOLEAN
           /\ proc' \in [Procs -> States]
           /\ code' \in [Procs -> Status]
           /\ opened' = opened
<1>1. CASE Exit(127)
  BY <1>1, ExitLemma DEF Status
<1>2. CASE /\ pc' = "execed"
           /\ proc' = [proc EXCEPT !["app"] = "running"]
           /\ UNCHANGED <<exitStatus, runtimeDir, code, opened>>
  BY <1>2 DEF TypeOK, States
<1> QED
  BY <1>1, <1>2 DEF Exec

(* The status a sidecar verdict selects is one of the statuses, and it is 0  *)
(* only when every sidecar of the mode has 0.                                *)
LEMMA SidecarVerdictLemma ==
    ASSUME NEW status \in [Sidecars -> Status]
    PROVE  /\ SidecarVerdict(status) \in Status
           /\ SidecarVerdict(status) = 0 => \A s \in Mine : status[s] = 0
<1> DEFINE failing == {s \in Mine : status[s] # 0}
<1>1. failing \subseteq Sidecars
  BY DEF Mine, Used, Sidecars
<1>2. CASE failing = {}
  BY <1>2 DEF SidecarVerdict, Status
<1>3. CASE failing # {}
  <2>1. \E s \in failing : InTurn(s, failing)
    BY <1>3 DEF InTurn
  <2>2. PICK s \in failing : SidecarVerdict(status) = status[s]
    BY <1>3, <2>1 DEF SidecarVerdict
  <2> QED
    BY <1>1, <2>2
<1> QED
  BY <1>2, <1>3

-----------------------------------------------------------------------------
(* TYPE CORRECTNESS *)

(* The initial states have the types. *)
LEMMA TypeInit == Init => TypeOK
<1> SUFFICES ASSUME Init PROVE TypeOK
  OBVIOUS
<1>1. config \in Configs
  BY DEF Init
<1>2. pc \in Labels /\ NoStatus \in Status /\ 0 \in 0..MaxSignals
  BY SignalAssumption DEF Init, Labels, NoStatus, Status
<1> QED
  BY <1>1, <1>2 DEF Init, TypeOK

(* What the shell keeps when it exits or execs. *)
Kept == UNCHANGED <<config, appPid, sidecarPids, appStatus, sidecarStatus, signalVars, lost>>

(* A shell step that leaves through the EXIT trap keeps the types. *)
LEMMA ExitStep == ASSUME TypeOK, NEW st \in Status, Exit(st), Kept PROVE TypeOK'
<1>1. /\ pc' \in Labels /\ exitStatus' \in Status /\ runtimeDir' \in BOOLEAN
      /\ proc' \in [Procs -> States] /\ code' \in [Procs -> Status] /\ opened' = opened
  BY ExitLemma DEF Labels
<1> QED
  BY <1>1 DEF Kept, TypeOK, States, signalVars

(* A shell step that execs the workload keeps the types. *)
LEMMA ExecStep == ASSUME TypeOK, Exec, Kept PROVE TypeOK'
<1>1. /\ pc' \in Labels /\ exitStatus' \in Status /\ runtimeDir' \in BOOLEAN
      /\ proc' \in [Procs -> States] /\ code' \in [Procs -> Status] /\ opened' = opened
  <2>1. exitStatus \in Status /\ 127 \in Status
    BY DEF TypeOK, Status
  <2> QED
    BY <2>1, ExecLemma DEF Labels
<1> QED
  BY <1>1 DEF Kept, TypeOK, States, signalVars

(* Every step of the shell, of another process or of the environment keeps   *)
(* the types.                                                                *)
LEMMA TypeStep == TypeOK /\ [Next]_vars => TypeOK'
<1> SUFFICES ASSUME TypeOK, [Next]_vars PROVE TypeOK'
  OBVIOUS
<1> USE SignalAssumption
<1>1. CASE Validate
  BY <1>1 DEF Validate, TypeOK, Labels, Status, procVars, signalVars
<1>2. CASE Dispatch
  <2>1. CASE Exec
    BY <1>2, <2>1, ExecStep DEF Dispatch, Kept
  <2>2. CASE pc' = "mktemp" /\ UNCHANGED <<exitStatus, runtimeDir, procVars>>
    BY <1>2, <2>2 DEF Dispatch, TypeOK, Labels, procVars, signalVars
  <2> QED
    BY <1>2, <2>1, <2>2 DEF Dispatch
<1>3. CASE Mktemp
  <2>1. ASSUME Exit(70) PROVE TypeOK'
    BY <1>3, <2>1, ExitStep DEF Mktemp, Kept, Status
  <2> QED
    BY <1>3, <2>1 DEF Mktemp, TypeOK, Labels, procVars, signalVars
<1>4. CASE Probe
  <2>1. ASSUME Exit(69) PROVE TypeOK'
    BY <1>4, <2>1, ExitStep DEF Probe, Kept, Status
  <2>2. ASSUME Exec PROVE TypeOK'
    BY <1>4, <2>2, ExecStep DEF Probe, Kept
  <2> QED
    BY <1>4, <2>1, <2>2 DEF Probe, TypeOK, Labels, procVars, signalVars
<1>5. CASE Mkfifo
  <2>1. ASSUME Exit(70) PROVE TypeOK'
    BY <1>5, <2>1, ExitStep DEF Mkfifo, Kept, Status
  <2> QED
    BY <1>5, <2>1 DEF Mkfifo, TypeOK, Labels, procVars, signalVars
<1>6. ASSUME NEW s \in Sidecars, Spawn(s) PROVE TypeOK'
  <2>1. Mine \subseteq Sidecars
    BY Zenon DEF Mine, Used, Sidecars
  <2> QED
    BY <1>6, <2>1 DEF Spawn, TypeOK, Labels, signalVars
<1>7. CASE Fork
  BY <1>7 DEF Fork, TypeOK, Labels, signalVars
<1>8. CASE SetPid
  BY <1>8 DEF SetPid, TypeOK, Labels, procVars, signalVars
<1>9. CASE WaitApp
  BY <1>9 DEF WaitApp, TypeOK, Labels, Procs, procVars, signalVars
<1>10. ASSUME NEW s \in Sidecars, WaitSidecar(s) PROVE TypeOK'
  BY <1>10 DEF WaitSidecar, Collect, TypeOK, Labels, Procs, procVars, signalVars
<1>11. CASE Finish
  <2>1. SidecarVerdict(sidecarStatus) \in Status
    BY SidecarVerdictLemma DEF TypeOK
  <2>2. Verdict(appStatus, SidecarVerdict(sidecarStatus)) \in Status
    BY <2>1 DEF Verdict, TypeOK, Status
  <2> QED
    BY <1>11, <2>2, ExitStep DEF Finish, Kept
<1>12. ASSUME NEW s \in Sidecars, OpenFifo(s) PROVE TypeOK'
  <2>1. opened' \subseteq Sidecars
    BY <1>12 DEF OpenFifo, TypeOK
  <2>2. proc' \in [Procs -> States]
    BY <1>12 DEF OpenFifo, TypeOK, States
  <2> QED
    BY <1>12, <2>1, <2>2 DEF OpenFifo, TypeOK, States, signalVars
<1>13. ASSUME NEW p \in Procs, NEW st \in Status, ProcExit(p, st) PROVE TypeOK'
  BY <1>13 DEF ProcExit, TypeOK, signalVars
<1>14. ASSUME NEW s \in Sidecars, SidecarExit(s) PROVE TypeOK'
  BY <1>13, <1>14, StatusAssumption DEF SidecarExit, Status, Procs
<1>15. CASE AppExit
  BY <1>13, <1>15, StatusAssumption DEF AppExit, Status, Procs
<1>16. CASE AppBrokenPipe
  BY <1>13, <1>16 DEF AppBrokenPipe, BrokenPipe, Status, Procs
<1>17. CASE ExecedExit
  BY <1>17 DEF ExecedExit, TypeOK, Labels, Procs, procVars, signalVars
<1>18. CASE ContainerStop
  BY <1>18 DEF ContainerStop, TypeOK, Labels, Killed, Status, signalVars
<1>19. ASSUME NEW sig \in Signals, Signal(sig) PROVE TypeOK'
  <2>1. /\ proc' \in [Procs -> States] /\ code' \in [Procs -> Status] /\ opened' = opened
    BY <1>19, DeliverLemma DEF Signal
  <2>2. 128 + App!Number(sig) \in Status
    BY DEF App!Number, Status
  <2>3. sent' \in 0..MaxSignals /\ early' \in BOOLEAN /\ stopping' \in BOOLEAN
    BY <1>19 DEF Signal, TypeOK
  <2>4. /\ pc' \in Labels /\ appStatus' \in Status /\ exitStatus' \in Status
        /\ appPid' \in BOOLEAN /\ sidecarStatus' \in [Sidecars -> Status]
        /\ sidecarPids' \subseteq Sidecars
    BY <1>19, <2>2 DEF Signal, Collect, TypeOK, Labels
  <2> QED
    BY <1>19, <2>1, <2>3, <2>4 DEF Signal, TypeOK, States
<1>20. CASE ForkFails
  <2>1. /\ pc' \in Labels /\ exitStatus' \in Status /\ runtimeDir' \in BOOLEAN
        /\ proc' \in [Procs -> States] /\ code' \in [Procs -> Status] /\ opened' = opened
    BY <1>20, ForkFailsLemma DEF Labels, CannotFork, Status
  <2>2. Kept
    BY <1>20 DEF ForkFails, Kept
  <2> QED
    BY <2>1, <2>2 DEF Kept, TypeOK, States, signalVars
<1>21. CASE UNCHANGED vars
  BY <1>21 DEF TypeOK, vars, procVars, signalVars
<1> QED
  BY <1>1, <1>2, <1>3, <1>4, <1>5, <1>6, <1>7, <1>8, <1>9, <1>10, <1>11, <1>12, <1>14,
     <1>15, <1>16, <1>17, <1>18, <1>19, <1>20, <1>21
  DEF Next, ShellStep

(* Type correctness of the supervisor. *)
THEOREM TypeCorrect == Spec => []TypeOK
  BY TypeInit, TypeStep, PTL DEF Spec

-----------------------------------------------------------------------------
(* SUCCESS IS NEVER INVENTED *)

Exited(p) == proc[p] = "exited" /\ code[p] = 0

(* ZeroMeansSuccess is not inductive: it says nothing of a shell that is     *)
(* still waiting.  What makes it so is that a collected 0 is the status of a *)
(* process that exited with 0, that nothing is collected before the waits,   *)
(* and that exec happens only where no sidecar is required.                  *)
SuccessInv ==
    /\ pc \notin {"waitside", "finish", "exited", "stopped"} => appStatus = NoStatus
    /\ appStatus = 0 => Exited("app")
    /\ \A s \in Sidecars : sidecarStatus[s] = 0 => Exited(s)
    /\ pc = "execed" => Mine = {} \/ config.fail # "closed"
    /\ ZeroMeansSuccess

(* A step that leaves every exited process as it is, keeps what was collected *)
(* and does not take the container down keeps the invariant.                 *)
LEMMA SteadyLemma ==
    ASSUME TypeOK, SuccessInv,
           \A p \in Procs : Exited(p) => Exited(p)',
           pc' = pc, UNCHANGED <<config, appStatus, sidecarStatus, exitStatus>>
    PROVE  SuccessInv'
<1>1. Mine' = Mine /\ Mine \subseteq Sidecars /\ Sidecars \subseteq Procs /\ "app" \in Procs
  BY Zenon DEF Mine, Used, Sidecars, Procs
<1> QED
  BY <1>1 DEF SuccessInv, ZeroMeansSuccess, Down, Exited

(* A shell that exits with a status other than 0 keeps the invariant. *)
LEMMA FailureLemma ==
    ASSUME TypeOK, SuccessInv, NEW st \in Status \ {0}, Exit(st), Kept
    PROVE  SuccessInv'
<1>1. /\ pc' = "exited" /\ exitStatus' = st
      /\ \A p \in Procs : Exited(p) => Exited(p)'
  BY ExitLemma DEF Exited
<1> QED
  BY <1>1 DEF Kept, SuccessInv, ZeroMeansSuccess, Procs, Sidecars

(* A shell step that execs the workload keeps SuccessInv. *)
LEMMA ExecSuccessLemma ==
    ASSUME TypeOK, SuccessInv, Exec, Kept, pc \in {"dispatch", "probe"},
           Mine = {} \/ config.fail # "closed"
    PROVE  SuccessInv'
<1>1. CASE Exit(127)
  BY <1>1, FailureLemma DEF Status
<1>2. CASE pc' = "execed" /\ proc' = [proc EXCEPT !["app"] = "running"] /\ code' = code
  <2>1. \A s \in Sidecars : Exited(s) => Exited(s)'
    BY <1>2 DEF Exited, TypeOK, Sidecars
  <2>2. Mine' = Mine /\ appStatus' = NoStatus /\ NoStatus # 0
    BY DEF Kept, Mine, SuccessInv, NoStatus
  <2> QED
    BY <1>2, <2>1, <2>2 DEF Kept, SuccessInv, ZeroMeansSuccess, Down
<1> QED
  BY <1>1, <1>2 DEF Exec

(* SuccessInv holds initially. *)
LEMMA SuccessInit == Init => SuccessInv
<1> SUFFICES ASSUME Init PROVE SuccessInv
  OBVIOUS
<1>1. pc = "validate" /\ appStatus = NoStatus /\ NoStatus # 0
  BY DEF Init, NoStatus
<1>2. \A s \in Sidecars : sidecarStatus[s] # 0
  BY DEF Init, NoStatus
<1> QED
  BY <1>1, <1>2 DEF SuccessInv, ZeroMeansSuccess, Down

(* Every step keeps SuccessInv. *)
LEMMA SuccessStep == TypeOK /\ SuccessInv /\ [Next]_vars => SuccessInv'
<1> SUFFICES ASSUME TypeOK, SuccessInv, [Next]_vars PROVE SuccessInv'
  OBVIOUS
<1> USE DEF procVars, signalVars
<1>0. "app" \in Procs /\ Sidecars \subseteq Procs /\ Mine \subseteq Sidecars
  BY Zenon DEF Procs, Mine, Used, Sidecars
<1>1. CASE Validate
  BY <1>1 DEF Validate, SuccessInv, ZeroMeansSuccess, Down, Exited, NoStatus
<1>2. CASE Dispatch
  <2>1. CASE config.mode = "off" /\ Exec
    <3>1. Mine = {}
      BY <2>1, Zenon DEF Mine, Used
    <3> QED
      BY <1>2, <2>1, <3>1, ExecSuccessLemma DEF Dispatch, Kept
  <2>2. CASE pc' = "mktemp" /\ UNCHANGED <<exitStatus, runtimeDir, procVars>>
    BY <1>2, <2>2 DEF Dispatch, SuccessInv, ZeroMeansSuccess, Down, Exited
  <2> QED
    BY <1>2, <2>1, <2>2 DEF Dispatch
<1>3. CASE Mktemp
  <2>1. CASE Exit(70)
    BY <1>3, <2>1, FailureLemma DEF Mktemp, Kept, Status
  <2>2. CASE pc' = "probe" /\ UNCHANGED <<exitStatus, procVars>>
    BY <1>3, <2>2 DEF Mktemp, SuccessInv, ZeroMeansSuccess, Down, Exited
  <2> QED
    BY <1>3, <2>1, <2>2 DEF Mktemp
<1>4. CASE Probe
  <2>1. CASE Exit(69)
    BY <1>4, <2>1, FailureLemma DEF Probe, Kept, Status
  <2>2. CASE config.fail # "closed" /\ Exec
    BY <1>4, <2>2, ExecSuccessLemma DEF Probe, Kept
  <2>3. CASE pc' = "mkfifo" /\ UNCHANGED <<exitStatus, runtimeDir, procVars>>
    BY <1>4, <2>3 DEF Probe, SuccessInv, ZeroMeansSuccess, Down, Exited
  <2> QED
    BY <1>4, <2>1, <2>2, <2>3 DEF Probe
<1>5. CASE Mkfifo
  <2>1. CASE Exit(70)
    BY <1>5, <2>1, FailureLemma DEF Mkfifo, Kept, Status
  <2>2. CASE pc' = "spawn" /\ UNCHANGED <<exitStatus, runtimeDir, procVars>>
    BY <1>5, <2>2 DEF Mkfifo, SuccessInv, ZeroMeansSuccess, Down, Exited
  <2> QED
    BY <1>5, <2>1, <2>2 DEF Mkfifo
<1>6. ASSUME NEW s \in Sidecars, Spawn(s) PROVE SuccessInv'
  <2>1. proc[s] = "none" /\ pc' \in {"spawn", "fork"}
    BY <1>6 DEF Spawn, InTurn
  <2>2. \A p \in Procs : Exited(p) => Exited(p)'
    BY <1>6, <2>1 DEF Spawn, Exited, TypeOK
  <2> QED
    BY <1>0, <1>6, <2>1, <2>2 DEF Spawn, SuccessInv, ZeroMeansSuccess, Down
<1>7. CASE Fork
  <2>1. \A s \in Sidecars : Exited(s) => Exited(s)'
    BY <1>7 DEF Fork, Exited, TypeOK, Sidecars
  <2> QED
    BY <1>7, <2>1 DEF Fork, SuccessInv, ZeroMeansSuccess, Down, NoStatus
<1>8. CASE SetPid
  BY <1>8 DEF SetPid, SuccessInv, ZeroMeansSuccess, Down, Exited
<1>9. CASE WaitApp
  BY <1>9 DEF WaitApp, SuccessInv, ZeroMeansSuccess, Down, Exited
<1>10. ASSUME NEW s \in Sidecars, WaitSidecar(s) PROVE SuccessInv'
  <2>1. pc' \in {"waitside", "finish"}
    BY <1>10 DEF WaitSidecar, Collect
  <2>2. \A t \in Sidecars : sidecarStatus'[t] = 0 => Exited(t)'
    BY <1>10 DEF WaitSidecar, Collect, TypeOK, SuccessInv, Exited
  <2> QED
    BY <1>10, <2>1, <2>2 DEF WaitSidecar, SuccessInv, ZeroMeansSuccess, Down, Exited
<1>11. CASE Finish
  <2> DEFINE st == Verdict(appStatus, SidecarVerdict(sidecarStatus))
  <2>1. SidecarVerdict(sidecarStatus) \in Status
        /\ (SidecarVerdict(sidecarStatus) = 0 => \A s \in Mine : sidecarStatus[s] = 0)
    BY SidecarVerdictLemma DEF TypeOK
  <2>2. st \in Status
    BY <2>1 DEF Verdict, TypeOK, Status
  <2>3. CASE st # 0
    BY <1>11, <2>2, <2>3, FailureLemma DEF Finish, Kept
  <2>4. CASE st = 0
    <3>1. /\ Exited("app")
          /\ config.fail = "closed" => \A s \in Mine : Exited(s)
      BY <1>0, <2>1, <2>4 DEF Verdict, SuccessInv
    <3>2. pc' = "exited" /\ \A p \in Procs : Exited(p) => Exited(p)'
      BY <1>11, <2>2, ExitLemma DEF Finish, Exited
    <3>3. UNCHANGED <<config, appStatus, sidecarStatus>> /\ Mine' = Mine
      BY <1>11 DEF Finish, Mine
    <3> QED
      BY <1>0, <3>1, <3>2, <3>3 DEF SuccessInv, ZeroMeansSuccess, Exited
  <2> QED
    BY <2>3, <2>4
<1>12. ASSUME NEW s \in Sidecars, OpenFifo(s) PROVE SuccessInv'
  <2>1. \A p \in Procs : Exited(p) => Exited(p)'
    BY <1>12 DEF OpenFifo, Exited, TypeOK
  <2> QED
    BY <1>12, <2>1, SteadyLemma DEF OpenFifo
<1>13. ASSUME NEW p \in Procs, NEW st, ProcExit(p, st) PROVE SuccessInv'
  <2>1. \A q \in Procs : Exited(q) => Exited(q)'
    BY <1>13 DEF ProcExit, Exited, TypeOK
  <2> QED
    BY <1>13, <2>1, SteadyLemma DEF ProcExit
<1>14. ASSUME NEW s \in Sidecars, SidecarExit(s) PROVE SuccessInv'
  BY <1>0, <1>13, <1>14 DEF SidecarExit
<1>15. CASE AppExit
  BY <1>0, <1>13, <1>15 DEF AppExit
<1>16. CASE AppBrokenPipe
  BY <1>0, <1>13, <1>16 DEF AppBrokenPipe
<1>17. CASE ExecedExit
  <2>1. Mine' = Mine /\ (Mine = {} \/ config.fail # "closed")
    BY <1>17 DEF ExecedExit, Mine, SuccessInv
  <2> QED
    BY <1>17, <2>1 DEF ExecedExit, SuccessInv, ZeroMeansSuccess, Exited
<1>18. CASE ContainerStop
  <2>1. \A p \in Procs : Exited(p) => Exited(p)'
    BY <1>18 DEF ContainerStop, Exited, Alive
  <2>2. Mine' = Mine
    BY <1>18 DEF ContainerStop, Mine
  <2> QED
    BY <1>0, <1>18, <2>1, <2>2
    DEF ContainerStop, SuccessInv, ZeroMeansSuccess, Down, Exited
<1>19. ASSUME NEW sig \in Signals, Signal(sig) PROVE SuccessInv'
  <2>1. \A p \in Procs : Exited(p) => Exited(p)'
    BY <1>19, DeliverLemma DEF Signal, Exited
  <2>2. 128 + App!Number(sig) # 0 /\ 128 + App!Number(sig) # NoStatus
    BY DEF App!Number, NoStatus
  <2>3. CASE pc = "validate"
    BY <1>0, <1>19, <2>1, <2>2, <2>3 DEF Signal, SuccessInv, ZeroMeansSuccess, Down
  <2>4. CASE pc = "waitapp"
    BY <1>0, <1>19, <2>1, <2>2, <2>4 DEF Signal, SuccessInv, ZeroMeansSuccess, Down
  <2>5. CASE pc = "waitside"
    <3>1. pc' \in {"waitside", "finish"} /\ appStatus' = appStatus
      BY <1>19, <2>5 DEF Signal, Collect
    <3>2. \A s \in Sidecars : sidecarStatus'[s] = 0 => sidecarStatus[s] = 0
      BY <1>19, <2>2, <2>5 DEF Signal, Collect, TypeOK
    <3> QED
      BY <1>0, <2>1, <3>1, <3>2 DEF SuccessInv, ZeroMeansSuccess, Down
  <2>6. CASE pc \notin {"validate", "waitapp", "waitside"}
    BY <1>19, <2>1, <2>6, SteadyLemma DEF Signal
  <2> QED
    BY <2>3, <2>4, <2>5, <2>6
<1>20. CASE ForkFails
  <2>1. pc' = "exited" /\ exitStatus' # 0 /\ \A p \in Procs : Exited(p) => Exited(p)'
    BY <1>20, ForkFailsLemma DEF Exited, CannotFork
  <2> QED
    BY <1>0, <1>20, <2>1 DEF ForkFails, SuccessInv, ZeroMeansSuccess
<1>21. CASE UNCHANGED vars
  BY <1>21, SteadyLemma DEF vars, Exited
<1> QED
  BY <1>1, <1>2, <1>3, <1>4, <1>5, <1>6, <1>7, <1>8, <1>9, <1>10, <1>11, <1>12, <1>14,
     <1>15, <1>16, <1>17, <1>18, <1>19, <1>20, <1>21
  DEF Next, ShellStep

(* The container never reports success for a workload that did not succeed,  *)
(* nor, under the closed policy, over a sidecar that failed.                 *)
THEOREM SuccessIsEarned == Spec => []ZeroMeansSuccess
<1>1. Init => TypeOK /\ SuccessInv
  BY TypeInit, SuccessInit
<1>2. TypeOK /\ SuccessInv /\ [Next]_vars => (TypeOK /\ SuccessInv)'
  BY TypeStep, SuccessStep
<1>3. TypeOK /\ SuccessInv => ZeroMeansSuccess
  BY DEF SuccessInv
<1> QED
  BY <1>1, <1>2, <1>3, PTL DEF Spec

-----------------------------------------------------------------------------
(* WHAT EXISTS, WHAT WAS COLLECTED, WHAT IS LEFT BEHIND *)

Interruptions == {128 + App!Number(sig) : sig \in Signals}
Before == {"validate", "dispatch", "mktemp", "probe", "mkfifo", "spawn", "fork"}
Within == {"setpid", "waitapp", "waitside", "finish", "execed"}

(* The workload exists from the fork or the exec on, and who exited has a    *)
(* status.                                                                   *)
Existence ==
    /\ pc \in Before => proc["app"] = "none"
    /\ pc \in Within => proc["app"] # "none"
    /\ \A p \in Procs : proc[p] = "exited" => code[p] \in 0..255

(* What the waits returned: the workload's own status, or that of a signal;  *)
(* after the last wait there is one for every sidecar.                       *)
Collected ==
    /\ pc \in {"waitside", "finish"} =>
          \/ proc["app"] = "exited" /\ appStatus = code["app"]
          \/ sent > 0 /\ appStatus \in Interruptions
    /\ pc = "finish" => \A s \in Mine : sidecarStatus[s] # NoStatus

(* $sidecar_pids is empty wherever the shell may exit, and the directory is  *)
(* left behind only through exec; unless the workload could not be forked.   *)
Stillborn == exitStatus = CannotFork /\ proc["app"] = "none"
Tidy ==
    /\ pc \notin {"fork", "setpid", "waitapp", "waitside"} =>
          sidecarPids = {} \/ (pc \in {"exited", "stopped"} /\ Stillborn)
    /\ pc \in {"validate", "dispatch", "mktemp"} => ~runtimeDir
    /\ pc \notin {"validate", "exited", "stopped"} => config.fail # "bad"
    /\ pc \in {"execed", "exited", "stopped"} /\ runtimeDir =>
          \/ config.fail = "open" /\ ~(Mine \subseteq config.installed)
          \/ pc # "execed" /\ Stillborn

IInv == TypeOK /\ SuccessInv /\ Existence /\ Collected /\ Tidy

-----------------------------------------------------------------------------
LEMMA NamesLemma == "app" \in Procs /\ Sidecars \subseteq Procs /\ "app" \notin Sidecars
                    /\ Mine \subseteq Sidecars
BY Zenon DEF Procs, Mine, Used, Sidecars

(* A signal's number names it, and gives a status.                           *)
LEMMA NumberLemma ==
    ASSUME NEW sig
    PROVE  128 + App!Number(sig) \in 1..255 /\ 128 + App!Number(sig) # NoStatus
BY DEF App!Number, NoStatus

(* Whoever a signal ends has a status then; only the processes it reaches    *)
(* are disturbed, and one that does not exist is not.                        *)
LEMMA ReachLemma ==
    ASSUME TypeOK, Existence, NEW P \in SUBSET Procs, NEW sig, Deliver(P, sig)
    PROVE  /\ \A p \in Procs : proc'[p] = "exited" => code'[p] \in 0..255
           /\ "app" \notin P => proc'["app"] = proc["app"] /\ code'["app"] = code["app"]
           /\ proc'["app"] = "none" <=> proc["app"] = "none"
           /\ proc["app"] = "exited" => proc'["app"] = "exited" /\ code'["app"] = code["app"]
           /\ proc'["app"] # "exited" => code'["app"] = code["app"]
<1>1. PICK react \in [P -> States] :
          /\ \A p \in P : react[p] \in Reactions(p, sig)
          /\ proc' = [p \in Procs |-> IF p \in P THEN react[p] ELSE proc[p]]
          /\ code' = [p \in Procs |-> IF Alive(p) /\ p \in P /\ react[p] = "exited"
                                      THEN 128 + App!Number(sig) ELSE code[p]]
  BY DEF Deliver, States
<1>2. 128 + App!Number(sig) \in 0..255
  BY NumberLemma
<1>3. ASSUME NEW p \in P
      PROVE  /\ react[p] = "none" <=> proc[p] = "none"
             /\ proc[p] = "exited" => react[p] = "exited"
             /\ react[p] = "exited" => proc[p] # "none"
  <2>1. react[p] \in App!Reactions(proc[p], sig = "INT" /\ pc # "execed")
    BY <1>1, <1>3 DEF Reactions
  <2>2. proc[p] \in States
    BY <1>3 DEF TypeOK, States
  <2> QED
    BY <2>1, <2>2 DEF App!Reactions, States
<1>4. ASSUME NEW p \in Procs, proc'[p] = "exited"
      PROVE  code'[p] \in 0..255
  <2>1. CASE Alive(p)
    BY <1>1, <1>2, <1>4, <2>1 DEF Alive
  <2>2. CASE ~Alive(p)
    <3>1. proc[p] = "exited"
      BY <1>1, <1>3, <1>4, <2>2 DEF Alive, TypeOK
    <3> QED
      BY <1>1, <2>2, <3>1 DEF Existence
  <2> QED
    BY <2>1, <2>2
<1>5. "app" \in Procs
  BY NamesLemma
<1> QED
  BY <1>1, <1>3, <1>4, <1>5 DEF Alive

(* The shell leaves through its trap: the workload is as it was, and whoever *)
(* exited has a status.                                                      *)
LEMMA LeaveLemma ==
    ASSUME TypeOK, Existence, NEW st, Exit(st)
    PROVE  /\ pc' = "exited" /\ exitStatus' = st /\ ~runtimeDir'
           /\ proc'["app"] = proc["app"] /\ code'["app"] = code["app"]
           /\ \A p \in Procs : proc'[p] = "exited" => code'[p] \in 0..255
<1>1. sidecarPids \in SUBSET Procs /\ "app" \notin sidecarPids
  BY NamesLemma DEF TypeOK
<1> QED
  BY <1>1, ReachLemma DEF Exit

(* A shell that cannot fork leaves no workload. *)
LEMMA StillbornLemma ==
    ASSUME TypeOK, Existence, ForkFails
    PROVE  /\ pc' = "exited" /\ Stillborn' /\ proc["app"] = "none" /\ code'["app"] = code["app"]
           /\ \A p \in Procs : proc'[p] = "exited" => code'[p] \in 0..255
<1>1. sidecarPids \in SUBSET Procs /\ "app" \notin sidecarPids
  BY NamesLemma DEF TypeOK
<1>2. proc["app"] = "none"
  BY DEF ForkFails, Existence, Before
<1> QED
  BY <1>1, <1>2, ReachLemma DEF ForkFails, Stillborn

(* exec starts the workload, or leaves like a refusal. *)
LEMMA StartLemma ==
    ASSUME TypeOK, Existence, Exec
    PROVE  \/ /\ pc' = "execed" /\ UNCHANGED <<exitStatus, runtimeDir, code>>
              /\ proc' = [proc EXCEPT !["app"] = "running"]
           \/ Exit(127)
BY DEF Exec

-----------------------------------------------------------------------------
(* THE INVARIANT *)

LEMMA InvInit == Init => Existence /\ Collected /\ Tidy
<1> SUFFICES ASSUME Init PROVE Existence /\ Collected /\ Tidy
  OBVIOUS
<1> QED
  BY NamesLemma DEF Init, Existence, Collected, Tidy, Before, Within

(* A step that neither moves the shell nor disturbs what it holds. *)
LEMMA AsideLemma ==
    ASSUME IInv, pc' = pc,
           UNCHANGED <<config, appStatus, sidecarStatus, sidecarPids, runtimeDir, exitStatus>>,
           sent > 0 => sent' > 0,
           proc'["app"] = "none" <=> proc["app"] = "none",
           proc["app"] = "exited" => proc'["app"] = "exited" /\ code'["app"] = code["app"],
           \A p \in Procs : proc'[p] = "exited" => code'[p] \in 0..255
    PROVE  Existence' /\ Collected' /\ Tidy'
<1>1. Mine' = Mine /\ Interruptions' = Interruptions
  BY DEF Mine, Interruptions, App!Number
<1>2. Existence'
  BY DEF IInv, Existence
<1>3. Collected'
  BY <1>1 DEF IInv, Collected
<1>4. Tidy'
  BY <1>1 DEF IInv, Tidy, Down, Stillborn
<1> QED
  BY <1>2, <1>3, <1>4

(* The shell refuses to start the workload, or reports a verdict. *)
LEMMA LeaveStep ==
    ASSUME IInv, NEW st, Exit(st), Kept, pc \in {"dispatch", "mktemp", "probe", "mkfifo", "finish"}
    PROVE  Existence' /\ Collected' /\ Tidy'
<1>1. /\ pc' = "exited" /\ ~runtimeDir'
      /\ \A p \in Procs : proc'[p] = "exited" => code'[p] \in 0..255
  BY LeaveLemma DEF IInv
<1>2. sidecarPids' = {}
  BY DEF Kept, IInv, Tidy
<1> QED
  BY <1>1, <1>2 DEF Existence, Collected, Tidy, Before, Within

LEMMA StartStep ==
    ASSUME IInv, Exec, Kept, pc \in {"dispatch", "probe"},
           runtimeDir => config.fail = "open" /\ ~(Mine \subseteq config.installed)
    PROVE  Existence' /\ Collected' /\ Tidy'
<1>1. CASE Exit(127)
  BY <1>1, LeaveStep
<1>2. CASE pc' = "execed" /\ UNCHANGED <<exitStatus, runtimeDir, code>>
           /\ proc' = [proc EXCEPT !["app"] = "running"]
  <2>1. Existence'
    BY <1>2, NamesLemma DEF IInv, TypeOK, Existence, Before
  <2>2. Mine' = Mine
    BY DEF Kept, Mine
  <2>3. Collected' /\ Tidy'
    BY <1>2, <2>2 DEF Kept, IInv, Collected, Tidy
  <2> QED
    BY <2>1, <2>3
<1> QED
  BY <1>1, <1>2, StartLemma DEF IInv

LEMMA InvStep == IInv /\ [Next]_vars => Existence' /\ Collected' /\ Tidy'
<1> SUFFICES ASSUME IInv, [Next]_vars PROVE Existence' /\ Collected' /\ Tidy'
  OBVIOUS
<1> USE DEF procVars, signalVars
<1>0. sent \in Nat
  BY SignalAssumption DEF IInv, TypeOK
<1>1. CASE Validate
  BY <1>1 DEF Validate, IInv, Existence, Collected, Tidy, Before, Within
<1>2. CASE Dispatch
  <2>1. CASE Exec
    BY <1>2, <2>1, StartStep DEF Dispatch, Kept, IInv, Tidy
  <2>2. CASE pc' = "mktemp" /\ UNCHANGED <<exitStatus, runtimeDir, procVars>>
    BY <1>2, <2>2 DEF Dispatch, IInv, Existence, Collected, Tidy, Before, Within
  <2> QED
    BY <1>2, <2>1, <2>2 DEF Dispatch
<1>3. CASE Mktemp
  <2>1. CASE Exit(70)
    BY <1>3, <2>1, LeaveStep DEF Mktemp, Kept
  <2>2. CASE pc' = "probe" /\ UNCHANGED <<exitStatus, procVars>>
    BY <1>3, <2>2 DEF Mktemp, IInv, Existence, Collected, Tidy, Before, Within
  <2> QED
    BY <1>3, <2>1, <2>2 DEF Mktemp
<1>4. CASE Probe
  <2>1. CASE Exit(69)
    BY <1>4, <2>1, LeaveStep DEF Probe, Kept
  <2>2. CASE ~(Mine \subseteq config.installed) /\ config.fail # "closed" /\ Exec
    <3>1. config.fail \in {"open", "closed", "bad"}
      BY DEF IInv, TypeOK, Configs
    <3>2. config.fail = "open"
      BY <1>4, <2>2, <3>1 DEF Probe, IInv, Tidy
    <3> QED
      BY <1>4, <2>2, <3>2, StartStep DEF Probe, Kept
  <2>3. CASE pc' = "mkfifo" /\ UNCHANGED <<exitStatus, runtimeDir, procVars>>
    BY <1>4, <2>3 DEF Probe, IInv, Existence, Collected, Tidy, Before, Within
  <2> QED
    BY <1>4, <2>1, <2>2, <2>3 DEF Probe
<1>5. CASE Mkfifo
  <2>1. CASE Exit(70)
    BY <1>5, <2>1, LeaveStep DEF Mkfifo, Kept
  <2>2. CASE pc' = "spawn" /\ UNCHANGED <<exitStatus, runtimeDir, procVars>>
    BY <1>5, <2>2 DEF Mkfifo, IInv, Existence, Collected, Tidy, Before, Within
  <2> QED
    BY <1>5, <2>1, <2>2 DEF Mkfifo
<1>6. ASSUME NEW s \in Sidecars, Spawn(s) PROVE Existence' /\ Collected' /\ Tidy'
  <2>1. proc' = [proc EXCEPT ![s] = "opening"] /\ code' = code
    BY <1>6 DEF Spawn
  <2>2. \/ pc' = "fork"
        \/ pc' = "spawn" /\ sidecarPids' = sidecarPids
    BY <1>6 DEF Spawn
  <2>3. Existence'
    BY <1>6, <2>1, <2>2, NamesLemma DEF Spawn, IInv, TypeOK, Existence, Before, Within
  <2>4. Collected' /\ Tidy'
    BY <1>6, <2>2 DEF Spawn, IInv, Collected, Tidy
  <2> QED
    BY <2>3, <2>4
<1>7. CASE Fork
  <2>1. Existence'
    BY <1>7, NamesLemma DEF Fork, IInv, TypeOK, Existence, Before, Within
  <2> QED
    BY <1>7, <2>1 DEF Fork, IInv, Collected, Tidy
<1>8. CASE SetPid
  BY <1>8 DEF SetPid, IInv, Existence, Collected, Tidy, Before, Within
<1>9. CASE WaitApp
  BY <1>9 DEF WaitApp, IInv, Existence, Collected, Tidy, Before, Within
<1>10. ASSUME NEW s \in Sidecars, WaitSidecar(s) PROVE Existence' /\ Collected' /\ Tidy'
  <2>1. code[s] # NoStatus
    BY <1>10, NamesLemma DEF WaitSidecar, IInv, Existence, NoStatus
  <2>2. Mine' = Mine /\ Interruptions' = Interruptions
    BY <1>10 DEF WaitSidecar, Mine, Interruptions, App!Number
  <2>3. Existence'
    BY <1>10 DEF WaitSidecar, Collect, IInv, Existence, Before, Within
  <2>4. Collected'
    <3>1. pc' = "finish" => \A t \in Mine : sidecarStatus'[t] # NoStatus
      BY <1>10, <2>1, NamesLemma DEF WaitSidecar, Collect, IInv, TypeOK
    <3> QED
      BY <1>10, <2>2, <3>1 DEF WaitSidecar, IInv, Collected
  <2>5. Tidy'
    BY <1>10 DEF WaitSidecar, Collect, IInv, Tidy
  <2> QED
    BY <2>3, <2>4, <2>5
<1>11. CASE Finish
  BY <1>11, LeaveStep DEF Finish, Kept
<1>12. ASSUME NEW s \in Sidecars, OpenFifo(s) PROVE Existence' /\ Collected' /\ Tidy'
  <2>1. proc'["app"] \in {"opening", "running"} /\ proc["app"] = "opening"
    BY <1>12, NamesLemma DEF OpenFifo, IInv, TypeOK
  <2>2. \A p \in Procs : proc'[p] = "exited" => code'[p] \in 0..255
    BY <1>12 DEF OpenFifo, IInv, TypeOK, Existence
  <2>3. pc' = pc /\ UNCHANGED <<config, appStatus, sidecarStatus, exitStatus, sidecarPids,
                                  runtimeDir, sent>>
    BY <1>12 DEF OpenFifo
  <2>4. proc["app"] # "exited" /\ (proc'["app"] = "none" <=> proc["app"] = "none")
    BY <2>1
  <2> QED
    BY <2>2, <2>3, <2>4, AsideLemma
<1>13. ASSUME NEW p \in Procs, NEW st \in 0..255, ProcExit(p, st)
       PROVE  Existence' /\ Collected' /\ Tidy'
  <2>1. /\ proc'["app"] = "none" <=> proc["app"] = "none"
        /\ proc["app"] = "exited" => proc'["app"] = "exited" /\ code'["app"] = code["app"]
        /\ \A q \in Procs : proc'[q] = "exited" => code'[q] \in 0..255
    BY <1>13, NamesLemma DEF ProcExit, IInv, TypeOK, Existence
  <2> QED
    BY <1>0, <1>13, <2>1, AsideLemma DEF ProcExit
<1>14. ASSUME NEW s \in Sidecars, SidecarExit(s) PROVE Existence' /\ Collected' /\ Tidy'
  BY <1>13, <1>14, NamesLemma, StatusAssumption DEF SidecarExit
<1>15. CASE AppExit \/ AppBrokenPipe
  BY <1>13, <1>15, NamesLemma, StatusAssumption DEF AppExit, AppBrokenPipe, BrokenPipe
<1>17. CASE ExecedExit
  BY <1>17 DEF ExecedExit, Mine, IInv, Existence, Collected, Tidy, Before, Within
<1>18. CASE ContainerStop
  <2>1. \A p \in Procs : proc'[p] = "exited" => code'[p] \in 0..255
    BY <1>18 DEF ContainerStop, Killed, IInv, TypeOK, Existence
  <2>2. Mine' = Mine
    BY <1>18 DEF ContainerStop, Mine
  <2> QED
    <3>1. Stillborn => Stillborn'
      BY <1>18, NamesLemma DEF ContainerStop, Stillborn, Alive
    <3> QED
      BY <1>18, <2>1, <2>2, <3>1 DEF ContainerStop, IInv, Existence, Collected, Tidy, Before, Within
<1>19. ASSUME NEW sig \in Signals, Signal(sig) PROVE Existence' /\ Collected' /\ Tidy'
  <2>0. /\ sent' = sent + 1 /\ sent' > 0 /\ UNCHANGED <<config, runtimeDir>>
        /\ Mine' = Mine /\ Interruptions' = Interruptions
    BY <1>0, <1>19 DEF Signal, Mine, Interruptions, App!Number
  <2>1. /\ \A p \in Procs : proc'[p] = "exited" => code'[p] \in 0..255
        /\ proc'["app"] = "none" <=> proc["app"] = "none"
        /\ proc["app"] = "exited" => proc'["app"] = "exited" /\ code'["app"] = code["app"]
    BY <1>19, ReachLemma DEF Signal, IInv
  <2>2. 128 + App!Number(sig) \in Interruptions /\ 128 + App!Number(sig) # NoStatus
    BY NumberLemma DEF Interruptions
  <2>3. CASE pc = "validate"
    BY <1>19, <2>0, <2>1, <2>3 DEF Signal, IInv, Existence, Collected, Tidy, Before, Within
  <2>4. CASE pc = "waitapp"
    BY <1>19, <2>0, <2>1, <2>2, <2>4 DEF Signal, IInv, Existence, Collected, Tidy, Before, Within
  <2>5. CASE pc = "waitside"
    <3>1. PICK s \in Mine : /\ InTurn(s, {t \in Mine : sidecarStatus[t] = NoStatus})
                            /\ Collect(s, 128 + App!Number(sig))
      BY <1>19, <2>5 DEF Signal
    <3>2. UNCHANGED <<exitStatus, appStatus, appPid>>
      BY <1>19, <2>5 DEF Signal
    <3>3. Existence'
      BY <2>1, <2>5, <3>1 DEF Collect, IInv, Existence, Before, Within
    <3>4. Collected'
      <4>1. pc' = "finish" => \A t \in Mine : sidecarStatus'[t] # NoStatus
        BY <2>2, <2>5, <3>1, NamesLemma DEF Collect, IInv, TypeOK
      <4>2. \/ proc'["app"] = "exited" /\ appStatus' = code'["app"]
            \/ appStatus' \in Interruptions
        BY <2>1, <2>5, <3>2 DEF IInv, Collected
      <4> QED
        BY <2>0, <4>1, <4>2 DEF Collected
    <3>5. Tidy'
      BY <2>0, <2>5, <3>1 DEF Collect, IInv, Tidy
    <3> QED
      BY <3>3, <3>4, <3>5
  <2>6. CASE pc \notin {"validate", "waitapp", "waitside"}
    BY <1>0, <1>19, <2>0, <2>1, <2>6, AsideLemma DEF Signal
  <2> QED
    BY <2>3, <2>4, <2>5, <2>6
<1>20. CASE ForkFails
  <2>1. pc' = "exited" /\ config' = config /\ Stillborn'
        /\ \A p \in Procs : proc'[p] = "exited" => code'[p] \in 0..255
    BY <1>20, StillbornLemma DEF ForkFails, IInv
  <2>2. config'.fail # "bad"
    BY <1>20, <2>1 DEF ForkFails, IInv, Tidy
  <2> QED
    BY <2>1, <2>2 DEF Existence, Collected, Tidy, Before, Within, Down
<1>21. CASE UNCHANGED vars
  BY <1>0, <1>21, AsideLemma DEF vars, IInv, Existence
<1> QED
  BY <1>1, <1>2, <1>3, <1>4, <1>5, <1>6, <1>7, <1>8, <1>9, <1>10, <1>11, <1>12, <1>14,
     <1>15, <1>17, <1>18, <1>19, <1>20, <1>21
  DEF Next, ShellStep

LEMMA Invariance == Spec => []IInv
<1>1. Init => IInv
  BY TypeInit, SuccessInit, InvInit DEF IInv
<1>2. IInv /\ [Next]_vars => IInv'
  BY TypeStep, SuccessStep, InvStep DEF IInv
<1> QED
  BY <1>1, <1>2, PTL DEF Spec
-----------------------------------------------------------------------------
(* THEOREMS *)

(* Every exit of the shell removes its directory; only an exec out of the    *)
(* probe under the open policy or a fork that fails leaves it behind         *)
(* (entrypoint.sh:48-60, 93).                                                *)
THEOREM ShellCleansUp == Spec => []ShellExitCleansUp
<1>1. IInv => ShellExitCleansUp
  BY DEF IInv, Tidy, Stillborn, ShellExitCleansUp, Down
<1> QED
  BY <1>1, Invariance, PTL

(* The kill loop of the EXIT trap has nothing to kill once the workload was  *)
(* forked, whichever path leads to it and whatever signals came before       *)
(* (entrypoint.sh:49-51, 109, 138).                                          *)
THEOREM CleanupIsHarmless == Spec => CleanupSparesReaders
<1>1. IInv /\ IInv' /\ [Next]_vars => [pc' = "exited" /\ proc["app"] # "none" => sidecarPids = {}]_vars
  <2> SUFFICES ASSUME IInv, Next, pc' = "exited", proc["app"] # "none" PROVE sidecarPids = {}
    OBVIOUS
  <2> SUFFICES ASSUME pc \in {"fork", "setpid", "waitapp", "waitside"} PROVE FALSE
    BY DEF IInv, Tidy, Stillborn
  <2>1. ~ForkFails
    BY DEF ForkFails, IInv, Existence, Before
  <2>2. pc' # "exited"
    BY <2>1
    DEF Next, ShellStep, Validate, Dispatch, Mktemp, Probe, Mkfifo, Spawn, Fork, SetPid,
        WaitApp, WaitSidecar, Collect, Finish, OpenFifo, SidecarExit, AppExit, AppBrokenPipe,
        ProcExit, ExecedExit, ContainerStop, Signal
  <2> QED
    BY <2>2
<1> QED
  BY <1>1, Invariance, PTL DEF Spec, CleanupSparesReaders

-----------------------------------------------------------------------------
(* REFINEMENT *)

Work(state) == CASE state = "none" -> "none" [] state = "exited" -> "ended" [] OTHER -> "alive"

(* A step that leaves the workload, the report and the signals alone. *)
LEMMA Stutter ==
    ASSUME Down' = Down, proc'["app"] = proc["app"], code'["app"] = code["app"],
           UNCHANGED <<sent, config, exitStatus>>
    PROVE  UNCHANGED Promise!vars
BY DEF Promise!vars

(* The shell exits on its own accord: a refusal, or a verdict. *)
LEMMA ReportRefines ==
    ASSUME IInv, NEW st, Exit(st), Kept, pc \in {"dispatch", "mktemp", "probe", "mkfifo", "finish"},
           \/ pc # "finish" /\ st \in {64, 69, 70, 127}
           \/ proc["app"] = "exited" /\ st = code["app"]
           \/ /\ proc["app"] = "exited" /\ code["app"] = 0
              /\ config.fail = "closed" /\ st \in 1..255
           \/ pc = "finish" /\ sent > 0 /\ st \in Interruptions
    PROVE  Promise!Next
<1>1. /\ pc' = "exited" /\ exitStatus' = st
      /\ proc'["app"] = proc["app"] /\ code'["app"] = code["app"]
  BY LeaveLemma DEF IInv
<1>2. UNCHANGED <<sent, config>>
  BY DEF Kept, signalVars
<1>3. pc = "finish" => proc["app"] # "none"
  BY DEF IInv, Existence, Within
<1>4. pc # "finish" => proc["app"] = "none"
  BY DEF IInv, Existence, Before
<1>5. Promise!Report
  BY <1>1, <1>2, <1>3, <1>4 DEF Promise!Report, Down, Interruptions
<1> QED
  BY <1>5 DEF Promise!Next

(* exec starts the workload in the shell's place, or refuses. *)
LEMMA ExecRefines ==
    ASSUME IInv, Exec, Kept, pc \in {"dispatch", "probe"}
    PROVE  Promise!Next
<1>1. CASE Exit(127)
  BY <1>1, ReportRefines
<1>2. CASE pc' = "execed" /\ UNCHANGED <<exitStatus, code>>
           /\ proc' = [proc EXCEPT !["app"] = "running"]
  <2>1. proc["app"] = "none" /\ proc'["app"] = "running"
    BY <1>2, NamesLemma DEF IInv, TypeOK, Existence, Before
  <2>2. Promise!Start
    BY <1>2, <2>1 DEF Promise!Start, Down, Kept, signalVars
  <2> QED
    BY <2>2 DEF Promise!Next
<1> QED
  BY <1>1, <1>2, StartLemma DEF IInv

(* A process exits: the workload's end, up or going down, or nothing. *)
LEMMA EndRefines ==
    ASSUME IInv, NEW p \in Procs, NEW st \in 0..255, ProcExit(p, st)
    PROVE  [Promise!Next]_(Promise!vars)
<1>1. UNCHANGED <<pc, sent, config, exitStatus>> /\ Down' = Down
  BY DEF ProcExit, signalVars, Down
<1>2. CASE p = "app"
  <2>1. /\ proc["app"] \in {"running", "draining"}
        /\ proc'["app"] = "exited" /\ code'["app"] = st
    BY <1>2, NamesLemma DEF ProcExit, IInv, TypeOK
  <2>2. Promise!End
    BY <2>1 DEF Promise!End
  <2>3. CASE Down
    BY <1>1, <2>2, <2>3 DEF Promise!Next, Promise!Kill
  <2>4. CASE ~Down
    BY <1>1, <2>2, <2>4 DEF Promise!Next
  <2> QED
    BY <2>3, <2>4
<1>3. CASE p # "app"
  <2>1. proc'["app"] = proc["app"] /\ code'["app"] = code["app"]
    BY <1>3, NamesLemma DEF ProcExit, IInv, TypeOK
  <2> QED
    BY <1>1, <2>1, Stutter
<1> QED
  BY <1>2, <1>3

(* The verdict after the last wait is one that Container allows. *)
LEMMA FinishRefines == ASSUME IInv, Finish PROVE Promise!Next
<1> DEFINE sidecar == SidecarVerdict(sidecarStatus)
           st == Verdict(appStatus, sidecar)
<1>1. Exit(st) /\ Kept /\ pc = "finish"
  BY DEF Finish, Kept
<1>2. sidecar \in 0..255
  <2> DEFINE failing == {s \in Mine : sidecarStatus[s] # 0}
  <2>1. \A s \in Mine : sidecarStatus[s] \in 0..255
    BY <1>1, NamesLemma DEF IInv, TypeOK, Status, Collected
  <2>2. CASE failing = {}
    BY <2>2 DEF SidecarVerdict
  <2>3. CASE failing # {}
    <3>1. \E s \in failing : InTurn(s, failing)
      BY <2>3 DEF InTurn
    <3>2. PICK s \in failing : sidecar = sidecarStatus[s]
      BY <2>3, <3>1 DEF SidecarVerdict
    <3> QED
      BY <2>1, <3>2
  <2> QED
    BY <2>2, <2>3
<1>3. \/ proc["app"] = "exited" /\ appStatus = code["app"]
      \/ sent > 0 /\ appStatus \in Interruptions
  BY <1>1 DEF IInv, Collected
<1>4. appStatus = 0 => proc["app"] = "exited" /\ code["app"] = 0
  BY DEF IInv, SuccessInv, Exited
<1> HIDE DEF sidecar
<1>5. CASE appStatus # 0
  <2>1. st = appStatus
    BY <1>5 DEF Verdict
  <2> QED
    BY <1>1, <1>3, <2>1, ReportRefines
<1>6. CASE appStatus = 0 /\ config.fail = "closed" /\ sidecar # 0
  <2>1. st = sidecar /\ st \in 1..255
    BY <1>2, <1>6 DEF Verdict
  <2> QED
    BY <1>1, <1>4, <1>6, <2>1, ReportRefines
<1>7. CASE appStatus = 0 /\ ~(config.fail = "closed" /\ sidecar # 0)
  <2>1. st = 0
    BY <1>7 DEF Verdict
  <2> QED
    BY <1>1, <1>4, <1>7, <2>1, ReportRefines
<1> QED
  BY <1>5, <1>6, <1>7

(* A signal may end the workload, and before the traps it ends the shell. *)
LEMMA SignalRefines == ASSUME IInv, NEW sig \in Signals, Signal(sig) PROVE Promise!Next
<1>1. /\ Deliver(Procs, sig) /\ pc \notin {"exited", "stopped"} /\ sent' > 0 /\ config' = config
  BY SignalAssumption DEF Signal, IInv, TypeOK
<1>2. /\ proc'["app"] = "none" <=> proc["app"] = "none"
      /\ proc["app"] = "exited" => proc'["app"] = "exited" /\ code'["app"] = code["app"]
      /\ proc'["app"] # "exited" => code'["app"] = code["app"]
      /\ proc'["app"] = "exited" => code'["app"] \in 0..255
  BY <1>1, NamesLemma, ReachLemma DEF IInv
<1>3. \/ Promise!End
      \/ code'["app"] = code["app"] /\ Work(proc'["app"]) = Work(proc["app"])
  BY <1>2 DEF Promise!End, Work
<1>4. \/ ~Down' /\ exitStatus' = exitStatus
      \/ pc = "validate" /\ Down' /\ exitStatus' \in Interruptions
  BY <1>1 DEF Signal, Collect, Down, Interruptions
<1>5. pc = "validate" => proc["app"] = "none"
  BY DEF IInv, Existence, Before
<1>6. Promise!Hear
  BY <1>1, <1>3, <1>4, <1>5 DEF Promise!Hear, Down, Work, Interruptions
<1> QED
  BY <1>6 DEF Promise!Next

(* Every step of the supervisor is a step of Container, or none. *)
LEMMA StepRefines == IInv /\ [Next]_vars => [Promise!Next]_(Promise!vars)
<1> SUFFICES ASSUME IInv, [Next]_vars PROVE [Promise!Next]_(Promise!vars)
  OBVIOUS
<1> USE DEF procVars, signalVars
<1>1. CASE Validate
  <2>1. CASE pc' = "exited" /\ exitStatus' = 64
    <3>1. Promise!Report
      BY <1>1, <2>1 DEF Validate, IInv, Existence, Before, Promise!Report, Down
    <3> QED
      BY <3>1 DEF Promise!Next
  <2>2. CASE pc' = "dispatch" /\ exitStatus' = exitStatus
    BY <1>1, <2>2, Stutter DEF Validate, Down
  <2> QED
    BY <1>1, <2>1, <2>2 DEF Validate
<1>2. CASE Dispatch
  <2>1. CASE Exec
    BY <1>2, <2>1, ExecRefines DEF Dispatch, Kept
  <2>2. CASE pc' = "mktemp" /\ UNCHANGED <<exitStatus, procVars>>
    BY <1>2, <2>2, Stutter DEF Dispatch, Down
  <2> QED
    BY <1>2, <2>1, <2>2 DEF Dispatch
<1>3. CASE Mktemp
  <2>1. CASE Exit(70)
    BY <1>3, <2>1, ReportRefines DEF Mktemp, Kept
  <2>2. CASE pc' = "probe" /\ UNCHANGED <<exitStatus, procVars>>
    BY <1>3, <2>2, Stutter DEF Mktemp, Down
  <2> QED
    BY <1>3, <2>1, <2>2 DEF Mktemp
<1>4. CASE Probe
  <2>1. CASE Exit(69)
    BY <1>4, <2>1, ReportRefines DEF Probe, Kept
  <2>2. CASE Exec
    BY <1>4, <2>2, ExecRefines DEF Probe, Kept
  <2>3. CASE pc' = "mkfifo" /\ UNCHANGED <<exitStatus, procVars>>
    BY <1>4, <2>3, Stutter DEF Probe, Down
  <2> QED
    BY <1>4, <2>1, <2>2, <2>3 DEF Probe
<1>5. CASE Mkfifo
  <2>1. CASE Exit(70)
    BY <1>5, <2>1, ReportRefines DEF Mkfifo, Kept
  <2>2. CASE pc' = "spawn" /\ UNCHANGED <<exitStatus, procVars>>
    BY <1>5, <2>2, Stutter DEF Mkfifo, Down
  <2> QED
    BY <1>5, <2>1, <2>2 DEF Mkfifo
<1>6. ASSUME NEW s \in Sidecars, Spawn(s) PROVE UNCHANGED Promise!vars
  <2>1. proc'["app"] = proc["app"] /\ code' = code
    BY <1>6, NamesLemma DEF Spawn, IInv, TypeOK
  <2>2. Down' = Down
    BY <1>6 DEF Spawn, Down
  <2> QED
    BY <1>6, <2>1, <2>2, Stutter DEF Spawn
<1>7. CASE Fork
  <2>1. proc["app"] = "none" /\ proc'["app"] = "opening" /\ code' = code
    BY <1>7, NamesLemma DEF Fork, IInv, TypeOK, Existence, Before
  <2>2. Promise!Start
    BY <1>7, <2>1 DEF Fork, Promise!Start, Down
  <2> QED
    BY <2>2 DEF Promise!Next
<1>8. CASE SetPid \/ WaitApp
  BY <1>8, Stutter DEF SetPid, WaitApp, Down
<1>9. ASSUME NEW s \in Sidecars, WaitSidecar(s) PROVE UNCHANGED Promise!vars
  BY <1>9, Stutter DEF WaitSidecar, Collect, Down
<1>10. CASE Finish
  BY <1>10, FinishRefines
<1>11. ASSUME NEW s \in Sidecars, OpenFifo(s) PROVE UNCHANGED Promise!vars
  <2>1. proc["app"] = "opening" /\ proc'["app"] \in {"opening", "running"}
    BY <1>11, NamesLemma DEF OpenFifo, IInv, TypeOK
  <2> QED
    BY <1>11, <2>1 DEF OpenFifo, Down, Promise!vars
<1>12. ASSUME NEW s \in Sidecars, SidecarExit(s) PROVE [Promise!Next]_(Promise!vars)
  BY <1>12, EndRefines, NamesLemma, StatusAssumption DEF SidecarExit
<1>13. CASE AppExit \/ AppBrokenPipe
  BY <1>13, EndRefines, NamesLemma, StatusAssumption DEF AppExit, AppBrokenPipe, BrokenPipe
<1>14. CASE ExecedExit
  <2>1. Promise!Report
    BY <1>14 DEF ExecedExit, Promise!Report, Down
  <2> QED
    BY <2>1 DEF Promise!Next
<1>15. CASE ContainerStop
  <2>1. UNCHANGED <<sent, config, exitStatus>> /\ Down /\ Down'
    BY <1>15 DEF ContainerStop, Down
  <2>2. CASE Alive("app")
    <3>1. proc'["app"] = "exited" /\ code'["app"] = Killed
      BY <1>15, <2>2, NamesLemma DEF ContainerStop
    <3>2. Promise!Kill
      BY <2>1, <2>2, <3>1 DEF Promise!Kill, Promise!End, Killed, Alive
    <3> QED
      BY <3>2 DEF Promise!Next
  <2>3. CASE ~Alive("app")
    BY <1>15, <2>1, <2>3, NamesLemma, Stutter DEF ContainerStop
  <2> QED
    BY <2>2, <2>3
<1>16. ASSUME NEW sig \in Signals, Signal(sig) PROVE Promise!Next
  BY <1>16, SignalRefines
<1>17. CASE ForkFails
  <2>1. pc' = "exited" /\ Stillborn' /\ proc["app"] = "none" /\ code'["app"] = code["app"]
    BY <1>17, StillbornLemma DEF IInv
  <2>2. Promise!Report
    BY <1>17, <2>1 DEF ForkFails, Stillborn, Promise!Report, Down
  <2> QED
    BY <2>2 DEF Promise!Next
<1>18. CASE UNCHANGED vars
  BY <1>18, Stutter DEF vars, Down
<1> QED
  BY <1>1, <1>2, <1>3, <1>4, <1>5, <1>6, <1>7, <1>8, <1>9, <1>10, <1>11, <1>12, <1>13,
     <1>14, <1>15, <1>16, <1>17, <1>18
  DEF Next, ShellStep

(* The supervisor implements Container: it starts its workload at most once, *)
(* goes down once, and the status it then reports is its own refusal, the    *)
(* workload's, a sidecar's under the closed policy over a workload that      *)
(* succeeded, or a signal's (entrypoint.sh:66-79, 103-146).                  *)
THEOREM ImplementsContainer == Spec => IsContainer
<1>1. Init => Promise!Init
  BY NamesLemma DEF Init, Promise!Init, Down, NoStatus
<1> QED
  BY <1>1, StepRefines, Invariance, PTL DEF Spec, IsContainer, Promise!Spec

-----------------------------------------------------------------------------
(* WHAT THE WAITS RETURN *)

(* The policy on the report and the wait for the readers are not inductive:  *)
(* they say nothing of a shell that still waits.  What makes them so is who  *)
(* can be alive there.  Only installed sidecars of the mode are started, and *)
(* only by a shell that did not exec.                                        *)
Roster ==
    /\ config.installed \subseteq Mine
    /\ \A s \in Sidecars : s \notin Mine => proc[s] = "none"
    /\ pc \in {"validate", "dispatch", "mktemp", "probe", "mkfifo", "execed"} =>
          \A s \in Sidecars : proc[s] = "none"
    /\ pc \in {"mkfifo", "spawn", "fork", "setpid", "waitapp", "waitside", "finish"} =>
          Mine \subseteq config.installed
    /\ pc = "execed" => Mine = {} \/ ~(Mine \subseteq config.installed)
    /\ pc # "stopped" => lost = {}

(* A wait for a sidecar returned its own status, and the sidecar has exited, *)
(* unless a signal came in between: none did, or the only one is the one     *)
(* that ended the wait for a workload still alive.                           *)
Reaped(s) == proc[s] = "exited" /\ sidecarStatus[s] = code[s]
Undisturbed == sent = 0 \/ (sent = 1 /\ proc["app"] # "exited")
Faithful ==
    /\ pc \notin {"waitside", "finish", "exited", "stopped"} =>
          \A s \in Sidecars : sidecarStatus[s] = NoStatus
    /\ pc \in {"waitside", "finish"} /\ Undisturbed =>
          \A s \in Mine : sidecarStatus[s] # NoStatus => Reaped(s)

(* The policy, in the terms of the script. *)
QuietVerdict ==
    Down /\ sent = 0 /\ proc["app"] # "none" =>
        /\ lost = {} /\ \A p \in Procs : ~Alive(p)
        /\ exitStatus = IF config.installed = Mine
                        THEN Verdict(code["app"], SidecarVerdict(code))
                        ELSE code["app"]

Reported == QuietVerdict /\ OneSignalWaitsForReaders
WInv == Roster /\ Faithful /\ Reported

(* The EXIT trap disturbs nobody where the shell may exit. *)
LEMMA QuietExit ==
    ASSUME IInv, NEW st, Exit(st), sidecarPids = {}
    PROVE  pc' = "exited" /\ exitStatus' = st /\ proc' = proc /\ code' = code
<1>1. PICK react \in [{} -> States] :
          /\ proc' = [p \in Procs |-> IF p \in {} THEN react[p] ELSE proc[p]]
          /\ code' = [p \in Procs |-> IF Alive(p) /\ p \in {} /\ react[p] = "exited"
                                      THEN 128 + App!Number("TERM") ELSE code[p]]
  BY DEF Exit, Deliver, States
<1>2. proc' = [p \in Procs |-> proc[p]] /\ code' = [p \in Procs |-> code[p]]
  BY <1>1
<1> QED
  BY <1>2 DEF Exit, IInv, TypeOK

(* A signal creates no process and removes none. *)
LEMMA DeliverCreatesNone ==
    ASSUME TypeOK, NEW P \in SUBSET Procs, NEW sig, Deliver(P, sig)
    PROVE  \A p \in Procs : proc'[p] = "none" <=> proc[p] = "none"
<1>1. PICK react \in [P -> States] :
          /\ \A p \in P : react[p] \in Reactions(p, sig)
          /\ proc' = [p \in Procs |-> IF p \in P THEN react[p] ELSE proc[p]]
  BY DEF Deliver, States
<1>2. ASSUME NEW p \in P PROVE react[p] = "none" <=> proc[p] = "none"
  <2>1. react[p] \in App!Reactions(proc[p], sig = "INT" /\ pc # "execed")
    BY <1>1, <1>2 DEF Reactions
  <2>2. proc[p] \in States
    BY <1>2 DEF TypeOK, States
  <2> QED
    BY <2>1, <2>2 DEF App!Reactions, States
<1> QED
  BY <1>1, <1>2

(* The sidecars' verdict looks at the statuses of the mode's sidecars only. *)
LEMMA VerdictIsLocal ==
    ASSUME NEW a, NEW b, \A s \in Mine : a[s] = b[s]
    PROVE  SidecarVerdict(a) = SidecarVerdict(b)
<1> DEFINE failing == {s \in Mine : a[s] # 0}
           first == CHOOSE s \in failing : InTurn(s, failing)
<1>1. failing = {s \in Mine : b[s] # 0}
  OBVIOUS
<1>2. CASE failing = {}
  BY <1>1, <1>2 DEF SidecarVerdict
<1>3. CASE failing # {}
  <2>1. \E s \in failing : InTurn(s, failing)
    BY <1>3 DEF InTurn
  <2>2. first \in Mine
    BY <2>1
  <2>3. SidecarVerdict(a) = a[first] /\ SidecarVerdict(b) = b[first]
    BY <1>1, <1>3 DEF SidecarVerdict
  <2> QED
    BY <2>2, <2>3
<1> QED
  BY <1>2, <1>3

(* A step that does not move the shell, starts nothing, and disturbs nobody  *)
(* who has exited; one that the report already covers only if somebody was   *)
(* alive, and it does not revive the workload.                               *)
LEMMA AsideWaits ==
    ASSUME IInv, WInv, pc' = pc, UNCHANGED <<config, sidecarStatus, lost>>,
           sent' \in Nat, sent <= sent',
           \A p \in Procs : proc'[p] = "none" <=> proc[p] = "none",
           \A p \in Procs : proc[p] = "exited" => proc'[p] = "exited" /\ code'[p] = code[p],
           Down => /\ sent' = sent /\ \E p \in Procs : Alive(p)
                   /\ Alive("app")' => Alive("app")
    PROVE  WInv'
<1>1. Mine' = Mine /\ Down' = Down /\ sent \in Nat
  BY SignalAssumption DEF Mine, Down, IInv, TypeOK
<1>2. Roster'
  BY <1>1, NamesLemma DEF WInv, Roster
<1>3. Faithful'
  <2>1. Undisturbed' => Undisturbed
    BY <1>1, NamesLemma DEF Undisturbed
  <2> QED
    BY <1>1, <2>1, NamesLemma DEF WInv, Faithful, Reaped
<1>4. Reported'
  <2>1. CASE ~Down
    BY <1>1, <2>1 DEF Reported, QuietVerdict, OneSignalWaitsForReaders
  <2>2. CASE Down
    <3>1. ~(sent = 0 /\ proc["app"] # "none")
      BY <2>2 DEF WInv, Reported, QuietVerdict
    <3>2. QuietVerdict'
      BY <2>2, <3>1, NamesLemma DEF QuietVerdict
    <3>3. OneSignalWaitsForReaders'
      BY <1>1, <2>2, NamesLemma DEF WInv, Reported, OneSignalWaitsForReaders
    <3> QED
      BY <3>2, <3>3 DEF Reported
  <2> QED
    BY <2>1, <2>2
<1> QED
  BY <1>2, <1>3, <1>4 DEF WInv

(* The shell refuses to start the workload. *)
LEMMA RefusalWaits ==
    ASSUME IInv, WInv, NEW st, Exit(st), Kept, pc \in {"dispatch", "mktemp", "probe", "mkfifo"}
    PROVE  WInv'
<1>1. pc' = "exited" /\ proc' = proc /\ code' = code
  BY QuietExit DEF IInv, Tidy
<1>2. proc["app"] = "none" /\ Mine' = Mine /\ lost = {}
  BY DEF Kept, Mine, IInv, Existence, Before, WInv, Roster
<1>3. Roster' /\ Faithful'
  BY <1>1, <1>2 DEF Kept, WInv, Roster, Faithful
<1>4. Reported'
  BY <1>1, <1>2 DEF Kept, Reported, QuietVerdict, OneSignalWaitsForReaders, Alive
<1> QED
  BY <1>3, <1>4 DEF WInv

(* exec, where no sidecar is used or one is missing. *)
LEMMA ExecWaits ==
    ASSUME IInv, WInv, Exec, Kept, pc \in {"dispatch", "probe"},
           Mine = {} \/ ~(Mine \subseteq config.installed)
    PROVE  WInv'
<1>1. CASE Exit(127)
  BY <1>1, RefusalWaits
<1>2. CASE pc' = "execed" /\ proc' = [proc EXCEPT !["app"] = "running"]
  <2>1. Mine' = Mine /\ \A s \in Sidecars : proc'[s] = proc[s]
    BY <1>2, NamesLemma DEF Kept, Mine, IInv, TypeOK
  <2>2. Roster' /\ Faithful'
    BY <1>2, <2>1 DEF Kept, WInv, Roster, Faithful
  <2>3. Reported'
    BY <1>2 DEF Reported, QuietVerdict, OneSignalWaitsForReaders, Down
  <2> QED
    BY <2>2, <2>3 DEF WInv
<1> QED
  BY <1>1, <1>2, StartLemma DEF IInv

(* The verdict after the last wait: undisturbed, it is that of the statuses  *)
(* the processes exited with, and nobody is left; over a workload that is    *)
(* still alive the sidecars at least are gone.                               *)
LEMMA FinishWaits == ASSUME IInv, WInv, Finish PROVE WInv'
<1> DEFINE st == Verdict(appStatus, SidecarVerdict(sidecarStatus))
<1>1. pc = "finish" /\ Exit(st) /\ Kept
  BY DEF Finish, Kept
<1>2. pc' = "exited" /\ exitStatus' = st /\ proc' = proc /\ code' = code
  BY <1>1, QuietExit DEF IInv, Tidy
<1>3. Mine' = Mine /\ lost = {} /\ lost' = {} /\ UNCHANGED <<config, sent>>
  BY <1>1 DEF Kept, Mine, signalVars, WInv, Roster
<1>4. Roster' /\ Faithful'
  BY <1>1, <1>2, <1>3 DEF WInv, Roster, Faithful
<1>5. Undisturbed => \A s \in Mine : Reaped(s)
  BY <1>1 DEF IInv, Collected, WInv, Faithful
<1>6. QuietVerdict'
  <2> SUFFICES ASSUME sent = 0
               PROVE  /\ \A p \in Procs : ~Alive(p)
                      /\ config.installed = Mine
                      /\ st = Verdict(code["app"], SidecarVerdict(code))
    <3>1. (\A p \in Procs : ~Alive(p)) => \A p \in Procs : ~Alive(p)'
      BY <1>2 DEF Alive
    <3>2. Verdict(code["app"], SidecarVerdict(code))' = Verdict(code["app"], SidecarVerdict(code))
      BY <1>2, <1>3 DEF Verdict, SidecarVerdict
    <3> QED
      BY <1>2, <1>3, <3>1, <3>2 DEF QuietVerdict
  <2>1. proc["app"] = "exited" /\ appStatus = code["app"]
    BY <1>1 DEF IInv, Collected
  <2>2. \A s \in Mine : proc[s] = "exited" /\ sidecarStatus[s] = code[s]
    BY <1>5 DEF Undisturbed, Reaped
  <2>3. \A p \in Procs : ~Alive(p)
    BY <2>1, <2>2 DEF WInv, Roster, Alive, Procs
  <2>4. config.installed = Mine
    BY <1>1 DEF WInv, Roster
  <2>5. SidecarVerdict(sidecarStatus) = SidecarVerdict(code)
    BY <2>2, VerdictIsLocal
  <2> QED
    BY <2>1, <2>3, <2>4, <2>5
<1>7. OneSignalWaitsForReaders'
  <2> SUFFICES ASSUME sent <= 1, Alive("app") PROVE \A s \in Mine : proc[s] = "exited"
    BY <1>2, <1>3 DEF OneSignalWaitsForReaders, Alive
  <2>1. Undisturbed
    BY SignalAssumption DEF Undisturbed, Alive, IInv, TypeOK
  <2> QED
    BY <1>5, <2>1 DEF Reaped
<1> QED
  BY <1>4, <1>6, <1>7 DEF WInv, Reported

(* The workload that replaced the shell is alone, and its status the report. *)
LEMMA ExecedWaits == ASSUME IInv, WInv, ExecedExit PROVE WInv'
<1>1. /\ pc = "execed" /\ pc' = "exited" /\ exitStatus' = code["app"] /\ proc["app"] = "exited"
      /\ proc' = proc /\ code' = code /\ Mine' = Mine /\ UNCHANGED <<config, sent, lost, sidecarStatus>>
  BY DEF ExecedExit, Mine, procVars, signalVars
<1>2. \A p \in Procs : ~Alive(p)
  BY <1>1 DEF WInv, Roster, Alive, Procs
<1>3. Roster' /\ Faithful'
  BY <1>1 DEF WInv, Roster, Faithful
<1>4. config.installed = Mine => Verdict(code["app"], SidecarVerdict(code)) = code["app"]
  <2> SUFFICES ASSUME config.installed = Mine PROVE Verdict(code["app"], SidecarVerdict(code)) = code["app"]
    OBVIOUS
  <2>1. Mine = {}
    BY <1>1 DEF WInv, Roster
  <2>2. SidecarVerdict(code) = 0
    BY <2>1 DEF SidecarVerdict
  <2> QED
    BY <2>2 DEF Verdict
<1>5. Reported'
  <2>1. Verdict(code["app"], SidecarVerdict(code))' = Verdict(code["app"], SidecarVerdict(code))
    BY <1>1 DEF Verdict, SidecarVerdict
  <2>2. \A p \in Procs : ~Alive(p)'
    BY <1>1, <1>2 DEF Alive
  <2>3. lost' = {}
    BY <1>1 DEF WInv, Roster
  <2>4. QuietVerdict'
    BY <1>1, <1>4, <2>1, <2>2, <2>3 DEF QuietVerdict
  <2>5. OneSignalWaitsForReaders'
    BY <2>2, <2>3, NamesLemma DEF OneSignalWaitsForReaders
  <2> QED
    BY <2>4, <2>5 DEF Reported
<1> QED
  BY <1>3, <1>5 DEF WInv

(* What goes down with the container was alive when the shell exited. *)
LEMMA StopWaits == ASSUME IInv, WInv, ContainerStop PROVE WInv'
<1>1. /\ pc = "exited" /\ pc' = "stopped" /\ lost' = {p \in Procs : Alive(p)}
      /\ proc' = [p \in Procs |-> IF Alive(p) THEN "exited" ELSE proc[p]]
      /\ code' = [p \in Procs |-> IF Alive(p) THEN Killed ELSE code[p]]
      /\ Mine' = Mine /\ UNCHANGED <<config, sent, exitStatus>>
  BY DEF ContainerStop, Mine, signalVars
<1>2. lost = {} /\ Down
  BY <1>1 DEF WInv, Roster, Down
<1>3. Roster' /\ Faithful'
  BY <1>1, NamesLemma DEF WInv, Roster, Faithful, Alive
<1>4. QuietVerdict'
  <2> SUFFICES ASSUME sent = 0, proc'["app"] # "none" PROVE QuietVerdict'
    BY <1>1 DEF QuietVerdict
  <2>1. proc["app"] # "none"
    BY <1>1, NamesLemma DEF Alive
  <2>2. QuietVerdict /\ \A p \in Procs : ~Alive(p)
    BY <1>2, <2>1 DEF WInv, Reported, QuietVerdict
  <2>3. proc' = proc /\ code' = code /\ lost' = {}
    <3>1. proc' = [p \in Procs |-> proc[p]] /\ code' = [p \in Procs |-> code[p]]
      BY <1>1, <2>2
    <3> QED
      BY <1>1, <2>2, <3>1 DEF IInv, TypeOK
  <2>4. Verdict(code["app"], SidecarVerdict(code))' = Verdict(code["app"], SidecarVerdict(code))
    <3>1. code' = code /\ Mine' = Mine /\ config' = config
      BY <1>1, <2>3
    <3> QED
      BY <3>1 DEF Verdict, SidecarVerdict
  <2>5. \A p \in Procs : ~Alive(p)'
    BY <2>2, <2>3 DEF Alive
  <2> QED
    BY <1>1, <1>2, <2>1, <2>2, <2>3, <2>4, <2>5 DEF QuietVerdict
<1>5. OneSignalWaitsForReaders'
  <2> SUFFICES ASSUME sent <= 1, Alive("app")
               PROVE  \A s \in Mine : proc'[s] = "exited" /\ s \notin lost'
    <3>1. Alive("app")' \/ "app" \in lost' => Alive("app")
      BY <1>1, NamesLemma DEF Alive
    <3> QED
      BY <1>1, <3>1 DEF OneSignalWaitsForReaders
  <2>1. \A s \in Mine : proc[s] = "exited"
    BY <1>2 DEF WInv, Reported, OneSignalWaitsForReaders
  <2> QED
    BY <1>1, <2>1, NamesLemma DEF Alive
<1> QED
  BY <1>3, <1>4, <1>5 DEF WInv, Reported

(* A signal ends one wait at most, and the one wait that a single signal may *)
(* end under a live workload is the wait for the workload.                   *)
LEMMA SignalWaits == ASSUME IInv, WInv, NEW sig \in Signals, Signal(sig) PROVE WInv'
<1>1. /\ Deliver(Procs, sig) /\ ~Down /\ sent \in Nat /\ sent' = sent + 1
      /\ UNCHANGED <<config, lost>> /\ Mine' = Mine
  BY SignalAssumption DEF Signal, Down, Mine, IInv, TypeOK
<1>2. /\ \A p \in Procs : proc'[p] = "none" <=> proc[p] = "none"
      /\ \A p \in Procs : proc[p] = "exited" => proc'[p] = "exited" /\ code'[p] = code[p]
  BY <1>1, DeliverLemma, DeliverCreatesNone DEF IInv
<1>3. ~Down' => Reported'
  BY DEF Reported, QuietVerdict, OneSignalWaitsForReaders
<1>4. CASE pc = "validate"
  <2>1. pc' = "exited" /\ sidecarStatus' = sidecarStatus
    BY <1>4 DEF Signal
  <2>2. proc'["app"] = "none" /\ lost' = {}
    BY <1>1, <1>2, <1>4, NamesLemma DEF IInv, Existence, Before, WInv, Roster
  <2>3. Roster' /\ Faithful'
    BY <1>1, <1>2, <2>1, <1>4, NamesLemma DEF WInv, Roster, Faithful
  <2>4. Reported'
    BY <2>2 DEF Reported, QuietVerdict, OneSignalWaitsForReaders, Alive
  <2> QED
    BY <2>3, <2>4 DEF WInv
<1>5. CASE pc = "waitapp"
  <2>1. pc' = "waitside" /\ sidecarStatus' = sidecarStatus /\ ~Down'
    BY <1>5 DEF Signal, Down
  <2>2. Roster' /\ Faithful'
    BY <1>1, <1>2, <1>5, <2>1, NamesLemma DEF WInv, Roster, Faithful
  <2> QED
    BY <1>3, <2>1, <2>2 DEF WInv
<1>6. CASE pc = "waitside"
  <2>1. pc' \in {"waitside", "finish"} /\ ~Down'
    BY <1>6 DEF Signal, Collect, Down
  <2>2. ~Undisturbed'
    <3>1. sent = 0 => proc["app"] = "exited"
      BY <1>6 DEF IInv, Collected
    <3>2. sent = 0 => proc'["app"] = "exited"
      BY <1>2, <3>1, NamesLemma
    <3> QED
      BY <1>1, <3>2 DEF Undisturbed
  <2>3. Roster' /\ Faithful'
    BY <1>1, <1>2, <1>6, <2>1, <2>2, NamesLemma DEF WInv, Roster, Faithful
  <2> QED
    BY <1>3, <2>1, <2>3 DEF WInv
<1>7. CASE pc \notin {"validate", "waitapp", "waitside"}
  <2>1. pc' = pc /\ sidecarStatus' = sidecarStatus
    BY <1>7 DEF Signal
  <2> QED
    BY <1>1, <1>2, <2>1, AsideWaits
<1> QED
  BY <1>4, <1>5, <1>6, <1>7

(* A shell that cannot fork leaves nobody to wait for. *)
LEMMA ForkFailsWaits == ASSUME IInv, WInv, ForkFails PROVE WInv'
<1>1. /\ pc' = "exited" /\ proc'["app"] = "none" /\ Mine' = Mine /\ lost' = {}
      /\ UNCHANGED <<config, sidecarStatus>>
  BY StillbornLemma DEF ForkFails, Stillborn, Mine, IInv, WInv, Roster
<1>2. \A p \in Procs : proc'[p] = "none" <=> proc[p] = "none"
  <2>1. sidecarPids \in SUBSET Procs
    BY NamesLemma DEF IInv, TypeOK
  <2> QED
    BY <2>1, DeliverCreatesNone DEF ForkFails, IInv
<1>3. Roster' /\ Faithful'
  BY <1>1, <1>2, NamesLemma DEF WInv, Roster, Faithful
<1>4. Reported'
  BY <1>1 DEF Reported, QuietVerdict, OneSignalWaitsForReaders, Alive
<1> QED
  BY <1>3, <1>4 DEF WInv

LEMMA WaitsInit == Init => WInv
<1> SUFFICES ASSUME Init PROVE WInv
  OBVIOUS
<1>1. Roster /\ Faithful
  BY NamesLemma DEF Init, Mine, Roster, Faithful
<1>2. Reported
  BY DEF Init, Reported, QuietVerdict, OneSignalWaitsForReaders, Down
<1> QED
  BY <1>1, <1>2 DEF WInv

LEMMA WaitsStep == IInv /\ WInv /\ [Next]_vars => WInv'
<1> SUFFICES ASSUME IInv, WInv, [Next]_vars PROVE WInv'
  OBVIOUS
<1> USE DEF procVars, signalVars
<1>0. sent \in Nat
  BY SignalAssumption DEF IInv, TypeOK
<1>a. ~Down' => Reported'
  BY DEF Reported, QuietVerdict, OneSignalWaitsForReaders
<1>1. CASE Validate
  <2>1. /\ proc["app"] = "none" /\ proc' = proc /\ lost' = {} /\ lost = {} /\ Mine' = Mine
        /\ pc = "validate" /\ pc' \in {"exited", "dispatch"} /\ UNCHANGED <<config, sidecarStatus>>
    BY <1>1 DEF Validate, Mine, IInv, Existence, Before, WInv, Roster
  <2>2. Roster' /\ Faithful'
    BY <2>1 DEF WInv, Roster, Faithful
  <2>3. Reported'
    BY <2>1 DEF Reported, QuietVerdict, OneSignalWaitsForReaders, Alive
  <2> QED
    BY <2>2, <2>3 DEF WInv
<1>2. ASSUME pc \in {"dispatch", "mktemp", "probe", "mkfifo"},
             pc' \in {"mktemp", "probe", "mkfifo", "spawn"},
             pc' \in {"mkfifo", "spawn"} => Mine \subseteq config.installed,
             UNCHANGED <<config, sidecarStatus, procVars, lost>>
      PROVE  WInv'
  <2>1. Mine' = Mine /\ ~Down'
    BY <1>2 DEF Mine, Down
  <2>2. Roster' /\ Faithful'
    BY <1>2, <2>1 DEF WInv, Roster, Faithful
  <2> QED
    BY <1>a, <2>1, <2>2 DEF WInv
<1>3. CASE Dispatch
  <2>1. CASE config.mode = "off" /\ Exec
    <3>1. Mine = {}
      BY <2>1, Zenon DEF Mine, Used
    <3> QED
      BY <1>3, <2>1, <3>1, ExecWaits DEF Dispatch, Kept
  <2>2. CASE pc' = "mktemp" /\ UNCHANGED <<exitStatus, runtimeDir, procVars>>
    BY <1>2, <1>3, <2>2 DEF Dispatch
  <2> QED
    BY <1>3, <2>1, <2>2 DEF Dispatch
<1>4. CASE Mktemp
  <2>1. CASE Exit(70)
    BY <1>4, <2>1, RefusalWaits DEF Mktemp, Kept
  <2>2. CASE pc' = "probe" /\ UNCHANGED <<exitStatus, procVars>>
    BY <1>2, <1>4, <2>2 DEF Mktemp
  <2> QED
    BY <1>4, <2>1, <2>2 DEF Mktemp
<1>5. CASE Probe
  <2>1. CASE Exit(69)
    BY <1>5, <2>1, RefusalWaits DEF Probe, Kept
  <2>2. CASE ~(Mine \subseteq config.installed) /\ Exec
    BY <1>5, <2>2, ExecWaits DEF Probe, Kept
  <2>3. CASE /\ Mine \subseteq config.installed
             /\ pc' = "mkfifo" /\ UNCHANGED <<exitStatus, runtimeDir, procVars>>
    BY <1>2, <1>5, <2>3 DEF Probe
  <2> QED
    BY <1>5, <2>1, <2>2, <2>3 DEF Probe
<1>6. CASE Mkfifo
  <2>1. CASE Exit(70)
    BY <1>6, <2>1, RefusalWaits DEF Mkfifo, Kept
  <2>2. CASE pc' = "spawn" /\ UNCHANGED <<exitStatus, runtimeDir, procVars>>
    BY <1>2, <1>6, <2>2 DEF Mkfifo, WInv, Roster
  <2> QED
    BY <1>6, <2>1, <2>2 DEF Mkfifo
<1>7. ASSUME pc \in {"spawn", "fork", "setpid", "waitapp"},
             pc' \in {"spawn", "fork", "setpid", "waitapp", "waitside"},
             UNCHANGED <<config, sidecarStatus, lost>>,
             \A s \in Sidecars : s \notin Mine => proc'[s] = "none"
      PROVE  WInv'
  <2>1. Mine' = Mine /\ ~Down'
    BY <1>7 DEF Mine, Down
  <2>2. Roster' /\ Faithful'
    BY <1>7, <2>1, NamesLemma DEF WInv, Roster, Faithful
  <2> QED
    BY <1>a, <2>1, <2>2 DEF WInv
<1>8. ASSUME NEW s \in Sidecars, Spawn(s) PROVE WInv'
  <2>1. s \in Mine /\ proc' = [proc EXCEPT ![s] = "opening"] /\ pc' \in {"spawn", "fork"}
    BY <1>8 DEF Spawn, InTurn
  <2>2. \A t \in Sidecars : t \notin Mine => proc'[t] = "none"
    BY <2>1, NamesLemma DEF WInv, Roster, IInv, TypeOK
  <2> QED
    BY <1>7, <1>8, <2>1, <2>2 DEF Spawn
<1>9. CASE Fork
  <2>1. \A t \in Sidecars : proc'[t] = proc[t]
    BY <1>9, NamesLemma DEF Fork, IInv, TypeOK
  <2> QED
    BY <1>7, <1>9, <2>1 DEF Fork, WInv, Roster
<1>10. CASE SetPid \/ WaitApp
  BY <1>7, <1>10 DEF SetPid, WaitApp, WInv, Roster
<1>11. ASSUME NEW s \in Sidecars, WaitSidecar(s) PROVE WInv'
  <2>1. /\ pc = "waitside" /\ pc' \in {"waitside", "finish"} /\ ~Down' /\ Mine' = Mine
        /\ proc[s] = "exited" /\ sidecarStatus' = [sidecarStatus EXCEPT ![s] = code[s]]
        /\ UNCHANGED <<config, proc, code, sent, lost>>
    BY <1>11 DEF WaitSidecar, Collect, Down, Mine
  <2>2. Roster'
    BY <2>1 DEF WInv, Roster
  <2>3. Undisturbed' <=> Undisturbed
    BY <2>1 DEF Undisturbed
  <2>4. Faithful'
    BY <2>1, <2>3, NamesLemma DEF WInv, Faithful, Reaped, IInv, TypeOK
  <2> QED
    BY <1>a, <2>1, <2>2, <2>4 DEF WInv
<1>12. CASE Finish
  BY <1>12, FinishWaits
<1>13. ASSUME NEW s \in Sidecars, OpenFifo(s) PROVE WInv'
  <2>1. /\ proc["app"] = "opening" /\ proc[s] = "opening"
        /\ proc' = [proc EXCEPT ![s] = "running",
                                !["app"] = IF opened' = Mine THEN "running" ELSE "opening"]
        /\ UNCHANGED <<config, pc, sidecarStatus, lost, sent, code>>
    BY <1>13 DEF OpenFifo
  <2>2. /\ \A p \in Procs : proc'[p] = "none" <=> proc[p] = "none"
        /\ \A p \in Procs : proc[p] = "exited" => proc'[p] = "exited" /\ code'[p] = code[p]
    BY <2>1, NamesLemma DEF IInv, TypeOK
  <2>3. "app" \in Procs /\ Alive("app")
    BY <2>1, NamesLemma DEF Alive
  <2>4. pc' = pc /\ sent' = sent /\ UNCHANGED <<config, sidecarStatus, lost>>
    BY <2>1
  <2> QED
    BY <1>0, <2>2, <2>3, <2>4, AsideWaits
<1>14. ASSUME NEW p \in Procs, NEW st, ProcExit(p, st) PROVE WInv'
  <2>1. /\ Alive(p) /\ proc' = [proc EXCEPT ![p] = "exited"] /\ code' = [code EXCEPT ![p] = st]
        /\ UNCHANGED <<config, pc, sidecarStatus, lost, sent>>
    BY <1>14 DEF ProcExit, Alive
  <2>2. /\ \A q \in Procs : proc'[q] = "none" <=> proc[q] = "none"
        /\ \A q \in Procs : proc[q] = "exited" => proc'[q] = "exited" /\ code'[q] = code[q]
        /\ Alive("app")' => Alive("app")
    BY <2>1, NamesLemma DEF IInv, TypeOK, Alive
  <2> QED
    BY <1>0, <2>1, <2>2, AsideWaits
<1>15. ASSUME NEW s \in Sidecars, SidecarExit(s) PROVE WInv'
  BY <1>14, <1>15, NamesLemma DEF SidecarExit
<1>16. CASE AppExit \/ AppBrokenPipe
  BY <1>14, <1>16, NamesLemma DEF AppExit, AppBrokenPipe
<1>17. CASE ExecedExit
  BY <1>17, ExecedWaits
<1>18. CASE ContainerStop
  BY <1>18, StopWaits
<1>19. ASSUME NEW sig \in Signals, Signal(sig) PROVE WInv'
  BY <1>19, SignalWaits
<1>20. CASE ForkFails
  BY <1>20, ForkFailsWaits
<1>21. CASE UNCHANGED vars
  BY <1>21 DEF vars, WInv, Roster, Faithful, Reaped, Undisturbed, Mine, Reported,
               QuietVerdict, OneSignalWaitsForReaders, Down, Alive, Verdict, SidecarVerdict
<1> QED
  BY <1>1, <1>3, <1>4, <1>5, <1>6, <1>8, <1>9, <1>10, <1>11, <1>12, <1>13, <1>15, <1>16,
     <1>17, <1>18, <1>19, <1>20, <1>21
  DEF Next, ShellStep

LEMMA WaitsInvariance == Spec => []WInv
<1>1. IInv /\ WInv /\ [Next]_vars => WInv'
  BY WaitsStep
<1> QED
  BY <1>1, WaitsInit, Invariance, PTL DEF Spec

(* The script's verdict is the first failing sidecar's status, stdout before *)
(* stderr.                                                                   *)
LEMMA FirstFailure ==
    ASSUME NEW status, NEW s \in Mine, status[s] # 0, s = "stderr" => status["stdout"] = 0 \/ "stdout" \notin Mine
    PROVE  SidecarVerdict(status) = status[s]
<1> DEFINE failing == {t \in Mine : status[t] # 0}
           first == CHOOSE t \in failing : InTurn(t, failing)
<1>1. s \in failing /\ InTurn(s, failing)
  BY DEF InTurn
<1>2. first \in failing /\ InTurn(first, failing)
  BY <1>1
<1>3. first = s
  <2>1. Mine \in {{"combined"}, {"stdout", "stderr"}, {}}
    BY Zenon DEF Mine, Used
  <2> QED
    BY <1>1, <1>2, <2>1 DEF InTurn
<1> QED
  BY <1>1, <1>3 DEF SidecarVerdict

(* Undisturbed, the container leaves no process behind and reports what the  *)
(* policy makes of the statuses the processes really exited with             *)
(* (entrypoint.sh:66-146).                                                   *)
THEOREM QuietRunsReportPolicy == Spec => []QuietRunReportsPolicy
<1>1. WInv => QuietRunReportsPolicy
  <2> DEFINE failed == IF config.installed = Mine THEN {s \in Mine : code[s] # 0} ELSE {}
  <2> SUFFICES ASSUME WInv, Down, sent = 0, proc["app"] # "none"
               PROVE  /\ lost = {} /\ \A p \in Procs : ~Alive(p)
                      /\ code["app"] # 0 \/ config.fail = "open" \/ failed = {} => exitStatus = code["app"]
                      /\ code["app"] = 0 /\ config.fail = "closed" =>
                           \A s \in failed : (s = "stderr" /\ "stdout" \in failed) \/ exitStatus = code[s]
    BY DEF QuietRunReportsPolicy
  <2>1. /\ lost = {} /\ \A p \in Procs : ~Alive(p)
        /\ exitStatus = IF config.installed = Mine THEN Verdict(code["app"], SidecarVerdict(code))
                                                   ELSE code["app"]
    BY DEF WInv, Reported, QuietVerdict
  <2>2. ASSUME code["app"] # 0 \/ config.fail = "open" \/ failed = {}
        PROVE  exitStatus = code["app"]
    <3>1. CASE config.installed = Mine /\ failed = {}
      BY <2>1, <3>1 DEF Verdict, SidecarVerdict
    <3> QED
      BY <2>1, <2>2, <3>1 DEF Verdict
  <2>3. ASSUME code["app"] = 0, config.fail = "closed", NEW s \in failed,
               ~(s = "stderr" /\ "stdout" \in failed)
        PROVE  exitStatus = code[s]
    <3>1. config.installed = Mine /\ s \in Mine /\ code[s] # 0
      BY <2>3
    <3>2. SidecarVerdict(code) = code[s]
      BY <2>3, <3>1, FirstFailure
    <3> QED
      BY <2>1, <2>3, <3>1, <3>2 DEF Verdict
  <2> QED
    BY <2>1, <2>2, <2>3
<1> QED
  BY <1>1, WaitsInvariance, PTL

(* Whatever one signal does, a container that goes down under a live         *)
(* workload has seen every sidecar exit (entrypoint.sh:103-109, 130-138).    *)
THEOREM ReadersOutliveOneSignal == Spec => []OneSignalWaitsForReaders
<1>1. WInv => OneSignalWaitsForReaders
  BY DEF WInv, Reported
<1> QED
  BY <1>1, WaitsInvariance, PTL
=============================================================================
