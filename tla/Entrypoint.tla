----------------------------- MODULE Entrypoint -----------------------------
(***************************************************************************)
(* The container supervisor: entrypoint.sh under `tini -g` (Dockerfile:70).*)
(* The shell validates its environment, creates one FIFO per log sidecar,  *)
(* forks the sidecars and the workload onto the FIFOs, waits for all of    *)
(* them and turns their statuses into the container's exit status.         *)
(*                                                                         *)
(* tini delivers each signal to the whole process group, so a signal       *)
(* reaches the shell, the workload and the sidecars in one step, wherever  *)
(* the shell is.  The shell's trap forwards a second copy to $app_pid; the *)
(* reactions below are closed under repetition, so that copy adds nothing. *)
(* When the shell exits, tini exits and the kernel kills what is left.     *)
(***************************************************************************)
EXTENDS Integers, FiniteSets

CONSTANTS
    AppStatuses,      \* statuses the workload may choose to exit with
    SidecarStatuses,  \* statuses a sidecar may choose to exit with
    Signals,          \* signals the environment may send
    MaxSignals        \* bound: how many signals are sent in one behaviour

(* Exit statuses are bytes. *)
ASSUME StatusAssumption ==
    /\ AppStatuses \subseteq 0..255
    /\ SidecarStatuses \subseteq 0..255

ASSUME SignalAssumption ==
    /\ Signals \subseteq {"HUP", "INT", "TERM"}
    /\ MaxSignals \in Nat

VARIABLES
    config,        \* the environment the shell was started in
    pc,            \* the next command of the shell
    appPid,        \* is $app_pid non-empty?
    runtimeDir,    \* does the directory named by $runtime_dir exist?
    sidecarPids,   \* $sidecar_pids, by sidecar name
    appStatus,     \* $app_status
    sidecarStatus, \* what `wait` returned for each sidecar
    exitStatus,    \* the status the container reports
    proc,          \* state of the workload and of the sidecars
    code,          \* the status each of them really exited with
    opened,        \* FIFOs whose two ends have been opened
    sent,          \* how many signals were sent
    early,         \* was one sent after the traps were set, before the fork?
    stopping,      \* was a TERM or HUP sent once the workload was forked?
    lost           \* processes still alive when the container went down

procVars == <<proc, code, opened>>
signalVars == <<sent, early, stopping>>
vars == <<config, pc, appPid, runtimeDir, sidecarPids, appStatus, sidecarStatus,
          exitStatus, procVars, signalVars, lost>>

Sidecars == {"combined", "stdout", "stderr"}
Procs == Sidecars \cup {"app"}
NoStatus == -1
BrokenPipe == 141
Killed == 137
CannotFork == 2

(* The sidecars a mode starts, and those of this container. *)
Used(mode) == CASE mode = "combined" -> {"combined"}
                [] mode = "split" -> {"stdout", "stderr"}
                [] OTHER -> {}
Mine == Used(config.mode)

(* The script and the workload's redirections handle stdout before stderr. *)
InTurn(s, S) == s \in S /\ (s = "stderr" => "stdout" \notin S)

Alive(p) == proc[p] \in {"opening", "running", "draining"}

Labels == {"validate", "dispatch", "mktemp", "probe", "mkfifo", "spawn", "fork",
           "setpid", "waitapp", "waitside", "finish", "execed", "exited", "stopped"}

Configs == [mode : {"off", "combined", "split", "bad"}, fail : {"open", "closed", "bad"},
            command : {"none", "missing", "found"}, installed : SUBSET Sidecars,
            serves : BOOLEAN]

(* Only the sidecars the mode uses are looked up, so the others do not vary. *)
Init ==
    /\ config \in {c \in Configs : c.installed \subseteq Used(c.mode)}
    /\ pc = "validate"
    /\ appPid = FALSE /\ runtimeDir = FALSE /\ sidecarPids = {}
    /\ appStatus = NoStatus /\ exitStatus = NoStatus
    /\ sidecarStatus = [s \in Sidecars |-> NoStatus]
    /\ proc = [p \in Procs |-> "none"]
    /\ code = [p \in Procs |-> NoStatus]
    /\ opened = {} /\ lost = {}
    /\ sent = 0 /\ early = FALSE /\ stopping = FALSE

-----------------------------------------------------------------------------
(* SIGNALS *)

(* Mutant: tini without -g and a shell that forwards nothing. *)
MutReactionsUndelivered(p, sig) == {proc[p]}

(* Every process reacts as a Workload does; SIGINT is ignored in background  *)
(* jobs of the shell, and no job is one once exec has replaced the shell.    *)
App == INSTANCE Workload WITH
    Statuses <- AppStatuses, life <- proc["app"], status <- code["app"], shielded <- pc # "execed"
Reactions(p, sig) == App!Reactions(proc[p], sig = "INT" /\ pc # "execed")

(* The processes of P receive sig and each reacts in one of its ways. *)
Deliver(P, sig) ==
    \E react \in [P -> {"none", "opening", "running", "draining", "exited"}] :
        /\ \A p \in P : react[p] \in Reactions(p, sig)
        /\ proc' = [p \in Procs |-> IF p \in P THEN react[p] ELSE proc[p]]
        /\ code' = [p \in Procs |-> IF Alive(p) /\ p \in P /\ react[p] = "exited"
                                    THEN 128 + App!Number(sig) ELSE code[p]]
        /\ UNCHANGED opened

(* Mutant: a trap that forgets the runtime directory. *)
MutExitLeavesDir(st) ==
    /\ pc' = "exited" /\ exitStatus' = st
    /\ UNCHANGED runtimeDir
    /\ Deliver(sidecarPids, "TERM")

(* The EXIT trap: TERM what $sidecar_pids still names, remove the FIFOs and *)
(* their directory, leave with status st.                                   *)
Exit(st) ==
    /\ pc' = "exited"
    /\ exitStatus' = st
    /\ runtimeDir' = FALSE
    /\ Deliver(sidecarPids, "TERM")

-----------------------------------------------------------------------------
(* THE SHELL *)

(* Lines 6-27: a missing command or a bad mode is a usage error.  No trap is *)
(* set yet and nothing exists that a cleanup could remove.                   *)
Validate ==
    /\ pc = "validate"
    /\ IF config.command = "none" \/ config.mode = "bad" \/ config.fail = "bad"
       THEN pc' = "exited" /\ exitStatus' = 64
       ELSE pc' = "dispatch" /\ UNCHANGED exitStatus
    /\ UNCHANGED <<config, appPid, runtimeDir, sidecarPids, appStatus, sidecarStatus,
                   procVars, signalVars, lost>>

(* exec "$@": the workload replaces the shell and the EXIT trap with it.  A  *)
(* command that is not found leaves the shell in place: 127, after the trap. *)
Exec ==
    \/ /\ config.command = "found"
       /\ pc' = "execed"
       /\ proc' = [proc EXCEPT !["app"] = "running"]
       /\ UNCHANGED <<exitStatus, runtimeDir, code, opened>>
    \/ /\ config.command = "missing"
       /\ Exit(127)

Dispatch ==
    /\ pc = "dispatch"
    /\ \/ config.mode = "off" /\ Exec
       \/ /\ config.mode # "off"
          /\ pc' = "mktemp"
          /\ UNCHANGED <<exitStatus, runtimeDir, procVars>>
    /\ UNCHANGED <<config, appPid, sidecarPids, appStatus, sidecarStatus, signalVars, lost>>

Mktemp ==
    /\ pc = "mktemp"
    /\ \/ pc' = "probe" /\ runtimeDir' = TRUE /\ UNCHANGED <<exitStatus, procVars>>
       \/ Exit(70)
    /\ UNCHANGED <<config, appPid, sidecarPids, appStatus, sidecarStatus, signalVars, lost>>

Probe ==
    /\ pc = "probe"
    /\ \/ /\ Mine \subseteq config.installed
          /\ pc' = "mkfifo"
          /\ UNCHANGED <<exitStatus, runtimeDir, procVars>>
       \/ /\ ~(Mine \subseteq config.installed)
          /\ IF config.fail = "closed" THEN Exit(69) ELSE Exec
    /\ UNCHANGED <<config, appPid, sidecarPids, appStatus, sidecarStatus, signalVars, lost>>

Mkfifo ==
    /\ pc = "mkfifo"
    /\ \/ pc' = "spawn" /\ UNCHANGED <<exitStatus, runtimeDir, procVars>>
       \/ Exit(70)
    /\ UNCHANGED <<config, appPid, sidecarPids, appStatus, sidecarStatus, signalVars, lost>>

(* Mutant: only the first sidecar of the split mode is started. *)
MutSpawnOne(s) ==
    /\ pc = "spawn" /\ InTurn(s, {t \in Mine : proc[t] = "none"})
    /\ proc' = [proc EXCEPT ![s] = "opening"]
    /\ pc' = "fork" /\ sidecarPids' = Mine
    /\ UNCHANGED <<config, appPid, runtimeDir, appStatus, sidecarStatus, exitStatus,
                   code, opened, signalVars, lost>>

(* Fork sidecar s; it blocks opening its FIFO.  $sidecar_pids is assigned    *)
(* once the last one is forked.                                              *)
Spawn(s) ==
    LET rest == {t \in Mine : proc[t] = "none"}
    IN  /\ pc = "spawn"
        /\ InTurn(s, rest)
        /\ proc' = [proc EXCEPT ![s] = "opening"]
        /\ IF rest = {s} THEN pc' = "fork" /\ sidecarPids' = Mine
                         ELSE UNCHANGED <<pc, sidecarPids>>
        /\ UNCHANGED <<config, appPid, runtimeDir, appStatus, sidecarStatus, exitStatus,
                       code, opened, signalVars, lost>>

(* Fork the workload; it blocks opening the FIFOs it is redirected to. *)
Fork ==
    /\ pc = "fork"
    /\ pc' = "setpid"
    /\ proc' = [proc EXCEPT !["app"] = "opening"]
    /\ UNCHANGED <<config, appPid, runtimeDir, sidecarPids, appStatus, sidecarStatus,
                   exitStatus, code, opened, signalVars, lost>>

(* The shell cannot fork for mktemp, mkfifo, a sidecar or the workload, and   *)
(* gives up through the EXIT trap.  `kill` is built in, but rm and rmdir need *)
(* forks as well, and the directory stays if these fail too.                  *)
ForkFails ==
    /\ pc \in {"mktemp", "mkfifo", "spawn", "fork"}
    /\ pc' = "exited"
    /\ exitStatus' = CannotFork
    /\ runtimeDir' \in {runtimeDir, FALSE}
    /\ Deliver(sidecarPids, "TERM")
    /\ UNCHANGED <<config, appPid, sidecarPids, appStatus, sidecarStatus, signalVars, lost>>

SetPid ==
    /\ pc = "setpid"
    /\ pc' = "waitapp"
    /\ appPid' = TRUE
    /\ UNCHANGED <<config, runtimeDir, sidecarPids, appStatus, sidecarStatus, exitStatus,
                   procVars, signalVars, lost>>

(* Mutant: the script never waits for its sidecars. *)
MutWaitAppOnly ==
    /\ pc = "waitapp" /\ proc["app"] = "exited"
    /\ pc' = "finish" /\ appStatus' = code["app"] /\ appPid' = FALSE
    /\ UNCHANGED <<config, runtimeDir, sidecarPids, sidecarStatus, exitStatus, procVars,
                   signalVars, lost>>

(* wait "$app_pid" returns because the workload exited. *)
WaitApp ==
    /\ pc = "waitapp"
    /\ proc["app"] = "exited"
    /\ pc' = "waitside"
    /\ appStatus' = code["app"]
    /\ appPid' = FALSE
    /\ UNCHANGED <<config, runtimeDir, sidecarPids, sidecarStatus, exitStatus, procVars,
                   signalVars, lost>>

(* Mutants: one `wait` for both sidecars; $sidecar_pids is never emptied. *)
MutCollectFirst(s, st) ==
    /\ sidecarStatus' = [sidecarStatus EXCEPT ![s] = st]
    /\ pc' = "finish" /\ sidecarPids' = {}
MutCollectKeepsPids(s, st) ==
    /\ sidecarStatus' = [sidecarStatus EXCEPT ![s] = st]
    /\ IF {t \in Mine : sidecarStatus[t] = NoStatus} = {s} THEN pc' = "finish" ELSE UNCHANGED pc
    /\ UNCHANGED sidecarPids

(* The shell has status st for sidecar s; after the last one it forgets the  *)
(* sidecars' pids.                                                           *)
Collect(s, st) ==
    /\ sidecarStatus' = [sidecarStatus EXCEPT ![s] = st]
    /\ IF {t \in Mine : sidecarStatus[t] = NoStatus} = {s}
       THEN pc' = "finish" /\ sidecarPids' = {}
       ELSE UNCHANGED <<pc, sidecarPids>>

(* wait on sidecar s returns because s exited. *)
WaitSidecar(s) ==
    /\ pc = "waitside"
    /\ InTurn(s, {t \in Mine : sidecarStatus[t] = NoStatus})
    /\ proc[s] = "exited"
    /\ Collect(s, code[s])
    /\ UNCHANGED <<config, appPid, runtimeDir, appStatus, exitStatus, procVars, signalVars, lost>>

(* Mutants: the statuses of the two sidecars are added up; the last failing  *)
(* one's counts.                                                             *)
MutSidecarVerdictSum(status) ==
    IF Mine = {} THEN 0 ELSE IF Mine = {"combined"} THEN status["combined"]
    ELSE status["stdout"] + status["stderr"]
MutSidecarVerdictLast(status) ==
    LET failing == {s \in Mine : status[s] # 0}
    IN  IF failing = {} THEN 0
        ELSE status[CHOOSE s \in failing : s = "stdout" => "stderr" \notin failing]

(* The first failing sidecar's status, stdout before stderr. *)
SidecarVerdict(status) ==
    LET failing == {s \in Mine : status[s] # 0}
    IN  IF failing = {} THEN 0 ELSE status[CHOOSE s \in failing : InTurn(s, failing)]

(* Mutants: the closed policy is forgotten; a sidecar's failure always counts. *)
MutVerdictOpen(app, sidecar) == app
MutVerdictStrict(app, sidecar) == IF app # 0 THEN app ELSE sidecar

Verdict(app, sidecar) ==
    IF app # 0 THEN app ELSE IF config.fail = "closed" THEN sidecar ELSE 0

Finish ==
    /\ pc = "finish"
    /\ Exit(Verdict(appStatus, SidecarVerdict(sidecarStatus)))
    /\ UNCHANGED <<config, appPid, sidecarPids, appStatus, sidecarStatus, signalVars, lost>>

-----------------------------------------------------------------------------
(* THE OTHER PROCESSES *)

(* Opening a FIFO blocks until its other end is opened too. *)
OpenFifo(s) ==
    /\ proc["app"] = "opening" /\ proc[s] = "opening"
    /\ InTurn(s, Mine \ opened)
    /\ opened' = opened \cup {s}
    /\ proc' = [proc EXCEPT ![s] = "running",
                            !["app"] = IF opened' = Mine THEN "running" ELSE "opening"]
    /\ UNCHANGED <<config, pc, appPid, runtimeDir, sidecarPids, appStatus, sidecarStatus,
                   exitStatus, code, signalVars, lost>>

ProcExit(p, st) ==
    /\ proc[p] \in {"running", "draining"}
    /\ proc' = [proc EXCEPT ![p] = "exited"]
    /\ code' = [code EXCEPT ![p] = st]
    /\ UNCHANGED <<config, pc, appPid, runtimeDir, sidecarPids, appStatus, sidecarStatus,
                   exitStatus, opened, signalVars, lost>>

(* The workload exits, or is not there to be executed. *)
AppExit == \E st \in AppStatuses :
    ProcExit("app", IF config.command = "missing" THEN 127 ELSE st)

(* The workload writes into a FIFO whose reader is gone. *)
AppBrokenPipe ==
    /\ \E s \in opened : proc[s] = "exited"
    /\ ProcExit("app", BrokenPipe)

(* A sidecar exits: at end of file, or at any time of its own accord. *)
SidecarExit(s) == \E st \in SidecarStatuses : ProcExit(s, st)

(* The workload that replaced the shell exits; tini reports its status. *)
ExecedExit ==
    /\ pc = "execed" /\ proc["app"] = "exited"
    /\ pc' = "exited" /\ exitStatus' = code["app"]
    /\ UNCHANGED <<config, appPid, runtimeDir, sidecarPids, appStatus, sidecarStatus,
                   procVars, signalVars, lost>>

(* tini exits with the shell, and the container's processes are killed. *)
ContainerStop ==
    /\ pc = "exited"
    /\ pc' = "stopped"
    /\ lost' = {p \in Procs : Alive(p)}
    /\ proc' = [p \in Procs |-> IF Alive(p) THEN "exited" ELSE proc[p]]
    /\ code' = [p \in Procs |-> IF Alive(p) THEN Killed ELSE code[p]]
    /\ UNCHANGED <<config, appPid, runtimeDir, sidecarPids, appStatus, sidecarStatus,
                   exitStatus, opened, signalVars>>

(* A signal reaches the group.  Before the traps it kills the shell; while   *)
(* the shell waits it makes `wait` return 128+n at once; elsewhere the trap  *)
(* runs between two commands and changes nothing of the shell.               *)
Signal(sig) ==
    /\ sent < MaxSignals
    /\ pc \notin {"exited", "stopped"}
    /\ sent' = sent + 1
    /\ early' = (early \/ pc \in {"dispatch", "mktemp", "probe", "mkfifo", "spawn", "fork"})
    /\ stopping' = (stopping \/ (sig # "INT" /\ proc["app"] # "none"))
    /\ Deliver(Procs, sig)
    /\ \/ /\ pc = "validate"
          /\ pc' = "exited" /\ exitStatus' = 128 + App!Number(sig)
          /\ UNCHANGED <<appStatus, appPid, sidecarStatus, sidecarPids>>
       \/ /\ pc = "waitapp"
          /\ pc' = "waitside" /\ appStatus' = 128 + App!Number(sig) /\ appPid' = FALSE
          /\ UNCHANGED <<exitStatus, sidecarStatus, sidecarPids>>
       \/ /\ pc = "waitside"
          /\ \E s \in Mine : /\ InTurn(s, {t \in Mine : sidecarStatus[t] = NoStatus})
                             /\ Collect(s, 128 + App!Number(sig))
          /\ UNCHANGED <<exitStatus, appStatus, appPid>>
       \/ /\ pc \notin {"validate", "waitapp", "waitside"}
          /\ UNCHANGED <<pc, exitStatus, appStatus, appPid, sidecarStatus, sidecarPids>>
    /\ UNCHANGED <<config, runtimeDir, lost>>

-----------------------------------------------------------------------------
ShellStep ==
    \/ Validate \/ Dispatch \/ Mktemp \/ Probe \/ Mkfifo
    \/ \E s \in Sidecars : Spawn(s)
    \/ Fork \/ SetPid \/ WaitApp
    \/ \E s \in Sidecars : WaitSidecar(s)
    \/ Finish

Next ==
    \/ ShellStep \/ ForkFails
    \/ \E s \in Sidecars : OpenFifo(s) \/ SidecarExit(s)
    \/ AppExit \/ AppBrokenPipe
    \/ ExecedExit \/ ContainerStop
    \/ \E sig \in Signals : Signal(sig)

(* What a workload must do in time: a batch job ends, a server that was told *)
(* to drain ends; a server left alone may run for ever.                      *)
AppFinishes == (proc["app"] = "draining" \/ ~config.serves) /\ AppExit

(* A sidecar whose writer is gone reads end of file and exits. *)
SidecarFinishes(s) == proc["app"] = "exited" /\ SidecarExit(s)

Spec == Init /\ [][Next]_vars

FairSpec ==
    /\ Spec
    /\ WF_vars(ShellStep) /\ WF_vars(ExecedExit) /\ WF_vars(ContainerStop)
    /\ WF_vars(AppFinishes)
    /\ \A s \in Sidecars : WF_vars(OpenFifo(s)) /\ WF_vars(SidecarFinishes(s))

-----------------------------------------------------------------------------
(* PROPERTIES *)

Status == 0..255 \cup {NoStatus}

(* The type invariant of the shell and of the processes it supervises. *)
TypeOK ==
    /\ config \in Configs
    /\ pc \in Labels
    /\ appPid \in BOOLEAN /\ runtimeDir \in BOOLEAN
    /\ sidecarPids \subseteq Sidecars
    /\ appStatus \in Status /\ exitStatus \in Status
    /\ sidecarStatus \in [Sidecars -> Status]
    /\ proc \in [Procs -> {"none", "opening", "running", "draining", "exited"}]
    /\ code \in [Procs -> Status]
    /\ opened \subseteq Sidecars
    /\ sent \in 0..MaxSignals /\ early \in BOOLEAN /\ stopping \in BOOLEAN
    /\ lost \subseteq Procs

Down == pc \in {"exited", "stopped"}

(* The container reports success only for a workload that itself exited with *)
(* 0, whatever signals interrupted the waits; under the closed policy every  *)
(* sidecar must have exited with 0 too (finish, entrypoint.sh:66-79).        *)
ZeroMeansSuccess ==
    Down /\ exitStatus = 0 =>
        /\ proc["app"] = "exited" /\ code["app"] = 0
        /\ config.fail = "closed" => \A s \in Mine : proc[s] = "exited" /\ code[s] = 0

(* Undisturbed, the container waits for everything it started, and reports   *)
(* the workload's failure, else under the closed policy that of stdout's     *)
(* sidecar or else of stderr's, else 0: `wait` loses no status and no        *)
(* process, and none is judged in another's place (entrypoint.sh:66-146).    *)
QuietRunReportsPolicy ==
    LET failed == IF config.installed = Mine THEN {s \in Mine : code[s] # 0} ELSE {}
    IN  Down /\ sent = 0 /\ proc["app"] # "none" =>
          /\ lost = {} /\ \A p \in Procs : ~Alive(p)
          /\ code["app"] # 0 \/ config.fail = "open" \/ failed = {} => exitStatus = code["app"]
          /\ code["app"] = 0 /\ config.fail = "closed" =>
               \A s \in failed : (s = "stderr" /\ "stdout" \in failed) \/ exitStatus = code[s]

(* One signal alone never takes the container down under a live workload as  *)
(* long as one of its readers survived the signal: the shell then waits for  *)
(* that sidecar's end of file (entrypoint.sh:103-109, 130-138).              *)
OneSignalWaitsForReaders ==
    Down /\ sent <= 1 /\ (Alive("app") \/ "app" \in lost) =>
        \A s \in Mine : proc[s] = "exited" /\ s \notin lost

(* Every exit of the shell removes its runtime directory; only exec, which   *)
(* discards the EXIT trap, or a shell that cannot fork leaves it behind      *)
(* (entrypoint.sh:48-60, 93).                                                *)
ShellExitCleansUp ==
    Down /\ runtimeDir =>
        \/ config.fail = "open" /\ ~(Mine \subseteq config.installed)
        \/ exitStatus = CannotFork /\ proc["app"] = "none"

(* Once the workload was forked the EXIT trap's kill loop never signals a    *)
(* sidecar, which could still be draining its pipe: every path that reaches  *)
(* it has emptied $sidecar_pids (entrypoint.sh:49-51, 109, 138).             *)
CleanupSparesReaders == [][pc' = "exited" /\ proc["app"] # "none" => sidecarPids = {}]_vars

(* The open policy preserves the workload's success: a workload that is      *)
(* there and exits with nothing but 0, undisturbed by signals, is reported   *)
(* as 0 whatever its sidecars do (entrypoint.sh:72-78).  The code does not   *)
(* keep this: a sidecar that exits early takes the pipe's reader with it.    *)
FailOpenPreservesSuccess ==
    /\ AppStatuses = {0} /\ config.command = "found" /\ config.fail = "open"
    /\ Down /\ sent = 0 /\ proc["app"] # "none"
    => exitStatus = 0

(* A batch job's container comes down, provided no signal lands between the  *)
(* traps and the fork of the workload.                                       *)
BatchTerminates == []~early /\ []~config.serves => <>(pc = "stopped")

(* A TERM or HUP that reaches a forked workload brings the container down,   *)
(* server or batch job, even one left hanging by a signal that was swallowed *)
(* before the fork (entrypoint.sh:57-60, 128).                               *)
StopRequestHonoured == stopping ~> pc = "stopped"

(* The supervisor is a Container: whatever the interleaving of signals and   *)
(* exits, the status it reports has one of the reasons Container allows, and *)
(* it goes down once (entrypoint.sh:66-79, 103-146).                         *)
Promise == INSTANCE Container WITH
    Refusals <- {CannotFork, 64, 69, 70, 127},
    Interruptions <- {128 + App!Number(sig) : sig \in Signals},
    up <- ~Down,
    work <- CASE proc["app"] = "none" -> "none" [] proc["app"] = "exited" -> "ended" [] OTHER -> "alive",
    result <- code["app"],
    told <- sent > 0,
    strict <- config.fail = "closed",
    report <- exitStatus
IsContainer == Promise!Spec
=============================================================================
