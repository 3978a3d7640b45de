----------------------------- MODULE HttpWorker -----------------------------
(***************************************************************************)
(* The HTTP worker as a process (src/bin/worker_http.rs): the arguments    *)
(* and policy files it admits before it listens, the requests it then      *)
(* serves concurrently through the command core, and what a signal does to *)
(* the process and to requests in flight.                                  *)
(*                                                                         *)
(* External: flags2env, ores_middleware, axum's accept loop and the        *)
(* connections, which end gracefully once the shutdown future resolves.    *)
(***************************************************************************)
EXTENDS Adapters, Sequences

CONSTANTS
    Starts,       \* the ways the process may be started
    Requests,     \* requests that clients may send
    Invocation,   \* the raw invocation each of them carries
    HeadersOf,    \* and its headers
    Signals,      \* signals the environment may send
    MaxSignals,   \* bound: how many
    MaxEdits      \* bound: changes to the policy files

Ports == {"FUNCTIONS_CUSTOMHANDLER_PORT", "PORT"}
Variables == Ports \cup {"FUNCTIONS_WORKER_RUNTIME", "K_SERVICE", "CLOUD_RUN_JOB", "SCINTILLA_FUNCTION"}

(* How a process is started: the contract override and the contracts that    *)
(* exist; what the parser leaves over of the command line, argv[0] first;    *)
(* unknown options and parse errors; does the environment hold diagnostics   *)
(* of its own; the variables and the options that are set, those that are no *)
(* port; the form of LAMBDAS_BIND; is SIGINT ignored.                        *)
StartRecords ==
    [override : {"unset", "relative", "missing", "file"}, shipped : SUBSET {"share", "bin", "source"},
     positionals : Seq({"executable", "other"}), unknown : Nat, errors : Nat, spoofed : BOOLEAN,
     ambient : SUBSET Variables, options : SUBSET Ports, malformed : SUBSET Ports,
     bind : {"socket", "address", "neither"}, shielded : BOOLEAN]

ASSUME WorkerAssumption ==
    /\ Starts \subseteq StartRecords
    /\ Signals \subseteq {"HUP", "INT", "TERM"}
    /\ MaxSignals \in Nat /\ MaxEdits \in Nat
    /\ \A r \in Requests : Invocation[r] \in RawInvocations(Nat) /\ HeadersOf[r] \in Headers

(* A policy file is a regular file that is admissible or not, a link to an   *)
(* admissible one, or absent.                                                *)
Files == {"manifest", "stack"}
Contents == {"good", "bad", "link", "absent"}

VARIABLES
    start,      \* how this process was started
    file,       \* the policy files
    edited,     \* how often they were changed since
    pc,         \* the next step of main
    contract,   \* the contract main uses
    installed,  \* the policy files as install_from_env read them
    handler,    \* is the SIGINT handler installed?
    stop,       \* has the shutdown future resolved?
    exitStatus, \* the status the process exited with
    sent,       \* how many signals were sent
    conn,       \* state of each request's connection
    reply       \* [code, receipt] of each answered request

mainVars == <<contract, installed>>
serverVars == <<handler, stop, conn, reply>>
vars == <<start, file, edited, pc, mainVars, serverVars, exitStatus, sent>>

NoStatus == 1000
NoReceipt == [requestId |-> Fallback, provider |-> "local", ok |-> FALSE,
              operation |-> "none", result |-> "none", error |-> "none"]

Init ==
    /\ start \in Starts
    /\ file \in [Files -> Contents] /\ edited = 0
    /\ pc = "resolve" /\ contract = "none"
    /\ installed = [f \in Files |-> "absent"]
    /\ handler = FALSE /\ stop = FALSE
    /\ exitStatus = NoStatus /\ sent = 0
    /\ conn = [r \in Requests |-> "unsent"]
    /\ reply = [r \in Requests |-> [code |-> 0, receipt |-> NoReceipt]]

Listening == pc = "serving"

(* main goes on to step next, or returns an error. *)
Continue(step, next) ==
    /\ pc = step /\ pc' = next
    /\ UNCHANGED <<start, file, edited, serverVars, exitStatus, sent>>
Fail(step) ==
    /\ pc = step /\ pc' = "exited" /\ exitStatus' = 1
    /\ UNCHANGED <<start, file, edited, mainVars, serverVars, sent>>

-----------------------------------------------------------------------------
(* START-UP *)

(* Mutant: a bad override falls back to the installed contract. *)
MutContractLenient ==
    IF start.override = "file" THEN "override"
    ELSE IF "share" \in start.shipped THEN "share" ELSE "none"

(* An override is used or refused; otherwise the contract beside the         *)
(* executable, in this order, or the one of the source tree.                 *)
Contract ==
    IF start.override # "unset" THEN IF start.override = "file" THEN "override" ELSE "none"
    ELSE IF "share" \in start.shipped THEN "share"
    ELSE IF "bin" \in start.shipped THEN "bin"
    ELSE IF "source" \in start.shipped THEN "source" ELSE "none"

ResolveContractPath ==
    \/ /\ Contract # "none"
       /\ contract' = Contract
       /\ Continue("resolve", "parse")
       /\ UNCHANGED installed
    \/ Contract = "none" /\ Fail("resolve")

(* Mutant: diagnostics are looked up after the environment was merged in.    *)
MutDiagnosticCountSpoofed ==
    IF start.spoofed THEN 0
    ELSE start.unknown + start.errors + Len(SubSeq(start.positionals, 2, Len(start.positionals)))

(* Entries of the three diagnostic channels in the map the parser returned.  *)
(* A first positional that is the executable itself is argv[0].              *)
DiagnosticCount ==
    LET extras == IF start.positionals # <<>> /\ Head(start.positionals) = "executable"
                  THEN Tail(start.positionals) ELSE start.positionals
    IN  start.unknown + start.errors + Len(extras)

(* The environment with the options laid over it. *)
Values == start.ambient \cup start.options

(* The contract's audit, the parse, the diagnostics and the coercion of the  *)
(* ports.  The audit and the parser may fail for reasons of their own.       *)
ParseArguments ==
    \/ /\ DiagnosticCount = 0 /\ start.malformed \cap Values = {}
       /\ Continue("parse", "manifest")
       /\ UNCHANGED mainVars
    \/ Fail("parse")

(* admit_middleware_boundary in its three steps: the manifest is looked at   *)
(* without following a link, then both files are read by the library, which  *)
(* follows links, then the stack is looked at like the manifest.             *)
CheckManifest ==
    \/ /\ file["manifest"] \in {"good", "bad"}
       /\ Continue("manifest", "admit") /\ UNCHANGED mainVars
    \/ file["manifest"] \in {"link", "absent"} /\ Fail("manifest")

Admissible == \A f \in Files : file[f] \in {"good", "link"}

Admit ==
    \/ Admissible /\ Continue("admit", "stack") /\ UNCHANGED mainVars
    \/ ~Admissible /\ Fail("admit")

(* Mutant: the stack is not looked at. *)
MutCheckStackNever == Continue("stack", "install") /\ UNCHANGED mainVars

CheckStack ==
    \/ /\ file["stack"] \in {"good", "bad"}
       /\ Continue("stack", "install") /\ UNCHANGED mainVars
    \/ file["stack"] \in {"link", "absent"} /\ Fail("stack")

(* The port, by the variable it comes from; a full socket overrides both.    *)
Address ==
    IF start.bind = "socket" THEN "socket"
    ELSE IF "FUNCTIONS_CUSTOMHANDLER_PORT" \in Values THEN "FUNCTIONS_CUSTOMHANDLER_PORT"
    ELSE IF "PORT" \in Values THEN "PORT" ELSE "default"

(* Mutant: the platform is detected in the ambient environment. *)
MutPlatformAmbient == DetectProvider(start.ambient)

Platform == DetectProvider(Values)

(* The address is parsed, the platform detected, and install_from_env reads  *)
(* the policy files again to build the application.                          *)
Install ==
    \/ /\ start.bind # "neither" /\ Admissible
       /\ installed' = file
       /\ Continue("install", "listen")
       /\ UNCHANGED contract
    \/ ~(start.bind # "neither" /\ Admissible) /\ Fail("install")

(* The address may be taken. *)
Listen ==
    \/ Continue("listen", "serving") /\ UNCHANGED mainVars
    \/ Fail("listen")

StartUp ==
    ResolveContractPath \/ ParseArguments \/ CheckManifest \/ Admit \/ CheckStack \/ Install \/ Listen

(* Someone changes a policy file while the worker starts. *)
Edit ==
    /\ edited < MaxEdits
    /\ pc \in {"resolve", "parse", "manifest", "admit", "stack", "install"}
    /\ edited' = edited + 1
    /\ \E f \in Files, c \in Contents : c # file[f] /\ file' = [file EXCEPT ![f] = c]
    /\ UNCHANGED <<start, pc, mainVars, serverVars, exitStatus, sent>>

-----------------------------------------------------------------------------
(* SERVING *)

Served == UNCHANGED <<start, file, edited, mainVars, sent>>
Connection(r, from, to) ==
    /\ conn[r] \in from
    /\ conn' = [conn EXCEPT ![r] = to]
    /\ UNCHANGED <<pc, handler, stop, exitStatus>> /\ Served

(* A client connects; before and after, the kernel refuses it. *)
Send(r) == Listening /\ Connection(r, {"unsent"}, "queued") /\ UNCHANGED reply

(* axum accepts the connection, then hyper reads the request from it. *)
Accept(r) == Listening /\ Connection(r, {"queued"}, "accepted") /\ UNCHANGED reply
Read(r) == Connection(r, {"accepted"}, "handling") /\ UNCHANGED reply

(* A connection of which nothing was read yet is closed by a shutdown. *)
Cut(r) == stop /\ Connection(r, {"accepted"}, "reset") /\ UNCHANGED reply

(* The body limit or the handler answers, or a middleware of the policy does.*)
Respond(r) ==
    LET receipt == HandleBound(Invocation[r], Platform, HttpRequestId(Platform, HeadersOf[r]))
    IN  /\ Connection(r, {"handling"}, "answered")
        /\ \/ reply' = [reply EXCEPT ![r] =
                          IF Size(Invocation[r]) > BodyLimit THEN [code |-> 413, receipt |-> NoReceipt]
                          ELSE [code |-> HttpStatus(receipt), receipt |-> receipt]]
           \/ reply' = [reply EXCEPT ![r].code = 429]

(* The client goes away; its request is dropped. *)
Leave(r) == Connection(r, {"queued", "accepted", "handling"}, "left") /\ UNCHANGED reply

(* The shutdown future is polled for the first time: ctrl_c takes over the   *)
(* disposition of SIGINT, ignored or not.                                    *)
InstallHandler ==
    /\ Listening /\ ~handler /\ handler' = TRUE
    /\ UNCHANGED <<pc, stop, conn, reply, exitStatus>> /\ Served

(* The accept loop sees the shutdown and drops the listener. *)
StopListening ==
    /\ Listening /\ stop
    /\ pc' = "draining"
    /\ conn' = [r \in Requests |-> IF conn[r] = "queued" THEN "reset" ELSE conn[r]]
    /\ UNCHANGED <<handler, stop, reply, exitStatus>> /\ Served

(* Mutant: main returns without waiting for the connections. *)
MutReturnAtOnce ==
    /\ pc = "draining"
    /\ pc' = "exited" /\ exitStatus' = 0
    /\ UNCHANGED serverVars /\ Served

(* Mutant: main waits for the answer to each request that was begun. *)
MutReturnCountsAnswers ==
    /\ pc = "draining"
    /\ \A r \in Requests : conn[r] \in {"unsent", "reset", "answered"}
    /\ pc' = "exited" /\ exitStatus' = 0
    /\ UNCHANGED serverVars /\ Served

(* The last connection has ended, and main returns. *)
Return ==
    /\ pc = "draining"
    /\ \A r \in Requests : conn[r] \notin {"accepted", "handling"}
    /\ pc' = "exited" /\ exitStatus' = 0
    /\ UNCHANGED serverVars /\ Served

Life == IF pc = "exited" THEN "exited" ELSE IF stop THEN "draining" ELSE "running"
Process == INSTANCE Workload WITH
    Statuses <- {0, 1}, life <- Life, shielded <- start.shielded,
    status <- IF exitStatus = NoStatus THEN 0 ELSE exitStatus

(* Mutant: an interrupt before the handler is installed is remembered. *)
MutInterruptEarly == stop' = TRUE /\ UNCHANGED <<pc, conn, exitStatus>>

(* With the handler, SIGINT resolves the shutdown future, once. *)
Interrupt == handler /\ stop' = TRUE /\ UNCHANGED <<pc, conn, exitStatus>>

(* The default disposition ends the process wherever it is. *)
Die(sig) ==
    /\ pc' = "exited" /\ exitStatus' = 128 + Process!Number(sig)
    /\ conn' = [r \in Requests |-> CASE conn[r] \in {"queued", "accepted"} -> "reset"
                                     [] conn[r] = "handling" -> "lost"
                                     [] OTHER -> conn[r]]
    /\ UNCHANGED stop

Signal(sig) ==
    /\ sent < MaxSignals /\ pc # "exited"
    /\ sent' = sent + 1
    /\ \/ sig = "INT" /\ Interrupt
       \/ sig = "INT" /\ ~handler /\ start.shielded /\ UNCHANGED <<pc, stop, conn, exitStatus>>
       \/ ~(sig = "INT" /\ (handler \/ start.shielded)) /\ Die(sig)
    /\ UNCHANGED <<start, file, edited, mainVars, handler, reply>>

-----------------------------------------------------------------------------
Progress(r) == Read(r) \/ Cut(r) \/ Respond(r) \/ Leave(r)

Next ==
    \/ StartUp \/ Edit
    \/ InstallHandler \/ StopListening \/ Return
    \/ \E r \in Requests : Send(r) \/ Accept(r) \/ Progress(r)
    \/ \E sig \in Signals : Signal(sig)

Spec == Init /\ [][Next]_vars

(* The executor polls what is ready, and a request is answered or its client *)
(* gives up; nothing but the client limits how long one may take.            *)
FairSpec ==
    /\ Spec
    /\ WF_vars(StopListening) /\ WF_vars(Return)
    /\ \A r \in Requests : WF_vars(Progress(r))

-----------------------------------------------------------------------------
(* PROPERTIES *)

TypeOK ==
    /\ start \in Starts
    /\ file \in [Files -> Contents] /\ edited \in 0..MaxEdits
    /\ pc \in {"resolve", "parse", "manifest", "admit", "stack", "install", "listen",
               "serving", "draining", "exited"}
    /\ contract \in {"none", "override", "share", "bin", "source"}
    /\ installed \in [Files -> Contents]
    /\ handler \in BOOLEAN /\ stop \in BOOLEAN
    /\ exitStatus \in {NoStatus, 0, 1, 129, 130, 143} /\ sent \in 0..MaxSignals
    /\ conn \in [Requests -> {"unsent", "queued", "accepted", "handling", "answered", "left",
                              "reset", "lost"}]
    /\ reply \in [Requests -> [code : {0, 200, 400, 413, 429}, receipt : Receipts \cup {NoReceipt}]]
    /\ pc = "exited" <=> exitStatus # NoStatus
    /\ stop => handler

Up == pc \in {"serving", "draining"}

(* A worker that serves was given an empty command line but for declared     *)
(* options, and runs under the contract the override names if there is one;  *)
(* variables of the same names as the diagnostics change nothing             *)
(* (worker_http.rs:69-85, 134-157, 159-178).                                 *)
ArgumentsAreReviewed ==
    Up => /\ start.unknown = 0 /\ start.errors = 0
          /\ start.positionals \in {<<>>, <<"executable">>}
          /\ IF start.override = "unset" THEN contract \in start.shipped ELSE contract = "override"

(* No request is served but under a policy that was admissible when it was   *)
(* installed, and, unless the files changed while the worker started, that   *)
(* is a policy of regular files (worker_http.rs:33-50, 99, 116).             *)
PolicyGoverns ==
    Up => \A f \in Files : /\ installed[f] \in {"good", "link"}
                           /\ edited = 0 => installed[f] = "good"

(* Whoever is reached on the port of the Azure host answers as Azure, also   *)
(* if the port came from the command line (worker_http.rs:102-115).          *)
AzurePortMeansAzure ==
    Address = "FUNCTIONS_CUSTOMHANDLER_PORT" => \A r \in Requests :
        reply[r].receipt # NoReceipt => reply[r].receipt.provider = "azure-functions"

(* A worker that reports success lost no request it had begun to handle; an  *)
(* interrupt after the handler is installed never ends it in another way     *)
(* (worker_http.rs:119-130).                                                 *)
GracefulExitLosesNothing ==
    /\ exitStatus = 0 => \A r \in Requests : conn[r] \notin {"queued", "accepted", "handling", "lost"}
    /\ exitStatus = 128 + Process!Number("INT") => ~handler

(* The worker is a workload as the supervisor relies on one: signals drain   *)
(* or kill it, and once told to drain it exits, provided every request ends. *)
ActsAsWorkload == Process!Spec
=============================================================================
