-------------------------- MODULE HttpWorkerProofs --------------------------
(***************************************************************************)
(* What a serving HTTP worker was given, what its graceful exit leaves     *)
(* behind, and that it steps as a Workload, for any way to start it, any   *)
(* requests, signals and changes to the policy files.                      *)
(***************************************************************************)
EXTENDS HttpWorker, RuntimeProofs

(* The steps of main, and what lies behind it at each of them. *)
Labels == {"resolve", "parse", "manifest", "admit", "stack", "install", "listen",
           "serving", "draining", "exited"}
Ended == {"exited"}
Starting == {"resolve", "parse", "manifest", "admit", "stack", "install", "listen"}

(* The contract was resolved, then the command line found empty. *)
Reviewed ==
    /\ pc \notin {"resolve"} \cup Ended => contract = Contract /\ contract # "none"
    /\ pc \notin {"resolve", "parse"} \cup Ended => DiagnosticCount = 0

(* What the checks saw of the policy files still holds of unchanged ones, and *)
(* what was installed passed them all.                                        *)
Governed ==
    /\ edited = 0 /\ pc \in {"admit", "stack", "install"} => file["manifest"] \in {"good", "bad"}
    /\ edited = 0 /\ pc = "install" => file["stack"] \in {"good", "bad"}
    /\ pc \in {"listen", "serving", "draining"} => \A f \in Files :
           installed[f] \in {"good", "link"} /\ (edited = 0 => installed[f] = "good")

(* Connections exist only while the worker is up, and it leaves none behind. *)
Drained ==
    /\ \A r \in Requests :
         /\ pc \in Starting => conn[r] = "unsent"
         /\ pc = "draining" => conn[r] # "queued"
         /\ pc \in Ended => conn[r] \notin {"queued", "accepted", "handling"}
         /\ conn[r] = "lost" => pc \in Ended /\ exitStatus # 0
    /\ pc \in Starting => ~handler
    /\ exitStatus = 130 => ~handler

(* Every receipt names the platform. *)
Named ==
    \A r \in Requests : reply[r].receipt # NoReceipt => reply[r].receipt.provider = Platform

IInv == TypeOK /\ Reviewed /\ Governed /\ Drained /\ Named

-----------------------------------------------------------------------------
(* Signals have distinct numbers. *)
LEMMA Numbers ==
    ASSUME NEW sig \in Signals
    PROVE  /\ 128 + Process!Number(sig) \in {129, 130, 143}
           /\ 128 + Process!Number(sig) = 130 => sig = "INT"
BY WorkerAssumption DEF Process!Number

LEMMA StartFacts ==
    ASSUME start \in Starts
    PROVE  start \in StartRecords /\ start.shielded \in BOOLEAN
BY WorkerAssumption DEF StartRecords

LEMMA InvInit == Init => IInv
<1> SUFFICES ASSUME Init PROVE IInv
    OBVIOUS
<1> USE DEF Init, Starting, Ended
<1>1. TypeOK
    <2>1. 0 \in 0..MaxEdits /\ 0 \in 0..MaxSignals
        BY WorkerAssumption
    <2>2. installed \in [Files -> Contents]
        BY DEF Contents
    <2>3. reply \in [Requests -> [code : {0, 200, 400, 413, 429}, receipt : Receipts \cup {NoReceipt}]]
        OBVIOUS
    <2> QED
        BY <2>1, <2>2, <2>3 DEF TypeOK
<1>2. Reviewed /\ Governed
    BY DEF Reviewed, Governed
<1>3. Drained /\ Named
    BY DEF Drained, Named, NoStatus
<1> QED
    BY <1>1, <1>2, <1>3 DEF IInv

-----------------------------------------------------------------------------
(* START-UP *)

(* main returned an error. *)
LEMMA FailStep ==
    ASSUME IInv, NEW step \in Starting, Fail(step)
    PROVE  IInv'
<1> USE DEF IInv, Fail, mainVars, serverVars, Starting, Ended
<1>1. TypeOK'
    BY DEF TypeOK, NoStatus
<1>2. Reviewed' /\ Governed'
    BY DEF Reviewed, Governed
<1>3. Drained'
    BY DEF Drained
<1>4. Named'
    BY DEF Named, Platform, Values
<1> QED
    BY <1>1, <1>2, <1>3, <1>4

(* main went on: nothing changes that the clients see. *)
LEMMA ContinueStep ==
    ASSUME IInv, NEW step \in Starting, NEW next \in Starting \cup {"serving"},
           Continue(step, next)
    PROVE  /\ Drained' /\ Named'
           /\ contract' \in {"none", "override", "share", "bin", "source"}
              /\ installed' \in [Files -> Contents] => TypeOK'
<1> USE DEF IInv, Continue, serverVars, Starting, Ended
<1>1. Drained'
    BY DEF Drained, TypeOK, NoStatus
<1>2. Named'
    BY DEF Named, Platform, Values
<1>3. ASSUME contract' \in {"none", "override", "share", "bin", "source"},
             installed' \in [Files -> Contents]
      PROVE  TypeOK'
    BY <1>3 DEF TypeOK
<1> QED
    BY <1>1, <1>2, <1>3

LEMMA StartUpStep == ASSUME IInv, StartUp PROVE IInv'
<1> USE DEF Starting, Ended
<1>0. /\ contract \in {"none", "override", "share", "bin", "source"}
      /\ installed \in [Files -> Contents] /\ file \in [Files -> Contents]
    BY DEF IInv, TypeOK
<1>1. CASE ResolveContractPath
    <2>1. CASE Contract # "none" /\ contract' = Contract /\ Continue("resolve", "parse")
               /\ UNCHANGED installed
        <3>1. Contract \in {"none", "override", "share", "bin", "source"}
            BY DEF Contract
        <3>2. Reviewed'
            BY <2>1 DEF Continue, Reviewed, Contract
        <3>3. Governed'
            BY <2>1 DEF Continue, Governed
        <3> QED
            BY <1>0, <2>1, <3>1, <3>2, <3>3, ContinueStep DEF IInv
    <2> QED
        BY <1>1, <2>1, FailStep DEF ResolveContractPath
<1>2. CASE ParseArguments
    <2>1. CASE DiagnosticCount = 0 /\ Continue("parse", "manifest") /\ UNCHANGED mainVars
        <3>1. Reviewed' /\ Governed'
            BY <2>1 DEF IInv, Continue, Reviewed, Governed, Contract, DiagnosticCount, mainVars
        <3> QED
            BY <1>0, <2>1, <3>1, ContinueStep DEF IInv, mainVars
    <2> QED
        BY <1>2, <2>1, FailStep DEF ParseArguments
<1>3. CASE CheckManifest
    <2>1. CASE file["manifest"] \in {"good", "bad"} /\ Continue("manifest", "admit") /\ UNCHANGED mainVars
        <3>1. Reviewed' /\ Governed'
            BY <2>1 DEF IInv, Continue, Reviewed, Governed, Contract, DiagnosticCount, mainVars
        <3> QED
            BY <1>0, <2>1, <3>1, ContinueStep DEF IInv, mainVars
    <2> QED
        BY <1>3, <2>1, FailStep DEF CheckManifest
<1>4. CASE Admit
    <2>1. CASE Continue("admit", "stack") /\ UNCHANGED mainVars
        <3>1. Reviewed' /\ Governed'
            BY <2>1 DEF IInv, Continue, Reviewed, Governed, Contract, DiagnosticCount, mainVars
        <3> QED
            BY <1>0, <2>1, <3>1, ContinueStep DEF IInv, mainVars
    <2> QED
        BY <1>4, <2>1, FailStep DEF Admit
<1>5. CASE CheckStack
    <2>1. CASE file["stack"] \in {"good", "bad"} /\ Continue("stack", "install") /\ UNCHANGED mainVars
        <3>1. Reviewed' /\ Governed'
            BY <2>1 DEF IInv, Continue, Reviewed, Governed, Contract, DiagnosticCount, mainVars
        <3> QED
            BY <1>0, <2>1, <3>1, ContinueStep DEF IInv, mainVars
    <2> QED
        BY <1>5, <2>1, FailStep DEF CheckStack
<1>6. CASE Install
    <2>1. CASE Admissible /\ installed' = file /\ Continue("install", "listen") /\ UNCHANGED contract
        <3>1. Reviewed'
            BY <2>1 DEF IInv, Continue, Reviewed, Contract, DiagnosticCount
        <3>2. Governed'
            BY <2>1 DEF IInv, Continue, Governed, Admissible, Files
        <3> QED
            BY <1>0, <2>1, <3>1, <3>2, ContinueStep DEF IInv
    <2> QED
        BY <1>6, <2>1, FailStep DEF Install
<1>7. CASE Listen
    <2>1. CASE Continue("listen", "serving") /\ UNCHANGED mainVars
        <3>1. Reviewed' /\ Governed'
            BY <2>1 DEF IInv, Continue, Reviewed, Governed, Contract, DiagnosticCount, mainVars
        <3> QED
            BY <1>0, <2>1, <3>1, ContinueStep DEF IInv, mainVars
    <2> QED
        BY <1>7, <2>1, FailStep DEF Listen
<1> QED
    BY <1>1, <1>2, <1>3, <1>4, <1>5, <1>6, <1>7 DEF StartUp

(* A change to the files makes edited positive, and stops with the install. *)
LEMMA EditStep == ASSUME IInv, Edit PROVE IInv'
<1> USE DEF IInv, Edit, mainVars, serverVars
<1>0. edited \in Nat /\ edited' \in 0..MaxEdits /\ edited' # 0
    BY WorkerAssumption DEF TypeOK
<1>1. TypeOK'
    BY <1>0 DEF TypeOK
<1>2. Reviewed'
    BY DEF Reviewed, Contract, DiagnosticCount
<1>3. Governed'
    BY <1>0 DEF Governed
<1>4. Drained' /\ Named'
    BY DEF Drained, Named, Platform, Values
<1> QED
    BY <1>1, <1>2, <1>3, <1>4

-----------------------------------------------------------------------------
(* SERVING *)

(* What no step of a connection touches. *)
LEMMA ServedStep ==
    ASSUME IInv, Served, pc' = pc
    PROVE  Reviewed' /\ Governed'
BY DEF IInv, Served, mainVars, Reviewed, Governed, Contract, DiagnosticCount, Ended

(* A connection of a worker that is up moves on, its reply well formed. *)
LEMMA ConnectionStep ==
    ASSUME IInv, NEW r \in Requests, NEW from, NEW to, Connection(r, from, to),
           to \in {"queued", "accepted", "handling", "answered", "left", "reset"},
           pc \notin Starting,
           to = "queued" => pc = "serving",
           to \in {"accepted", "handling"} => pc \notin Ended,
           reply' \in [Requests -> [code : {0, 200, 400, 413, 429},
                                    receipt : Receipts \cup {NoReceipt}]],
           \A q \in Requests : reply'[q].receipt # NoReceipt => reply'[q].receipt.provider = Platform
    PROVE  IInv'
<1> USE DEF Connection, Served, mainVars
<1>0. Reviewed' /\ Governed'
    BY ServedStep
<1>1. TypeOK'
    <2>1. conn' \in [Requests -> {"unsent", "queued", "accepted", "handling", "answered", "left",
                                  "reset", "lost"}]
        BY DEF IInv, TypeOK
    <2> QED
        BY <2>1 DEF IInv, TypeOK
<1>2. Drained'
    BY DEF IInv, TypeOK, Drained, Starting, Ended
<1>3. Named'
    BY DEF Named, Platform, Values
<1> QED
    BY <1>0, <1>1, <1>2, <1>3 DEF IInv

(* What the worker answers a request with. *)
LEMMA ResponseFacts ==
    ASSUME NEW r \in Requests
    PROVE  LET receipt == HandleBound(Invocation[r], Platform, HttpRequestId(Platform, HeadersOf[r]))
           IN  /\ receipt \in Receipts /\ receipt.provider = Platform
               /\ HttpStatus(receipt) \in {200, 400, 413}
<1>1. Invocation[r] \in RawInvocations(Nat)
    BY WorkerAssumption
<1>2. Platform \in Providers
    BY Detected DEF Platform
<1> QED
    BY <1>1, <1>2, BoundReceipt DEF HttpStatus

LEMMA RequestStep ==
    ASSUME IInv, NEW r \in Requests, Send(r) \/ Accept(r) \/ Progress(r)
    PROVE  IInv'
<1> USE DEF Starting, Ended
<1>0. /\ \A q \in Requests : reply[q].receipt # NoReceipt => reply[q].receipt.provider = Platform
      /\ reply \in [Requests -> [code : {0, 200, 400, 413, 429}, receipt : Receipts \cup {NoReceipt}]]
    BY DEF IInv, Named, TypeOK
<1>1. conn[r] # "unsent" => pc \notin Starting
    BY DEF IInv, Drained
<1>2. conn[r] \in {"queued", "accepted", "handling"} => pc \notin Ended
    BY DEF IInv, Drained
<1>3. CASE Send(r)
    BY <1>0, <1>3, ConnectionStep DEF Send, Listening
<1>4. CASE Accept(r)
    BY <1>0, <1>4, ConnectionStep DEF Accept, Listening
<1>5. CASE Read(r)
    <2>1. conn[r] = "accepted"
        BY <1>5 DEF Read, Connection
    <2> QED
        BY <1>0, <1>1, <1>2, <1>5, <2>1, ConnectionStep DEF Read
<1>6. CASE Cut(r)
    <2>1. conn[r] = "accepted"
        BY <1>6 DEF Cut, Connection
    <2> QED
        BY <1>0, <1>1, <1>6, <2>1, ConnectionStep DEF Cut
<1>7. CASE Respond(r)
    <2> DEFINE receipt == HandleBound(Invocation[r], Platform, HttpRequestId(Platform, HeadersOf[r]))
    <2>1. conn[r] = "handling" /\ Connection(r, {"handling"}, "answered")
        BY <1>7 DEF Respond, Connection
    <2>2. receipt \in Receipts /\ receipt.provider = Platform /\ HttpStatus(receipt) \in {200, 400, 413}
        BY ResponseFacts
    <2>3. \/ reply' = [reply EXCEPT ![r] =
                          IF Size(Invocation[r]) > BodyLimit THEN [code |-> 413, receipt |-> NoReceipt]
                          ELSE [code |-> HttpStatus(receipt), receipt |-> receipt]]
          \/ reply' = [reply EXCEPT ![r].code = 429]
        BY <1>7 DEF Respond
    <2> HIDE DEF receipt
    <2>4. reply' \in [Requests -> [code : {0, 200, 400, 413, 429}, receipt : Receipts \cup {NoReceipt}]]
        BY <1>0, <2>2, <2>3
    <2>5. \A q \in Requests : reply'[q].receipt # NoReceipt => reply'[q].receipt.provider = Platform
        BY <1>0, <2>2, <2>3
    <2> QED
        BY <1>1, <2>1, <2>4, <2>5, ConnectionStep
<1>8. CASE Leave(r)
    <2>1. conn[r] # "unsent"
        BY <1>8 DEF Leave, Connection
    <2> QED
        BY <1>0, <1>1, <1>8, <2>1, ConnectionStep DEF Leave
<1> QED
    BY <1>3, <1>4, <1>5, <1>6, <1>7, <1>8 DEF Progress

(* The server's own steps, and a signal. *)
LEMMA ServerStep ==
    ASSUME IInv, InstallHandler \/ StopListening \/ Return
    PROVE  IInv'
<1> USE DEF Served, mainVars, Listening, Starting, Ended
<1>1. CASE InstallHandler
    <2>1. TypeOK'
        BY <1>1 DEF InstallHandler, IInv, TypeOK
    <2>2. exitStatus' = NoStatus
        BY <1>1 DEF InstallHandler, IInv, TypeOK
    <2>3. Drained'
        BY <1>1, <2>2 DEF InstallHandler, IInv, Drained, NoStatus
    <2>4. Named'
        BY <1>1 DEF InstallHandler, IInv, Named, Platform, Values
    <2> QED
        BY <1>1, <2>1, <2>3, <2>4, ServedStep DEF InstallHandler, IInv
<1>2. CASE StopListening
    <2>1. TypeOK'
        BY <1>2 DEF StopListening, IInv, TypeOK
    <2>2. Reviewed' /\ Governed'
        BY <1>2 DEF StopListening, IInv, Reviewed, Governed, Contract, DiagnosticCount
    <2>3. Drained'
        BY <1>2 DEF StopListening, IInv, TypeOK, Drained
    <2>4. Named'
        BY <1>2 DEF StopListening, IInv, Named, Platform, Values
    <2> QED
        BY <2>1, <2>2, <2>3, <2>4 DEF IInv
<1>3. CASE Return
    <2> USE DEF serverVars
    <2>1. TypeOK'
        BY <1>3 DEF Return, IInv, TypeOK, NoStatus
    <2>2. Reviewed' /\ Governed'
        BY <1>3 DEF Return, IInv, Reviewed, Governed
    <2>3. Drained'
        BY <1>3 DEF Return, IInv, TypeOK, Drained
    <2>4. Named'
        BY <1>3 DEF Return, IInv, Named, Platform, Values
    <2> QED
        BY <2>1, <2>2, <2>3, <2>4 DEF IInv
<1> QED
    BY <1>1, <1>2, <1>3

LEMMA SignalStep == ASSUME IInv, NEW sig \in Signals, Signal(sig) PROVE IInv'
<1> USE DEF Signal, mainVars, Starting, Ended
<1>0. sent' \in 0..MaxSignals
    BY WorkerAssumption DEF IInv, TypeOK
<1>1. CASE Die(sig)
    <2>1. /\ 128 + Process!Number(sig) \in {129, 130, 143}
          /\ 128 + Process!Number(sig) = 130 => sig = "INT"
        BY Numbers
    <2>2. /\ pc' = "exited" /\ stop' = stop /\ pc # "exited"
          /\ exitStatus' = 128 + Process!Number(sig)
          /\ conn' = [r \in Requests |-> CASE conn[r] \in {"queued", "accepted"} -> "reset"
                                           [] conn[r] = "handling" -> "lost"
                                           [] OTHER -> conn[r]]
        BY <1>1 DEF Die
    <2>3. sig = "INT" => ~handler
        BY <1>1, <2>2 DEF Interrupt
    <2>4. TypeOK'
        BY <1>0, <2>1, <2>2 DEF IInv, TypeOK, NoStatus
    <2>5. Reviewed' /\ Governed'
        BY <2>2 DEF IInv, Reviewed, Governed
    <2>6. Drained'
        BY <2>1, <2>2, <2>3 DEF IInv, TypeOK, Drained
    <2>7. Named'
        BY DEF IInv, Named, Platform, Values
    <2> QED
        BY <2>4, <2>5, <2>6, <2>7 DEF IInv
<1>2. CASE ~Die(sig)
    <2>1. UNCHANGED <<pc, conn, exitStatus>> /\ (stop' = stop \/ (handler /\ stop' = TRUE))
        BY <1>2 DEF Interrupt
    <2>2. TypeOK'
        <3>1. stop' \in BOOLEAN /\ (stop' => handler)
            <4>1. stop \in BOOLEAN /\ (stop => handler)
                BY DEF IInv, TypeOK
            <4> QED
                <5>1. CASE stop' = stop
                    BY <4>1, <5>1
                <5>2. CASE handler /\ stop' = TRUE
                    BY <5>2
                <5> QED
                    BY <2>1, <5>1, <5>2
        <3> QED
            BY <1>0, <2>1, <3>1 DEF IInv, TypeOK
    <2>3. Reviewed' /\ Governed'
        BY <2>1 DEF IInv, Reviewed, Governed, Contract, DiagnosticCount
    <2>4. Drained' /\ Named'
        BY <2>1 DEF IInv, Drained, Named, Platform, Values
    <2> QED
        BY <2>2, <2>3, <2>4 DEF IInv
<1> QED
    BY <1>1, <1>2

LEMMA InvStep == IInv /\ [Next]_vars => IInv'
<1> SUFFICES ASSUME IInv, [Next]_vars PROVE IInv'
    OBVIOUS
<1>1. CASE StartUp
    BY <1>1, StartUpStep
<1>2. CASE Edit
    BY <1>2, EditStep
<1>3. CASE InstallHandler \/ StopListening \/ Return
    BY <1>3, ServerStep
<1>4. CASE \E r \in Requests : Send(r) \/ Accept(r) \/ Progress(r)
    BY <1>4, RequestStep
<1>5. CASE \E sig \in Signals : Signal(sig)
    BY <1>5, SignalStep
<1>6. CASE UNCHANGED vars
    <2> USE <1>6 DEF vars, mainVars, serverVars, IInv
    <2>1. TypeOK'
        BY DEF TypeOK
    <2>2. Reviewed'
        BY DEF Reviewed, Contract, DiagnosticCount
    <2>3. Governed'
        BY DEF Governed
    <2>4. Drained'
        BY DEF Drained
    <2>5. Named'
        BY DEF Named, Platform, Values
    <2> QED
        BY <2>1, <2>2, <2>3, <2>4, <2>5
<1> QED
    BY <1>1, <1>2, <1>3, <1>4, <1>5, <1>6 DEF Next

LEMMA Invariance == Spec => []IInv
BY InvInit, InvStep, PTL DEF Spec

-----------------------------------------------------------------------------
(* Every variable of the worker keeps its type; in particular it has an exit *)
(* status exactly when it has exited, and it is stopped only through the     *)
(* handler.                                                                  *)
THEOREM TypeCorrect == Spec => []TypeOK
<1>1. IInv => TypeOK
    BY DEF IInv
<1> QED
    BY <1>1, Invariance, PTL

(* A worker that serves was given a command line that is empty but for       *)
(* declared options, of whatever length it was, and runs under the contract  *)
(* the override names if there is one (worker_http.rs:69-85, 134-178).       *)
THEOREM ServesReviewedArguments == Spec => []ArgumentsAreReviewed
<1>1. IInv => ArgumentsAreReviewed
    <2> SUFFICES ASSUME IInv, Up
                 PROVE  /\ start.unknown = 0 /\ start.errors = 0
                        /\ start.positionals \in {<<>>, <<"executable">>}
                        /\ IF start.override = "unset" THEN contract \in start.shipped
                           ELSE contract = "override"
        BY DEF ArgumentsAreReviewed
    <2> DEFINE extras == IF start.positionals # <<>> /\ Head(start.positionals) = "executable"
                         THEN Tail(start.positionals) ELSE start.positionals
    <2>1. contract = Contract /\ contract # "none" /\ DiagnosticCount = 0
        BY DEF IInv, Reviewed, Up, Ended
    <2>2. /\ start.unknown \in Nat /\ start.errors \in Nat
          /\ start.positionals \in Seq({"executable", "other"})
        BY StartFacts DEF IInv, TypeOK, StartRecords
    <2>3. extras \in Seq({"executable", "other"})
        BY <2>2
    <2>4. start.unknown = 0 /\ start.errors = 0 /\ Len(extras) = 0
        <3>1. start.unknown + start.errors + Len(extras) = 0
            BY <2>1 DEF DiagnosticCount
        <3>2. Len(extras) \in Nat
            BY <2>3
        <3> HIDE DEF extras
        <3> QED
            BY <2>2, <3>1, <3>2
    <2>5. start.positionals \in {<<>>, <<"executable">>}
        BY <2>2, <2>4
    <2>6. IF start.override = "unset" THEN contract \in start.shipped ELSE contract = "override"
        BY <2>1 DEF Contract
    <2> QED
        BY <2>4, <2>5, <2>6
<1> QED
    BY <1>1, Invariance, PTL

(* No request is served but under a policy that was admissible when it was   *)
(* installed, whatever changes were made on the way (worker_http.rs:33-50).  *)
THEOREM PolicyAlwaysGoverns == Spec => []PolicyGoverns
<1>1. IInv => PolicyGoverns
    BY DEF IInv, Governed, PolicyGoverns, Up
<1> QED
    BY <1>1, Invariance, PTL

(* Port and platform come from one map, so the Azure port means Azure        *)
(* (worker_http.rs:102-115).                                                 *)
THEOREM AzurePortIsAzure == Spec => []AzurePortMeansAzure
<1>1. IInv => AzurePortMeansAzure
    BY DEF IInv, Named, AzurePortMeansAzure, Address, Platform, DetectProvider
<1> QED
    BY <1>1, Invariance, PTL

(* A worker that reports success lost no request it had begun to handle, for *)
(* any number of requests, and SIGINT never kills it once it has a handler   *)
(* (worker_http.rs:119-130).                                                 *)
THEOREM GracefulExit == Spec => []GracefulExitLosesNothing
<1>1. IInv => GracefulExitLosesNothing
    <2> SUFFICES ASSUME IInv PROVE GracefulExitLosesNothing
        OBVIOUS
    <2>1. exitStatus = 0 => pc = "exited"
        BY DEF IInv, TypeOK, NoStatus
    <2>2. 128 + Process!Number("INT") = 130
        BY DEF Process!Number
    <2> QED
        BY <2>1, <2>2 DEF IInv, Drained, Ended, GracefulExitLosesNothing
<1> QED
    BY <1>1, Invariance, PTL

-----------------------------------------------------------------------------
(* The worker steps as the supervisor expects of a workload: it starts as    *)
(* one, and each of its steps is one of Workload's or none (the safety part  *)
(* of ActsAsWorkload; worker_http.rs:119-130).                               *)
THEOREM StepsAsWorkload == Spec => Process!Init /\ [][Process!Next]_(Process!vars)
<1>1. Init => Process!Init
    BY StartFacts DEF Init, Process!Init, Life, NoStatus
<1>2. IInv /\ [Next]_vars => [Process!Next]_(Process!vars)
    <2> SUFFICES ASSUME IInv, [Next]_vars PROVE [Process!Next]_(Process!vars)
        OBVIOUS
    <2> DEFINE same == UNCHANGED <<pc, stop, exitStatus, start>>
    <2>0. /\ pc = "exited" <=> exitStatus # NoStatus
          /\ start.shielded \in BOOLEAN
        BY StartFacts DEF IInv, TypeOK
    <2>1. same => UNCHANGED Process!vars
        BY DEF Process!vars, Life
    <2>2. ASSUME NEW step \in Starting, NEW next \in Starting \cup {"serving"}, Continue(step, next)
          PROVE  UNCHANGED Process!vars
        BY <2>2 DEF Continue, serverVars, Process!vars, Life, Starting
    <2>3. ASSUME NEW step \in Starting, Fail(step)
          PROVE  Process!Next
        <3>1. Process!Finish
            BY <2>0, <2>3 DEF Fail, serverVars, Process!Finish, Life, Starting, NoStatus
        <3> QED
            BY <3>1 DEF Process!Next
    <2>4. CASE StartUp
        <3>1. \E step \in Starting : Fail(step) \/ \E next \in Starting \cup {"serving"} : Continue(step, next)
            BY <2>4 DEF StartUp, ResolveContractPath, ParseArguments, CheckManifest, Admit,
                        CheckStack, Install, Listen, Starting
        <3> QED
            BY <2>2, <2>3, <3>1
    <2>5. CASE Edit \/ InstallHandler \/ UNCHANGED vars
              \/ \E r \in Requests : Send(r) \/ Accept(r) \/ Progress(r)
        <3>1. same
            BY <2>5 DEF Edit, InstallHandler, vars, serverVars, Served, Send, Accept, Progress,
                        Read, Cut, Respond, Leave, Connection
        <3> QED
            BY <2>1, <3>1
    <2>6. CASE StopListening
        BY <2>6 DEF StopListening, Served, Listening, Process!vars, Life
    <2>7. CASE Return
        <3>1. Process!Finish
            BY <2>0, <2>7 DEF Return, Served, serverVars, Process!Finish, Life, NoStatus
        <3> QED
            BY <3>1 DEF Process!Next
    <2>8. ASSUME NEW sig \in Signals, Signal(sig)
          PROVE  [Process!Next]_(Process!vars)
        <3>1. pc # "exited" /\ start' = start
            BY <2>8 DEF Signal
        <3>2. CASE UNCHANGED <<pc, stop, exitStatus>>
            BY <2>1, <3>1, <3>2
        <3>3. CASE Interrupt
            <4>1. CASE stop
                BY <3>1, <3>3, <4>1 DEF Interrupt, Process!vars, Life
            <4>2. CASE ~stop
                <5>1. Process!Receive(sig)
                    BY <2>0, <3>1, <3>3, <4>2 DEF Interrupt, Process!Receive, Process!Reactions, Life, NoStatus
                <5> QED
                    BY <2>8, <5>1 DEF Process!Next
            <4> QED
                BY <4>1, <4>2
        <3>4. CASE Die(sig) /\ ~(sig = "INT" /\ start.shielded)
            <4>1. Process!Receive(sig)
                <5>1. 128 + Process!Number(sig) # NoStatus
                    BY <2>8, Numbers DEF NoStatus
                <5> QED
                    BY <2>0, <3>1, <3>4, <5>1 DEF Die, Process!Receive, Process!Reactions, Life
            <4> QED
                BY <2>8, <4>1 DEF Process!Next
        <3> QED
            BY <2>8, <3>2, <3>3, <3>4 DEF Signal
    <2> QED
        BY <2>4, <2>5, <2>6, <2>7, <2>8 DEF Next
<1> QED
    BY <1>1, <1>2, Invariance, PTL DEF Spec
=============================================================================
