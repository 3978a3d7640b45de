# A TLA+ model of the lambda template

The repository is a template for small deployable functions: a pure command core
(`src/runtime.rs`), adapters that host it on seven platforms, page hosts that serve
generated web pages from AWS Lambda and Cloud Run, a container supervisor
(`entrypoint.sh`) that runs any of these next to log sidecars, and scripts that scaffold
and extend repositories made from it. This directory models the parts that have control
of their own: who may run what, in which order, and what is reported when several things
happen at once or one of them fails.

Run a model with `tlc -config X.cfg M`, check the proofs with `tlapm M.tla`.

## The system: components, state, operations

| component | state it keeps | operations | what makes it correct |
|---|---|---|---|
| container supervisor, `entrypoint.sh` under `tini -g` | shell variables (`app_pid`, `sidecar_pids`, statuses), FIFOs in a temporary directory, child processes | validate, probe, mkfifo, fork sidecars and workload, wait for each, judge, clean up; traps for TERM, INT, HUP | success is never reported for a workload that failed; no process or status is lost by the waits; it comes down when it should; it removes its directory |
| command core, `src/runtime.rs` | none | `parse`, `handle`, `handle_bound`, `dispatch` | exactly the admissible envelopes are dispatched; on bound paths the host's identity is the only one that counts |
| command adapters (`src/adapters/*`, `src/bin/worker_*`, `api/[[...slug]].rs`) | none across requests | detect provider, choose an identifier, call the core, map the receipt to a status | the status tells the reason; size limits at several layers do not contradict each other |
| AWS worker and Lambda's retry policy (`deploy/aws/template.yaml`) | per environment: the admitted boundary; in the service: queue, attempts, dead-letter queue | cold start, callback, complete, fail, crash, retry, duplicate | every execution computes one receipt; only faults are dead-lettered; no callback without an admitted policy |
| page host (`src/page_http.rs`, `src/lib.rs`, `src/page_http/{aws,gcp}.rs`) | per request: the future's position | normalize, structural admission, route match, product admission, run, finalize, convert | page code runs only after admission; HEAD mirrors GET; both hosts agree; path text is decoded once |
| AWS health function (`src/bin/health.rs`) | the admitted boundary | cold start, callback | its fixed receipt says what the core would say; no callback without an admitted policy |
| HTTP worker as a process (`src/bin/worker_http.rs`) | the contract and the policy it runs under, its connections, whether a stop was asked for | resolve the contract, audit, parse, diagnostics, check and read the policy, bind, serve, drain; signals | it listens only with a reviewed command line and an admissible policy; an exit with 0 loses no request; it is the workload the supervisor relies on |
| concerns and scaffolding (`scripts/enable-concern.sh`, `scripts/scaffold.sh`) | files of a repository | copy and render the tree, copy templates, refuse to overwrite | a run leaves files of a prefix of its list and overwrites nothing; success means every file was made; the documented order of commands works |
| release, conformance and fleet scripts; workflows; manifests; contracts | none | straight-line checks | not modelled |

How they interact. The supervisor starts a worker binary as its workload and turns its exit
status into the container's; what it relies on of a workload is the module `Workload`, and the
HTTP worker is shown to be one. Every command adapter calls the core once per invocation and
keeps nothing. The page hosts share `invoke_page`; the generated module's `admit` and `run`
are callbacks into code that is not in the repository. Lambda calls the AWS worker, and its
retry policy reacts to whether the *invocation* failed, not to what the receipt says. The
worker binaries and the health function all check the policy files that the concern scripts
put into a repository.

What is hard. Signals that interrupt the supervisor at any of its commands; FIFO opens that
block on each other; statuses collected in one order and judged in another; a workload
killed by SIGPIPE because a sidecar went away; at-least-once delivery and retries after a
crash whose answer was lost; policy files that change between their check and their use; a
drain that waits for connections; scripts that stop half-way; futures dropped at an await; two normalizations of the same
browser request that must agree; the order of splitting, decoding and refusing in a path.
`PROJECT.json` lists each of them with its line, under "hazards".

## The modules

| module | models | remarks |
|---|---|---|
| `Container` | abstract: what a container promises whoever runs it | one start, one end, a status with a reason |
| `Workload` | abstract: what the supervisor relies on of a process | how it reacts to a signal; that a drain ends |
| `Entrypoint` | `entrypoint.sh` | one action per command of the script; `Signal` may fire between any two; uses `Workload`'s reactions, implements `Container` |
| `EntrypointProofs` | | theorems about `Entrypoint` |
| `Runtime` | `src/runtime.rs` | operators over abstract envelopes |
| `Adapters` | adapters, portable worker, Vercel function | operators on top of `Runtime` |
| `RuntimeProofs` | | lemmas about both, cited by the two modules below and `AwsWorkerProofs` |
| `CommandHosts` | one request through each synchronous host | composes the two |
| `CommandHostsProofs` | | theorems about `CommandHosts` |
| `AwsWorker` | `worker_aws.rs`, `health.rs`, `aws.rs` and Lambda's asynchronous invocations | composes with `Adapters` |
| `AwsWorkerProofs` | | theorems about `AwsWorker` |
| `HttpWorker` | `worker_http.rs` as a process, with concurrent requests and signals | composes with `Adapters`, implements `Workload` |
| `HttpWorkerProofs` | | theorems about `HttpWorker` |
| `Concerns` | `scaffold.sh` and `enable-concern.sh` over one repository | one action per step at which a script may stop |
| `ConcernsProofs` | | theorems about `Concerns` |
| `PagePath` | path decoding and matching, `page_http.rs:274-422` | operators |
| `PageRouting` | one path against one list of patterns | `PagePath` against a declarative reading of the docs |
| `PageRoutingProofs` | | theorems about `PageRouting`, and the lemmas on natural numbers and recursive functions that both page modules need |
| `PageEnvelope` | both normalizations, structural admission, response conversions | operators on top of `PagePath` |
| `PageContract` | abstract: what a page host promises of a request | states the execution order of `docs/page-http-runtime.md` |
| `PageHost` | both hosts serving GET, HEAD and others concurrently | implements `PageContract` |
| `PageHostProofs` | | theorems about `PageHost` |
| `MC*` | | small instances for TLC |

State and code. In `Entrypoint` the variable `pc` is the next command of the script,
`appPid`, `sidecarPids`, `appStatus`, `sidecarStatus` are its variables, `proc` and `code`
what the kernel knows of the children; `early` and `stopping` only remember when signals
came. `Deliver` is what a signal does to a set of processes: a background job of the shell
ignores SIGINT until a program installs a handler, and then drains. `Exit` is the EXIT trap;
`Exec` replaces the shell and the trap with it. Wherever the script forks, `ForkFails` may happen
instead: the shell leaves with status 2 through the trap, with the sidecars already started still
in `sidecarPids`, and `rm` and `rmdir`, which need forks too, may fail there. In `AwsWorker`, `worker` and `job` are the
environments, `status` and `attempts` Lambda's bookkeeping, `faults` and `receipts` record
what the properties speak of. In `PageHost` a slot is one request on one host with one
method; `phase` is the await its future stands at, `calls` the calls made into the module.
In `HttpWorker` `pc` is the next step of `main` until it serves, then what axum does with
`main`; `start` is the command line, environment and installation it was started with, `file`
the policy files, which someone may edit up to the last read, `installed` what
`install_from_env` read, and `conn` each request's connection; a file is a regular one, good
or bad, a link, or absent, because `symlink_metadata` tells the first two from the others
and reading does not. In `Concerns` a file is absent, partly copied, copied but not rendered,
whole or a link; `before` remembers the files as the first concern of a run found them and
`status` is the exit status of the last run. `Tar` is one step, since nothing else
runs beside it: an interrupt comes before or after it, and a file half unpacked is left out.

What is abstracted. An envelope is a record of what the core can tell apart: JSON shape,
repeated keys, the value or absence of each field, an unknown field, and its size, split
into the caller's identity members and the rest, since the AWS adapter re-serialises the
envelope with its own. A path segment is a sequence of tokens, one per plain byte or escape,
and decoding maps each token to what it stands for. A browser request has sizes in place of
texts, and its headers a name, a size, whether they are readable and hold a comma. Printed
lines, argv and receipts' wording are left out.

External parts are marked so in the map: Lambda's delivery, retries, crashes and recycling;
the `ores_middleware` boundary, which may refuse before a callback or fail after it; the
workload and sidecar programs; SIGPIPE and FIFO semantics; a client that disconnects; the
argument parser, whose three diagnostic channels are counts; the accept loop, which stops
listening when the shutdown future resolves and then waits for its connections; `tar`, `sed`
and `cp`, which may fail; the owner of a repository, who edits it between runs.

## What the runs check

| run | question | bounds |
|---|---|---|
| `entrypoint` | exit status, waiting, cleaning up; implements `Container`; comes down | all configurations, 2 signals (INT, TERM), workload statuses {0, 23}, sidecar statuses {0, 17, 18} |
| `entrypoint_fail_open` | does the open policy preserve the success of a workload that would exit with 0? (violated) | no signals, workload status 0, sidecar status 17 |
| `command_hosts` | which envelopes are dispatched, under whose identity, with which status | all envelopes at most two changes from a good one; sizes on both sides of each limit; every platform alone and overlapping ones |
| `command_hosts_ids` | are unbounded identifiers rejected? (violated) | the same |
| `aws_worker` | receipts, dead letters, policy, health, settlement | an accepted event delivered up to twice, a rejected one and a health check delivered once, 2 attempts, 2 worker environments and 1 health environment |
| `http_worker` | what a serving worker was given, what signals do, implements `Workload` | every start one difference away from the image's, every state of the policy files, 1 edit, 2 requests, 2 signals (INT, TERM) |
| `concerns` | what a run leaves behind | 2 runs, lists of up to 2 concerns, 1 lost file, 1 edit, 3 templates |
| `concerns_documented` | can middleware be enabled as documented? (violated) | the lists the documentation names |
| `page_routing` | matching against its declarative meaning | paths up to 3 segments of 12 sorts, lists of up to 2 of 14 patterns |
| `page_host` | structural admission and AWS against GCP | requests at and one past each limit, GET, HEAD and POST on both hosts at once |
| `page_host_pages` | execution order (refinement), HEAD against GET, cookies, agreement, every request ends | modules that admit or reject and answer with ordinary and odd headers; GET and HEAD on both hosts at once |
| `page_host_head` | is the body of every HEAD refusal suppressed? (violated) | modules that admit or reject; GET and HEAD on both hosts at once |

Why the bounds are enough. The supervisor starts at most two sidecars and its waits number
at most three, so two signals cover a disturbed wait followed by another at any later
command; a third changes nothing that the theorem `SuccessIsEarned` does not already cover
for any number. Two copies and two attempts in two environments give every overlap of a
retry with a duplicate; the theorems lift the bounds (the deployed value is three attempts).
Two requests and two signals give a request that is answered while another is begun and a
signal during the drain; one edit suffices to fall between any two of the three reads of the
policy. Two runs of two concerns give every pair of concerns, in one run and across two, and a
repetition of a list that failed half-way.
Matching looks at one segment and one part at a time, and three segments
exceed every pattern by one. The page limits are scaled down (`MaxHeaderCount = 3` and so
on) but keep the relations the code's constants have, which `LimitAssumption` states.

`CHECK_DEADLOCK FALSE` everywhere: a container that is down, an answered request, settled
deliveries, a worker that exited and a repository nobody touches are meant to stop.

How the refinements work. `IsContainer` maps the supervisor's variables to six: is it
up, its workload, the workload's status, was it signalled, is the policy closed, the report.
`ActsAsWorkload` maps the HTTP worker to a life and a status; it covers safety and the one
liveness `Workload` promises, that a drain ends. `KeepsContract` maps each slot to a verdict,
whether page code ran, and what was answered.

The two properties that need words. `HostsAgree` is stated for `Ordinary` requests: headers
that neither provider joins or measures differently, and at most one Cookie header no longer
than one cookie may be. Outside of that the hosts do differ (below). It compares all that page
code is given, method, path, query, headers, cookies, parameters and hint, but takes an empty query
for none (`QueryDropped`), as AWS does and GCP does not. `OneSignalWaitsForReaders`
says "one signal": a second one interrupts the sidecar wait and the container goes down over a
live workload, which the code accepts.

## Fairness

`Entrypoint`: the shell and the kernel make progress (WF of `ShellStep`, `ExecedExit`,
`ContainerStop`, `OpenFifo`); a batch workload ends, a server ends only once it was told to
drain; a sidecar whose writer is gone sees end of file and exits. A serving workload that is
left alone may run for ever. `StopRequestHonoured` is unconditional: once a TERM or HUP has
reached a forked workload the container comes down. `BatchTerminates` assumes `[]~early`: a
signal between the traps and the fork can be swallowed, or kill a sidecar and leave the
workload blocked opening its FIFO, and without a further signal the container then hangs. TLC
shows that hang once the assumption is dropped; no document promises otherwise, so it is a
hazard and no finding.

`AwsWorker`: an attempt ends, at the latest by the function's timeout (WF of `InstanceStep`,
which includes `Crash`), and Lambda keeps starting attempts of a queued delivery while
environments come free (SF of `Deliver`). `HttpWorker`: the executor polls the accept loop
and `main` (WF of `StopListening`, `Return`), and each request is read, answered, cut or left
by its client (WF of `Progress`); the start-up and the clients owe nothing. The code sets no
limit on a request and no deadline on the drain, so that the last of these is what the client
or the platform must see to. `Concerns` needs no fairness: nothing must happen. `PageHost`: the executor polls every future, and
`admit`, `run` and the body of a request finish or fail (WF of `Progress`).

## What is proved

For every value of the constants, from the named assumptions of the modules. Every safety
property the passing runs check is stated by a theorem, and so are the safety parts of the three
refinements. An invariant below is inductive; there is one step per action, and each theorem
follows from it.

* `EntrypointProofs!TypeCorrect`, and `SuccessIsEarned`: `Spec => []ZeroMeansSuccess`. The
  property speaks of a container that is down, so it is not inductive; `SuccessInv` adds what
  the script holds on the way: an `$app_status` of 0 belongs to a workload that exited with
  0, and so does each collected sidecar status, because the other source of a status is an
  interrupted wait and yields 128+n. Exited processes stay as they are, which
  `DeliverLemma` establishes for signals and `SteadyLemma` uses for every step that
  collects nothing.
* `EntrypointProofs!ImplementsContainer` (`Spec => IsContainer`), `ShellCleansUp` and
  `CleanupIsHarmless`. To the invariant above come `Existence` (the workload exists from
  the fork on), `Collected` (what the waits returned is the workload's status or a
  signal's, and after the last wait there is one for each sidecar) and `Tidy` (where the shell
  may exit `$sidecar_pids` is empty, and the directory is left behind only through exec, unless
  the shell could not fork). So the trap never signals a sidecar once the workload was forked.
  Each action is then shown to be a step of `Container` or none.
* `EntrypointProofs!QuietRunsReportPolicy` and `ReadersOutliveOneSignal`. Both speak of what
  the waits did, which the state at the end no longer shows. `WInv` therefore says which
  sidecars can have been started (`Roster`), and that a status collected from a sidecar is that
  of a sidecar that exited, as long as no signal came or the only one is the one that
  ended the wait for a workload still alive (`Faithful`).
* `AwsWorkerProofs!TypeCorrect`, `RetriesAlwaysAgree`, `OnlyFaultsAreDeadLettered`,
  `SettledStaysSettled`, `OneEnvironmentEach`, `NothingWithoutPolicy` and
  `HealthAgreesWithCore`. The invariant joins four facts: busy environments serve running
  deliveries, one each (`Serving`); the attempts of a delivery are its faults plus the one
  that is running or answered (`Counting`); receipts are the ones the events determine
  (`Answering`); without a policy nothing starts (`Guarding`). All failing paths (no
  policy, boundary, crash, timeout) are one lemma, `FaultStep`.
* `CommandHostsProofs!AdmissibleAreDispatched`, `HostsVouchForProvenance` and
  `CodesTellReasons`, for envelopes of every form and size. Here the content is in the
  operators: `RuntimeProofs!BoundReceipt` and `DirectReceipt` say what the core returns on
  either path, `MetadataIsIgnored` that the caller's identity members cannot matter on the
  bound one, `HeardIsTrusted` that the identifier is the one the platform's own header names,
  and the invariant only that a reply is what the host computes.
* `HttpWorkerProofs!TypeCorrect`, `ServesReviewedArguments`, `PolicyAlwaysGoverns`,
  `AzurePortIsAzure`, `GracefulExit` and `StepsAsWorkload` (the safety part of
  `ActsAsWorkload`), for any number of requests, signals and edits. The invariant carries the
  outcome of each check to the steps after it (`Reviewed`, and `Governed`, where it holds of
  files nobody edited), bounds the connections by the phase of the process (`Drained`), and
  says that each receipt names the platform (`Named`).
* `ConcernsProofs!TypeCorrect`, `OneAuthFile`, `RunsLeavePrefixes` and `SuccessIsOwned`, for
  any lists, runs, lost files and edits. `AuthFilesNeverCoexist` and `FailureIsPrefix` are
  inductive once the invariant says where a script is and what it found (`Place`), that
  templates are never half copied (`Reviewed`), and that the files of the concerns already
  passed are complete (`Done`).
* `PageRoutingProofs!PatternFaults`, `FirstPatternWins` and `ParametersKeepThePath`, for paths,
  patterns and lists of any length; `RoutingAssumption` only says what a raw path and a pattern
  are. The invariant is that an outcome is what `MatchAnyPath` computes; the content is in the
  operators. `WalkIsAfter` says what the matching loop holds after each part, and `JoinRest`
  that joining the rest of a path first makes no difference. The loop, `Join` and `FlattenSeq`
  are recursive functions: `Recursion` shows that they have a run and `Induction` what the run
  keeps. `Induction` in turn comes from `LeastNatural`, which follows from the library's theorem
  that the strict subset relation on finite sets is well-founded.
* `PageHostProofs!TypeCorrect` and `ImplementsContract` (`Spec => KeepsContract`), for any
  requests, routes, modules and methods. `Staged` ties the await a request stands at to the
  calls made for it. Every step is one of six moves of one slot (`StepMoves`), the others stay
  as they are (`OtherSlots`), and each move is a step of the contract or none (`SlotMoves`).
  What the hosts normalize and refuse plays no part in this.
* `PageHostProofs!HeadIsGet`, `CookieLimits`, `CookiesArrive`, `HostsAnswerAlike` and
  `PageCodeSeesTheRequest`. They relate slots with each other or a reply to a request, and need
  to know where a reply came from. `Settled` says so for each slot: without a call, it was
  refused with the status of the first check that refuses, or its body could not be read; with
  one, nothing refused it, page code was given the normalized request, and the reply is the
  module's answer, converted. Requests, routes and answers are any that have the shapes
  `PageAssumption` names: a browser's Cookie header holds a cookie at least and none that is
  empty. From there each theorem is about operators: `AwsChecks`, `GcpChecks` and
  `StructuralChecks` put the checks in their order, `SumConcat` and `FlattenMeasures` bound
  what one host measures by what the other does, `PlaceFacts` and `PickFacts` say that picking
  some members of a sequence keeps their order, and `AwsHeaderFacts` what API Gateway makes of
  repeated headers. `PageCodeSeesTheRequest` carries the routing theorems over into both hosts,
  by way of an instance of `PageRoutingProofs` for the request's path.

Only model-checked: liveness, under fairness (`BatchTerminates`, `StopRequestHonoured`,
`EventuallySettled`, `EveryRequestEnds`, the drain of `ActsAsWorkload`), which the prover does
not reach.

## Where the code and its documents differ

1. The open policy does not preserve the workload's success when a sidecar stops reading: in
   the run a sidecar exits with 17, a workload that would have exited with 0 and keeps SIGPIPE's
   default disposition dies at its next write, and 141 is reported (`entrypoint.sh:76`,
   `entrypoint_fail_open`).
2. A bound adapter replaces an unbounded identifier by `request` and dispatches, where
   `docs/architecture.md:16-18` says such identifiers are rejected (`command_hosts_ids`).
3. A HEAD request that structural admission refuses is answered with a body
   (`docs/page-http-runtime.md:168`, `page_host_head`).
4. Middleware cannot be enabled in a scaffolded repository: `scaffold.sh` has already copied
   the template's own `.ores-mw.toml`, which `enable-concern.sh` refuses to overwrite
   (`docs/runtime-integrations.md:38-52`, `concerns_documented`).

Observed while modelling and not claimed as findings:

* Page code can tell `/a?` from `/a` on GCP (`gcp.rs:103`) and cannot on AWS (`aws.rs:60-64`).
* A header value with bytes outside visible ASCII is refused with 400 on GCP (`to_str`,
  `gcp.rs:73`) and accepted on AWS, where it is a JSON string.
* GCP applies the limit of one cookie to each whole Cookie header, AWS to each cookie; a body
  that cannot be read is 413 on GCP; a repeated `x-ores-wasm-have` is joined on AWS and
  dropped on GCP.
* A pattern part with two brace pairs is taken as one parameter (`page_http.rs:324`; compare
  `docs/page-http-runtime.md:140`).
* The Vercel function uses `handle`, under which the payload's provider and identifier stand.
* A runtime identifier that is not bounded is reported as it is by the health function and
  replaced by the core; `HealthSpeaksForTheCore` leaves the identifier out for this reason.
* `worker_http` drains on SIGINT only; SIGTERM and SIGHUP end it with requests in flight.
* It takes a first positional that is not spelled like its own executable path for an argument
  and refuses to start; a relative `argv[0]`, as `cargo run` (`README.md:16`) passes, is one.
* The manifests start the image by a function's name (`deploy/gcp/service.yaml:23`,
  `deploy/scintilla/function.json:5`); the image installs only `/usr/local/bin/lambda`, so that
  the supervisor's exec ends with 127.
* A workload under a sidecar reads `/dev/null`, so the portable worker sees no invocation.
* The pipeline of `scaffold.sh` hides a failure of its first `tar`; a scaffold that was
  interrupted leaves unrendered names in a directory that `enable-concern.sh` accepts.
* `docs/architecture.md:20-21` speaks of idempotence by `requestId`, for which the core, having no
  side effects yet, keeps no record.

## Not modelled

The probe routes, which answer a constant; stdin and stdout failures of the portable worker, and
standard input under a sidecar; the text of the command contract and the rules of the parser
that reads it; release, conformance and fleet scripts, straight-line checks without state of
their own; workflows and manifests except the retry policy and tini; contracts, fixtures and
vendored evidence. `PROJECT.json` gives the reason for each. In `Concerns`, the other files of
the tree and two scripts running at once in one repository; the scripts have no lock, and no
document speaks of concurrent use.

## Plan

Done, in this order: `Entrypoint` with its proofs; `Runtime`, `Adapters`, `CommandHosts`;
`AwsWorker` with its proofs; `PagePath`, `PageRouting`; `PageEnvelope`, `PageContract`, `PageHost`;
the health function in `AwsWorker`; `Workload`, `HttpWorker`; `Concerns`; `Container` and its
refinement; proofs of every component with state, and of path matching.

Next: what the theorems about one component say of the others where they meet, as
`PageCodeSeesTheRequest` does: the HTTP worker's exit status as the workload's in the
supervisor, and the receipts of `CommandHosts` as what the HTTP worker answers with.
