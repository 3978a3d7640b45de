------------------------------ MODULE PageHost ------------------------------
(***************************************************************************)
(* The page hosts serving one browser request, once per host and method:   *)
(* page_http/aws.rs and gcp.rs run_page around lib.rs invoke_page.  A slot *)
(* <<host, method>> is one such request.  The AWS environment serves one   *)
(* at a time; the GCP server interleaves its requests at every await, and  *)
(* drops the future of one whose client has gone.                          *)
(*                                                                         *)
(* The generated module is external: `page` says how its admit and run     *)
(* answer, the same for every request, as their code and state are.        *)
(***************************************************************************)
EXTENDS PageEnvelope

CONSTANTS
    Methods,   \* methods the browser sends it with
    Requests,  \* browser requests, sent with every method
    Routes,    \* lists of generated patterns
    Pages      \* generated modules

Hosts == {"aws", "gcp"}
Slots == Hosts \X Methods

(* What browsers send and generated modules answer.  A browser's Cookie      *)
(* header holds one cookie at least, and none that is empty.                 *)
BrowserHeader == [name : STRING, bytes : Nat, sort : {"plain", "opaque"}, comma : BOOLEAN]
CookieLine == Seq(Nat \ {0}) \ {<<>>}
BrowserRequest ==
    [method : Methods, path : RawPaths, pathBytes : Nat, queryBytes : Nat \cup {NoQuery},
     binary : BOOLEAN, body : Nat, fields : Seq(BrowserHeader), lines : Seq(CookieLine)]
PageHeader == [name : STRING, value : STRING, ok : BOOLEAN]
PageAnswer == [status : Nat, headers : Seq(PageHeader), body : BOOLEAN]

ASSUME PageAssumption ==
    /\ {"GET", "HEAD"} \subseteq Methods
    /\ Requests \subseteq BrowserRequest /\ Routes \subseteq Seq(Patterns)
    /\ Pages \subseteq [admits : BOOLEAN, rejection : PageAnswer, finalized : PageAnswer]

VARIABLES
    request,  \* the browser request all slots serve
    patterns, \* the module's routes
    page,     \* [admits, rejection, finalized]
    phase,    \* state of each slot
    calls,    \* the module's functions called for it, in order
    input,    \* what they were called with
    reply     \* what the host answered

vars == <<request, patterns, page, phase, calls, input, reply>>
given == <<request, patterns, page>>

NoReply == [status |-> 0, headers |-> <<>>, cookies |-> <<>>, body |-> FALSE]
NoInput == [params |-> NoParams, method |-> "none", path |-> [rooted |-> FALSE, segments |-> <<>>],
            query |-> NoQuery, headers |-> <<>>, cookies |-> <<>>, wasmHave |-> 0]
Awaiting == {"reading", "admitting", "running"}

Init ==
    /\ request \in Requests /\ patterns \in Routes /\ page \in Pages
    /\ phase = [s \in Slots |-> "received"]
    /\ calls = [s \in Slots |-> <<>>]
    /\ input = [s \in Slots |-> NoInput]
    /\ reply = [s \in Slots |-> NoReply]

Sent(s) == [request EXCEPT !.method = s[2]]
Reply(s, envelope) ==
    /\ phase' = [phase EXCEPT ![s] = "replied"]
    /\ reply' = [reply EXCEPT ![s] = envelope]
ToWire(s, response) == IF s[1] = "aws" THEN ToEvent(response) ELSE ToResponse(response)

(* Mutant: the module's admit is skipped. *)
MutInvokePageUnasked(s, normalized) ==
    \E refusal \in {StructuralRefusal(normalized, patterns)} :
        \/ refusal # 0 /\ Reply(s, ToWire(s, Text(refusal))) /\ UNCHANGED <<calls, input>>
        \/ /\ refusal = 0
           /\ phase' = [phase EXCEPT ![s] = "running"]
           /\ calls' = [calls EXCEPT ![s] = Append(@, "run")]
           /\ input' = [input EXCEPT ![s] = PageInput(normalized, patterns)]
           /\ UNCHANGED reply

(* invoke_page up to the await of admit: structural admission, then the      *)
(* module is asked.                                                          *)
InvokePage(s, normalized) ==
    \E refusal \in {StructuralRefusal(normalized, patterns)} :
        \/ /\ refusal # 0
           /\ Reply(s, ToWire(s, Text(refusal)))
           /\ UNCHANGED <<calls, input>>
        \/ /\ refusal = 0
           /\ phase' = [phase EXCEPT ![s] = "admitting"]
           /\ calls' = [calls EXCEPT ![s] = Append(@, "admit")]
           /\ input' = [input EXCEPT ![s] = PageInput(normalized, patterns)]
           /\ UNCHANGED reply

(* The Lambda runtime polls the next event once the last one is over. *)
ReceiveEvent(s) ==
    /\ s[1] = "aws" /\ phase[s] = "received"
    /\ \A t \in Slots : t[1] = "aws" => phase[t] \notin Awaiting
    /\ \E event \in {AwsEvent(Sent(s))} : \E refusal \in {AwsRefusal(event)} :
         \/ /\ refusal # 0
            /\ Reply(s, ToEvent(Text(refusal)))
            /\ UNCHANGED <<calls, input>>
         \/ refusal = 0 /\ InvokePage(s, AwsRequest(event))
    /\ UNCHANGED given

(* from_request up to the await of the body *)
ReceiveHead(s) ==
    /\ s[1] = "gcp" /\ phase[s] = "received"
    /\ \E refusal \in {GcpHeadRefusal(Sent(s))} :
         \/ refusal # 0 /\ Reply(s, Envelope(Text(refusal)))
         \/ /\ refusal = 0
            /\ phase' = [phase EXCEPT ![s] = "reading"]
            /\ UNCHANGED reply
    /\ UNCHANGED <<given, calls, input>>

(* The body has arrived; an error while reading it counts as too large. *)
ReceiveBody(s) ==
    /\ phase[s] = "reading"
    /\ \/ /\ Reply(s, Envelope(Text(413)))
          /\ UNCHANGED <<calls, input>>
       \/ \E refusal \in {GcpBodyRefusal(Sent(s))} :
            \/ /\ refusal # 0
               /\ Reply(s, Envelope(Text(refusal)))
               /\ UNCHANGED <<calls, input>>
            \/ refusal = 0 /\ InvokePage(s, GcpRequest(Sent(s)))
    /\ UNCHANGED given

(* Mutants: the verdict is ignored; a rejection is awaited for ever. *)
MutAdmittedAnyway(s) ==
    /\ phase[s] = "admitting"
    /\ phase' = [phase EXCEPT ![s] = "running"]
    /\ calls' = [calls EXCEPT ![s] = Append(@, "run")]
    /\ UNCHANGED <<given, input, reply>>
MutAdmittedOnly(s) ==
    /\ phase[s] = "admitting" /\ page.admits
    /\ phase' = [phase EXCEPT ![s] = "running"]
    /\ calls' = [calls EXCEPT ![s] = Append(@, "run")]
    /\ UNCHANGED <<given, input, reply>>

(* admit has answered: a rejection becomes the response, a context is given  *)
(* to run.                                                                   *)
Admitted(s) ==
    /\ phase[s] = "admitting"
    /\ \/ /\ page.admits
          /\ phase' = [phase EXCEPT ![s] = "running"]
          /\ calls' = [calls EXCEPT ![s] = Append(@, "run")]
          /\ UNCHANGED reply
       \/ /\ ~page.admits
          /\ \E response \in {FinishPageResponse(page.rejection, s[2] = "HEAD")} :
               Reply(s, ToWire(s, response))
          /\ UNCHANGED calls
    /\ UNCHANGED <<given, input>>

(* run has answered *)
Finish(s) ==
    /\ phase[s] = "running"
    /\ \E response \in {FinishPageResponse(page.finalized, s[2] = "HEAD")} :
         Reply(s, ToWire(s, response))
    /\ UNCHANGED <<given, calls, input>>

(* The client of a GCP request disconnects, the module panics, or the AWS    *)
(* environment dies or times out: no reply is made.                          *)
Lose(s) ==
    /\ phase[s] \in Awaiting
    /\ phase' = [phase EXCEPT ![s] = "lost"]
    /\ UNCHANGED <<given, calls, input, reply>>

Progress(s) == ReceiveEvent(s) \/ ReceiveHead(s) \/ ReceiveBody(s) \/ Admitted(s) \/ Finish(s)

Next == \E s \in Slots : Progress(s) \/ Lose(s)

Spec == Init /\ [][Next]_vars

(* The executor polls every request, admit and run return, and the body of a *)
(* request arrives or fails.                                                 *)
FairSpec == Spec /\ \A s \in Slots : WF_vars(Progress(s))

-----------------------------------------------------------------------------
(* PROPERTIES *)

Replied(s) == phase[s] = "replied"

TypeOK ==
    /\ request \in Requests /\ patterns \in Routes /\ page \in Pages
    /\ phase \in [Slots -> {"received", "replied", "lost"} \cup Awaiting]
    /\ calls \in [Slots -> {<<>>, <<"admit">>, <<"admit", "run">>}]
    /\ \A s \in Slots : ~Replied(s) => reply[s] = NoReply

(* How far admission came, whether page code was called, what was answered. *)
Verdict(s) ==
    CASE calls[s] = <<>> -> IF Replied(s) THEN "refused" ELSE "open"
      [] calls[s] = <<"admit">> -> IF Replied(s) THEN "refused" ELSE "asked"
      [] OTHER -> IF page.admits THEN "admitted" ELSE "refused"
Ran(s) == "run" \in {calls[s][i] : i \in DOMAIN calls[s]}
Outcome(s) ==
    CASE phase[s] = "lost" -> "lost"
      [] Replied(s) -> IF calls[s] = <<"admit", "run">> THEN "page" ELSE "refusal"
      [] OTHER -> "none"

(* Every slot follows PageContract, whatever the others do (lib.rs:40-86).   *)
Contract == INSTANCE PageContract WITH
    verdict <- [s \in Slots |-> Verdict(s)],
    runs <- [s \in Slots |-> Ran(s)],
    reply <- [s \in Slots |-> Outcome(s)]

KeepsContract == Contract!Spec

(* HEAD answers what GET would: the same status, headers and cookies, and    *)
(* the module sees the same request but for its method; once the structure   *)
(* is admitted it has no body, unless GCP replaced the response              *)
(* (lib.rs:52-108).                                                          *)
HeadMirrorsGet ==
    \A h \in Hosts :
        LET get == <<h, "GET">>
            head == <<h, "HEAD">>
        IN  /\ Replied(get) /\ Replied(head) /\ reply[get].status # 413 /\ reply[head].status # 413 =>
                 /\ [reply[get] EXCEPT !.body = FALSE] = [reply[head] EXCEPT !.body = FALSE]
                 /\ calls[get] = calls[head]
                 /\ [input[get] EXCEPT !.method = input[head].method] = input[head]
            /\ Replied(head) /\ calls[head] # <<>> /\ reply[head].body =>
                 h = "gcp" /\ reply[head] = Envelope(Text(500))

(* Requests neither provider alters or measures differently: text headers    *)
(* within the limits, each sent once unless it is a sensitive one, and at    *)
(* most one small Cookie header.                                             *)
Ordinary ==
    /\ \A i, j \in DOMAIN request.fields :
         /\ request.fields[i].sort = "plain"
         /\ request.fields[i].name = request.fields[j].name /\ i # j =>
              request.fields[i].name \in {"host", "authorization", "content-length"}
    /\ Len(GcpFields(request)) <= MaxHeaderCount
    /\ HeaderFault(GcpFields(request)) = 0 /\ HeaderFault(AwsEvent(request).headers) = 0
    /\ \A i \in DOMAIN request.lines : LineBytes(request.lines[i]) <= MaxCookieBytes
    /\ Len(request.lines) <= 1

(* AWS does not tell an empty query from none. *)
QueryDropped(seen) == [seen EXCEPT !.query = IF @ = 0 THEN NoQuery ELSE @]

(* Both hosts give an ordinary request the same answer and the same page     *)
(* input, its method, path, headers and cookies, although they normalize it  *)
(* differently; an empty query apart, only a response GCP cannot represent,  *)
(* or a body it could not read, tells them apart (aws.rs:44-122,             *)
(* gcp.rs:51-111).                                                           *)
HostsAgree ==
    \A m \in Methods :
        LET aws == <<"aws", m>>
            gcp == <<"gcp", m>>
        IN  Ordinary /\ Replied(aws) /\ Replied(gcp) =>
              \/ /\ reply[aws] = reply[gcp] /\ calls[aws] = calls[gcp]
                 /\ input[aws] = QueryDropped(input[gcp])
              \/ reply[gcp] = Envelope(Text(413))
              \/ reply[gcp] = Envelope(Text(500)) /\ calls[gcp] # <<>> /\ calls[aws] = calls[gcp]

(* No module is asked about a request whose cookies are too many, too long   *)
(* or too long together, on GCP neither, which measures Cookie headers and   *)
(* never a single cookie (gcp.rs:126-156, aws.rs:130-158).                   *)
CookieLimitsHold ==
    LET lines == request.lines
    IN  \A s \in Slots : calls[s] # <<>> =>
            /\ Sum([i \in DOMAIN lines |-> Len(lines[i])]) <= MaxCookieCount
            /\ \A i \in DOMAIN lines : \A k \in DOMAIN lines[i] : lines[i][k] <= MaxCookieBytes
            /\ Sum([i \in DOMAIN lines |-> Sum(lines[i])]) <= MaxCookieTotalBytes

(* The module's Set-Cookie headers, however spelled, arrive one by one, in   *)
(* order and in full, and never among the joined headers; every other value  *)
(* arrives under its name (page_http.rs:204-220, aws.rs:162-178).            *)
CookiesSurvive ==
    \A s \in Slots : Replied(s) /\ calls[s] # <<>> /\ reply[s] # Envelope(Text(500)) =>
        LET answer == IF calls[s] = <<"admit">> THEN page.rejection ELSE page.finalized
            sent == {i \in DOMAIN answer.headers : answer.headers[i].name \in {"set-cookie", "Set-Cookie"}}
        IN  /\ "set-cookie" \notin DOMAIN reply[s].headers
            /\ Len(reply[s].cookies) = Cardinality(sent)
            /\ \A i \in sent :
                 reply[s].cookies[Cardinality({j \in sent : j <= i})] = answer.headers[i].value
            /\ \A i \in DOMAIN answer.headers \ sent : \E n \in DOMAIN reply[s].headers :
                 \E k \in DOMAIN reply[s].headers[n] : reply[s].headers[n][k] = answer.headers[i].value

(* Every request is answered or lost, whatever becomes of the others and in  *)
(* whichever order they are served (aws.rs:26-42, gcp.rs:28-40).             *)
EveryRequestEnds == <>(\A s \in Slots : phase[s] \in {"replied", "lost"})

(* docs/page-http-runtime.md of HEAD rejections: the body is suppressed.     *)
HeadRejectionHasNoBody ==
    \A h \in Hosts : Replied(<<h, "HEAD">>) => ~reply[<<h, "HEAD">>].body
=============================================================================
