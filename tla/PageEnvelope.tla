---------------------------- MODULE PageEnvelope ----------------------------
(***************************************************************************)
(* What the page hosts make of a browser's request and of a page's answer: *)
(* the provider normalizations of src/page_http/aws.rs and gcp.rs, the     *)
(* structural admission of src/page_http.rs:154-235, and the response      *)
(* conversions back.                                                       *)
(*                                                                         *)
(* A browser request b is a record                                         *)
(*   method, path (PagePath), pathBytes, queryBytes, binary, body (bytes), *)
(*   fields: sequence of [name, bytes, sort, comma], Cookie excepted; sort *)
(*     is "plain" or "opaque" (no visible ASCII), comma: holds a comma,    *)
(*   lines: its Cookie headers, each a sequence of cookie sizes.           *)
(* Sizes count in the units of the constants; a name is one unit long.  A  *)
(* target without "?" has NoQuery, which "/a?" with its empty query has    *)
(* not.                                                                    *)
(***************************************************************************)
EXTENDS PagePath

LOCAL INSTANCE SequencesExt

CONSTANTS
    MaxHeaderCount, MaxHeaderBytes, MaxHeaderValueBytes,
    MaxCookieCount, MaxCookieBytes, MaxCookieTotalBytes,
    MaxRawPathBytes, MaxRawQueryBytes, MaxPageBodyBytes

(* aws.rs:11-19, gcp.rs:14-21: single limits never exceed the total ones,    *)
(* and 64 KiB is no multiple of three.                                       *)
ASSUME LimitAssumption ==
    /\ {MaxHeaderCount, MaxHeaderBytes, MaxHeaderValueBytes, MaxCookieCount, MaxCookieBytes,
        MaxCookieTotalBytes, MaxRawPathBytes, MaxRawQueryBytes, MaxPageBodyBytes} \subseteq Nat
    /\ MaxHeaderValueBytes <= MaxHeaderBytes /\ MaxCookieBytes <= MaxCookieTotalBytes
    /\ MaxCookieTotalBytes <= MaxHeaderBytes /\ MaxPageBodyBytes % 3 = 1

MaxPagePathPatterns == 4
NoQuery == -1

(* A check is the status it refuses with, 0 if it does not; the first one    *)
(* that refuses decides.                                                     *)
When(refused, status) == IF refused THEN status ELSE 0
FirstRefusal(checks) ==
    LET failing == {i \in DOMAIN checks : checks[i] # 0}
    IN  IF failing = {} THEN 0 ELSE checks[Min(failing)]

Sum(sizes) ==
    LET total[k \in 0..Len(sizes)] == IF k = 0 THEN 0 ELSE total[k - 1] + sizes[k]
    IN  total[Len(sizes)]

(* The elements of s at the places of a set, in their order. *)
Rank(places, i) == Cardinality({j \in places : j <= i})
Nth(places, k) == CHOOSE i \in places : Rank(places, i) = k
Pick(s, places) == [k \in 1..Cardinality(places) |-> s[Nth(places, k)]]

Named(fields, name) == Pick(fields, {i \in DOMAIN fields : fields[i].name = name})

(* The loop over the headers of both normalizations: the first faulty one    *)
(* decides the status.                                                       *)
HeaderFault(fields) ==
    LET total(i) == Sum([k \in 1..i |-> 1 + fields[k].bytes])
        fault(i) == FirstRefusal(<<When(fields[i].sort = "opaque", 400),
                                   When(fields[i].bytes > MaxHeaderValueBytes, 431),
                                   When(total(i) > MaxHeaderBytes, 431)>>)
    IN  FirstRefusal([i \in DOMAIN fields |-> fault(i)])

Supported(method) == IF method \in {"GET", "HEAD"} THEN method ELSE "unsupported"

-----------------------------------------------------------------------------
(* AWS *)

(* API Gateway's event: repeated headers are joined, every value is a JSON   *)
(* string and as such plain, cookies have an array of their own, a binary    *)
(* body is encoded in base64, and no query is an empty one.                  *)
AwsHeaders(fields) ==
    LET firsts == {i \in DOMAIN fields : \A j \in 1..(i - 1) : fields[j].name # fields[i].name}
        joined(first, same) ==
          [name |-> first.name, sort |-> "plain",
           bytes |-> Sum([k \in DOMAIN same |-> same[k].bytes]) + Len(same) - 1,
           comma |-> Len(same) > 1 \/ same[1].comma]
    IN  [k \in 1..Cardinality(firsts) |->
           LET first == fields[Nth(firsts, k)] IN joined(first, Named(fields, first.name))]

AwsEvent(b) ==
    [method |-> b.method, path |-> b.path, pathBytes |-> b.pathBytes,
     queryBytes |-> IF b.queryBytes = NoQuery THEN 0 ELSE b.queryBytes, binary |-> b.binary,
     headers |-> AwsHeaders(b.fields), cookies |-> FlattenSeq(b.lines),
     encoded |-> IF b.binary THEN ((b.body + 2) \div 3) * 4 ELSE b.body,
     body |-> b.body]

(* parse_cookies *)
BadCookies(cookies) ==
    \/ Len(cookies) > MaxCookieCount
    \/ \E i \in DOMAIN cookies : cookies[i] > MaxCookieBytes
    \/ Sum(cookies) > MaxCookieTotalBytes

MaxBase64BodyBytes == ((MaxPageBodyBytes + 2) \div 3) * 4

(* page_http/aws.rs: from_event *)
AwsRefusal(event) ==
    FirstRefusal(<<
        When(event.pathBytes > MaxRawPathBytes, 414),
        When(event.queryBytes > MaxRawQueryBytes, 414),
        When(Len(event.headers) > MaxHeaderCount, 431),
        HeaderFault(event.headers),
        When(BadCookies(event.cookies), 400),
        When(event.encoded > (IF event.binary THEN MaxBase64BodyBytes ELSE MaxPageBodyBytes), 413),
        When(event.body > MaxPageBodyBytes, 413) >>)

AwsRequest(event) ==
    [method |-> Supported(event.method), path |-> event.path,
     query |-> IF event.queryBytes = 0 THEN NoQuery ELSE event.queryBytes,
     headers |-> event.headers, cookies |-> event.cookies, body |-> event.body]

-----------------------------------------------------------------------------
(* GCP *)

(* Cookie headers are headers too; their cookies are separated by "; ".      *)
LineBytes(line) == Sum(line) + 2 * (Len(line) - 1)
GcpFields(b) ==
    b.fields \o [i \in DOMAIN b.lines |->
        [name |-> "cookie", bytes |-> LineBytes(b.lines[i]), sort |-> "plain", comma |-> FALSE]]

(* from_request up to the point where it awaits the body *)
GcpHeadRefusal(b) ==
    FirstRefusal(<<
        When(b.pathBytes > MaxRawPathBytes \/ b.queryBytes > MaxRawQueryBytes, 414),
        When(Len(GcpFields(b)) > MaxHeaderCount, 431),
        HeaderFault(GcpFields(b)) >>)

(* Mutant: the total starts anew with every Cookie header. *)
MutBadCookieHeadersForgetful(lines) ==
    \/ \E i \in DOMAIN lines : LineBytes(lines[i]) > MaxCookieBytes
    \/ Len(FlattenSeq(lines)) > MaxCookieCount

(* parse_cookie_headers; the size of one cookie is not looked at. *)
BadCookieHeaders(lines) ==
    \/ \E i \in DOMAIN lines : LineBytes(lines[i]) > MaxCookieBytes
    \/ Sum([i \in DOMAIN lines |-> LineBytes(lines[i])]) > MaxCookieTotalBytes
    \/ Len(FlattenSeq(lines)) > MaxCookieCount

GcpBodyRefusal(b) ==
    FirstRefusal(<< When(b.body > MaxPageBodyBytes, 413), When(BadCookieHeaders(b.lines), 400) >>)

(* Mutant: the Cookie headers stay among the others. *)
MutGcpRequestKeepsCookies(b) ==
    [method |-> Supported(b.method), path |-> b.path, query |-> b.queryBytes,
     headers |-> GcpFields(b), cookies |-> FlattenSeq(b.lines), body |-> b.body]

GcpRequest(b) ==
    [method |-> Supported(b.method), path |-> b.path, query |-> b.queryBytes,
     headers |-> b.fields, cookies |-> FlattenSeq(b.lines), body |-> b.body]

-----------------------------------------------------------------------------
(* Structural admission *)

(* Mutant: only repeated headers are ambiguous, not joined ones. *)
MutAmbiguousByCount(headers) ==
    \E name \in {"host", "authorization", "content-length"} : Len(Named(headers, name)) > 1

(* ambiguous_sensitive_header *)
Ambiguous(headers) ==
    \E name \in {"host", "authorization", "content-length"} :
        LET values == Named(headers, name)
        IN  Len(values) > 1 \/ \E i \in DOMAIN values : values[i].comma

(* admit_page_request: its refusal, 0 if the request is admitted *)
StructuralRefusal(request, patterns) ==
    LET match == MatchAnyPath(request.path, patterns)
    IN  FirstRefusal(<<
            When(request.method = "unsupported", 405),
            When(request.body > MaxPageBodyBytes, 413),
            When(request.body > 0, 400),
            When(Len(patterns) \notin 1..MaxPagePathPatterns, 500),
            When(match.status # 200, match.status),
            When(Ambiguous(request.headers), 400) >>)

(* single_header: the hint is there when the header was sent exactly once. *)
WasmHave(headers) ==
    LET values == Named(headers, "x-ores-wasm-have")
    IN  IF Len(values) = 1 THEN values[1].bytes ELSE 0

(* The normalized headers, by name. *)
ByName(headers) ==
    [name \in {headers[i].name : i \in DOMAIN headers} |-> Named(headers, name)]

(* What product admission is asked about, and the hint page code is given.   *)
PageInput(request, patterns) ==
    [params |-> MatchAnyPath(request.path, patterns).params,
     method |-> request.method, path |-> request.path, query |-> request.query,
     headers |-> ByName(request.headers), cookies |-> request.cookies,
     wasmHave |-> WasmHave(request.headers)]

-----------------------------------------------------------------------------
(* Responses.  A page's header is [name, value, ok], ok telling whether the  *)
(* http crate accepts it; a status is representable from 100 to 999.         *)

Lower(name) ==
    CASE name = "Set-Cookie" -> "set-cookie" [] name = "X-Page" -> "x-page" [] OTHER -> name

(* Mutant: the comparison of names is case-sensitive. *)
MutIsCookieExact(header) == header.name = "set-cookie"

IsCookie(header) == Lower(header.name) = "set-cookie"
Cookies(headers) == {i \in DOMAIN headers : IsCookie(headers[i])}

(* Mutant: HEAD keeps the body. *)
MutFinishKeepsBody(answer, head) ==
    LET others == Pick(answer.headers, DOMAIN answer.headers \ Cookies(answer.headers))
    IN  [status |-> answer.status,
         headers |-> [i \in DOMAIN others |-> [others[i] EXCEPT !.name = Lower(@)]],
         setCookies |-> Pick(answer.headers, Cookies(answer.headers)), body |-> answer.body]

(* finish_page_response, and admission_rejection_response likewise *)
FinishPageResponse(answer, head) ==
    LET others == Pick(answer.headers, DOMAIN answer.headers \ Cookies(answer.headers))
    IN  [status |-> answer.status,
         headers |-> [i \in DOMAIN others |-> [others[i] EXCEPT !.name = Lower(@)]],
         setCookies |-> Pick(answer.headers, Cookies(answer.headers)),
         body |-> answer.body /\ ~head]

(* PageHttpResponse::text, and the hosts' own text responses *)
Text(status) ==
    [status |-> status,
     headers |-> <<[name |-> "content-type", value |-> "text/plain", ok |-> TRUE],
                   [name |-> "cache-control", value |-> "no-store", ok |-> TRUE]>>,
     setCookies |-> <<>>, body |-> TRUE]

(* The headers as a client reads them: the list of values of each name; a    *)
(* comma joins them in an AWS event, GCP sends the header again.             *)
Grouped(headers) ==
    LET names == {headers[i].name : i \in DOMAIN headers}
    IN  [name \in names |->
           LET same == Named(headers, name) IN [i \in DOMAIN same |-> same[i].value]]

Envelope(response) ==
    [status |-> response.status, headers |-> Grouped(response.headers),
     cookies |-> [i \in DOMAIN response.setCookies |-> response.setCookies[i].value],
     body |-> response.body]

ToEvent(response) == Envelope(response)

(* Mutant: what the http crate refuses is left out. *)
MutToResponseSkips(response) ==
    Envelope([response EXCEPT !.headers = SelectSeq(@, LAMBDA h : h.ok),
                              !.setCookies = SelectSeq(@, LAMBDA h : h.ok)])

(* to_response *)
ToResponse(response) ==
    IF /\ response.status \in 100..999
       /\ \A i \in DOMAIN response.headers : response.headers[i].ok
       /\ \A i \in DOMAIN response.setCookies : response.setCookies[i].ok
    THEN Envelope(response) ELSE Envelope(Text(500))
=============================================================================
