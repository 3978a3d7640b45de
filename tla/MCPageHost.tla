----------------------------- MODULE MCPageHost -----------------------------
(* Small instances of PageHost for TLC. *)
EXTENDS PageHost

Field(name) == [name |-> name, bytes |-> 1, sort |-> "plain", comma |-> FALSE]
Path(segments) == [rooted |-> TRUE, segments |-> segments]
UserPath == Path(<< <<"a">>, <<"b">> >>)

(* A request the routes below admit, within every limit. *)
Plainest == [method |-> "GET", path |-> UserPath, pathBytes |-> 3, queryBytes |-> NoQuery,
             binary |-> FALSE, body |-> 0, fields |-> <<Field("host")>>, lines |-> <<>>]

(* Variations that stay at a limit or pass it by one, and headers whose      *)
(* multiplicity matters.                                                     *)
MCRequests ==
    {Plainest}
    \cup {[Plainest EXCEPT !.path = p] : p \in {Path(<< <<"b">>, <<"b">> >>), Path(<< <<".">> >>)}}
    \cup {[Plainest EXCEPT !.pathBytes = n] : n \in {MaxRawPathBytes, MaxRawPathBytes + 1}}
    \cup {[Plainest EXCEPT !.queryBytes = n] : n \in {0, MaxRawQueryBytes, MaxRawQueryBytes + 1}}
    \cup {[Plainest EXCEPT !.binary = x, !.body = n] :
            x \in BOOLEAN, n \in {1} \cup MaxPageBodyBytes..(MaxPageBodyBytes + 3)}
    \cup {[Plainest EXCEPT !.fields = <<Field("host"), f>>] :
            f \in {Field("host"), [Field("authorization") EXCEPT !.comma = TRUE],
                   [Field("accept") EXCEPT !.comma = TRUE], [Field("accept") EXCEPT !.sort = "opaque"],
                   [Field("accept") EXCEPT !.bytes = MaxHeaderValueBytes],
                   [Field("accept") EXCEPT !.bytes = MaxHeaderValueBytes + 1], Field("x-ores-wasm-have")}}
    \cup {[Plainest EXCEPT !.fields = <<Field("x-ores-wasm-have"), Field("x-ores-wasm-have")>>]}
    \cup {[Plainest EXCEPT !.fields = [i \in 1..n |-> Field(<<"f", "g", "h", "i">>[i])]] : n \in 3..4}
    \cup {[Plainest EXCEPT !.lines = l] :
            l \in {<< <<1>> >>, << <<1, 1>> >>, << <<4, 1>> >>, << <<4>>, <<4>> >>, << <<5>> >>,
                   << <<1, 1, 1>> >>, << <<4>>, <<1>> >>}}
    \cup {[Plainest EXCEPT !.fields = <<>>, !.lines = << <<1>>, <<1>>, <<1>> >>]}

Literal(t) == [kind |-> "literal", text |-> t]
Capture(t) == [kind |-> "capture", text |-> t]
Pattern(parts) == [rooted |-> TRUE, parts |-> parts]
Users == Pattern(<<Literal(<<"a">>), Capture(<<"m">>)>>)

MCRoutes == {<<Users>>, <<>>, <<Users, Users, Users, Users, Users>>,
             <<Users, Pattern(<<Capture(<<"m">>), Capture(<<"m">>)>>)>>}
OneRoute == {<<Users>>}

Header(n, v) == [name |-> n, value |-> v, ok |-> TRUE]
MCAnswer(status, headers) == [status |-> status, headers |-> headers, body |-> TRUE]
Rejection == MCAnswer(401, <<Header("X-Page", "v1"), Header("Set-Cookie", "c1")>>)
Shown == MCAnswer(200, <<Header("X-Page", "v1"), Header("Set-Cookie", "c1"), Header("x-page", "v2"),
                         Header("set-cookie", "c2")>>)
Odd == {MCAnswer(200, <<[Header("X-Page", "v1") EXCEPT !.ok = FALSE]>>),
        MCAnswer(200, <<[Header("Set-Cookie", "c1") EXCEPT !.ok = FALSE]>>), MCAnswer(42, <<>>)}

MCPages == [admits : BOOLEAN, rejection : {Rejection}, finalized : {Shown}]
OddPages == [admits : {TRUE}, rejection : {Rejection}, finalized : Odd]
           \cup [admits : {FALSE}, rejection : Odd, finalized : {Shown}]
AdmittingPages == [admits : {TRUE}, rejection : {Rejection}, finalized : {Shown}]
SomePages == MCPages \cup OddPages
SomeRequests == {Plainest, [Plainest EXCEPT !.path = Path(<< <<"b">>, <<"b">> >>)]}
=============================================================================
