--------------------------- MODULE MCPageRouting ---------------------------
(* Small instances of PageRouting for TLC. *)
EXTENDS PageRouting

LOCAL INSTANCE SequencesExt

(* One segment of each sort: plain, two spellings of the same text, dots     *)
(* spelled plainly and with escapes, an escaped slash, an escaped percent    *)
(* that must not be decoded again, and the ones that are refused.            *)
MCSegments == {<<>>, <<"a">>, <<"b">>, <<".">>, <<".", "%2E">>, <<"%2E">>, <<"a", "%2F", "b">>,
               <<"%2F">>, <<"%25", "2", "E">>, <<"%00">>, <<"a", "%zz">>, <<"%FF">>}

MCPaths == [rooted : {TRUE}, segments : BoundedSeq(MCSegments, 3)]
           \cup [rooted : {FALSE}, segments : {<<>>, << <<"a">> >>}]

Literal(t) == [kind |-> "literal", text |-> t]
Capture(t) == [kind |-> "capture", text |-> t]
CatchAll(t) == [kind |-> "catchall", text |-> t]
Pattern(parts) == [rooted |-> TRUE, parts |-> parts]

GoodPatterns == {Pattern(<<>>), Pattern(<<Literal(<<"a">>)>>), Pattern(<<Capture(<<"m">>)>>),
                 Pattern(<<Literal(<<"a">>), Capture(<<"m">>)>>),
                 Pattern(<<Capture(<<"m">>), Capture(<<"n">>)>>),
                 Pattern(<<Capture(<<"m">>), Literal(<<"b">>)>>),
                 Pattern(<<Literal(<<"a">>), CatchAll(<<"n">>)>>),
                 Pattern(<<Capture(<<"m">>), CatchAll(<<"n">>)>>)}
BadPatterns == {[Pattern(<<Literal(<<"a">>)>>) EXCEPT !.rooted = FALSE],
                Pattern(<<Literal(<<"a">>), Literal(<<>>)>>), Pattern(<<Capture(<<>>)>>),
                Pattern(<<CatchAll(<<"n">>), Literal(<<"b">>)>>),
                Pattern(<<Capture(<<"m">>), CatchAll(<<"m">>)>>),
                Pattern(<<[kind |-> "stray", text |-> <<"a">>]>>)}

MCPatternLists == {<<p>> : p \in GoodPatterns \cup BadPatterns}
                  \cup {<<p, q>> : p \in GoodPatterns, q \in GoodPatterns \cup BadPatterns}
=============================================================================
