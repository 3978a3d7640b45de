------------------------------ MODULE PagePath ------------------------------
(***************************************************************************)
(* Route matching of the page host (src/page_http.rs:280-422): validation  *)
(* of the generated patterns, decoding of the raw path, and the match of   *)
(* one against the other.                                                  *)
(*                                                                         *)
(* A raw segment is a sequence of tokens, a token being one plain byte or  *)
(* one percent escape; decoding maps each token to the character it stands *)
(* for.  A path or a pattern is `rooted` when it starts with "/" and holds *)
(* no "?" or "#"; "/" alone has no segments.                               *)
(***************************************************************************)
EXTENDS Naturals, Sequences, FiniteSets

Seqs == INSTANCE SequencesExt

Plain == {"a", "b", "m", "n", ".", "%", "2", "E"}
Escapes == {"%2F", "%2E", "%25", "%00"}
Broken == {"%zz", "%FF"}      \* no escape, or a byte that is not UTF-8
Tokens == (Plain \ {"%"}) \cup Escapes \cup Broken

(* percent_decode_once on a token that is not broken. *)
Decoded(token) ==
    CASE token = "%2F" -> "/" [] token = "%2E" -> "." [] token = "%25" -> "%"
      [] token = "%00" -> "nul" [] OTHER -> token

Decode(segment) == [i \in DOMAIN segment |-> Decoded(segment[i])]

(* Mutant: dot segments are looked for before decoding. *)
MutBadSegmentRaw(segment) ==
    \/ segment = <<>> \/ segment \in {<<".">>, <<".", ".">>}
    \/ \E i \in DOMAIN segment : segment[i] \in Broken \cup {"%00"}

(* What decode_path_segments refuses of one segment. *)
BadSegment(segment) ==
    \/ segment = <<>>
    \/ \E i \in DOMAIN segment : segment[i] \in Broken \cup {"%00"}
    \/ Decode(segment) \in {<<".">>, <<".", ".">>}

BadPath(path) == ~path.rooted \/ \E i \in DOMAIN path.segments : BadSegment(path.segments[i])

DecodePathSegments(path) == [i \in DOMAIN path.segments |-> Decode(path.segments[i])]

(* A part of a pattern: a literal, {name}, {*name}, or a text with a stray   *)
(* brace.  The name is whatever stands between the outer braces.             *)
Kinds == {"literal", "capture", "catchall", "stray"}

RawPaths == [rooted : BOOLEAN, segments : Seq(Seq(Tokens))]
Patterns == [rooted : BOOLEAN, parts : Seq([kind : Kinds, text : Seq(Plain)])]

(* validate_pattern *)
ValidPattern(pattern) ==
    LET parts == pattern.parts
        Captures == {i \in DOMAIN parts : parts[i].kind \in {"capture", "catchall"}}
    IN  /\ pattern.rooted
        /\ \A i \in DOMAIN parts : parts[i].text # <<>> /\ parts[i].kind # "stray"
        /\ \A i \in DOMAIN parts : parts[i].kind = "catchall" => i = Len(parts)
        /\ \A i, j \in Captures : parts[i].text = parts[j].text => i = j

(* Segments put together with "/". *)
Join(segments) ==
    Seqs!FlattenSeq([i \in DOMAIN segments |-> IF i = 1 THEN segments[i] ELSE <<"/">> \o segments[i]])

(* One round of the loop of match_validated_pattern: what a part makes of    *)
(* the state before it; `at` is request_index + 1.  Here and in Walk a set   *)
(* holds what an Option does: {} is None.                                    *)
Advance(request, part, before) ==
    LET rest == SubSeq(request, before.at, Len(request))
        bind(value) == before.params \cup {<<part.text, value>>}
    IN  IF rest = <<>> THEN {}
        ELSE IF part.kind = "catchall"
        THEN {[at |-> Len(request) + 1, params |-> bind(Join(rest))]}
        ELSE IF part.kind = "capture"
        THEN {[at |-> before.at + 1, params |-> bind(rest[1])]}
        ELSE IF part.text = rest[1]
        THEN {[at |-> before.at + 1, params |-> before.params]} ELSE {}

(* The loop over the parts; walk[k] is its state after k of them. *)
Walk(request, parts) ==
    LET walk[k \in 0..Len(parts)] ==
          IF k = 0 THEN {[at |-> 1, params |-> {}]}
          ELSE UNION {Advance(request, parts[k], before) : before \in walk[k - 1]}
    IN  walk[Len(parts)]

(* Mutant: a pattern matches every path it is a prefix of. *)
MutMatchesPrefix(request, pattern) == Walk(request, pattern.parts) # {}

Matches(request, pattern) ==
    \E end \in Walk(request, pattern.parts) : end.at = Len(request) + 1

NoParams == {}

(* The patterns that match, and what the first one binds. *)
Hits(request, patterns) == {i \in DOMAIN patterns : Matches(request, patterns[i])}
Hit(request, patterns) ==
    LET first == patterns[Seqs!Min(Hits(request, patterns))]
    IN  [status |-> 200, params |-> UNION {end.params : end \in Walk(request, first.parts)}]
Miss(status) == [status |-> status, params |-> NoParams]

(* Mutant: the request is looked at first. *)
MutMatchAnyPathRequestFirst(path, patterns) ==
    IF BadPath(path) THEN Miss(400)
    ELSE IF \E i \in DOMAIN patterns : ~ValidPattern(patterns[i]) THEN Miss(500)
    ELSE IF Hits(DecodePathSegments(path), patterns) = {} THEN Miss(404)
    ELSE Hit(DecodePathSegments(path), patterns)

(* match_any_path: generated patterns are validated before the request is    *)
(* looked at; the first one that matches wins.                               *)
MatchAnyPath(path, patterns) ==
    IF \E i \in DOMAIN patterns : ~ValidPattern(patterns[i]) THEN Miss(500)
    ELSE IF BadPath(path) THEN Miss(400)
    ELSE IF Hits(DecodePathSegments(path), patterns) = {} THEN Miss(404)
    ELSE Hit(DecodePathSegments(path), patterns)
=============================================================================
