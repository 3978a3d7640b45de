---------------------------- MODULE PageRouting ----------------------------
(***************************************************************************)
(* One request path matched against the patterns of a generated page       *)
(* module: match_any_path checked against a declarative reading of         *)
(* docs/page-http-runtime.md, "Path semantics".                            *)
(***************************************************************************)
EXTENDS PagePath

CONSTANTS
    Paths,         \* raw paths browsers send
    PatternLists   \* lists of patterns the generator may have produced

(* A raw path is any &str, cut at its slashes; so is a pattern. *)
ASSUME RoutingAssumption == Paths \subseteq RawPaths /\ PatternLists \subseteq Seq(Patterns)

VARIABLES path, patterns, outcome

vars == <<path, patterns, outcome>>

Pending == [status |-> 0, params |-> NoParams]

Init == path \in Paths /\ patterns \in PatternLists /\ outcome = Pending

Route ==
    /\ outcome = Pending
    /\ outcome' = MatchAnyPath(path, patterns)
    /\ UNCHANGED <<path, patterns>>

Next == Route
Spec == Init /\ [][Next]_vars

-----------------------------------------------------------------------------
(* PROPERTIES *)

Routed == outcome # Pending
Segments == DecodePathSegments(path)

(* A pattern describes a decoded path when they have the same length, or the *)
(* path is longer and the last part takes the rest, and every literal is     *)
(* there at its place.                                                       *)
Describes(parts) ==
    LET n == Len(parts)
        open == n > 0 /\ parts[n].kind = "catchall"
    IN  /\ IF open THEN Len(Segments) >= n ELSE Len(Segments) = n
        /\ \A k \in 1..n : parts[k].kind = "literal" => parts[k].text = Segments[k]

(* The value at each named part: its segment, or what is left of the path.   *)
Binding(parts) ==
    {<<parts[k].text, IF parts[k].kind = "catchall" THEN Join(SubSeq(Segments, k, Len(Segments)))
                      ELSE Segments[k]>> :
        k \in {j \in DOMAIN parts : parts[j].kind # "literal"}}

(* The loop finds a match exactly when some pattern describes the path, and  *)
(* then binds what the first such pattern names (page_http.rs:390-422).      *)
FirstDescriptionWins ==
    Routed /\ outcome.status \in {200, 404} =>
        LET fit == {i \in DOMAIN patterns : Describes(patterns[i].parts)}
        IN  /\ outcome.status = 404 <=> fit = {}
            /\ outcome.status = 200 =>
                 \E i \in fit : /\ \A j \in fit : i <= j
                                /\ outcome.params = Binding(patterns[i].parts)

(* Text, dots and slashes that a segment only spells with escapes are data:  *)
(* no matched segment is a dot segment or empty, and putting the parameters  *)
(* back into the pattern yields the path, decoded exactly once.              *)
PathIsRecoverable ==
    Routed /\ outcome.status = 200 =>
        /\ \A i \in DOMAIN Segments : Segments[i] \notin {<<>>, <<".">>, <<".", ".">>}
        /\ \E i \in DOMAIN patterns :
             LET parts == patterns[i].parts
                 value(k) == IF parts[k].kind = "literal" THEN parts[k].text
                             ELSE CHOOSE v \in {p[2] : p \in outcome.params} :
                                      <<parts[k].text, v>> \in outcome.params
             IN  /\ {p[1] : p \in outcome.params} =
                       {parts[k].text : k \in {j \in DOMAIN parts : parts[j].kind # "literal"}}
                 /\ Join([k \in DOMAIN parts |-> value(k)]) =
                       Join([k \in DOMAIN path.segments |->
                               [t \in DOMAIN path.segments[k] |-> Decoded(path.segments[k][t])]])

(* A malformed generated pattern is the server's fault whatever the request  *)
(* is, even one it would refuse or that an earlier pattern matches           *)
(* (page_http.rs:284-289).                                                   *)
PatternFaultIsTheServers ==
    Routed => (outcome.status = 500 <=> \E i \in DOMAIN patterns : ~ValidPattern(patterns[i]))
=============================================================================
