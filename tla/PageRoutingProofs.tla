-------------------------- MODULE PageRoutingProofs --------------------------
(***************************************************************************)
(* Route matching is right for paths and patterns of any length: the loop  *)
(* of match_validated_pattern computes what the declarative reading of     *)
(* PageRouting describes, and what it binds gives the path back.           *)
(*                                                                         *)
(* The loop and FlattenSeq are recursive functions.  What they compute is  *)
(* proved by Induction, which follows from the well-foundedness of the     *)
(* strict subset ordering on intervals.                                    *)
(***************************************************************************)
EXTENDS PageRouting, Integers, TLAPS

WellFounded == INSTANCE FiniteSetTheorems
Sequence == INSTANCE SequenceTheorems

-----------------------------------------------------------------------------
(* INDUCTION *)

(* A nonempty set of natural numbers has a least element. *)
LEMMA LeastNatural ==
    ASSUME NEW T, T \subseteq Nat, T # {}
    PROVE  \E m \in T : \A n \in T : m <= n
<1> DEFINE R == WellFounded!StrictSubsetOrdering(Nat)
           F == WellFounded!FiniteSubsetsOf(Nat)
           U == {1..n : n \in T}
<1>1. WellFounded!IsWellFoundedOn(R, F)
    BY WellFounded!FS_StrictSubsetOrderingWellFounded
<1>2. U \subseteq F /\ U # {}
    <2>1. ASSUME NEW n \in T PROVE 1..n \in SUBSET Nat /\ WellFounded!IsFiniteSet(1..n)
        BY WellFounded!FS_Interval
    <2>2. \A n \in T : 1..n \in F
        BY <2>1 DEF WellFounded!FiniteSubsetsOf
    <2> QED
        BY <2>2
<1>3. \A n, m \in T : n < m => <<1..n, 1..m>> \in R
    <2> SUFFICES ASSUME NEW n \in T, NEW m \in T, n < m PROVE <<1..n, 1..m>> \in R
        OBVIOUS
    <2>1. /\ m \in 1..m /\ m \notin 1..n /\ 1..n \subseteq 1..m
          /\ 1..n \in SUBSET Nat /\ 1..m \in SUBSET Nat
        OBVIOUS
    <2> QED
        BY <2>1 DEF WellFounded!StrictSubsetOrdering
<1> HIDE DEF R, F
<1>4. PICK u \in U : \A v \in U : ~(<<v, u>> \in R)
    <2> HIDE DEF U
    <2> QED
        BY <1>1, <1>2, WellFounded!WFMin
<1>5. PICK m \in T : u = 1..m
    OBVIOUS
<1>6. \A n \in T : ~(n < m)
    BY <1>3, <1>4, <1>5
<1> QED
    BY <1>6

(* What holds of 0 and is handed on by each step up to n holds up to n. *)
LEMMA Induction ==
    ASSUME NEW n \in Nat, NEW S, 0 \in S, \A k \in 1..n : k - 1 \in S => k \in S
    PROVE  \A k \in 0..n : k \in S
<1> DEFINE T == (0..n) \ S
<1>1. CASE T = {}
    BY <1>1
<1>2. CASE T # {}
    <2>1. T \subseteq Nat
        OBVIOUS
    <2>2. PICK m \in T : \A k \in T : m <= k
        <3> HIDE DEF T
        <3> QED
            BY <1>2, <2>1, LeastNatural
    <2>3. m \in 1..n /\ m - 1 \in 0..n /\ m - 1 \notin T
        BY <2>2
    <2> QED
        BY <2>2, <2>3
<1> QED
    BY <1>1, <1>2

(* Recursion: a step function on D has a run from every start. *)
Runs(f, m, D, a, F) == f \in [0..m -> D] /\ f[0] = a /\ \A k \in 1..m : f[k] = F[<<f[k - 1], k>>]

LEMMA Recursion ==
    ASSUME NEW n \in Nat, NEW D, NEW a \in D, NEW F \in [D \X (1..n) -> D]
    PROVE  \E f : Runs(f, n, D, a, F)
<1> DEFINE S == {m \in 0..n : \E f : Runs(f, m, D, a, F)}
<1>1. 0 \in S
    <2>1. Runs([k \in 0..0 |-> a], 0, D, a, F)
        BY DEF Runs
    <2> QED
        BY <2>1
<1>2. ASSUME NEW m \in 1..n, m - 1 \in S PROVE m \in S
    <2>1. PICK f : Runs(f, m - 1, D, a, F)
        BY <1>2
    <2>2. f \in [0..(m - 1) -> D] /\ f[0] = a /\ \A k \in 1..(m - 1) : f[k] = F[<<f[k - 1], k>>]
        BY <2>1 DEF Runs
    <2>3. F[<<f[m - 1], m>>] \in D
        BY <2>2
    <2> DEFINE g == [k \in 0..m |-> IF k = m THEN F[<<f[m - 1], m>>] ELSE f[k]]
    <2>4. g \in [0..m -> D] /\ g[0] = a /\ g[m] = F[<<f[m - 1], m>>] /\ \A k \in 0..(m - 1) : g[k] = f[k]
        BY <2>2, <2>3
    <2> HIDE DEF g
    <2>5. ASSUME NEW k \in 1..m PROVE g[k] = F[<<g[k - 1], k>>]
        <3>1. CASE k = m
            BY <2>4, <3>1
        <3>2. CASE k # m
            <4>1. k \in 1..(m - 1) /\ k \in 0..(m - 1) /\ k - 1 \in 0..(m - 1)
                BY <3>2
            <4>2. g[k] = f[k] /\ g[k - 1] = f[k - 1]
                BY <2>4, <4>1
            <4> QED
                BY <2>2, <4>1, <4>2
        <3> QED
            BY <3>1, <3>2
    <2> QED
        BY <2>4, <2>5 DEF Runs
<1>3. n \in S
    <2> HIDE DEF S
    <2> QED
        BY <1>1, <1>2, Induction
<1> QED
    BY <1>3

-----------------------------------------------------------------------------
(* THE LOOP *)

Part == [kind : Kinds, text : Seq(Plain)]
Parts == Seq(Part)

(* What ValidPattern says of the kinds of its parts. *)
Ordered(parts) ==
    \A i \in DOMAIN parts : parts[i].kind # "stray" /\ (parts[i].kind = "catchall" => i = Len(parts))

(* The state after k parts: none unless the first k of them fit.             *)
Fits(request, parts, k) ==
    k <= Len(request) /\ \A j \in 1..k : parts[j].kind = "literal" => parts[j].text = request[j]
Value(request, part, j) ==
    IF part.kind = "catchall" THEN Join(SubSeq(request, j, Len(request))) ELSE request[j]
Bound(request, parts, k) ==
    {<<parts[j].text, Value(request, parts[j], j)>> : j \in {i \in 1..k : parts[i].kind # "literal"}}
State(request, parts, k) ==
    [at |-> IF k > 0 /\ parts[k].kind = "catchall" THEN Len(request) + 1 ELSE k + 1,
     params |-> Bound(request, parts, k)]
After(request, parts, k) == IF Fits(request, parts, k) THEN {State(request, parts, k)} ELSE {}

(* One more part binds its own name, or nothing. *)
LEMMA BoundStep ==
    ASSUME NEW request, NEW parts, NEW k \in Nat \ {0}
    PROVE  /\ parts[k].kind = "literal" => Bound(request, parts, k) = Bound(request, parts, k - 1)
           /\ parts[k].kind # "literal" =>
                Bound(request, parts, k) =
                  Bound(request, parts, k - 1) \cup {<<parts[k].text, Value(request, parts[k], k)>>}
<1> DEFINE pair(j) == <<parts[j].text, Value(request, parts[j], j)>>
           named(n) == {i \in 1..n : parts[i].kind # "literal"}
<1>1. named(k) = named(k - 1) \cup (IF parts[k].kind = "literal" THEN {} ELSE {k})
    BY SMT
<1>2. Bound(request, parts, k) = {pair(j) : j \in named(k)}
      /\ Bound(request, parts, k - 1) = {pair(j) : j \in named(k - 1)}
    BY DEF Bound
<1> HIDE DEF pair, named
<1>3. {pair(j) : j \in named(k)} =
        {pair(j) : j \in named(k - 1)} \cup (IF parts[k].kind = "literal" THEN {} ELSE {pair(k)})
    BY <1>1
<1> QED
    BY <1>2, <1>3 DEF pair

(* One round takes the state after k - 1 parts to the state after k. *)
LEMMA AfterStep ==
    ASSUME NEW A, NEW request \in Seq(A), NEW parts \in Parts, Ordered(parts), NEW k \in 1..Len(parts)
    PROVE  After(request, parts, k) =
             UNION {Advance(request, parts[k], before) : before \in After(request, parts, k - 1)}
<1> DEFINE rest == SubSeq(request, k, Len(request))
           before == State(request, parts, k - 1)
<1>1. k \in Nat \ {0} /\ Len(parts) \in Nat /\ k \in DOMAIN parts
    BY DEF Parts
<1>4. parts[k].kind \in {"literal", "capture", "catchall"}
    <2>1. parts[k] \in Part
        BY <1>1 DEF Parts
    <2> QED
        BY <1>1, <2>1 DEF Part, Ordered, Kinds
<1>2. CASE ~Fits(request, parts, k - 1)
    <2>1. ~Fits(request, parts, k)
        BY <1>2 DEF Fits
    <2> QED
        BY <1>2, <2>1 DEF After
<1>3. CASE Fits(request, parts, k - 1)
    <2>1. k - 1 > 0 => parts[k - 1].kind # "catchall"
        BY DEF Ordered, Parts
    <2>2. before = [at |-> k, params |-> Bound(request, parts, k - 1)]
        BY <2>1 DEF State
    <2>3. UNION {Advance(request, parts[k], b) : b \in After(request, parts, k - 1)}
            = Advance(request, parts[k], before)
        BY <1>3 DEF After
    <2>4. CASE k > Len(request)
        <3>1. rest = <<>> /\ ~Fits(request, parts, k)
            BY <2>4 DEF Fits
        <3> QED
            BY <2>2, <2>3, <3>1 DEF Advance, After
    <2>5. CASE k <= Len(request)
        <3>1. rest # <<>> /\ rest[1] = request[k]
            <4>1. rest \in Seq(A) /\ Len(rest) = Len(request) - k + 1 /\ rest[1] = request[k]
                BY <1>1, <2>5
            <4> HIDE DEF rest
            <4>2. Len(rest) > 0
                BY <1>1, <2>5, <4>1
            <4> QED
                BY <4>1, <4>2
        <3>2. Fits(request, parts, k) <=> (parts[k].kind = "literal" => parts[k].text = request[k])
            BY <1>3, <2>5 DEF Fits
        <3> HIDE DEF rest, before
        <3>3. CASE parts[k].kind = "literal"
            <4>1. Advance(request, parts[k], before) =
                    IF parts[k].text = request[k]
                    THEN {[at |-> k + 1, params |-> Bound(request, parts, k - 1)]} ELSE {}
                BY <2>2, <3>1, <3>3 DEF Advance, rest
            <4>2. State(request, parts, k) = [at |-> k + 1, params |-> Bound(request, parts, k - 1)]
                <5>1. Bound(request, parts, k) = Bound(request, parts, k - 1)
                    BY <1>1, <3>3, BoundStep
                <5> QED
                    BY <3>3, <5>1 DEF State
            <4> QED
                BY <2>3, <3>2, <3>3, <4>1, <4>2 DEF After
        <3>4. CASE parts[k].kind = "capture"
            <4>1. Advance(request, parts[k], before) =
                    {[at |-> k + 1,
                      params |-> Bound(request, parts, k - 1) \cup {<<parts[k].text, request[k]>>}]}
                BY <2>2, <3>1, <3>4 DEF Advance, rest
            <4>2. State(request, parts, k) =
                    [at |-> k + 1,
                     params |-> Bound(request, parts, k - 1) \cup {<<parts[k].text, request[k]>>}]
                <5>1. Bound(request, parts, k) =
                        Bound(request, parts, k - 1) \cup {<<parts[k].text, request[k]>>}
                    BY <1>1, <3>4, BoundStep DEF Value
                <5> QED
                    BY <3>4, <5>1 DEF State
            <4> QED
                BY <2>3, <3>2, <3>4, <4>1, <4>2 DEF After
        <3>5. CASE parts[k].kind = "catchall"
            <4>1. Advance(request, parts[k], before) =
                    {[at |-> Len(request) + 1,
                      params |-> Bound(request, parts, k - 1) \cup {<<parts[k].text, Join(rest)>>}]}
                BY <2>2, <3>1, <3>5 DEF Advance, rest
            <4>2. State(request, parts, k) =
                    [at |-> Len(request) + 1,
                     params |-> Bound(request, parts, k - 1) \cup {<<parts[k].text, Join(rest)>>}]
                <5>1. Bound(request, parts, k) =
                        Bound(request, parts, k - 1) \cup {<<parts[k].text, Join(rest)>>}
                    BY <1>1, <3>5, BoundStep DEF Value, rest
                <5>2. k > 0
                    OBVIOUS
                <5> QED
                    BY <3>5, <5>1, <5>2 DEF State
            <4> QED
                BY <2>3, <3>2, <3>5, <4>1, <4>2 DEF After
        <3> QED
            BY <1>4, <3>3, <3>4, <3>5
    <2> QED
        BY <2>4, <2>5
<1> QED
    BY <1>2, <1>3

(* The loop ends in that state. *)
LEMMA WalkIsAfter ==
    ASSUME NEW A, NEW request \in Seq(A), NEW parts \in Parts, Ordered(parts)
    PROVE  Walk(request, parts) = After(request, parts, Len(parts))
<1> DEFINE next(k, before) == UNION {Advance(request, parts[k], b) : b \in before}
           start == {[at |-> 1, params |-> {}]}
           n == Len(parts)
           Run(w) == w = [k \in 0..n |-> IF k = 0 THEN start ELSE next(k, w[k - 1])]
           walk == CHOOSE w : Run(w)
           after == [k \in 0..n |-> After(request, parts, k)]
<1>1. n \in Nat
    BY DEF Parts
<1>2. After(request, parts, 0) = start
    BY DEF After, Fits, State, Bound
<1>3. \A k \in 1..n : After(request, parts, k) = next(k, After(request, parts, k - 1))
    BY AfterStep
<1>4. Run(after)
    <2> HIDE DEF next, start, n
    <2> QED
        BY <1>1, <1>2, <1>3
<1>5. Run(walk)
    <2> HIDE DEF Run, after
    <2> QED
        BY <1>4
<1>6. Walk(request, parts) = walk[n]
    BY DEF Walk
<1>7. walk[n] = after[n]
    <2> DEFINE S == {k \in 0..n : walk[k] = after[k]}
    <2> HIDE DEF next, start, walk, n
    <2>1. walk[0] = start /\ \A k \in 1..n : walk[k] = next(k, walk[k - 1])
        BY <1>1, <1>5
    <2>2. after[0] = start /\ \A k \in 1..n : after[k] = next(k, after[k - 1])
        BY <1>1, <1>2, <1>3
    <2> HIDE DEF after
    <2>3. 0 \in S
        BY <1>1, <2>1, <2>2
    <2>4. ASSUME NEW k \in 1..n, k - 1 \in S PROVE k \in S
        BY <1>1, <2>1, <2>2, <2>4
    <2>5. n \in S
        <3> HIDE DEF S
        <3>1. \A k \in 1..n : k - 1 \in S => k \in S
            BY <2>4
        <3>2. \A k \in 0..n : k \in S
            BY <1>1, <2>3, <3>1, Induction
        <3> QED
            BY <1>1, <3>2
    <2> QED
        BY <2>5
<1> QED
    BY <1>1, <1>6, <1>7

-----------------------------------------------------------------------------
(* THE MATCH *)

(* What a decoded path is made of; Broken is there although it is refused.   *)
Characters == Plain \cup Broken \cup {"/", "nul"}

LEMMA SegmentsType ==
    ASSUME path \in RawPaths
    PROVE  /\ Segments \in Seq(Seq(Characters)) /\ DOMAIN Segments = DOMAIN path.segments
           /\ Len(Segments) = Len(path.segments)
           /\ \A i \in DOMAIN Segments :
                /\ Segments[i] = Decode(path.segments[i])
                /\ Segments[i] = [t \in DOMAIN path.segments[i] |-> Decoded(path.segments[i][t])]
                /\ path.segments[i] # <<>> => Segments[i] # <<>>
<1> DEFINE raw == path.segments
<1>1. raw \in Seq(Seq(Tokens))
    BY DEF RawPaths
<1> HIDE DEF raw
<1>2. \A token \in Tokens : Decoded(token) \in Characters
    BY DEF Tokens, Plain, Escapes, Broken, Decoded, Characters
<1>3. ASSUME NEW segment \in Seq(Tokens)
      PROVE  /\ Decode(segment) \in Seq(Characters) /\ Len(Decode(segment)) = Len(segment)
             /\ segment # <<>> => Decode(segment) # <<>>
    <2>1. Decode(segment) \in Seq(Characters) /\ Len(Decode(segment)) = Len(segment)
        BY <1>2 DEF Decode
    <2> QED
        BY <2>1
<1>4. \A i \in DOMAIN raw : raw[i] \in Seq(Tokens)
    BY <1>1
<1>5. Segments = [i \in DOMAIN raw |-> Decode(raw[i])]
    BY DEF Segments, DecodePathSegments, raw
<1>6. Segments \in Seq(Seq(Characters)) /\ Len(Segments) = Len(raw) /\ DOMAIN Segments = DOMAIN raw
    BY <1>1, <1>3, <1>4, <1>5
<1>7. \A i \in DOMAIN Segments :
        /\ Segments[i] = Decode(raw[i])
        /\ Segments[i] = [t \in DOMAIN raw[i] |-> Decoded(raw[i][t])]
        /\ raw[i] # <<>> => Segments[i] # <<>>
    BY <1>3, <1>4, <1>5, <1>6 DEF Decode
<1> QED
    BY <1>6, <1>7 DEF raw

LEMMA ValidIsOrdered ==
    ASSUME NEW pattern \in Patterns, ValidPattern(pattern)
    PROVE  pattern.parts \in Parts /\ Ordered(pattern.parts)
BY DEF Patterns, Parts, Part, ValidPattern, Ordered

(* A valid pattern matches what it describes, and binds what it names. *)
LEMMA MatchIsDescription ==
    ASSUME path \in RawPaths, NEW pattern \in Patterns, ValidPattern(pattern)
    PROVE  /\ Matches(Segments, pattern) <=> Describes(pattern.parts)
           /\ Matches(Segments, pattern) =>
                UNION {end.params : end \in Walk(Segments, pattern.parts)} = Binding(pattern.parts)
<1> DEFINE parts == pattern.parts
           n == Len(parts)
           open == n > 0 /\ parts[n].kind = "catchall"
<1>1. parts \in Parts /\ Ordered(parts) /\ n \in Nat /\ DOMAIN parts = 1..n
    BY ValidIsOrdered DEF Parts
<1>2. Segments \in Seq(Seq(Characters)) /\ Len(Segments) \in Nat
    BY SegmentsType
<1>3. Walk(Segments, parts) = After(Segments, parts, n)
    BY <1>1, <1>2, WalkIsAfter
<1>4. Bound(Segments, parts, n) = Binding(parts)
    BY <1>1 DEF Bound, Value, Binding
<1> HIDE DEF parts
<1>5. Matches(Segments, pattern) <=>
        Fits(Segments, parts, n) /\ (open \/ n = Len(Segments))
    <2>1. Matches(Segments, pattern) <=>
            \E end \in After(Segments, parts, n) : end.at = Len(Segments) + 1
        BY <1>3 DEF Matches, parts
    <2>2. State(Segments, parts, n).at = Len(Segments) + 1 <=> open \/ n = Len(Segments)
        <3>1. State(Segments, parts, n).at = IF open THEN Len(Segments) + 1 ELSE n + 1
            BY DEF State
        <3> QED
            BY <1>1, <1>2, <3>1
    <2> QED
        BY <2>1, <2>2 DEF After
<1>6. Fits(Segments, parts, n) /\ (open \/ n = Len(Segments)) <=> Describes(parts)
    BY <1>1, <1>2 DEF Fits, Describes
<1>7. Fits(Segments, parts, n) => UNION {end.params : end \in Walk(Segments, parts)} = Binding(parts)
    <2> SUFFICES ASSUME Fits(Segments, parts, n)
                 PROVE  UNION {end.params : end \in Walk(Segments, parts)} = Binding(parts)
        OBVIOUS
    <2>1. Walk(Segments, parts) = {State(Segments, parts, n)}
        BY <1>3 DEF After
    <2>2. State(Segments, parts, n).params = Binding(parts)
        BY <1>4 DEF State
    <2> QED
        BY <2>1, <2>2
<1> QED
    BY <1>5, <1>6, <1>7 DEF parts

-----------------------------------------------------------------------------
(* THE INVARIANT *)

IInv ==
    /\ path \in RawPaths /\ patterns \in Seq(Patterns)
    /\ Routed => outcome = MatchAnyPath(path, patterns)

LEMMA Invariance == Spec => []IInv
<1>1. Init => IInv
    BY RoutingAssumption DEF Init, IInv, Routed
<1>2. IInv /\ [Next]_vars => IInv'
    BY DEF IInv, Next, Route, vars, Routed
<1> QED
    BY <1>1, <1>2, PTL DEF Spec

(* The three ways out of match_any_path before a match, and the match. *)
LEMMA Outcomes ==
    ASSUME IInv, Routed
    PROVE  \/ outcome.status = 500 /\ \E i \in DOMAIN patterns : ~ValidPattern(patterns[i])
           \/ /\ outcome.status # 500 /\ \A i \in DOMAIN patterns : ValidPattern(patterns[i])
              /\ \/ outcome.status = 400 /\ BadPath(path)
                 \/ outcome.status = 404 /\ ~BadPath(path) /\ Hits(Segments, patterns) = {}
                 \/ /\ outcome = Hit(Segments, patterns) /\ outcome.status = 200
                    /\ ~BadPath(path) /\ Hits(Segments, patterns) # {}
<1>1. outcome = MatchAnyPath(path, patterns)
    BY DEF IInv
<1>2. Hit(Segments, patterns).status = 200 /\ \A status : Miss(status).status = status
    BY DEF Hit, Miss
<1> QED
    BY <1>1, <1>2 DEF MatchAnyPath, Segments

(* Generated patterns are validated before the request is looked at          *)
(* (page_http.rs:284-289).                                                   *)
THEOREM PatternFaults == Spec => []PatternFaultIsTheServers
<1>1. IInv => PatternFaultIsTheServers
    BY Outcomes DEF PatternFaultIsTheServers
<1> QED
    BY <1>1, Invariance, PTL

(* What the first hit is, and what it binds. *)
LEMMA FirstHit ==
    ASSUME IInv, Routed, outcome.status = 200
    PROVE  \E i \in DOMAIN patterns :
             /\ Describes(patterns[i].parts) /\ ValidPattern(patterns[i]) /\ patterns[i] \in Patterns
             /\ \A j \in DOMAIN patterns : Describes(patterns[j].parts) => i <= j
             /\ outcome.params = Binding(patterns[i].parts)
<1> DEFINE hits == Hits(Segments, patterns)
           first == Seqs!Min(hits)
<1>1. /\ \A i \in DOMAIN patterns : ValidPattern(patterns[i])
      /\ outcome = Hit(Segments, patterns) /\ hits # {}
    BY Outcomes
<1>2. DOMAIN patterns \subseteq Nat /\ \A i \in DOMAIN patterns : patterns[i] \in Patterns
    BY DEF IInv
<1>3. hits = {i \in DOMAIN patterns : Matches(Segments, patterns[i])}
    BY DEF Hits
<1> HIDE DEF hits
<1>4. first \in hits /\ \A j \in hits : first <= j
    <2>1. hits \subseteq Nat
        BY <1>2, <1>3
    <2>2. \E m \in hits : \A j \in hits : m <= j
        BY <1>1, <2>1, LeastNatural
    <2> QED
        BY <2>2 DEF Seqs!Min
<1> HIDE DEF first
<1>5. outcome.params = UNION {end.params : end \in Walk(Segments, patterns[first].parts)}
    BY <1>1 DEF Hit, hits, first
<1>6. path \in RawPaths
    BY DEF IInv
<1>7. \A i \in DOMAIN patterns : i \in hits <=> Describes(patterns[i].parts)
    BY <1>1, <1>2, <1>3, <1>6, MatchIsDescription
<1>8. outcome.params = Binding(patterns[first].parts)
    BY <1>1, <1>2, <1>3, <1>4, <1>5, <1>6, MatchIsDescription
<1> QED
    BY <1>1, <1>2, <1>3, <1>4, <1>7, <1>8

(* The loop finds a match exactly when some pattern describes the path, and  *)
(* binds what the first such pattern names (page_http.rs:390-422).           *)
THEOREM FirstPatternWins == Spec => []FirstDescriptionWins
<1>1. IInv => FirstDescriptionWins
    <2> SUFFICES ASSUME IInv, Routed, outcome.status \in {200, 404}
                 PROVE  LET fit == {i \in DOMAIN patterns : Describes(patterns[i].parts)}
                        IN  /\ outcome.status = 404 <=> fit = {}
                            /\ outcome.status = 200 =>
                                 \E i \in fit : /\ \A j \in fit : i <= j
                                                /\ outcome.params = Binding(patterns[i].parts)
        BY DEF FirstDescriptionWins
    <2>1. CASE outcome.status = 200
        BY <2>1, FirstHit
    <2>2. CASE outcome.status = 404
        <3>1. /\ \A i \in DOMAIN patterns : ValidPattern(patterns[i])
              /\ Hits(Segments, patterns) = {}
            BY <2>2, Outcomes
        <3>2. path \in RawPaths /\ \A i \in DOMAIN patterns : patterns[i] \in Patterns
            BY DEF IInv
        <3>3. \A i \in DOMAIN patterns : ~Describes(patterns[i].parts)
            BY <3>1, <3>2, MatchIsDescription DEF Hits
        <3> QED
            BY <2>2, <3>3
    <2> QED
        BY <2>1, <2>2
<1> QED
    BY <1>1, Invariance, PTL

-----------------------------------------------------------------------------
(* PUTTING A PATH TOGETHER *)

(* FlattenSeq of a sequence that is not empty, and its partial results. *)
Glue(s) ==
    LET flatten[i \in 1..Len(s)] == IF i = 1 THEN s[i] ELSE flatten[i - 1] \o s[i]
    IN  flatten[Len(s)]

LEMMA GlueRun ==
    ASSUME NEW A, NEW s \in Seq(Seq(A)), s # <<>>
    PROVE  \E f \in [1..Len(s) -> Seq(A)] :
             /\ f[1] = s[1] /\ \A i \in 2..Len(s) : f[i] = f[i - 1] \o s[i]
             /\ Glue(s) = f[Len(s)]
<1> DEFINE n == Len(s) - 1
           D == Seq(A)
           cat(d, i) == d \o s[i]
           Run(f) == f = [i \in 1..Len(s) |-> IF i = 1 THEN s[i] ELSE cat(f[i - 1], i)]
           flatten == CHOOSE f : Run(f)
<1>1. n \in Nat /\ Len(s) = n + 1 /\ s[1] \in D /\ \A i \in 1..Len(s) : s[i] \in D
    OBVIOUS
<1>2. \A d \in D, i \in 1..Len(s) : cat(d, i) \in D
    BY <1>1, Sequence!ConcatProperties
<1>3. Glue(s) = flatten[Len(s)]
    BY DEF Glue
<1>4. \A d, i : cat(d, i) = d \o s[i]
    OBVIOUS
<1> HIDE DEF n, D, cat
<1>5. \E f : Run(f)
    <2> DEFINE F == [q \in D \X (1..n) |-> cat(q[1], q[2] + 1)]
    <2>1. F \in [D \X (1..n) -> D] /\ \A d \in D, k \in 1..n : F[<<d, k>>] = cat(d, k + 1)
        BY <1>1, <1>2, SMTT(40)
    <2> HIDE DEF F
    <2>2. PICK h : Runs(h, n, D, s[1], F)
        BY <1>1, <2>1, Recursion
    <2>3. h \in [0..n -> D] /\ h[0] = s[1] /\ \A k \in 1..n : h[k] = F[<<h[k - 1], k>>]
        BY <2>2 DEF Runs
    <2>4. ASSUME NEW k \in 1..n PROVE h[k] = cat(h[k - 1], k + 1)
        <3>1. h[k - 1] \in D
            BY <1>1, <2>3
        <3> QED
            BY <2>1, <2>3, <3>1
    <2> DEFINE g == [i \in 1..Len(s) |-> h[i - 1]]
    <2>5. \A i \in 1..Len(s) : g[i] = IF i = 1 THEN s[i] ELSE cat(g[i - 1], i)
        <3> SUFFICES ASSUME NEW i \in 1..Len(s) PROVE g[i] = IF i = 1 THEN s[i] ELSE cat(g[i - 1], i)
            OBVIOUS
        <3>1. CASE i = 1
            BY <1>1, <2>3, <3>1
        <3>2. CASE i # 1
            <4>1. i - 1 \in 1..n /\ i - 1 \in 1..Len(s) /\ (i - 1) + 1 = i
                BY <1>1, <3>2
            <4>2. h[i - 1] = cat(h[(i - 1) - 1], i)
                BY <2>4, <4>1
            <4> QED
                BY <1>1, <3>2, <4>1, <4>2
        <3> QED
            BY <3>1, <3>2
    <2>6. g = [i \in 1..Len(s) |-> g[i]]
        OBVIOUS
    <2> HIDE DEF g
    <2>7. Run(g)
        BY <2>5, <2>6
    <2> QED
        BY <2>7
<1>6. Run(flatten)
    <2> HIDE DEF Run
    <2> QED
        BY <1>5
<1> HIDE DEF flatten
<1>7. /\ DOMAIN flatten = 1..Len(s) /\ flatten[1] = s[1]
      /\ \A i \in 2..Len(s) : flatten[i] = cat(flatten[i - 1], i)
      /\ flatten = [i \in 1..Len(s) |-> flatten[i]]
    BY <1>1, <1>6
<1>8. \A i \in 1..Len(s) : flatten[i] \in D
    <2> DEFINE S == {k \in 0..n : flatten[k + 1] \in D}
    <2>1. 0 \in S
        <3>1. 0 + 1 = 1 /\ 0 \in 0..n
            BY <1>1
        <3> QED
            BY <1>1, <1>7, <3>1
    <2>2. \A k \in 1..n : k - 1 \in S => k \in S
        <3> SUFFICES ASSUME NEW k \in 1..n, flatten[(k - 1) + 1] \in D PROVE flatten[k + 1] \in D
            BY <1>1
        <3>1. k + 1 \in 2..Len(s) /\ (k + 1) - 1 = (k - 1) + 1
            BY <1>1
        <3>2. flatten[k + 1] = cat(flatten[(k - 1) + 1], k + 1)
            BY <1>7, <3>1
        <3> QED
            BY <1>2, <3>1, <3>2
    <2>3. \A k \in 0..n : k \in S
        <3> HIDE DEF S
        <3> QED
            BY <1>1, <2>1, <2>2, Induction
    <2>4. \A i \in 1..Len(s) : i - 1 \in 0..n /\ (i - 1) + 1 = i
        BY <1>1
    <2> QED
        BY <2>3, <2>4
<1> QED
    BY <1>3, <1>4, <1>7, <1>8 DEF D

(* Join puts one more segment behind a slash. *)
Texts == Seq(Characters)

LEMMA JoinRun ==
    ASSUME NEW s \in Seq(Texts), s # <<>>
    PROVE  \E f \in [1..Len(s) -> Texts] :
             /\ f[1] = s[1] /\ \A i \in 2..Len(s) : f[i] = f[i - 1] \o (<<"/">> \o s[i])
             /\ Join(s) = f[Len(s)]
<1> DEFINE glued == [i \in DOMAIN s |-> IF i = 1 THEN s[i] ELSE <<"/">> \o s[i]]
<1>1. <<"/">> \in Texts
    BY DEF Texts, Characters
<1>2. \A i \in DOMAIN s : s[i] \in Texts /\ <<"/">> \o s[i] \in Texts
    BY <1>1, Sequence!ConcatProperties DEF Texts
<1>3. glued \in Seq(Texts) /\ Len(glued) = Len(s) /\ glued # <<>>
    <2>1. Len(s) \in Nat /\ Len(s) > 0 /\ DOMAIN s = 1..Len(s)
        OBVIOUS
    <2>2. glued \in [1..Len(s) -> Texts]
        BY <1>2, <2>1
    <2> HIDE DEF glued
    <2> QED
        BY <2>1, <2>2
<1>4. glued[1] = s[1] /\ \A i \in 2..Len(s) : glued[i] = <<"/">> \o s[i]
    OBVIOUS
<1>5. Join(s) = Glue(glued)
    <2>1. Join(s) = Seqs!FlattenSeq(glued)
        BY DEF Join
    <2>2. Len(glued) # 0
        BY <1>3
    <2> HIDE DEF glued
    <2> QED
        BY <2>1, <2>2 DEF Seqs!FlattenSeq, Glue
<1> HIDE DEF glued
<1>6. PICK f \in [1..Len(glued) -> Texts] :
        /\ f[1] = glued[1] /\ \A i \in 2..Len(glued) : f[i] = f[i - 1] \o glued[i]
        /\ Glue(glued) = f[Len(glued)]
    BY <1>3, GlueRun DEF Texts
<1>7. f \in [1..Len(s) -> Texts] /\ f[1] = s[1] /\ Join(s) = f[Len(s)]
    BY <1>3, <1>4, <1>5, <1>6
<1>8. \A i \in 2..Len(s) : f[i] = f[i - 1] \o (<<"/">> \o s[i])
    BY <1>3, <1>4, <1>6
<1> QED
    BY <1>7, <1>8
Cat(a, b) == a \o b

LEMMA CatFacts ==
    ASSUME NEW a \in Texts, NEW b \in Texts, NEW c \in Texts
    PROVE  Cat(a, b) \in Texts /\ Cat(Cat(a, b), c) = Cat(a, Cat(b, c))
<1> USE DEF Cat, Texts
<1> DEFINE left == (a \o b) \o c
           right == a \o (b \o c)
<1>1. left \in Texts /\ right \in Texts /\ Len(left) = Len(right) /\ a \o b \in Texts
    OBVIOUS
<1>2. \A i \in 1..Len(left) : left[i] = right[i]
    OBVIOUS
<1> HIDE DEF left, right
<1>3. left = right
    BY <1>1, <1>2, Sequence!SeqEqual
<1> QED
    BY <1>1, <1>3 DEF left, right

(* Joining the rest of a path first and then the whole makes no difference. *)
LEMMA JoinRest ==
    ASSUME NEW s \in Seq(Texts), NEW n \in 1..Len(s), NEW v \in Seq(Texts), Len(v) = n,
           \A i \in 1..(n - 1) : v[i] = s[i], v[n] = Join(SubSeq(s, n, Len(s)))
    PROVE  Join(v) = Join(s)
<1> DEFINE m == Len(s)
           r == SubSeq(s, n, m)
           slash == <<"/">>
           add(x, y) == Cat(x, Cat(slash, y))
<1>1. /\ m \in Nat /\ n \in 1..m /\ v # <<>> /\ s # <<>>
      /\ r \in Seq(Texts) /\ Len(r) = m - n + 1 /\ r # <<>>
      /\ \A j \in 1..(m - n + 1) : r[j] = s[n + j - 1]
    <2>1. m \in Nat /\ n \in 1..m /\ n > 0
        OBVIOUS
    <2>2. r \in Seq(Texts) /\ Len(r) = m - n + 1 /\ \A j \in 1..(m - n + 1) : r[j] = s[n + j - 1]
        BY <2>1
    <2>3. v # <<>> /\ s # <<>>
        BY <2>1
    <2>4. r # <<>>
        <3> HIDE DEF r
        <3> QED
            BY <2>1, <2>2
    <2> QED
        BY <2>1, <2>2, <2>3, <2>4
<1>2. \A i \in 1..m : s[i] \in Texts
    OBVIOUS
<1>3. slash \in Texts
    BY DEF Texts, Characters
<1>4. /\ \A x, y \in Texts : add(x, y) \in Texts
      /\ \A x, y, z \in Texts : add(add(x, y), z) = add(x, add(y, z))
    <2> HIDE DEF slash
    <2>1. ASSUME NEW x \in Texts, NEW y \in Texts
          PROVE  Cat(slash, y) \in Texts /\ add(x, y) \in Texts
        BY <1>3, CatFacts
    <2>2. ASSUME NEW x \in Texts, NEW y \in Texts, NEW z \in Texts
          PROVE  add(add(x, y), z) = add(x, add(y, z))
        <3>1. Cat(slash, y) \in Texts /\ Cat(slash, z) \in Texts
            BY <2>1
        <3>2. Cat(Cat(x, Cat(slash, y)), Cat(slash, z)) = Cat(x, Cat(Cat(slash, y), Cat(slash, z)))
            BY <3>1, CatFacts
        <3>3. Cat(Cat(slash, y), Cat(slash, z)) = Cat(slash, Cat(y, Cat(slash, z)))
            BY <1>3, <3>1, CatFacts
        <3> QED
            BY <3>2, <3>3
    <2> QED
        BY <2>1, <2>2
<1>5. \A q \in Seq(Texts) : q # <<>> =>
        \E f \in [1..Len(q) -> Texts] :
          f[1] = q[1] /\ (\A i \in 2..Len(q) : f[i] = add(f[i - 1], q[i])) /\ Join(q) = f[Len(q)]
    BY JoinRun DEF Cat
<1> HIDE DEF m, r, slash, add
<1>6. PICK f \in [1..n -> Texts] :
        f[1] = v[1] /\ (\A i \in 2..n : f[i] = add(f[i - 1], v[i])) /\ Join(v) = f[n]
    BY <1>1, <1>5
<1>7. PICK g \in [1..m -> Texts] :
        g[1] = s[1] /\ (\A i \in 2..m : g[i] = add(g[i - 1], s[i])) /\ Join(s) = g[m]
    BY <1>1, <1>5 DEF m
<1>12. PICK h \in [1..Len(r) -> Texts] :
         /\ h[1] = r[1] /\ \A i \in 2..Len(r) : h[i] = add(h[i - 1], r[i])
         /\ Join(r) = h[Len(r)]
    BY <1>1, <1>5
<1>8. /\ h \in [1..(m - n + 1) -> Texts]
      /\ h[1] = r[1] /\ \A i \in 2..(m - n + 1) : h[i] = add(h[i - 1], r[i])
      /\ Join(r) = h[m - n + 1]
    BY <1>1, <1>12
<1>9. v[n] = h[m - n + 1]
    BY <1>8 DEF r, m
<1>10. CASE n = 1
    <2>1. r = s
        BY <1>10 DEF r, m
    <2> QED
        BY <1>6, <1>8, <1>9, <1>10, <2>1
<1>11. CASE n > 1
    <2> DEFINE d == m - n
    <2>1. d \in Nat /\ n - 2 \in Nat /\ n - 1 \in 1..m /\ n \in 2..m
        BY <1>1, <1>11
    <2>2. \A i \in 0..(n - 2) : f[i + 1] = g[i + 1]
        <3> DEFINE S == {i \in 0..(n - 2) : f[i + 1] = g[i + 1]}
        <3>1. 0 \in S
            <4>1. 0 + 1 = 1 /\ 1 \in 1..(n - 1) /\ 0 \in 0..(n - 2)
                BY <2>1
            <4> QED
                BY <1>6, <1>7, <4>1
        <3>2. \A i \in 1..(n - 2) : i - 1 \in S => i \in S
            <4> SUFFICES ASSUME NEW i \in 1..(n - 2), f[(i - 1) + 1] = g[(i - 1) + 1]
                         PROVE  f[i + 1] = g[i + 1]
                BY <2>1
            <4>1. /\ i + 1 \in 2..n /\ i + 1 \in 2..m /\ i + 1 \in 1..(n - 1)
                  /\ (i + 1) - 1 = (i - 1) + 1
                BY <1>1, <2>1
            <4> QED
                BY <1>6, <1>7, <4>1
        <3> HIDE DEF S
        <3>3. \A i \in 0..(n - 2) : i \in S
            BY <2>1, <3>1, <3>2, Induction
        <3> QED
            BY <3>3 DEF S
    <2>3. f[n - 1] = g[n - 1]
        <3>1. n - 2 \in 0..(n - 2) /\ (n - 2) + 1 = n - 1
            BY <2>1
        <3> QED
            BY <2>2, <3>1
    <2>4. \A j \in 0..d : g[n + j] = add(g[n - 1], h[j + 1])
        <3> DEFINE P(j) == g[n + j] = add(g[n - 1], h[j + 1])
                   S == {j \in 0..d : P(j)}
        <3>1. 0 \in S
            <4>1. n + 0 = n /\ 0 + 1 = 1 /\ 1 \in 1..(m - n + 1) /\ n + 1 - 1 = n /\ 0 \in 0..d
                BY <2>1
            <4>2. h[1] = s[n]
                BY <1>1, <1>8, <4>1
            <4> QED
                BY <1>7, <2>1, <4>1, <4>2
        <3>2. \A j \in 1..d : j - 1 \in S => j \in S
            <4> SUFFICES ASSUME NEW j \in 1..d, P(j - 1) PROVE P(j)
                <5> HIDE DEF P, d
                <5> QED
                    BY <2>1
            <4>1. /\ n + j \in 2..m /\ (n + j) - 1 = n + (j - 1) /\ j + 1 \in 2..(m - n + 1)
                  /\ j + 1 \in 1..(m - n + 1) /\ (j + 1) - 1 = (j - 1) + 1 /\ n + (j + 1) - 1 = n + j
                  /\ (j - 1) + 1 \in 1..(m - n + 1) /\ n + j \in 1..m
                BY <1>1, <2>1
            <4> DEFINE a == g[n - 1]
                       b == h[(j - 1) + 1]
                       c == s[n + j]
            <4>2. g[n + j] = add(add(a, b), c)
                BY <1>7, <4>1
            <4>3. h[j + 1] = add(b, c)
                BY <1>1, <1>8, <4>1
            <4>4. a \in Texts /\ b \in Texts /\ c \in Texts
                BY <1>2, <1>7, <1>8, <2>1, <4>1 DEF m
            <4>5. add(add(a, b), c) = add(a, add(b, c))
                <5> HIDE DEF a, b, c
                <5> QED
                    BY <1>4, <4>4
            <4> QED
                BY <4>2, <4>3, <4>5
        <3> HIDE DEF S
        <3>3. \A j \in 0..d : j \in S
            BY <2>1, <3>1, <3>2, Induction
        <3> QED
            BY <3>3 DEF S
    <2>5. g[m] = add(g[n - 1], h[m - n + 1])
        <3>1. d \in 0..d /\ n + d = m /\ d + 1 = m - n + 1
            BY <1>1, <2>1
        <3> QED
            BY <2>4, <3>1
    <2>6. f[n] = add(g[n - 1], h[m - n + 1])
        BY <1>6, <1>9, <2>1, <2>3
    <2> QED
        BY <1>6, <1>7, <2>5, <2>6
<1> QED
    BY <1>10, <1>11
-----------------------------------------------------------------------------
(* WHAT A MATCH KEEPS OF THE PATH *)

(* The value PathIsRecoverable reads out of the parameters. *)
Chosen(part) == CHOOSE v \in {p[2] : p \in outcome.params} : <<part.text, v>> \in outcome.params

(* The names of a valid pattern differ, so that each has one value. *)
LEMMA NamedOnce ==
    ASSUME NEW pattern \in Patterns, ValidPattern(pattern),
           NEW k \in DOMAIN pattern.parts, pattern.parts[k].kind # "literal",
           outcome.params = Binding(pattern.parts)
    PROVE  Chosen(pattern.parts[k]) = Value(Segments, pattern.parts[k], k)
<1> DEFINE parts == pattern.parts
           named == {j \in DOMAIN parts : parts[j].kind # "literal"}
           value(j) == Value(Segments, parts[j], j)
           values == {p[2] : p \in outcome.params}
<1>1. outcome.params = {<<parts[j].text, value(j)>> : j \in named}
    BY DEF Binding, Value
<1>2. \A j \in DOMAIN parts : parts[j].kind \in {"literal", "capture", "catchall"}
    <2>1. parts \in Parts /\ Ordered(parts)
        BY ValidIsOrdered
    <2>2. \A j \in DOMAIN parts : parts[j] \in Part
        BY <2>1 DEF Parts
    <2> QED
        BY <2>1, <2>2 DEF Part, Kinds, Ordered
<1>3. \A i, j \in named : parts[i].text = parts[j].text => i = j
    BY <1>2 DEF ValidPattern
<1>4. k \in named
    OBVIOUS
<1> HIDE DEF named, value, parts
<1>5. <<parts[k].text, value(k)>> \in outcome.params
    BY <1>1, <1>4
<1>6. \A v : <<parts[k].text, v>> \in outcome.params => v = value(k)
    <2> SUFFICES ASSUME NEW v, <<parts[k].text, v>> \in outcome.params PROVE v = value(k)
        OBVIOUS
    <2>1. PICK j \in named : <<parts[k].text, v>> = <<parts[j].text, value(j)>>
        BY <1>1
    <2>2. parts[k].text = parts[j].text /\ v = value(j)
        BY <2>1
    <2> QED
        BY <1>3, <1>4, <2>2
<1>7. value(k) \in values
    <2>1. <<parts[k].text, value(k)>>[2] = value(k)
        OBVIOUS
    <2> QED
        BY <1>5, <2>1
<1> HIDE DEF values
<1>8. (CHOOSE v \in values : <<parts[k].text, v>> \in outcome.params) = value(k)
    BY <1>5, <1>6, <1>7
<1> QED
    BY <1>8 DEF values, parts, value, Chosen

(* The values of a pattern that describes the path, joined, are the path. *)
LEMMA ValuesAreThePath ==
    ASSUME path \in RawPaths, NEW pattern \in Patterns, ValidPattern(pattern), Describes(pattern.parts),
           NEW v, v = [k \in DOMAIN pattern.parts |->
                         IF pattern.parts[k].kind = "literal" THEN pattern.parts[k].text
                         ELSE Value(Segments, pattern.parts[k], k)]
    PROVE  Join(v) = Join(Segments)
<1> DEFINE parts == pattern.parts
           n == Len(parts)
           m == Len(Segments)
           open == n > 0 /\ parts[n].kind = "catchall"
<1>1. n \in Nat /\ DOMAIN parts = 1..n /\ \A k \in 1..n : parts[k].kind = "catchall" => k = n
    BY ValidIsOrdered DEF Parts, Ordered
<1>2. Segments \in Seq(Texts) /\ m \in Nat
    BY SegmentsType DEF Texts
<1>3. /\ IF open THEN m >= n ELSE m = n
      /\ \A k \in 1..n : parts[k].kind = "literal" => parts[k].text = Segments[k]
    BY DEF Describes
<1>4. \A k \in 1..n : v[k] = IF parts[k].kind = "catchall" THEN Join(SubSeq(Segments, k, m))
                             ELSE Segments[k]
    BY <1>1, <1>3 DEF Value
<1>5. DOMAIN v = 1..n /\ v = [k \in 1..n |-> v[k]]
    BY <1>1
<1> HIDE DEF parts, n
<1>6. CASE ~open
    <2>1. m = n /\ \A k \in 1..n : v[k] = Segments[k]
        <3>1. \A k \in 1..n : parts[k].kind # "catchall"
            BY <1>1, <1>6
        <3> QED
            BY <1>3, <1>4, <1>6, <3>1
    <2>2. Segments = [k \in 1..n |-> Segments[k]]
        BY <1>2, <2>1
    <2>3. v = Segments
        BY <1>5, <2>1, <2>2
    <2> QED
        BY <2>3
<1>7. CASE open
    <2>1. n \in 1..m /\ m >= n
        BY <1>1, <1>2, <1>3, <1>7
    <2>2. v[n] = Join(SubSeq(Segments, n, m)) /\ \A k \in 1..(n - 1) : v[k] = Segments[k]
        <3>1. n \in 1..n /\ \A k \in 1..(n - 1) : k \in 1..n /\ k # n
            BY <1>1, <2>1
        <3> QED
            BY <1>1, <1>4, <1>7, <3>1
    <2>3. Join(SubSeq(Segments, n, m)) \in Texts
        <3> DEFINE rest == SubSeq(Segments, n, m)
        <3>1. rest \in Seq(Texts) /\ Len(rest) = m - n + 1
            BY <1>2, <2>1
        <3> HIDE DEF rest, m
        <3>2. rest # <<>> /\ Len(rest) \in 1..Len(rest)
            BY <1>2, <2>1, <3>1
        <3>3. Join(rest) \in Texts
            BY <3>1, <3>2, JoinRun, ZenonT(60)
        <3> QED
            BY <3>3 DEF rest
    <2>4. \A k \in 1..n : v[k] \in Texts
        <3>1. \A k \in 1..n : k = n \/ k \in 1..(n - 1)
            BY <1>1
        <3>2. \A k \in 1..(n - 1) : Segments[k] \in Texts
            BY <1>2, <2>1
        <3> QED
            BY <2>2, <2>3, <3>1, <3>2
    <2>5. v \in Seq(Texts) /\ Len(v) = n
        <3>1. v \in [1..n -> Texts]
            BY <1>5, <2>4
        <3> QED
            BY <1>1, <3>1
    <2> HIDE DEF m
    <2> QED
        BY <1>2, <2>1, <2>2, <2>5, JoinRest DEF m
<1> QED
    BY <1>6, <1>7

LEMMA Recoverable == IInv => PathIsRecoverable
<1>1. ASSUME IInv, Routed, outcome.status = 200
      PROVE  \A i \in DOMAIN Segments : Segments[i] \notin {<<>>, <<".">>, <<".", ".">>}
    <2>1. path \in RawPaths /\ ~BadPath(path)
        BY <1>1, Outcomes DEF IInv
    <2>2. \A i \in DOMAIN path.segments :
            path.segments[i] # <<>> /\ Decode(path.segments[i]) \notin {<<".">>, <<".", ".">>}
        BY <2>1 DEF BadPath, BadSegment
    <2> QED
        BY <2>1, <2>2, SegmentsType
<1>2. ASSUME IInv, Routed, outcome.status = 200, NEW i \in DOMAIN patterns,
             Describes(patterns[i].parts), ValidPattern(patterns[i]), patterns[i] \in Patterns,
             outcome.params = Binding(patterns[i].parts)
      PROVE  LET parts == patterns[i].parts
                 value(k) == IF parts[k].kind = "literal" THEN parts[k].text
                             ELSE CHOOSE v \in {p[2] : p \in outcome.params} :
                                      <<parts[k].text, v>> \in outcome.params
             IN  /\ {p[1] : p \in outcome.params} =
                       {parts[k].text : k \in {j \in DOMAIN parts : parts[j].kind # "literal"}}
                 /\ Join([k \in DOMAIN parts |-> value(k)]) =
                       Join([k \in DOMAIN path.segments |->
                               [t \in DOMAIN path.segments[k] |-> Decoded(path.segments[k][t])]])
    <2> DEFINE parts == patterns[i].parts
               value(k) == IF parts[k].kind = "literal" THEN parts[k].text
                           ELSE CHOOSE v \in {p[2] : p \in outcome.params} :
                                    <<parts[k].text, v>> \in outcome.params
    <2>1. {p[1] : p \in outcome.params} =
            {parts[k].text : k \in {j \in DOMAIN parts : parts[j].kind # "literal"}}
        <3> DEFINE named == {j \in DOMAIN parts : parts[j].kind # "literal"}
                   bound(k) == IF parts[k].kind = "catchall" THEN Join(SubSeq(Segments, k, Len(Segments)))
                               ELSE Segments[k]
        <3>1. outcome.params = {<<parts[k].text, bound(k)>> : k \in named}
            BY <1>2 DEF Binding
        <3> DEFINE name(k) == parts[k].text
                   pair(k) == <<name(k), bound(k)>>
        <3>2. outcome.params = {pair(k) : k \in named} /\ \A k \in named : pair(k)[1] = name(k)
            BY <3>1
        <3> HIDE DEF named, bound, pair, name
        <3>3. {p[1] : p \in outcome.params} = {name(k) : k \in named}
            BY <3>2
        <3> QED
            BY <3>3 DEF named, name
    <2>2. [k \in DOMAIN parts |-> value(k)] =
            [k \in DOMAIN parts |-> IF parts[k].kind = "literal" THEN parts[k].text
                                    ELSE Value(Segments, parts[k], k)]
        <3>1. \A k \in DOMAIN parts :
                value(k) = IF parts[k].kind = "literal" THEN parts[k].text
                           ELSE Value(Segments, parts[k], k)
            <4> SUFFICES ASSUME NEW k \in DOMAIN parts
                         PROVE  value(k) = IF parts[k].kind = "literal" THEN parts[k].text
                                           ELSE Value(Segments, parts[k], k)
                OBVIOUS
            <4>1. CASE parts[k].kind = "literal"
                BY <4>1
            <4>2. CASE parts[k].kind # "literal"
                <5>1. Chosen(parts[k]) = Value(Segments, parts[k], k)
                    BY <1>2, <4>2, NamedOnce
                <5> QED
                    BY <4>2, <5>1 DEF Chosen
            <4> QED
                BY <4>1, <4>2
        <3> HIDE DEF value
        <3> QED
            BY <3>1
    <2>3. Join([k \in DOMAIN parts |-> value(k)]) = Join(Segments)
        BY <1>2, <2>2, ValuesAreThePath, ZenonT(60) DEF IInv
    <2>4. Segments = [k \in DOMAIN path.segments |->
                        [t \in DOMAIN path.segments[k] |-> Decoded(path.segments[k][t])]]
        BY DEF Segments, DecodePathSegments, Decode
    <2> QED
        BY <2>1, <2>3, <2>4
<1> QED
    <2> SUFFICES ASSUME IInv, Routed, outcome.status = 200 PROVE PathIsRecoverable
        BY DEF PathIsRecoverable
    <2>1. PICK i \in DOMAIN patterns :
            /\ Describes(patterns[i].parts) /\ ValidPattern(patterns[i]) /\ patterns[i] \in Patterns
            /\ outcome.params = Binding(patterns[i].parts)
        BY FirstHit
    <2> QED
        BY <1>1, <1>2, <2>1, ZenonT(60) DEF PathIsRecoverable

(* No matched segment is empty or a dot segment, and putting the parameters  *)
(* back into the pattern gives the path, decoded once, however long the path *)
(* and the pattern are (page_http.rs:338-422).                               *)
THEOREM ParametersKeepThePath == Spec => []PathIsRecoverable
    BY Recoverable, Invariance, PTL
=============================================================================
