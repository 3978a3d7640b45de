--------------------------- MODULE PageHostProofs ---------------------------
(***************************************************************************)
(* Both page hosts keep PageContract, for any methods, requests, routes    *)
(* and modules, however many requests are in flight: generated page code   *)
(* runs once at most, and only after the host and the product admitted the *)
(* request.  What a reply is then follows from Settled, which says what    *)
(* each slot was refused with or asked and answered: HEAD answers what GET *)
(* does, cookies stay within their limits and arrive in full, and the two  *)
(* hosts answer an ordinary request alike.                                 *)
(***************************************************************************)
EXTENDS PageHost, Integers, FiniteSetTheorems, TLAPS

LOCAL INSTANCE SequencesExt

(* The request's path and the module's routes, matched; and lemmas about     *)
(* natural numbers and recursive functions.                                  *)
Routing == INSTANCE PageRoutingProofs WITH
    Paths <- {}, PatternLists <- {},
    path <- request.path, outcome <- MatchAnyPath(request.path, patterns)

(* How far a request is tells what was called for it, and page code is only  *)
(* called by a module that admits.                                           *)
Staged ==
    \A s \in Slots :
        /\ phase[s] \in {"received", "reading"} => calls[s] = <<>>
        /\ phase[s] = "admitting" => calls[s] = <<"admit">>
        /\ phase[s] = "running" => calls[s] = <<"admit", "run">>
        /\ calls[s] = <<"admit", "run">> => page.admits
        /\ DOMAIN reply = Slots

IInv == TypeOK /\ Staged

(* What the steps do to slot s: a refusal, the question, the call, an answer,*)
(* a loss, or the wait for the body.                                         *)
Refused(s) ==
    /\ phase[s] \in {"received", "reading", "admitting"}
    /\ phase' = [phase EXCEPT ![s] = "replied"] /\ calls' = calls
    /\ \E envelope : reply' = [reply EXCEPT ![s] = envelope]
Asked(s) ==
    /\ phase[s] \in {"received", "reading"}
    /\ phase' = [phase EXCEPT ![s] = "admitting"]
    /\ calls' = [calls EXCEPT ![s] = Append(@, "admit")] /\ reply' = reply
Called(s) ==
    /\ phase[s] = "admitting" /\ page.admits
    /\ phase' = [phase EXCEPT ![s] = "running"]
    /\ calls' = [calls EXCEPT ![s] = Append(@, "run")] /\ reply' = reply
Answered(s) ==
    /\ phase[s] = "running"
    /\ phase' = [phase EXCEPT ![s] = "replied"] /\ calls' = calls
    /\ \E envelope : reply' = [reply EXCEPT ![s] = envelope]
Lost(s) ==
    /\ phase[s] \in Awaiting
    /\ phase' = [phase EXCEPT ![s] = "lost"] /\ UNCHANGED <<calls, reply>>
Reading(s) ==
    /\ phase[s] = "received"
    /\ phase' = [phase EXCEPT ![s] = "reading"] /\ UNCHANGED <<calls, reply>>
Moved(s) == Refused(s) \/ Asked(s) \/ Called(s) \/ Answered(s) \/ Lost(s) \/ Reading(s)

-----------------------------------------------------------------------------
(* Every step is one of these, on one slot. *)
LEMMA InvokeMoves ==
    ASSUME NEW s \in Slots, NEW normalized, InvokePage(s, normalized),
           phase[s] \in {"received", "reading"}
    PROVE  Refused(s) \/ Asked(s)
BY DEF InvokePage, Reply, Refused, Asked

LEMMA StepMoves ==
    ASSUME NEW s \in Slots, Progress(s) \/ Lose(s)
    PROVE  Moved(s) /\ UNCHANGED given
<1>1. CASE ReceiveEvent(s)
    <2>1. Refused(s) \/ InvokePage(s, AwsRequest(AwsEvent(Sent(s))))
        BY <1>1 DEF ReceiveEvent, Reply, Refused
    <2> QED
        BY <1>1, <2>1, InvokeMoves DEF ReceiveEvent, Moved
<1>2. CASE ReceiveHead(s)
    BY <1>2 DEF ReceiveHead, Reply, Refused, Reading, Moved
<1>3. CASE ReceiveBody(s)
    <2>1. Refused(s) \/ InvokePage(s, GcpRequest(Sent(s)))
        BY <1>3 DEF ReceiveBody, Reply, Refused
    <2> QED
        BY <1>3, <2>1, InvokeMoves DEF ReceiveBody, Moved
<1>4. CASE Admitted(s)
    BY <1>4 DEF Admitted, Reply, Refused, Called, Moved
<1>5. CASE Finish(s)
    BY <1>5 DEF Finish, Reply, Answered, Moved
<1>6. CASE Lose(s)
    BY <1>6 DEF Lose, Lost, Moved
<1> QED
    BY <1>1, <1>2, <1>3, <1>4, <1>5, <1>6 DEF Progress

(* The calls of one slot after a step. *)
LEMMA CallFacts ==
    /\ Append(<<>>, "admit") = <<"admit">>
    /\ Append(<<"admit">>, "run") = <<"admit", "run">>
    /\ <<>> # <<"admit">> /\ <<>> # <<"admit", "run">> /\ <<"admit">> # <<"admit", "run">>
<1>1. Append(<<>>, "admit") = <<"admit">>
    OBVIOUS
<1>2. Append(<<"admit">>, "run") = <<"admit", "run">>
    <2> DEFINE q == Append(<<"admit">>, "run")
    <2>1. <<"admit">> \in Seq({"admit", "run"})
        OBVIOUS
    <2>2. q \in Seq({"admit", "run"}) /\ Len(q) = 2 /\ q[1] = "admit" /\ q[2] = "run"
        BY <2>1
    <2> HIDE DEF q
    <2>3. q = <<q[1], q[2]>>
        BY <2>2
    <2> QED
        BY <2>2, <2>3 DEF q
<1>3. Len(<<>>) = 0 /\ Len(<<"admit">>) = 1 /\ Len(<<"admit", "run">>) = 2
    OBVIOUS
<1> QED
    BY <1>1, <1>2, <1>3

LEMMA InvInit == Init => IInv
BY CallFacts DEF Init, IInv, TypeOK, Staged, Replied

LEMMA InvStep == IInv /\ [Next]_vars => IInv'
<1> SUFFICES ASSUME IInv, [Next]_vars PROVE IInv'
    OBVIOUS
<1>1. ASSUME NEW s \in Slots, Moved(s), UNCHANGED given PROVE IInv'
    <2>1. CASE Refused(s) \/ Answered(s)
        <3>1. /\ phase' = [phase EXCEPT ![s] = "replied"] /\ calls' = calls
              /\ DOMAIN reply' = Slots /\ \A t \in Slots : t # s => reply'[t] = reply[t]
            BY <2>1 DEF Refused, Answered, IInv, TypeOK, Staged
        <3> QED
            BY <1>1, <3>1 DEF IInv, TypeOK, Staged, Replied, Awaiting, given
    <2>2. CASE Asked(s)
        BY <1>1, <2>2, CallFacts DEF Asked, IInv, TypeOK, Staged, Replied, Awaiting, given
    <2>3. CASE Called(s)
        BY <1>1, <2>3, CallFacts DEF Called, IInv, TypeOK, Staged, Replied, Awaiting, given
    <2>4. CASE Lost(s)
        BY <1>1, <2>4, CallFacts DEF Lost, IInv, TypeOK, Staged, Replied, Awaiting, given
    <2>5. CASE Reading(s)
        BY <1>1, <2>5, CallFacts DEF Reading, IInv, TypeOK, Staged, Replied, Awaiting, given
    <2> QED
        BY <1>1, <2>1, <2>2, <2>3, <2>4, <2>5 DEF Moved
<1>2. CASE UNCHANGED vars
    BY <1>2 DEF vars, IInv, TypeOK, Staged, Replied
<1> QED
    BY <1>1, <1>2, StepMoves DEF Next

LEMMA Invariance == Spec => []IInv
BY InvInit, InvStep, PTL DEF Spec

(* Type correctness of the hosts; no reply exists before its request is over.*)
THEOREM TypeCorrect == Spec => []TypeOK
<1>1. IInv => TypeOK
    BY DEF IInv
<1> QED
    BY <1>1, Invariance, PTL

-----------------------------------------------------------------------------
(* REFINEMENT, one slot at a time *)

LEMMA SlotFacts ==
    ASSUME IInv, NEW s \in Slots
    PROVE  /\ Ran(s) = (calls[s] = <<"admit", "run">>)
           /\ phase[s] \in {"received", "reading"} => Verdict(s) = "open" /\ Outcome(s) = "none"
           /\ phase[s] = "admitting" => Verdict(s) = "asked" /\ Outcome(s) = "none"
           /\ phase[s] = "running" => Verdict(s) = "admitted" /\ Outcome(s) = "none" /\ Ran(s)
           /\ calls[s] = <<>> => Verdict(s) = IF Replied(s) THEN "refused" ELSE "open"
           /\ calls[s] = <<"admit">> => Verdict(s) = IF Replied(s) THEN "refused" ELSE "asked"
           /\ calls[s] = <<"admit", "run">> => Verdict(s) = "admitted"
<1>1. calls[s] \in {<<>>, <<"admit">>, <<"admit", "run">>}
    BY DEF IInv, TypeOK
<1>2. Ran(s) = (calls[s] = <<"admit", "run">>)
    <2>1. CASE calls[s] = <<>>
        BY <2>1, CallFacts DEF Ran
    <2>2. CASE calls[s] = <<"admit">>
        BY <2>2, CallFacts DEF Ran
    <2>3. CASE calls[s] = <<"admit", "run">>
        <3>1. 2 \in DOMAIN calls[s] /\ calls[s][2] = "run"
            BY <2>3
        <3> QED
            BY <2>3, <3>1 DEF Ran
    <2> QED
        BY <1>1, <2>1, <2>2, <2>3
<1>3. calls[s] = <<>> => Verdict(s) = IF Replied(s) THEN "refused" ELSE "open"
    BY DEF Verdict
<1>4. calls[s] = <<"admit">> => Verdict(s) = IF Replied(s) THEN "refused" ELSE "asked"
    BY CallFacts DEF Verdict
<1>5. calls[s] = <<"admit", "run">> => Verdict(s) = "admitted"
    BY CallFacts DEF Verdict, IInv, Staged
<1>6. phase[s] \in {"received", "reading", "admitting", "running"} => Outcome(s) = "none" /\ ~Replied(s)
    BY DEF Outcome, Replied
<1> QED
    BY <1>2, <1>3, <1>4, <1>5, <1>6 DEF IInv, Staged

(* The other slots are as they were. *)
LEMMA OtherSlots ==
    ASSUME IInv, NEW s \in Slots, Moved(s), UNCHANGED given, NEW t \in Slots, t # s
    PROVE  Verdict(t)' = Verdict(t) /\ Ran(t)' = Ran(t) /\ Outcome(t)' = Outcome(t)
<1>1. phase'[t] = phase[t] /\ calls'[t] = calls[t] /\ page' = page
    BY DEF IInv, TypeOK, Moved, Refused, Asked, Called, Answered, Lost, Reading, given
<1> QED
    BY <1>1 DEF Verdict, Ran, Outcome, Replied

(* The slot that moves makes one step of the contract, or none. *)
LEMMA SlotMoves ==
    ASSUME IInv, IInv', NEW s \in Slots, Moved(s), UNCHANGED given
    PROVE  \/ /\ Verdict(s) = "open" /\ Outcome(s) = "none"
              /\ Verdict(s)' = "asked" /\ Ran(s)' = Ran(s) /\ Outcome(s)' = Outcome(s)
           \/ /\ Verdict(s) \in {"open", "asked"} /\ Outcome(s) = "none"
              /\ Verdict(s)' = "refused" /\ Ran(s)' = Ran(s) /\ Outcome(s)' = "refusal"
           \/ /\ Verdict(s) = "asked" /\ Outcome(s) = "none"
              /\ Verdict(s)' = "admitted" /\ Ran(s)' = TRUE /\ Outcome(s)' = Outcome(s)
           \/ /\ Ran(s) /\ Outcome(s) = "none"
              /\ Verdict(s)' = Verdict(s) /\ Ran(s)' = Ran(s) /\ Outcome(s)' = "page"
           \/ /\ Outcome(s) = "none"
              /\ Verdict(s)' = Verdict(s) /\ Ran(s)' = Ran(s) /\ Outcome(s)' = "lost"
           \/ Verdict(s)' = Verdict(s) /\ Ran(s)' = Ran(s) /\ Outcome(s)' = Outcome(s)
<1>1. CASE Refused(s)
    <2>1. phase'[s] = "replied" /\ calls'[s] = calls[s] /\ Replied(s)' /\ Ran(s)' = Ran(s)
        BY <1>1 DEF Refused, IInv, TypeOK, Replied, Ran
    <2>2. calls[s] \in {<<>>, <<"admit">>}
        BY <1>1 DEF Refused, IInv, Staged
    <2>3. Verdict(s)' = "refused" /\ Outcome(s)' = "refusal"
        BY <2>1, <2>2, CallFacts DEF Verdict, Outcome, Replied
    <2> QED
        BY <1>1, <2>1, <2>3, SlotFacts DEF Refused
<1>2. CASE Asked(s)
    <2>1. phase'[s] = "admitting" /\ calls'[s] = <<"admit">>
        BY <1>2, CallFacts DEF Asked, IInv, TypeOK, Staged
    <2>2. Verdict(s)' = "asked" /\ Outcome(s)' = "none" /\ ~Ran(s)'
        BY <2>1, CallFacts DEF Verdict, Outcome, Replied, Ran
    <2>3. Verdict(s) = "open" /\ Outcome(s) = "none" /\ calls[s] = <<>>
        BY <1>2, SlotFacts DEF Asked, IInv, Staged
    <2>4. ~Ran(s)
        BY <2>3 DEF Ran
    <2> QED
        BY <2>2, <2>3, <2>4 DEF Ran
<1>3. CASE Called(s)
    <2>1. phase'[s] = "running" /\ calls'[s] = <<"admit", "run">> /\ page'.admits
        BY <1>3, CallFacts DEF Called, IInv, TypeOK, Staged, given
    <2>2. Verdict(s)' = "admitted" /\ Outcome(s)' = "none"
        BY <2>1, CallFacts DEF Verdict, Outcome, Replied
    <2>3. Ran(s)' = TRUE
        <3>1. 2 \in DOMAIN calls'[s] /\ calls'[s][2] = "run"
            BY <2>1
        <3> QED
            BY <3>1 DEF Ran
    <2> QED
        BY <1>3, <2>2, <2>3, SlotFacts DEF Called
<1>4. CASE Answered(s)
    <2>1. phase'[s] = "replied" /\ calls'[s] = calls[s] /\ calls[s] = <<"admit", "run">> /\ page' = page
        BY <1>4 DEF Answered, IInv, TypeOK, Staged, given
    <2>2. Verdict(s)' = Verdict(s) /\ Ran(s)' = Ran(s) /\ Outcome(s)' = "page"
        BY <2>1, CallFacts DEF Verdict, Ran, Outcome, Replied
    <2> QED
        BY <1>4, <2>2, SlotFacts DEF Answered
<1>5. CASE Lost(s)
    <2>1. phase'[s] = "lost" /\ calls'[s] = calls[s] /\ page' = page /\ phase[s] # "replied"
        BY <1>5 DEF Lost, Awaiting, IInv, TypeOK, given
    <2>2. Verdict(s)' = Verdict(s) /\ Ran(s)' = Ran(s) /\ Outcome(s)' = "lost"
        BY <2>1 DEF Verdict, Ran, Outcome, Replied
    <2> QED
        BY <1>5, <2>2, SlotFacts DEF Lost, Awaiting
<1>6. CASE Reading(s)
    <2>1. phase'[s] = "reading" /\ phase[s] = "received" /\ calls'[s] = calls[s] /\ page' = page
        BY <1>6 DEF Reading, IInv, TypeOK, given
    <2> QED
        BY <2>1 DEF Verdict, Ran, Outcome, Replied
<1> QED
    BY <1>1, <1>2, <1>3, <1>4, <1>5, <1>6 DEF Moved

LEMMA StepRefines ==
    ASSUME IInv, IInv', [Next]_vars
    PROVE  [Contract!Next]_(Contract!vars)
<1> DEFINE v == [t \in Slots |-> Verdict(t)]
           r == [t \in Slots |-> Ran(t)]
           o == [t \in Slots |-> Outcome(t)]
<1>1. CASE UNCHANGED vars
    BY <1>1 DEF vars, Contract!vars, Verdict, Ran, Outcome, Replied
<1>2. ASSUME NEW s \in Slots, Moved(s), UNCHANGED given
      PROVE  [Contract!Next]_(Contract!vars)
    <2>1. /\ v' = [v EXCEPT ![s] = Verdict(s)']
          /\ r' = [r EXCEPT ![s] = Ran(s)']
          /\ o' = [o EXCEPT ![s] = Outcome(s)']
        BY <1>2, OtherSlots
    <2>2. v[s] = Verdict(s) /\ r[s] = Ran(s) /\ o[s] = Outcome(s)
        OBVIOUS
    <2>3. /\ v = [v EXCEPT ![s] = Verdict(s)] /\ r = [r EXCEPT ![s] = Ran(s)]
          /\ o = [o EXCEPT ![s] = Outcome(s)]
        OBVIOUS
    <2>4. \/ Contract!Ask(s) \/ Contract!Refuse(s) \/ Contract!Run(s) \/ Contract!Serve(s)
          \/ Contract!Lose(s) \/ UNCHANGED Contract!vars
        <3> HIDE DEF v, r, o
        <3> QED
            BY <1>2, <2>1, <2>2, <2>3, SlotMoves
            DEF Contract!Ask, Contract!Refuse, Contract!Run, Contract!Serve, Contract!Lose, Contract!vars, v, r, o
    <2> QED
        BY <2>4 DEF Contract!Next
<1> QED
    BY <1>1, <1>2, StepMoves DEF Next

(* Both hosts keep the contract: the module is asked once at most, page code *)
(* runs only after it admitted, and an answered request is left alone        *)
(* (KeepsContract; lib.rs:40-86).                                            *)
THEOREM ImplementsContract == Spec => KeepsContract
<1>1. Init => Contract!Init
    <2> SUFFICES ASSUME Init PROVE Contract!Init
        OBVIOUS
    <2>1. ASSUME NEW s \in Slots
          PROVE  Verdict(s) = "open" /\ Ran(s) = FALSE /\ Outcome(s) = "none"
        <3>1. phase[s] = "received" /\ calls[s] = <<>>
            BY DEF Init
        <3> QED
            BY <3>1 DEF Verdict, Ran, Outcome, Replied
    <2> QED
        BY <2>1 DEF Contract!Init
<1>2. IInv /\ IInv' /\ [Next]_vars => [Contract!Next]_(Contract!vars)
    BY StepRefines
<1> QED
    BY <1>1, <1>2, Invariance, PTL DEF Spec, KeepsContract, Contract!Spec

-----------------------------------------------------------------------------
(* ADMISSION *)

(* The first check that refuses decides. *)
LEMMA FirstDecides ==
    ASSUME NEW checks, DOMAIN checks \subseteq Nat
    PROVE  /\ FirstRefusal(checks) = 0 <=> \A i \in DOMAIN checks : checks[i] = 0
           /\ \A i \in DOMAIN checks :
                checks[i] # 0 /\ (\A j \in DOMAIN checks : j < i => checks[j] = 0) =>
                  FirstRefusal(checks) = checks[i]
<1> DEFINE failing == {i \in DOMAIN checks : checks[i] # 0}
<1>1. CASE failing = {}
    BY <1>1 DEF FirstRefusal
<1>2. CASE failing # {}
    <2>1. PICK m \in failing : \A n \in failing : m <= n
        BY <1>2, Routing!LeastNatural
    <2>2. Min(failing) \in failing /\ \A n \in failing : Min(failing) <= n
        BY <2>1 DEF Min
    <2>3. FirstRefusal(checks) = checks[Min(failing)]
        BY <1>2 DEF FirstRefusal
    <2>4. \A i \in failing : (\A j \in DOMAIN checks : j < i => checks[j] = 0) => i = Min(failing)
        <3>1. \A i \in failing : i \in Nat
            OBVIOUS
        <3> QED
            BY <2>2, <3>1
    <2> QED
        BY <2>2, <2>3, <2>4
<1> QED
    BY <1>1, <1>2

(* The order of admission in invoke_page and admit_page_request. *)
LEMMA StructuralChecks ==
    ASSUME NEW normalized, NEW routes
    PROVE  LET match == MatchAnyPath(normalized.path, routes)
           IN  StructuralRefusal(normalized, routes) =
                 IF normalized.method = "unsupported" THEN 405
                 ELSE IF normalized.body > MaxPageBodyBytes THEN 413
                 ELSE IF normalized.body > 0 THEN 400
                 ELSE IF Len(routes) \notin 1..MaxPagePathPatterns THEN 500
                 ELSE IF match.status # 200 THEN match.status
                 ELSE IF Ambiguous(normalized.headers) THEN 400 ELSE 0
<1> DEFINE match == MatchAnyPath(normalized.path, routes)
           a == When(normalized.method = "unsupported", 405)
           b == When(normalized.body > MaxPageBodyBytes, 413)
           c == When(normalized.body > 0, 400)
           d == When(Len(routes) \notin 1..MaxPagePathPatterns, 500)
           e == When(match.status # 200, match.status)
           f == When(Ambiguous(normalized.headers), 400)
<1>1. match.status \in {200, 400, 404, 500}
    BY DEF MatchAnyPath, Miss, Hit
<1>2. FirstRefusal(<<a, b, c, d, e, f>>) =
        IF a # 0 THEN a ELSE IF b # 0 THEN b ELSE IF c # 0 THEN c
        ELSE IF d # 0 THEN d ELSE IF e # 0 THEN e ELSE f
    <2> DEFINE checks == <<a, b, c, d, e, f>>
    <2> HIDE DEF a, b, c, d, e, f
    <2>1. /\ DOMAIN checks = 1..6 /\ DOMAIN checks \subseteq Nat
          /\ checks[1] = a /\ checks[2] = b /\ checks[3] = c
          /\ checks[4] = d /\ checks[5] = e /\ checks[6] = f
        OBVIOUS
    <2> HIDE DEF checks
    <2>2. FirstRefusal(checks) = IF a # 0 THEN a ELSE IF b # 0 THEN b ELSE IF c # 0 THEN c
                                 ELSE IF d # 0 THEN d ELSE IF e # 0 THEN e ELSE f
        BY <2>1, FirstDecides
    <2> QED
        BY <2>2 DEF checks
<1>3. StructuralRefusal(normalized, routes) = FirstRefusal(<<a, b, c, d, e, f>>)
    BY DEF StructuralRefusal
<1> HIDE DEF match
<1> QED
    BY <1>1, <1>2, <1>3 DEF When, match

-----------------------------------------------------------------------------
(* WHAT A REPLY IS *)

(* What a host makes of its request, the status it refuses it with, and the  *)
(* module's answer.                                                          *)
Normalized(s) == IF s[1] = "aws" THEN AwsRequest(AwsEvent(Sent(s))) ELSE GcpRequest(Sent(s))
HostRefusal(s) ==
    IF s[1] = "aws" THEN AwsRefusal(AwsEvent(Sent(s)))
    ELSE IF GcpHeadRefusal(Sent(s)) # 0 THEN GcpHeadRefusal(Sent(s)) ELSE GcpBodyRefusal(Sent(s))
Refusal(s) ==
    IF HostRefusal(s) # 0 THEN HostRefusal(s) ELSE StructuralRefusal(Normalized(s), patterns)
Answer(s) == IF calls[s] = <<"admit">> THEN page.rejection ELSE page.finalized

(* A slot is where its request and the module's answers take it: refused by  *)
(* the host or by structural admission without a call, or asked with the     *)
(* normalized request and answered with what the module said.                *)
SettledAt(s) ==
    /\ phase[s] = "reading" => s[1] = "gcp" /\ GcpHeadRefusal(Sent(s)) = 0
    /\ calls[s] = <<>> =>
         /\ input[s] = NoInput
         /\ Replied(s) =>
              \/ Refusal(s) # 0 /\ reply[s] = Envelope(Text(Refusal(s)))
              \/ s[1] = "gcp" /\ reply[s] = Envelope(Text(413))
    /\ calls[s] # <<>> =>
         /\ Refusal(s) = 0 /\ input[s] = PageInput(Normalized(s), patterns)
         /\ Replied(s) =>
              /\ page.admits = (calls[s] = <<"admit", "run">>)
              /\ reply[s] = ToWire(s, FinishPageResponse(Answer(s), s[2] = "HEAD"))

Settled == DOMAIN input = Slots /\ \A s \in Slots : SettledAt(s)

(* A refusal of structural admission passes both hosts' conversions. *)
LEMMA RefusalPasses ==
    ASSUME NEW s, NEW normalized, NEW routes, StructuralRefusal(normalized, routes) # 0
    PROVE  LET refusal == StructuralRefusal(normalized, routes)
           IN  ToWire(s, Text(refusal)) = Envelope(Text(refusal))
<1> DEFINE refusal == StructuralRefusal(normalized, routes)
<1>1. refusal \in {400, 404, 405, 413, 500}
    <2>1. MatchAnyPath(normalized.path, routes).status \in {200, 400, 404, 500}
        BY DEF MatchAnyPath, Miss, Hit
    <2> QED
        BY <2>1, StructuralChecks
<1> HIDE DEF refusal
<1>2. ToResponse(Text(refusal)) = Envelope(Text(refusal))
    BY <1>1 DEF ToResponse, Text
<1> QED
    BY <1>2 DEF ToWire, ToEvent, refusal

(* A step on one slot leaves the others, and what they will be, alone. *)
LEMMA OthersSettled ==
    ASSUME Settled, UNCHANGED given, NEW s \in Slots,
           \A t \in Slots \ {s} : /\ phase'[t] = phase[t] /\ calls'[t] = calls[t]
                                  /\ input'[t] = input[t] /\ reply'[t] = reply[t],
           DOMAIN input' = Slots, SettledAt(s)'
    PROVE  Settled'
<1>1. ASSUME NEW t \in Slots \ {s} PROVE SettledAt(t)'
    <2>1. SettledAt(t)
        BY DEF Settled
    <2>2. Refusal(t)' = Refusal(t) /\ Normalized(t)' = Normalized(t) /\ Sent(t)' = Sent(t)
        BY DEF given, Refusal, HostRefusal, Normalized, Sent
    <2>3. Answer(t)' = Answer(t) /\ Replied(t)' = Replied(t) /\ patterns' = patterns /\ page' = page
        BY DEF given, Answer, Replied
    <2> QED
        BY <2>1, <2>2, <2>3 DEF SettledAt
<1> QED
    BY <1>1 DEF Settled

(* The rest of the state, and what the slot stands for, do not change. *)
LEMMA Frame ==
    ASSUME NEW s \in Slots, UNCHANGED given
    PROVE  /\ Refusal(s)' = Refusal(s) /\ HostRefusal(s)' = HostRefusal(s)
           /\ Normalized(s)' = Normalized(s) /\ Sent(s)' = Sent(s)
           /\ patterns' = patterns /\ page' = page
BY DEF given, Refusal, HostRefusal, Normalized, Sent

LEMMA Domains ==
    ASSUME IInv, Settled
    PROVE  DOMAIN input = Slots /\ DOMAIN reply = Slots /\ DOMAIN phase = Slots /\ DOMAIN calls = Slots
<1>1. DOMAIN phase = Slots /\ DOMAIN calls = Slots
    BY DEF IInv, TypeOK
<1>2. DOMAIN reply = Slots
    <2>1. <<"aws", "GET">> \in Slots
        BY PageAssumption DEF Slots, Hosts
    <2> QED
        BY <2>1 DEF IInv, Staged
<1> QED
    BY <1>1, <1>2 DEF Settled

LEMMA InvokeSettles ==
    ASSUME IInv, Settled, NEW s \in Slots, InvokePage(s, Normalized(s)), UNCHANGED given,
           calls[s] = <<>>, HostRefusal(s) = 0
    PROVE  Settled'
<1>1. Refusal(s) = StructuralRefusal(Normalized(s), patterns)
    BY DEF Refusal
<1>2. DOMAIN input = Slots /\ DOMAIN reply = Slots /\ DOMAIN phase = Slots /\ DOMAIN calls = Slots
    BY Domains
<1>3. CASE Refusal(s) # 0
    <2>1. /\ phase' = [phase EXCEPT ![s] = "replied"] /\ calls' = calls /\ input' = input
          /\ reply' = [reply EXCEPT ![s] = ToWire(s, Text(Refusal(s)))]
        BY <1>1, <1>3 DEF InvokePage, Reply
    <2>2. ToWire(s, Text(Refusal(s))) = Envelope(Text(Refusal(s)))
        BY <1>1, <1>3, RefusalPasses
    <2>3. SettledAt(s)'
        <3>1. /\ phase'[s] = "replied" /\ calls'[s] = <<>> /\ input'[s] = NoInput
              /\ reply'[s] = Envelope(Text(Refusal(s)))
            BY <1>2, <2>1, <2>2 DEF Settled, SettledAt
        <3> QED
            BY <1>3, <3>1, Frame DEF SettledAt
    <2> QED
        BY <1>2, <2>1, <2>3, OthersSettled
<1>4. CASE Refusal(s) = 0
    <2>1. /\ phase' = [phase EXCEPT ![s] = "admitting"] /\ reply' = reply
          /\ calls' = [calls EXCEPT ![s] = Append(@, "admit")]
          /\ input' = [input EXCEPT ![s] = PageInput(Normalized(s), patterns)]
        BY <1>1, <1>4 DEF InvokePage
    <2>2. SettledAt(s)'
        <3>1. /\ phase'[s] = "admitting" /\ calls'[s] = <<"admit">>
              /\ input'[s] = PageInput(Normalized(s), patterns)
            BY <1>2, <2>1, CallFacts
        <3>2. calls'[s] # <<>> /\ ~Replied(s)'
            BY <3>1, CallFacts DEF Replied
        <3> QED
            BY <1>4, <3>1, <3>2, Frame DEF SettledAt
    <2> QED
        BY <1>2, <2>1, <2>2, OthersSettled
<1> QED
    BY <1>3, <1>4

LEMMA SettledInit == Init => Settled
BY CallFacts DEF Init, Settled, SettledAt, Replied

LEMMA SettledStep ==
    ASSUME IInv, IInv', Settled, [Next]_vars
    PROVE  Settled'
<1>1. DOMAIN input = Slots /\ DOMAIN reply = Slots /\ DOMAIN phase = Slots /\ DOMAIN calls = Slots
    BY Domains
<1>2. ASSUME NEW s \in Slots, ReceiveEvent(s) PROVE Settled'
    <2>1. /\ s[1] = "aws" /\ calls[s] = <<>> /\ UNCHANGED given
          /\ HostRefusal(s) = AwsRefusal(AwsEvent(Sent(s)))
          /\ Normalized(s) = AwsRequest(AwsEvent(Sent(s)))
        BY <1>2 DEF ReceiveEvent, IInv, Staged, HostRefusal, Normalized
    <2>2. \/ HostRefusal(s) = 0 /\ InvokePage(s, Normalized(s))
          \/ /\ HostRefusal(s) # 0 /\ UNCHANGED <<calls, input>>
             /\ Reply(s, Envelope(Text(HostRefusal(s))))
        BY <1>2, <2>1 DEF ReceiveEvent, ToEvent
    <2>3. CASE HostRefusal(s) # 0
        <3>1. /\ phase' = [phase EXCEPT ![s] = "replied"] /\ calls' = calls /\ input' = input
              /\ reply' = [reply EXCEPT ![s] = Envelope(Text(HostRefusal(s)))]
            BY <2>2, <2>3 DEF Reply
        <3>2. /\ phase'[s] = "replied" /\ calls'[s] = <<>> /\ input'[s] = NoInput
              /\ reply'[s] = Envelope(Text(HostRefusal(s))) /\ Refusal(s) = HostRefusal(s)
            BY <1>1, <2>1, <2>3, <3>1 DEF Settled, SettledAt, Refusal
        <3>3. SettledAt(s)'
            BY <2>1, <2>3, <3>2, Frame DEF SettledAt
        <3> QED
            BY <1>1, <2>1, <3>1, <3>3, OthersSettled
    <2> QED
        BY <2>1, <2>2, <2>3, InvokeSettles
<1>3. ASSUME NEW s \in Slots, ReceiveHead(s) PROVE Settled'
    <2>1. /\ s[1] = "gcp" /\ s[1] # "aws" /\ calls[s] = <<>> /\ UNCHANGED given
          /\ calls' = calls /\ input' = input
        BY <1>3 DEF ReceiveHead, IInv, Staged
    <2>2. CASE GcpHeadRefusal(Sent(s)) # 0
        <3>1. /\ phase' = [phase EXCEPT ![s] = "replied"]
              /\ reply' = [reply EXCEPT ![s] = Envelope(Text(GcpHeadRefusal(Sent(s))))]
            BY <1>3, <2>2 DEF ReceiveHead, Reply
        <3>2. /\ phase'[s] = "replied" /\ calls'[s] = <<>> /\ input'[s] = NoInput
              /\ reply'[s] = Envelope(Text(Refusal(s))) /\ Refusal(s) # 0
            BY <1>1, <2>1, <2>2, <3>1 DEF Settled, SettledAt, Refusal, HostRefusal
        <3>3. SettledAt(s)'
            BY <2>1, <3>2, Frame DEF SettledAt
        <3> QED
            BY <1>1, <2>1, <3>1, <3>3, OthersSettled
    <2>3. CASE GcpHeadRefusal(Sent(s)) = 0
        <3>1. phase' = [phase EXCEPT ![s] = "reading"] /\ reply' = reply
            BY <1>3, <2>3 DEF ReceiveHead, Reply
        <3>2. phase'[s] = "reading" /\ calls'[s] = <<>> /\ input'[s] = NoInput
            BY <1>1, <2>1, <3>1 DEF Settled, SettledAt
        <3>3. SettledAt(s)'
            BY <2>1, <2>3, <3>2, Frame DEF SettledAt, Replied
        <3> QED
            BY <1>1, <2>1, <3>1, <3>3, OthersSettled
    <2> QED
        BY <2>2, <2>3
<1>4. ASSUME NEW s \in Slots, ReceiveBody(s) PROVE Settled'
    <2>1. /\ phase[s] = "reading" /\ s[1] = "gcp" /\ s[1] # "aws" /\ calls[s] = <<>>
          /\ UNCHANGED given /\ GcpHeadRefusal(Sent(s)) = 0
        BY <1>4 DEF ReceiveBody, IInv, Staged, Settled, SettledAt
    <2>2. /\ HostRefusal(s) = GcpBodyRefusal(Sent(s)) /\ Normalized(s) = GcpRequest(Sent(s))
        BY <2>1 DEF HostRefusal, Normalized
    <2>3. \/ HostRefusal(s) = 0 /\ InvokePage(s, Normalized(s))
          \/ /\ UNCHANGED <<calls, input>>
             /\ \E r \in {413, HostRefusal(s)} :
                  Reply(s, Envelope(Text(r))) /\ (r = 413 \/ HostRefusal(s) # 0)
        BY <1>4, <2>2 DEF ReceiveBody
    <2>4. ASSUME NEW r \in {413, HostRefusal(s)}, Reply(s, Envelope(Text(r))),
                 UNCHANGED <<calls, input>>, r = 413 \/ HostRefusal(s) # 0
          PROVE  Settled'
        <3>1. /\ phase' = [phase EXCEPT ![s] = "replied"] /\ calls' = calls /\ input' = input
              /\ reply' = [reply EXCEPT ![s] = Envelope(Text(r))]
            BY <2>4 DEF Reply
        <3>2. /\ phase'[s] = "replied" /\ calls'[s] = <<>> /\ input'[s] = NoInput
              /\ reply'[s] = Envelope(Text(r))
              /\ HostRefusal(s) # 0 => Refusal(s) = HostRefusal(s)
            BY <1>1, <2>1, <3>1 DEF Settled, SettledAt, Refusal
        <3>3. \/ s[1] = "gcp" /\ reply'[s] = Envelope(Text(413))
              \/ Refusal(s) # 0 /\ reply'[s] = Envelope(Text(Refusal(s)))
            BY <2>1, <2>4, <3>2
        <3>4. Refusal(s)' = Refusal(s)
            BY <2>1, Frame
        <3>5. SettledAt(s)'
            BY <2>1, <3>2, <3>3, <3>4 DEF SettledAt
        <3> QED
            BY <1>1, <2>1, <2>4, <3>1, <3>5, OthersSettled
    <2> QED
        BY <2>1, <2>3, <2>4, InvokeSettles
<1>5. ASSUME NEW s \in Slots, Admitted(s) PROVE Settled'
    <2>1. calls[s] = <<"admit">> /\ UNCHANGED given /\ input' = input
        BY <1>5 DEF Admitted, IInv, Staged
    <2>2. /\ calls[s] = <<"admit">> /\ calls[s] # <<>> /\ UNCHANGED given /\ input' = input
          /\ Refusal(s) = 0 /\ input[s] = PageInput(Normalized(s), patterns)
        BY <2>1, CallFacts DEF Settled, SettledAt
    <2>3. CASE page.admits
        <3>1. /\ phase' = [phase EXCEPT ![s] = "running"] /\ reply' = reply
              /\ calls' = [calls EXCEPT ![s] = Append(@, "run")]
            BY <1>5, <2>3 DEF Admitted
        <3>2. phase'[s] = "running" /\ calls'[s] = <<"admit", "run">> /\ calls'[s] # <<>>
            BY <1>1, <2>2, <3>1, CallFacts
        <3>3. SettledAt(s)'
            BY <2>2, <3>2, Frame DEF SettledAt, Replied
        <3> QED
            BY <1>1, <2>2, <3>1, <3>3, OthersSettled
    <2>4. CASE ~page.admits
        <3>1. /\ phase' = [phase EXCEPT ![s] = "replied"] /\ calls' = calls
              /\ reply' = [reply EXCEPT ![s] =
                             ToWire(s, FinishPageResponse(page.rejection, s[2] = "HEAD"))]
            BY <1>5, <2>4 DEF Admitted, Reply
        <3>2. /\ phase'[s] = "replied" /\ calls'[s] = <<"admit">> /\ calls'[s] # <<"admit", "run">>
              /\ calls'[s] # <<>>
              /\ reply'[s] = ToWire(s, FinishPageResponse(page.rejection, s[2] = "HEAD"))
            BY <1>1, <2>2, <3>1, CallFacts
        <3>3. page'.admits = FALSE /\ Answer(s)' = page.rejection
            BY <2>2, <2>4, <3>2, Frame, PageAssumption DEF Answer, IInv, TypeOK
        <3>4. SettledAt(s)'
            BY <2>2, <3>2, <3>3, Frame DEF SettledAt, ToWire
        <3> QED
            BY <1>1, <2>2, <3>1, <3>4, OthersSettled
    <2> QED
        BY <2>3, <2>4
<1>6. ASSUME NEW s \in Slots, Finish(s) PROVE Settled'
    <2>1. /\ calls[s] = <<"admit", "run">> /\ calls[s] # <<>> /\ calls[s] # <<"admit">>
          /\ UNCHANGED given /\ input' = input /\ calls' = calls
          /\ Refusal(s) = 0 /\ input[s] = PageInput(Normalized(s), patterns)
        BY <1>6, CallFacts DEF Finish, IInv, Staged, Settled, SettledAt
    <2>2. /\ phase' = [phase EXCEPT ![s] = "replied"]
          /\ reply' = [reply EXCEPT ![s] =
                         ToWire(s, FinishPageResponse(page.finalized, s[2] = "HEAD"))]
        BY <1>6 DEF Finish, Reply
    <2>3. /\ phase'[s] = "replied" /\ calls'[s] = <<"admit", "run">>
          /\ reply'[s] = ToWire(s, FinishPageResponse(page.finalized, s[2] = "HEAD"))
        BY <1>1, <2>1, <2>2
    <2>4. page'.admits = TRUE /\ Answer(s)' = page.finalized
        <3>1. page.admits /\ page.admits \in BOOLEAN
            BY <2>1, PageAssumption DEF IInv, TypeOK, Staged
        <3> QED
            BY <2>1, <2>3, <3>1, Frame DEF Answer
    <2>5. SettledAt(s)'
        BY <2>1, <2>3, <2>4, Frame DEF SettledAt, ToWire
    <2> QED
        BY <1>1, <2>1, <2>2, <2>5, OthersSettled
<1>7. ASSUME NEW s \in Slots, Lose(s) PROVE Settled'
    <2>1. /\ phase' = [phase EXCEPT ![s] = "lost"] /\ calls' = calls /\ input' = input /\ reply' = reply
          /\ UNCHANGED given
        BY <1>7 DEF Lose
    <2>2. phase'[s] = "lost"
        BY <1>1, <2>1
    <2>3. SettledAt(s)'
        BY <2>1, <2>2, Frame DEF Settled, SettledAt, Replied
    <2> QED
        BY <1>1, <2>1, <2>3, OthersSettled
<1>8. CASE UNCHANGED vars
    BY <1>8 DEF vars, Settled, SettledAt, Replied, Refusal, HostRefusal, Normalized, Sent, Answer, ToWire
<1> QED
    BY <1>2, <1>3, <1>4, <1>5, <1>6, <1>7, <1>8 DEF Next, Progress

LEMMA Settlement == Spec => [](IInv /\ Settled)
<1>1. Init => IInv /\ Settled
    BY InvInit, SettledInit
<1>2. IInv /\ Settled /\ [Next]_vars => (IInv /\ Settled)'
    BY InvStep, SettledStep
<1> QED
    BY <1>1, <1>2, PTL DEF Spec

-----------------------------------------------------------------------------
(* HEAD AND GET *)

(* Only the method tells the requests of two slots apart. *)
LEMMA SentFields ==
    ASSUME IInv, NEW s \in Slots
    PROVE  /\ Sent(s).method = s[2] /\ Sent(s).path = request.path
           /\ Sent(s).pathBytes = request.pathBytes /\ Sent(s).queryBytes = request.queryBytes
           /\ Sent(s).binary = request.binary /\ Sent(s).body = request.body
           /\ Sent(s).fields = request.fields /\ Sent(s).lines = request.lines
<1>1. request \in BrowserRequest
    BY PageAssumption DEF IInv, TypeOK
<1> QED
    BY <1>1 DEF Sent, BrowserRequest

SameButMethod(seen, other) == [seen EXCEPT !.method = other.method] = other

(* Both methods are supported, and nothing else of a request looks at its    *)
(* method.                                                                   *)
LEMMA SameRefusal ==
    ASSUME IInv, NEW h \in Hosts
    PROVE  /\ Refusal(<<h, "GET">>) = Refusal(<<h, "HEAD">>)
           /\ SameButMethod(PageInput(Normalized(<<h, "GET">>), patterns),
                            PageInput(Normalized(<<h, "HEAD">>), patterns))
<1> DEFINE get == <<h, "GET">>
           head == <<h, "HEAD">>
<1>1. get \in Slots /\ head \in Slots /\ get[1] = h /\ head[1] = h /\ get[2] = "GET" /\ head[2] = "HEAD"
    BY PageAssumption DEF Slots
<1> HIDE DEF get, head
<1>2. HostRefusal(get) = HostRefusal(head)
    <2>1. CASE h = "aws"
        <3>1. AwsRefusal(AwsEvent(Sent(get))) = AwsRefusal(AwsEvent(Sent(head)))
            BY <1>1, SentFields DEF AwsRefusal, AwsEvent
        <3> QED
            BY <1>1, <2>1, <3>1 DEF HostRefusal
    <2>2. CASE h # "aws"
        <3>1. GcpFields(Sent(get)) = GcpFields(Sent(head))
            BY <1>1, SentFields DEF GcpFields
        <3>2. GcpHeadRefusal(Sent(get)) = GcpHeadRefusal(Sent(head))
            BY <1>1, <3>1, SentFields DEF GcpHeadRefusal
        <3>3. GcpBodyRefusal(Sent(get)) = GcpBodyRefusal(Sent(head))
            BY <1>1, SentFields DEF GcpBodyRefusal
        <3> QED
            BY <1>1, <2>2, <3>2, <3>3 DEF HostRefusal
    <2> QED
        BY <2>1, <2>2
<1>3. /\ Normalized(get).method = "GET" /\ Normalized(head).method = "HEAD"
      /\ Normalized(get).path = Normalized(head).path
      /\ Normalized(get).query = Normalized(head).query
      /\ Normalized(get).headers = Normalized(head).headers
      /\ Normalized(get).cookies = Normalized(head).cookies
      /\ Normalized(get).body = Normalized(head).body
    <2>1. CASE h = "aws"
        BY <1>1, <2>1, SentFields DEF Normalized, AwsRequest, AwsEvent, Supported
    <2>2. CASE h # "aws"
        BY <1>1, <2>2, SentFields DEF Normalized, GcpRequest, Supported
    <2> QED
        BY <2>1, <2>2, SMTT(40)
<1>4. StructuralRefusal(Normalized(get), patterns) = StructuralRefusal(Normalized(head), patterns)
    BY <1>3, StructuralChecks
<1>5. SameButMethod(PageInput(Normalized(get), patterns), PageInput(Normalized(head), patterns))
    BY <1>3 DEF PageInput, SameButMethod
<1> QED
    BY <1>2, <1>4, <1>5 DEF Refusal, get, head

Bodiless(envelope) == [envelope EXCEPT !.body = FALSE]

LEMMA BodilessEqual ==
    ASSUME NEW r, DOMAIN r = {"status", "headers", "cookies", "body"}, r = [x \in DOMAIN r |-> r[x]],
           NEW q, DOMAIN q = DOMAIN r, q = [x \in DOMAIN q |-> q[x]],
           \A x \in DOMAIN r \ {"body"} : r[x] = q[x]
    PROVE  Bodiless(r) = Bodiless(q)
BY DEF Bodiless

(* The two answers differ in their bodies only, and only a replaced one      *)
(* keeps it for HEAD.                                                        *)
LEMMA HeadWire ==
    ASSUME NEW answer, NEW get, NEW head, get[1] = head[1]
    PROVE  LET g == ToWire(get, FinishPageResponse(answer, FALSE))
               d == ToWire(head, FinishPageResponse(answer, TRUE))
           IN  Bodiless(g) = Bodiless(d) /\ (d.body => head[1] # "aws" /\ d = Envelope(Text(500)))
<1> DEFINE full == FinishPageResponse(answer, FALSE)
           bare == FinishPageResponse(answer, TRUE)
<1>1. /\ full.status = bare.status /\ full.headers = bare.headers
      /\ full.setCookies = bare.setCookies /\ bare.body = FALSE
    BY DEF FinishPageResponse
<1> SUFFICES /\ Bodiless(ToWire(get, full)) = Bodiless(ToWire(head, bare))
             /\ ToWire(head, bare).body => head[1] # "aws" /\ ToWire(head, bare) = Envelope(Text(500))
    OBVIOUS
<1> HIDE DEF full, bare
<1>2. Bodiless(Envelope(full)) = Bodiless(Envelope(bare)) /\ Envelope(bare).body = FALSE
    <2> DEFINE hs == Grouped(bare.headers)
               cs == [i \in DOMAIN bare.setCookies |-> bare.setCookies[i].value]
    <2>1. Envelope(full) = [status |-> bare.status, headers |-> hs, cookies |-> cs, body |-> full.body]
        BY <1>1 DEF Envelope
    <2>2. Envelope(bare) = [status |-> bare.status, headers |-> hs, cookies |-> cs, body |-> FALSE]
        BY <1>1 DEF Envelope
    <2> HIDE DEF hs, cs
    <2> DEFINE r == Envelope(full)
               q == Envelope(bare)
    <2>3. /\ DOMAIN r = {"status", "headers", "cookies", "body"} /\ DOMAIN q = DOMAIN r
          /\ r = [x \in DOMAIN r |-> r[x]] /\ q = [x \in DOMAIN q |-> q[x]]
          /\ \A x \in DOMAIN r \ {"body"} : r[x] = q[x]
        BY <2>1, <2>2
    <2>4. q.body = FALSE
        BY <2>2
    <2> HIDE DEF r, q
    <2>5. Bodiless(r) = Bodiless(q)
        BY <2>3, BodilessEqual
    <2> QED
        BY <2>4, <2>5 DEF r, q
<1>3. \/ ToResponse(full) = Envelope(full) /\ ToResponse(bare) = Envelope(bare)
      \/ ToResponse(full) = Envelope(Text(500)) /\ ToResponse(bare) = Envelope(Text(500))
    BY <1>1 DEF ToResponse
<1>4. CASE head[1] = "aws"
    BY <1>2, <1>4 DEF ToWire, ToEvent
<1>5. CASE head[1] # "aws"
    BY <1>2, <1>3, <1>5 DEF ToWire
<1> QED
    BY <1>4, <1>5

(* HEAD answers what GET would, and calls the module for the same request;   *)
(* a body it has is the host's own (lib.rs:79-108).                          *)
THEOREM HeadIsGet == Spec => []HeadMirrorsGet
<1>1. IInv /\ Settled => HeadMirrorsGet
    <2> SUFFICES ASSUME IInv, Settled, NEW h \in Hosts
                 PROVE  LET get == <<h, "GET">>
                            head == <<h, "HEAD">>
                        IN  /\ Replied(get) /\ Replied(head) /\ reply[get].status # 413 /\ reply[head].status # 413 =>
                                 /\ Bodiless(reply[get]) = Bodiless(reply[head])
                                 /\ calls[get] = calls[head] /\ SameButMethod(input[get], input[head])
                            /\ Replied(head) /\ calls[head] # <<>> /\ reply[head].body =>
                                 h = "gcp" /\ reply[head] = Envelope(Text(500))
        BY DEF HeadMirrorsGet, Bodiless, SameButMethod
    <2> DEFINE get == <<h, "GET">>
               head == <<h, "HEAD">>
    <2>1. get \in Slots /\ head \in Slots /\ get[1] = h /\ head[1] = h /\ get[2] = "GET" /\ head[2] = "HEAD"
        BY PageAssumption DEF Slots
    <2>2. /\ Refusal(get) = Refusal(head)
          /\ SameButMethod(PageInput(Normalized(get), patterns), PageInput(Normalized(head), patterns))
        BY SameRefusal
    <2> HIDE DEF get, head
    <2>3. SettledAt(get) /\ SettledAt(head)
        BY <2>1 DEF Settled
    <2>4. Envelope(Text(413)).status = 413
        BY DEF Envelope, Text
    <2>5. calls[get] \in {<<>>, <<"admit">>, <<"admit", "run">>} /\ calls[head] \in {<<>>, <<"admit">>, <<"admit", "run">>}
        BY <2>1 DEF IInv, TypeOK
    <2>6. ASSUME Replied(get), Replied(head), reply[get].status # 413, reply[head].status # 413
          PROVE  /\ Bodiless(reply[get]) = Bodiless(reply[head])
                 /\ calls[get] = calls[head] /\ SameButMethod(input[get], input[head])
        <3>1. CASE Refusal(get) # 0
            <4>1. calls[get] = <<>> /\ calls[head] = <<>>
                BY <2>2, <2>3, <3>1 DEF SettledAt
            <4>2. SameButMethod(input[get], input[head])
                <5>1. input[get] = NoInput /\ input[head] = NoInput
                    BY <2>3, <4>1 DEF SettledAt
                <5>2. SameButMethod(NoInput, NoInput)
                    BY DEF SameButMethod, NoInput
                <5> QED
                    BY <5>1, <5>2
            <4>3. reply[get] = Envelope(Text(Refusal(get))) /\ reply[head] = Envelope(Text(Refusal(get)))
                BY <2>2, <2>3, <2>4, <2>6, <4>1 DEF SettledAt
            <4> QED
                BY <4>1, <4>2, <4>3
        <3>2. CASE Refusal(get) = 0
            <4>1. /\ calls[get] # <<>> /\ calls[head] # <<>>
                  /\ SameButMethod(input[get], input[head]) /\ calls[get] = calls[head]
                BY <2>2, <2>3, <2>4, <2>5, <2>6, <3>2 DEF SettledAt
            <4>2. /\ reply[get] = ToWire(get, FinishPageResponse(Answer(get), get[2] = "HEAD"))
                  /\ reply[head] = ToWire(head, FinishPageResponse(Answer(head), head[2] = "HEAD"))
                BY <2>3, <2>6, <4>1 DEF SettledAt
            <4>3. Answer(get) = Answer(head) /\ (get[2] = "HEAD") = FALSE /\ (head[2] = "HEAD") = TRUE
                BY <2>1, <4>1 DEF Answer
            <4>4. /\ reply[get] = ToWire(get, FinishPageResponse(Answer(head), FALSE))
                  /\ reply[head] = ToWire(head, FinishPageResponse(Answer(head), TRUE))
                BY <4>2, <4>3
            <4>5. Bodiless(ToWire(get, FinishPageResponse(Answer(head), FALSE)))
                    = Bodiless(ToWire(head, FinishPageResponse(Answer(head), TRUE)))
                BY <2>1, HeadWire, ZenonT(60)
            <4> QED
                BY <4>1, <4>4, <4>5
        <3> QED
            BY <3>1, <3>2
    <2>7. ASSUME Replied(head), calls[head] # <<>>, reply[head].body
          PROVE  h = "gcp" /\ reply[head] = Envelope(Text(500))
        <3>1. reply[head] = ToWire(head, FinishPageResponse(Answer(head), head[2] = "HEAD"))
            BY <2>3, <2>7 DEF SettledAt
        <3>2. reply[head] = ToWire(head, FinishPageResponse(Answer(head), TRUE))
            BY <2>1, <3>1
        <3> DEFINE d == ToWire(head, FinishPageResponse(Answer(head), TRUE))
        <3>3. d.body => head[1] # "aws" /\ d = Envelope(Text(500))
            BY HeadWire
        <3> HIDE DEF d
        <3>4. h # "aws" /\ reply[head] = Envelope(Text(500))
            BY <2>1, <2>7, <3>2, <3>3 DEF d
        <3> QED
            BY <3>4 DEF Hosts
    <2> QED
        BY <2>6, <2>7 DEF get, head
<1> QED
    BY <1>1, Settlement, PTL

-----------------------------------------------------------------------------
(* SUMS *)

(* Sum is the last of its partial sums. *)
Partial(sums, sizes) ==
    /\ sums \in [0..Len(sizes) -> Nat] /\ sums[0] = 0
    /\ \A k \in 1..Len(sizes) : sums[k] = sums[k - 1] + sizes[k]

LEMMA SumRun ==
    ASSUME NEW sizes \in Seq(Nat)
    PROVE  \E sums : Partial(sums, sizes) /\ Sum(sizes) = sums[Len(sizes)]
<1> DEFINE n == Len(sizes)
           Run(f) == f = [k \in 0..n |-> IF k = 0 THEN 0 ELSE f[k - 1] + sizes[k]]
           total == CHOOSE f : Run(f)
<1>1. n \in Nat /\ \A k \in 1..n : sizes[k] \in Nat
    OBVIOUS
<1>2. Sum(sizes) = total[n]
    BY DEF Sum
<1> HIDE DEF n
<1>3. \E f : Run(f)
    <2> DEFINE F == [q \in Nat \X (1..n) |-> q[1] + sizes[q[2]]]
    <2>1. F \in [Nat \X (1..n) -> Nat] /\ \A d \in Nat, k \in 1..n : F[<<d, k>>] = d + sizes[k]
        BY <1>1, SMTT(40)
    <2> HIDE DEF F
    <2>2. PICK f : Routing!Runs(f, n, Nat, 0, F)
        BY <1>1, <2>1, Routing!Recursion
    <2>3. f \in [0..n -> Nat] /\ f[0] = 0 /\ \A k \in 1..n : f[k] = F[<<f[k - 1], k>>]
        BY <2>2 DEF Routing!Runs
    <2>4. \A k \in 0..n : f[k] = IF k = 0 THEN 0 ELSE f[k - 1] + sizes[k]
        <3> SUFFICES ASSUME NEW k \in 1..n PROVE f[k] = f[k - 1] + sizes[k]
            BY <2>3
        <3>1. f[k - 1] \in Nat
            BY <1>1, <2>3
        <3> QED
            BY <2>1, <2>3, <3>1
    <2>5. f = [k \in 0..n |-> f[k]]
        BY <2>3
    <2>6. Run(f)
        BY <2>4, <2>5
    <2> QED
        BY <2>6
<1>4. Run(total)
    <2> HIDE DEF Run
    <2> QED
        BY <1>3
<1> HIDE DEF total
<1>5. DOMAIN total = 0..n /\ total[0] = 0 /\ \A k \in 1..n : total[k] = total[k - 1] + sizes[k]
    BY <1>1, <1>4
<1>6. \A k \in 0..n : total[k] \in Nat
    <2> DEFINE S == {k \in 0..n : total[k] \in Nat}
    <2>1. 0 \in S
        BY <1>1, <1>5
    <2>2. ASSUME NEW k \in 1..n, k - 1 \in S PROVE k \in S
        <3>1. k \in 0..n /\ total[k] = total[k - 1] + sizes[k] /\ sizes[k] \in Nat /\ total[k - 1] \in Nat
            BY <1>1, <1>5, <2>2
        <3> QED
            BY <3>1
    <2>3. \A k \in 0..n : k \in S
        <3> HIDE DEF S
        <3> QED
            BY <1>1, <2>1, <2>2, Routing!Induction
    <2> QED
        BY <2>3
<1>7. total = [k \in 0..n |-> total[k]]
    BY <1>4
<1>8. Partial(total, sizes)
    BY <1>5, <1>6, <1>7 DEF Partial, n
<1> QED
    BY <1>2, <1>8 DEF n

LEMMA PartialFacts ==
    ASSUME NEW sizes \in Seq(Nat), NEW sums, Partial(sums, sizes)
    PROVE  /\ sums[0] = 0 /\ \A k \in 0..Len(sizes) : sums[k] \in Nat
           /\ \A k \in 1..Len(sizes) : /\ sizes[k] \in Nat /\ sums[k - 1] \in Nat /\ sums[k] \in Nat
                                        /\ sums[k] = sums[k - 1] + sizes[k]
<1>1. Len(sizes) \in Nat /\ \A k \in 1..Len(sizes) : sizes[k] \in Nat /\ k - 1 \in 0..Len(sizes) /\ k \in 0..Len(sizes)
    OBVIOUS
<1> QED
    BY <1>1 DEF Partial

LEMMA SumUnique ==
    ASSUME NEW sizes \in Seq(Nat), NEW sums, Partial(sums, sizes)
    PROVE  Sum(sizes) = sums[Len(sizes)]
<1> DEFINE n == Len(sizes)
<1>1. n \in Nat /\ \A k \in 1..n : sizes[k] \in Nat
    OBVIOUS
<1>2. PICK others : Partial(others, sizes) /\ Sum(sizes) = others[n]
    BY SumRun
<1> DEFINE S == {k \in 0..n : sums[k] = others[k]}
<1>3. 0 \in S /\ \A k \in 1..n : k - 1 \in S => k \in S
    BY <1>1, <1>2 DEF Partial
<1>4. \A k \in 0..n : k \in S
    <2> HIDE DEF S, n
    <2> QED
        BY <1>1, <1>3, Routing!Induction
<1> QED
    BY <1>1, <1>2, <1>4

LEMMA SumType ==
    ASSUME NEW sizes \in Seq(Nat)
    PROVE  Sum(sizes) \in Nat
BY SumRun DEF Partial

(* What is smaller place by place sums up to less. *)
LEMMA SumBelow ==
    ASSUME NEW a \in Seq(Nat), NEW b \in Seq(Nat), Len(a) = Len(b), \A i \in 1..Len(a) : a[i] <= b[i]
    PROVE  Sum(a) <= Sum(b)
<1> DEFINE n == Len(a)
<1>1. n \in Nat /\ \A k \in 1..n : a[k] \in Nat /\ b[k] \in Nat
    OBVIOUS
<1>2. PICK s : Partial(s, a) /\ Sum(a) = s[n]
    BY SumRun
<1>3. PICK t : Partial(t, b) /\ Sum(b) = t[n]
    BY SumRun
<1>4. /\ s[0] = 0 /\ \A k \in 1..n : s[k] = s[k - 1] + a[k] /\ s[k - 1] \in Nat
      /\ t[0] = 0 /\ \A k \in 1..n : t[k] = t[k - 1] + b[k] /\ t[k - 1] \in Nat
    BY <1>2, <1>3, PartialFacts
<1> DEFINE S == {k \in 0..n : s[k] <= t[k]}
<1>5. ASSUME NEW k \in 1..n, k - 1 \in S PROVE k \in S
    <2>1. k \in 0..n /\ a[k] \in Nat /\ b[k] \in Nat /\ a[k] <= b[k] /\ s[k - 1] <= t[k - 1]
        BY <1>1, <1>5
    <2>2. s[k] <= t[k]
        BY <1>4, <2>1
    <2> QED
        BY <2>1, <2>2
<1>6. \A k \in 0..n : k \in S
    <2>1. 0 \in S
        BY <1>1, <1>4
    <2> HIDE DEF S, n
    <2> QED
        BY <1>1, <1>5, <2>1, Routing!Induction
<1> QED
    BY <1>1, <1>2, <1>3, <1>6

(* No member is greater than the sum. *)
LEMMA SumMember ==
    ASSUME NEW a \in Seq(Nat), NEW i \in 1..Len(a)
    PROVE  a[i] <= Sum(a)
<1> DEFINE n == Len(a)
<1>1. n \in Nat /\ \A k \in 1..n : a[k] \in Nat
    OBVIOUS
<1>2. PICK s : Partial(s, a) /\ Sum(a) = s[n]
    BY SumRun
<1>3. s[0] = 0 /\ \A k \in 1..n : s[k] = s[k - 1] + a[k] /\ s[k - 1] \in Nat
    BY <1>2, PartialFacts
<1> DEFINE S == {k \in 0..n : i <= k => a[i] <= s[k]}
<1>4. ASSUME NEW k \in 1..n, k - 1 \in S PROVE k \in S
    <2>1. k \in 0..n /\ a[k] \in Nat /\ a[i] \in Nat /\ (i <= k - 1 => a[i] <= s[k - 1])
        BY <1>1, <1>4
    <2>2. CASE i <= k - 1
        BY <1>3, <2>1, <2>2, SMTT(40)
    <2>3. CASE i = k
        BY <1>3, <2>1, <2>3
    <2>4. CASE i > k
        BY <2>1, <2>4
    <2> QED
        BY <2>2, <2>3, <2>4
<1>5. \A k \in 0..n : k \in S
    <2>1. 0 \in S
        BY <1>1
    <2> HIDE DEF S, n
    <2> QED
        BY <1>1, <1>4, <2>1, Routing!Induction
<1> QED
    BY <1>1, <1>2, <1>5

LEMMA ConcatPlaces ==
    ASSUME NEW a \in Seq(Nat), NEW b \in Seq(Nat)
    PROVE  /\ Len(a) \in Nat /\ Len(b) \in Nat
           /\ a \o b \in Seq(Nat) /\ Len(a \o b) = Len(a) + Len(b)
           /\ \A k \in 1..Len(a) : k \in DOMAIN (a \o b) /\ (a \o b)[k] = a[k]
           /\ \A k \in 1..Len(b) : k + Len(a) \in DOMAIN (a \o b) /\ (a \o b)[k + Len(a)] = b[k]
OBVIOUS

Holds(s, v) == \E j \in DOMAIN s : s[j] = v

LEMMA ConcatHolds ==
    ASSUME NEW a \in Seq(Nat), NEW b \in Seq(Nat), NEW v, Holds(a, v) \/ Holds(b, v)
    PROVE  Holds(a \o b, v)
<1>1. CASE Holds(a, v)
    <2>1. PICK j \in 1..Len(a) : a[j] = v
        BY <1>1 DEF Holds
    <2> QED
        BY <2>1, ConcatPlaces DEF Holds
<1>2. CASE Holds(b, v)
    <2>1. PICK j \in 1..Len(b) : b[j] = v
        BY <1>2 DEF Holds
    <2> QED
        BY <2>1, ConcatPlaces, ZenonT(60) DEF Holds
<1> QED
    BY <1>1, <1>2

LEMMA SumConcat ==
    ASSUME NEW a \in Seq(Nat), NEW b \in Seq(Nat)
    PROVE  Sum(a \o b) = Sum(a) + Sum(b)
<1> DEFINE c == a \o b
<1>1. /\ Len(a) \in Nat /\ Len(b) \in Nat /\ c \in Seq(Nat) /\ Len(c) = Len(a) + Len(b)
      /\ \A k \in 1..Len(a) : c[k] = a[k] /\ a[k] \in Nat
      /\ \A k \in 1..Len(b) : c[k + Len(a)] = b[k] /\ b[k] \in Nat
    OBVIOUS
<1> HIDE DEF c
<1>2. PICK s : Partial(s, a) /\ Sum(a) = s[Len(a)]
    BY SumRun
<1>3. PICK t : Partial(t, b) /\ Sum(b) = t[Len(b)]
    BY SumRun
<1>4. /\ s[0] = 0 /\ \A k \in 0..Len(a) : s[k] \in Nat
      /\ \A k \in 1..Len(a) : s[k] = s[k - 1] + a[k]
      /\ t[0] = 0 /\ \A k \in 0..Len(b) : t[k] \in Nat
      /\ \A k \in 1..Len(b) : t[k] = t[k - 1] + b[k]
    BY <1>2, <1>3, PartialFacts
<1> DEFINE v(k) == IF k <= Len(a) THEN s[k] ELSE s[Len(a)] + t[k - Len(a)]
           u == [k \in 0..Len(c) |-> v(k)]
<1>5. \A k \in 0..Len(c) : v(k) \in Nat
    <2> SUFFICES ASSUME NEW k \in 0..Len(c) PROVE v(k) \in Nat
        OBVIOUS
    <2>1. CASE k <= Len(a)
        BY <1>1, <1>4, <2>1
    <2>2. CASE k > Len(a)
        <3>1. k - Len(a) \in 0..Len(b) /\ Len(a) \in 0..Len(a) /\ ~(k <= Len(a))
            BY <1>1, <2>2
        <3>2. s[Len(a)] \in Nat /\ t[k - Len(a)] \in Nat
            BY <1>4, <3>1
        <3> QED
            BY <3>1, <3>2
    <2> QED
        BY <1>1, <2>1, <2>2
<1>6. ASSUME NEW k \in 1..Len(c) PROVE v(k) = v(k - 1) + c[k]
    <2>1. CASE k <= Len(a)
        <3>1. k \in 1..Len(a) /\ k - 1 <= Len(a)
            BY <1>1, <2>1
        <3> QED
            BY <1>1, <1>4, <2>1, <3>1
    <2>2. CASE k > Len(a)
        <3> DEFINE j == k - Len(a)
        <3>1. /\ j \in 1..Len(b) /\ j + Len(a) = k /\ ~(k <= Len(a)) /\ Len(a) \in 0..Len(a)
              /\ (k - 1) - Len(a) = j - 1 /\ j - 1 \in 0..Len(b)
            BY <1>1, <2>2
        <3>2. /\ c[k] = b[j] /\ t[j] = t[j - 1] + b[j] /\ b[j] \in Nat
              /\ t[j - 1] \in Nat /\ s[Len(a)] \in Nat
            BY <1>1, <1>4, <3>1
        <3>3. v(k) = s[Len(a)] + t[j]
            BY <3>1
        <3>4. v(k - 1) = s[Len(a)] + t[j - 1]
            <4>1. CASE k - 1 <= Len(a)
                <5>1. k \in Nat /\ Len(a) \in Nat
                    BY <1>1
                <5>2. k - 1 = Len(a) /\ j - 1 = 0
                    BY <2>2, <4>1, <5>1
                <5> QED
                    BY <1>4, <3>2, <4>1, <5>2
            <4>2. CASE ~(k - 1 <= Len(a))
                BY <3>1, <4>2
            <4> QED
                BY <4>1, <4>2
        <3> HIDE DEF j, v
        <3> QED
            BY <3>2, <3>3, <3>4
    <2> QED
        BY <1>1, <2>1, <2>2
<1>7. v(0) = 0 /\ v(Len(c)) = s[Len(a)] + t[Len(b)]
    <2>1. v(0) = 0
        BY <1>1, <1>4
    <2>2. CASE Len(b) = 0
        <3>1. s[Len(a)] \in Nat
            BY <1>1, <1>4
        <3> QED
            BY <1>1, <1>4, <2>1, <2>2, <3>1
    <2>3. CASE Len(b) # 0
        <3>1. ~(Len(c) <= Len(a)) /\ Len(c) - Len(a) = Len(b)
            BY <1>1, <2>3
        <3> QED
            BY <2>1, <3>1
    <2> QED
        BY <2>2, <2>3
<1> HIDE DEF v
<1>8. Partial(u, c)
    <2>1. /\ u \in [0..Len(c) -> Nat] /\ u[0] = 0 /\ u[Len(c)] = v(Len(c))
          /\ \A k \in 1..Len(c) : u[k] = v(k) /\ u[k - 1] = v(k - 1)
        BY <1>1, <1>5, <1>7
    <2> QED
        BY <1>6, <2>1 DEF Partial
<1>9. Sum(c) = v(Len(c))
    <2>1. u[Len(c)] = v(Len(c))
        BY <1>1
    <2> HIDE DEF u
    <2> QED
        BY <1>1, <1>8, <2>1, SumUnique
<1> QED
    BY <1>2, <1>3, <1>7, <1>9 DEF c

-----------------------------------------------------------------------------
(* COOKIES OF SEVERAL HEADERS *)

LEMMA IsSequence ==
    ASSUME NEW n \in Nat, NEW A, NEW f \in [1..n -> A]
    PROVE  f \in Seq(A) /\ Len(f) = n
OBVIOUS

LEMMA EmptySum ==
    ASSUME NEW sizes \in Seq(Nat), Len(sizes) = 0
    PROVE  Sum(sizes) = 0
BY SumRun DEF Partial

(* FlattenSeq has as many members, and of the same total, as its parts have  *)
(* together, and every member of a part.                                     *)
LEMMA FlattenMeasures ==
    ASSUME NEW lines \in Seq(Seq(Nat))
    PROVE  /\ FlattenSeq(lines) \in Seq(Nat)
           /\ Len(FlattenSeq(lines)) = Sum([i \in DOMAIN lines |-> Len(lines[i])])
           /\ Sum(FlattenSeq(lines)) = Sum([i \in DOMAIN lines |-> Sum(lines[i])])
           /\ \A i \in DOMAIN lines : \A k \in DOMAIN lines[i] :
                \E j \in DOMAIN FlattenSeq(lines) : FlattenSeq(lines)[j] = lines[i][k]
<1> DEFINE n == Len(lines)
           lengths == [i \in DOMAIN lines |-> Len(lines[i])]
           totals == [i \in DOMAIN lines |-> Sum(lines[i])]
<1>1. n \in Nat /\ DOMAIN lines = 1..n /\ \A i \in 1..n : lines[i] \in Seq(Nat) /\ Len(lines[i]) \in Nat
    OBVIOUS
<1>2. lengths \in Seq(Nat) /\ Len(lengths) = n /\ \A i \in 1..n : lengths[i] = Len(lines[i])
    <2>1. lengths \in [1..n -> Nat] /\ \A i \in 1..n : lengths[i] = Len(lines[i])
        BY <1>1
    <2> HIDE DEF lengths, n
    <2> QED
        BY <1>1, <2>1, IsSequence
<1>3. totals \in Seq(Nat) /\ Len(totals) = n /\ \A i \in 1..n : totals[i] = Sum(lines[i])
    <2>1. totals \in [1..n -> Nat] /\ \A i \in 1..n : totals[i] = Sum(lines[i])
        BY <1>1, SumType
    <2> HIDE DEF totals, n
    <2> QED
        BY <1>1, <2>1, IsSequence
<1> HIDE DEF lengths, totals
<1>4. CASE n = 0
    <2>1. FlattenSeq(lines) = lines
        BY <1>4 DEF FlattenSeq
    <2>2. lines \in Seq(Nat)
        BY <1>1, <1>4
    <2>3. Sum(lines) = 0 /\ Sum(lengths) = 0 /\ Sum(totals) = 0
        BY <1>2, <1>3, <1>4, <2>2, EmptySum
    <2> QED
        BY <1>1, <1>4, <2>1, <2>2, <2>3 DEF lengths, totals
<1>5. CASE n # 0
    <2>1. FlattenSeq(lines) = Routing!Glue(lines)
        BY <1>5 DEF FlattenSeq, Routing!Glue
    <2>2. PICK f \in [1..n -> Seq(Nat)] :
            /\ f[1] = lines[1] /\ \A i \in 2..n : f[i] = f[i - 1] \o lines[i]
            /\ Routing!Glue(lines) = f[n]
        <3>1. lines # <<>>
            BY <1>5
        <3> QED
            BY <3>1, Routing!GlueRun
    <2> HIDE DEF n
    <2>3. \A i \in 1..n : f[i] \in Seq(Nat) /\ Len(f[i]) \in Nat /\ Sum(f[i]) \in Nat
        BY <1>1, SumType
    <2>4. \A i \in 2..n : /\ i - 1 \in 1..n /\ i \in 1..n
                          /\ Len(f[i]) = Len(f[i - 1]) + Len(lines[i])
                          /\ Sum(f[i]) = Sum(f[i - 1]) + Sum(lines[i])
        <3> SUFFICES ASSUME NEW i \in 2..n
                     PROVE  /\ i - 1 \in 1..n /\ i \in 1..n
                            /\ Len(f[i]) = Len(f[i - 1]) + Len(lines[i])
                            /\ Sum(f[i]) = Sum(f[i - 1]) + Sum(lines[i])
            OBVIOUS
        <3>1. i - 1 \in 1..n /\ i \in 1..n
            BY <1>1
        <3>2. f[i - 1] \in Seq(Nat) /\ lines[i] \in Seq(Nat) /\ f[i] = f[i - 1] \o lines[i]
            BY <1>1, <2>2, <2>3, <3>1
        <3> QED
            BY <3>1, <3>2, SumConcat
    <2>5. Sum(lengths) = Len(f[n])
        <3> DEFINE u == [k \in 0..n |-> IF k = 0 THEN 0 ELSE Len(f[k])]
        <3>1. u \in [0..n -> Nat] /\ u[0] = 0 /\ u[n] = Len(f[n])
            BY <1>1, <1>5, <2>3
        <3>2. ASSUME NEW k \in 1..n PROVE u[k] = u[k - 1] + lengths[k]
            <4>1. CASE k = 1
                BY <1>1, <1>2, <2>2, <2>3, <4>1
            <4>2. CASE k # 1
                <5>1. k \in 2..n /\ k - 1 \in 0..n /\ k - 1 # 0 /\ k # 0 /\ k \in 0..n
                    BY <1>1, <4>2
                <5> QED
                    BY <1>2, <2>4, <5>1
            <4> QED
                BY <4>1, <4>2
        <3> HIDE DEF u
        <3> QED
            BY <1>2, <3>1, <3>2, SumUnique DEF Partial
    <2>6. Sum(totals) = Sum(f[n])
        <3> DEFINE u == [k \in 0..n |-> IF k = 0 THEN 0 ELSE Sum(f[k])]
        <3>1. u \in [0..n -> Nat] /\ u[0] = 0 /\ u[n] = Sum(f[n])
            BY <1>1, <1>5, <2>3
        <3>2. ASSUME NEW k \in 1..n PROVE u[k] = u[k - 1] + totals[k]
            <4>1. CASE k = 1
                BY <1>1, <1>3, <2>2, <2>3, <4>1
            <4>2. CASE k # 1
                <5>1. k \in 2..n /\ k - 1 \in 0..n /\ k - 1 # 0 /\ k # 0 /\ k \in 0..n
                    BY <1>1, <4>2
                <5> QED
                    BY <1>3, <2>4, <5>1
            <4> QED
                BY <4>1, <4>2
        <3> HIDE DEF u
        <3> QED
            BY <1>3, <3>1, <3>2, SumUnique DEF Partial
    <2>7. ASSUME NEW i \in 1..n, NEW k \in DOMAIN lines[i]
          PROVE  \E j \in DOMAIN f[n] : f[n][j] = lines[i][k]
        <3> DEFINE v == lines[i][k]
                   S == {m \in 0..n : i <= m => Holds(f[m], v)}
        <3>1. 0 \in S
            BY <1>1
        <3>2. ASSUME NEW m \in 1..n, m - 1 \in S PROVE m \in S
            <4>1. i = m => Holds(lines[m], v)
                BY DEF Holds
            <4>2. CASE m = 1
                BY <1>1, <2>2, <4>1, <4>2
            <4>3. CASE m # 1
                <5>1. m \in 2..n /\ m - 1 \in 1..n /\ m \in 0..n /\ (i <= m => i = m \/ i <= m - 1)
                    BY <1>1, <4>3
                <5>2. f[m - 1] \in Seq(Nat) /\ lines[m] \in Seq(Nat) /\ f[m] = f[m - 1] \o lines[m]
                    BY <1>1, <2>2, <2>3, <5>1
                <5>3. i <= m - 1 => Holds(f[m - 1], v)
                    BY <3>2
                <5> HIDE DEF v
                <5>4. i <= m => Holds(f[m], v)
                    BY <4>1, <5>1, <5>2, <5>3, ConcatHolds
                <5> QED
                    BY <5>1, <5>4
            <4> QED
                BY <4>2, <4>3
        <3>3. \A m \in 0..n : m \in S
            <4> HIDE DEF S
            <4> QED
                BY <1>1, <3>1, <3>2, Routing!Induction
        <3>4. n \in 0..n /\ i <= n
            BY <1>1
        <3>5. Holds(f[n], v)
            BY <3>3, <3>4
        <3> QED
            BY <3>5 DEF Holds
    <2> QED
        <3>1. n \in 1..n
            BY <1>1, <1>5
        <3>2. /\ Len(FlattenSeq(lines)) = Sum(lengths) /\ Sum(FlattenSeq(lines)) = Sum(totals)
              /\ FlattenSeq(lines) \in Seq(Nat) /\ FlattenSeq(lines) = f[n]
            BY <2>1, <2>2, <2>3, <2>5, <2>6, <3>1
        <3> QED
            BY <1>1, <2>7, <3>2 DEF lengths, totals
<1> QED
    BY <1>4, <1>5

(* The order of from_event and of from_request. *)
LEMMA AwsChecks ==
    ASSUME NEW event
    PROVE  AwsRefusal(event) =
             IF event.pathBytes > MaxRawPathBytes THEN 414
             ELSE IF event.queryBytes > MaxRawQueryBytes THEN 414
             ELSE IF Len(event.headers) > MaxHeaderCount THEN 431
             ELSE IF HeaderFault(event.headers) # 0 THEN HeaderFault(event.headers)
             ELSE IF BadCookies(event.cookies) THEN 400
             ELSE IF event.encoded > (IF event.binary THEN MaxBase64BodyBytes ELSE MaxPageBodyBytes)
                  THEN 413
             ELSE IF event.body > MaxPageBodyBytes THEN 413 ELSE 0
<1> DEFINE a == When(event.pathBytes > MaxRawPathBytes, 414)
           b == When(event.queryBytes > MaxRawQueryBytes, 414)
           c == When(Len(event.headers) > MaxHeaderCount, 431)
           d == HeaderFault(event.headers)
           e == When(BadCookies(event.cookies), 400)
           f == When(event.encoded > (IF event.binary THEN MaxBase64BodyBytes ELSE MaxPageBodyBytes), 413)
           g == When(event.body > MaxPageBodyBytes, 413)
<1>1. FirstRefusal(<<a, b, c, d, e, f, g>>) =
        IF a # 0 THEN a ELSE IF b # 0 THEN b ELSE IF c # 0 THEN c ELSE IF d # 0 THEN d
        ELSE IF e # 0 THEN e ELSE IF f # 0 THEN f ELSE g
    <2> DEFINE checks == <<a, b, c, d, e, f, g>>
    <2> HIDE DEF a, b, c, d, e, f, g
    <2>1. /\ DOMAIN checks = 1..7 /\ DOMAIN checks \subseteq Nat
          /\ checks[1] = a /\ checks[2] = b /\ checks[3] = c /\ checks[4] = d
          /\ checks[5] = e /\ checks[6] = f /\ checks[7] = g
        OBVIOUS
    <2> HIDE DEF checks
    <2>2. FirstRefusal(checks) = IF a # 0 THEN a ELSE IF b # 0 THEN b ELSE IF c # 0 THEN c
                                 ELSE IF d # 0 THEN d ELSE IF e # 0 THEN e ELSE IF f # 0 THEN f ELSE g
        BY <2>1, FirstDecides
    <2> QED
        BY <2>2 DEF checks
<1>2. AwsRefusal(event) = FirstRefusal(<<a, b, c, d, e, f, g>>)
    BY DEF AwsRefusal
<1> QED
    BY <1>1, <1>2 DEF When

LEMMA GcpChecks ==
    ASSUME NEW b
    PROVE  /\ GcpHeadRefusal(b) =
                IF b.pathBytes > MaxRawPathBytes \/ b.queryBytes > MaxRawQueryBytes THEN 414
                ELSE IF Len(GcpFields(b)) > MaxHeaderCount THEN 431 ELSE HeaderFault(GcpFields(b))
           /\ GcpBodyRefusal(b) =
                IF b.body > MaxPageBodyBytes THEN 413 ELSE IF BadCookieHeaders(b.lines) THEN 400 ELSE 0
<1> DEFINE x == When(b.pathBytes > MaxRawPathBytes \/ b.queryBytes > MaxRawQueryBytes, 414)
           y == When(Len(GcpFields(b)) > MaxHeaderCount, 431)
           z == HeaderFault(GcpFields(b))
           v == When(b.body > MaxPageBodyBytes, 413)
           w == When(BadCookieHeaders(b.lines), 400)
<1>1. /\ FirstRefusal(<<x, y, z>>) = IF x # 0 THEN x ELSE IF y # 0 THEN y ELSE z
      /\ FirstRefusal(<<v, w>>) = IF v # 0 THEN v ELSE w
    <2> DEFINE head == <<x, y, z>>
               rest == <<v, w>>
    <2> HIDE DEF x, y, z, v, w
    <2>1. /\ DOMAIN head = 1..3 /\ DOMAIN head \subseteq Nat
          /\ head[1] = x /\ head[2] = y /\ head[3] = z
          /\ DOMAIN rest = 1..2 /\ DOMAIN rest \subseteq Nat /\ rest[1] = v /\ rest[2] = w
        OBVIOUS
    <2> HIDE DEF head, rest
    <2>2. FirstRefusal(head) = IF x # 0 THEN x ELSE IF y # 0 THEN y ELSE z
        BY <2>1, FirstDecides
    <2>3. FirstRefusal(rest) = IF v # 0 THEN v ELSE w
        BY <2>1, FirstDecides
    <2> QED
        BY <2>2, <2>3 DEF head, rest
<1>2. GcpHeadRefusal(b) = FirstRefusal(<<x, y, z>>) /\ GcpBodyRefusal(b) = FirstRefusal(<<v, w>>)
    BY DEF GcpHeadRefusal, GcpBodyRefusal
<1> QED
    BY <1>1, <1>2 DEF When

(* A Cookie header is longer than its cookies are together. *)
LEMMA LineFacts ==
    ASSUME NEW line \in CookieLine
    PROVE  /\ line \in Seq(Nat) /\ Len(line) \in Nat /\ Len(line) > 0 /\ Sum(line) \in Nat
           /\ LineBytes(line) \in Nat /\ Sum(line) <= LineBytes(line)
           /\ \A k \in DOMAIN line : line[k] \in Nat /\ line[k] <= Sum(line)
<1>1. line \in Seq(Nat) /\ Len(line) \in Nat /\ Len(line) > 0
    BY DEF CookieLine
<1>2. Sum(line) \in Nat /\ \A k \in DOMAIN line : line[k] \in Nat /\ line[k] <= Sum(line)
    BY <1>1, SumType, SumMember
<1> QED
    BY <1>1, <1>2 DEF LineBytes

(* No module is asked about a request whose cookies pass a limit, on either  *)
(* host: what GCP measures bounds what it does not (gcp.rs:126-156,          *)
(* aws.rs:130-158).                                                          *)
THEOREM CookieLimits == Spec => []CookieLimitsHold
<1>1. IInv /\ Settled => CookieLimitsHold
    <2> SUFFICES ASSUME IInv, Settled, NEW s \in Slots, calls[s] # <<>>
                 PROVE  LET lines == request.lines
                        IN  /\ Sum([i \in DOMAIN lines |-> Len(lines[i])]) <= MaxCookieCount
                            /\ \A i \in DOMAIN lines : \A k \in DOMAIN lines[i] : lines[i][k] <= MaxCookieBytes
                            /\ Sum([i \in DOMAIN lines |-> Sum(lines[i])]) <= MaxCookieTotalBytes
        BY DEF CookieLimitsHold
    <2> DEFINE lines == request.lines
               all == FlattenSeq(lines)
               n == Len(lines)
               totals == [i \in DOMAIN lines |-> Sum(lines[i])]
    <2>1. lines \in Seq(CookieLine) /\ n \in Nat /\ DOMAIN lines = 1..n /\ \A i \in 1..n : lines[i] \in CookieLine
        BY PageAssumption DEF IInv, TypeOK, BrowserRequest
    <2>2. /\ MaxCookieCount \in Nat /\ MaxCookieBytes \in Nat /\ MaxCookieTotalBytes \in Nat
        BY LimitAssumption
    <2>3. lines \in Seq(Seq(Nat))
        <3>1. lines \in [1..n -> Seq(Nat)]
            BY <2>1, LineFacts
        <3> HIDE DEF lines, n
        <3> QED
            BY <2>1, <3>1, IsSequence
    <2> HIDE DEF lines, n
    <2>4. /\ all \in Seq(Nat) /\ Len(all) = Sum([i \in DOMAIN lines |-> Len(lines[i])])
          /\ Sum(all) = Sum(totals)
          /\ \A i \in DOMAIN lines : \A k \in DOMAIN lines[i] : \E j \in DOMAIN all : all[j] = lines[i][k]
        BY <2>3, FlattenMeasures
    <2>5. HostRefusal(s) = 0
        BY DEF Settled, SettledAt, Refusal
    <2>6. Sent(s).lines = lines
        BY SentFields DEF lines
    <2>7. Len(all) \in Nat /\ DOMAIN all = 1..Len(all) /\ \A j \in 1..Len(all) : all[j] \in Nat /\ Sum(all) \in Nat
        BY <2>4, SumType
    <2>8. CASE s[1] = "aws"
        <3>1. AwsEvent(Sent(s)).cookies = all
            BY <2>6 DEF AwsEvent
        <3>2. ~BadCookies(all)
            <4>1. AwsRefusal(AwsEvent(Sent(s))) = 0
                BY <2>5, <2>8 DEF HostRefusal
            <4> QED
                BY <3>1, <4>1, AwsChecks
        <3> HIDE DEF all, totals
        <3>3. /\ Len(all) <= MaxCookieCount /\ Sum(all) <= MaxCookieTotalBytes
              /\ \A j \in DOMAIN all : all[j] <= MaxCookieBytes
            <4>1. /\ ~(Len(all) > MaxCookieCount) /\ ~(Sum(all) > MaxCookieTotalBytes)
                  /\ \A j \in DOMAIN all : ~(all[j] > MaxCookieBytes)
                BY <3>2 DEF BadCookies
            <4>2. Sum(all) \in Nat
                BY <2>4, SumType
            <4> QED
                BY <2>2, <2>7, <4>1, <4>2
        <3>4. \A i \in DOMAIN lines : \A k \in DOMAIN lines[i] : lines[i][k] <= MaxCookieBytes
            BY <2>4, <3>3
        <3> QED
            BY <2>4, <3>3, <3>4 DEF totals, lines
    <2>9. CASE s[1] # "aws"
        <3> DEFINE measured == [i \in DOMAIN lines |-> LineBytes(lines[i])]
        <3>1. ~BadCookieHeaders(lines)
            BY <2>5, <2>6, <2>9, GcpChecks DEF HostRefusal
        <3>2. measured \in Seq(Nat) /\ totals \in Seq(Nat) /\ Len(measured) = n /\ Len(totals) = n
            <4>1. measured \in [1..n -> Nat] /\ totals \in [1..n -> Nat]
                BY <2>1, LineFacts
            <4> HIDE DEF measured, totals
            <4> QED
                BY <2>1, <4>1, IsSequence
        <3>3. \A i \in 1..n : totals[i] <= measured[i]
            BY <2>1, LineFacts
        <3>4. \A i \in 1..n : ~(LineBytes(lines[i]) > MaxCookieBytes)
            BY <2>1, <3>1 DEF BadCookieHeaders
        <3>5. ~(Sum(measured) > MaxCookieTotalBytes) /\ ~(Len(all) > MaxCookieCount)
            BY <3>1 DEF BadCookieHeaders
        <3>6. ASSUME NEW i \in 1..n, NEW k \in DOMAIN lines[i] PROVE lines[i][k] <= MaxCookieBytes
            <4>1. /\ lines[i][k] \in Nat /\ lines[i][k] <= Sum(lines[i]) /\ Sum(lines[i]) \in Nat
                  /\ Sum(lines[i]) <= LineBytes(lines[i]) /\ LineBytes(lines[i]) \in Nat
                BY <2>1, LineFacts
            <4> QED
                BY <2>2, <3>4, <4>1
        <3> HIDE DEF measured, totals, all
        <3>7. Sum(totals) <= MaxCookieTotalBytes
            <4>1. Sum(totals) <= Sum(measured) /\ Sum(totals) \in Nat /\ Sum(measured) \in Nat
                BY <3>2, <3>3, SumBelow, SumType
            <4> QED
                BY <2>2, <3>5, <4>1
        <3>8. Len(all) <= MaxCookieCount
            BY <2>2, <2>7, <3>5
        <3> QED
            BY <2>1, <2>4, <3>6, <3>7, <3>8 DEF totals, lines
    <2> QED
        BY <2>8, <2>9
<1> QED
    BY <1>1, Settlement, PTL

-----------------------------------------------------------------------------
(* PLACES *)

(* A place has a rank among the places, and Nth finds it again. *)
LEMMA PlaceFacts ==
    ASSUME NEW n \in Nat, NEW places, places \subseteq 1..n
    PROVE  /\ Cardinality(places) \in Nat
           /\ \A k \in 1..Cardinality(places) : Nth(places, k) \in places /\ Rank(places, Nth(places, k)) = k
           /\ \A i \in places : /\ Rank(places, i) \in 1..Cardinality(places)
                                /\ Nth(places, Rank(places, i)) = i
           /\ \A i, j \in places : i < j => Rank(places, i) < Rank(places, j)
<1> DEFINE upto(m) == {j \in places : j <= m}
<1>1. \A j \in places : j \in Nat /\ 1 <= j /\ j <= n
    OBVIOUS
<1>2. IsFiniteSet(places) /\ Cardinality(places) \in Nat
    <2>1. IsFiniteSet(1..n)
        BY FS_Interval
    <2>2. IsFiniteSet(places)
        BY <2>1, FS_Subset
    <2> QED
        BY <2>2, FS_CardinalityType
<1>3. \A m : IsFiniteSet(upto(m)) /\ Cardinality(upto(m)) \in Nat /\ Cardinality(upto(m)) <= Cardinality(places)
    <2> SUFFICES ASSUME NEW m
                 PROVE  /\ IsFiniteSet(upto(m)) /\ Cardinality(upto(m)) \in Nat
                        /\ Cardinality(upto(m)) <= Cardinality(places)
        OBVIOUS
    <2>1. upto(m) \in SUBSET places
        OBVIOUS
    <2> HIDE DEF upto
    <2>2. IsFiniteSet(upto(m)) /\ Cardinality(upto(m)) <= Cardinality(places)
        BY <1>2, <2>1, FS_Subset
    <2> QED
        BY <2>2, FS_CardinalityType
<1>4. \A i : Rank(places, i) = Cardinality(upto(i))
    BY DEF Rank
<1>5. ASSUME NEW m \in 1..n
      PROVE  Cardinality(upto(m)) = Cardinality(upto(m - 1)) + (IF m \in places THEN 1 ELSE 0)
    <2>1. CASE m \in places
        <3>1. upto(m) = upto(m - 1) \cup {m} /\ m \notin upto(m - 1)
            <4>1. (\A j \in places : j <= m <=> (j = m \/ j <= m - 1)) /\ ~(m <= m - 1)
                BY <1>1
            <4> QED
                BY <2>1, <4>1
        <3> HIDE DEF upto
        <3> QED
            BY <1>3, <2>1, <3>1, FS_AddElement
    <2>2. CASE m \notin places
        <3>1. upto(m) = upto(m - 1)
            <4>1. \A j \in places : j <= m <=> j <= m - 1
                BY <1>1, <2>2
            <4> QED
                BY <4>1
        <3> HIDE DEF upto
        <3> QED
            BY <1>3, <2>2, <3>1
    <2> QED
        BY <2>1, <2>2
<1>6. \A i, j \in places : i < j => Rank(places, i) < Rank(places, j)
    <2> SUFFICES ASSUME NEW i \in places, NEW j \in places, i < j
                 PROVE  Cardinality(upto(i)) < Cardinality(upto(j))
        BY <1>4
    <2>1. upto(i) \in SUBSET upto(j) /\ j \in upto(j) /\ j \notin upto(i)
        <3>1. (\A k \in places : k <= i => k <= j) /\ ~(j <= i) /\ j <= j
            BY <1>1
        <3> QED
            BY <3>1
    <2> HIDE DEF upto
    <2>2. Cardinality(upto(i)) <= Cardinality(upto(j)) /\ Cardinality(upto(i)) # Cardinality(upto(j))
        BY <1>3, <2>1, FS_Subset
    <2> QED
        BY <1>3, <2>2
<1>7. \A i \in places : Rank(places, i) \in 1..Cardinality(places)
    <2> SUFFICES ASSUME NEW i \in places PROVE Cardinality(upto(i)) \in 1..Cardinality(places)
        BY <1>4
    <2>1. upto(i) # {}
        OBVIOUS
    <2> HIDE DEF upto
    <2>2. Cardinality(upto(i)) # 0
        BY <1>3, <2>1, FS_EmptySet
    <2> QED
        BY <1>2, <1>3, <2>2
<1>8. \A k \in 1..Cardinality(places) : \E i \in places : Rank(places, i) = k
    <2> DEFINE reached(m) == \A k \in 1..Cardinality(upto(m)) : \E i \in places : Rank(places, i) = k
               S == {m \in 0..n : reached(m)}
    <2>1. reached(0)
        <3>1. upto(0) = {}
            <4>1. \A j \in places : ~(j <= 0)
                BY <1>1
            <4> QED
                BY <4>1
        <3> HIDE DEF upto
        <3>2. Cardinality(upto(0)) = 0
            BY <3>1, FS_EmptySet
        <3> QED
            BY <3>2
    <2>2. ASSUME NEW m \in 1..n, reached(m - 1) PROVE reached(m)
        <3>1. CASE m \in places
            <4>1. Cardinality(upto(m)) = Cardinality(upto(m - 1)) + 1 /\ Rank(places, m) = Cardinality(upto(m))
                BY <1>4, <1>5, <3>1
            <4> HIDE DEF upto
            <4>2. Cardinality(upto(m - 1)) \in Nat
                BY <1>3
            <4>3. ASSUME NEW k \in 1..Cardinality(upto(m)) PROVE \E i \in places : Rank(places, i) = k
                <5>1. CASE k = Cardinality(upto(m))
                    BY <3>1, <4>1, <5>1
                <5>2. CASE k # Cardinality(upto(m))
                    <6>1. k \in 1..Cardinality(upto(m - 1))
                        BY <4>1, <4>2, <5>2
                    <6> QED
                        BY <2>2, <6>1
                <5> QED
                    BY <5>1, <5>2
            <4> QED
                BY <4>3
        <3>2. CASE m \notin places
            <4>1. upto(m) = upto(m - 1)
                <5>1. \A j \in places : j <= m <=> j <= m - 1
                    BY <1>1, <3>2
                <5> QED
                    BY <5>1
            <4> HIDE DEF upto
            <4> QED
                BY <2>2, <4>1
        <3> QED
            BY <3>1, <3>2
    <2>3. \A m \in 0..n : m \in S
        <3> HIDE DEF reached
        <3>1. 0 \in S
            BY <2>1
        <3>2. \A m \in 1..n : m - 1 \in S => m \in S
            BY <2>2
        <3> HIDE DEF S
        <3> QED
            BY <3>1, <3>2, Routing!Induction
    <2>4. reached(n)
        <3> HIDE DEF reached
        <3> QED
            BY <2>3
    <2>5. upto(n) = places
        BY <1>1
    <2> HIDE DEF upto
    <2> QED
        BY <2>4, <2>5
<1>9. \A k \in 1..Cardinality(places) : Nth(places, k) \in places /\ Rank(places, Nth(places, k)) = k
    BY <1>8 DEF Nth
<1>20. \A i \in places : Nth(places, Rank(places, i)) = i
    <2> SUFFICES ASSUME NEW i \in places, NEW j, j = Nth(places, Rank(places, i)) PROVE j = i
        OBVIOUS
    <2>1. j \in places /\ Rank(places, j) = Rank(places, i) /\ Rank(places, i) \in Nat
        BY <1>7, <1>9
    <2>2. ~(i < j) /\ ~(j < i)
        BY <1>6, <1>7, <2>1
    <2>3. i \in Nat /\ j \in Nat
        BY <2>1
    <2> QED
        BY <2>2, <2>3
<1> QED
    BY <1>2, <1>6, <1>7, <1>9, <1>20

LEMMA PickFacts ==
    ASSUME NEW n \in Nat, NEW places, places \subseteq 1..n, NEW s
    PROVE  /\ DOMAIN Pick(s, places) = 1..Cardinality(places) /\ Len(Pick(s, places)) = Cardinality(places)
           /\ \A k \in 1..Cardinality(places) :
                Nth(places, k) \in places /\ Pick(s, places)[k] = s[Nth(places, k)]
<1> DEFINE c == Cardinality(places)
           picked(k) == s[Nth(places, k)]
<1>1. c \in Nat /\ \A k \in 1..c : Nth(places, k) \in places
    BY PlaceFacts
<1>2. Pick(s, places) = [k \in 1..c |-> picked(k)]
    BY DEF Pick
<1> HIDE DEF picked, c
<1>3. /\ DOMAIN Pick(s, places) = 1..c /\ Len(Pick(s, places)) = c
      /\ \A k \in 1..c : Pick(s, places)[k] = picked(k)
    BY <1>1, <1>2
<1> QED
    BY <1>1, <1>3 DEF picked, c

LEMMA PickAt ==
    ASSUME NEW n \in Nat, NEW places, places \subseteq 1..n, NEW s, NEW i \in places
    PROVE  Rank(places, i) \in DOMAIN Pick(s, places) /\ Pick(s, places)[Rank(places, i)] = s[i]
<1>1. Rank(places, i) \in 1..Cardinality(places) /\ Nth(places, Rank(places, i)) = i
    BY PlaceFacts
<1>2. /\ DOMAIN Pick(s, places) = 1..Cardinality(places)
      /\ \A k \in 1..Cardinality(places) : Pick(s, places)[k] = s[Nth(places, k)]
    BY PickFacts
<1> QED
    BY <1>1, <1>2

-----------------------------------------------------------------------------
(* A PAGE'S HEADERS *)

(* Every value is in the list of its name, and there are no other names. *)
LEMMA GroupedFacts ==
    ASSUME NEW headers, NEW n \in Nat, DOMAIN headers = 1..n
    PROVE  /\ DOMAIN Grouped(headers) = {headers[i].name : i \in DOMAIN headers}
           /\ \A i \in 1..n : \E k \in DOMAIN Grouped(headers)[headers[i].name] :
                Grouped(headers)[headers[i].name][k] = headers[i].value
<1>1. DOMAIN Grouped(headers) = {headers[i].name : i \in DOMAIN headers}
    BY DEF Grouped
<1>2. ASSUME NEW i \in 1..n
      PROVE  \E k \in DOMAIN Grouped(headers)[headers[i].name] :
               Grouped(headers)[headers[i].name][k] = headers[i].value
    <2> DEFINE name == headers[i].name
               places == {j \in DOMAIN headers : headers[j].name = name}
               same == Named(headers, name)
               values == [j \in DOMAIN same |-> same[j].value]
    <2>1. Grouped(headers)[name] = values
        BY DEF Grouped
    <2>2. same = Pick(headers, places)
        BY DEF Named
    <2>3. i \in places /\ places \subseteq 1..n
        OBVIOUS
    <2> HIDE DEF places, same
    <2>4. Rank(places, i) \in DOMAIN same /\ same[Rank(places, i)] = headers[i]
        <3>1. /\ Rank(places, i) \in DOMAIN Pick(headers, places)
              /\ Pick(headers, places)[Rank(places, i)] = headers[i]
            BY <2>3, PickAt
        <3> QED
            BY <2>2, <3>1
    <2>5. Rank(places, i) \in DOMAIN values /\ values[Rank(places, i)] = headers[i].value
        BY <2>4
    <2> HIDE DEF values
    <2> QED
        BY <2>1, <2>5
<1> QED
    BY <1>1, <1>2

LEMMA CookieNames ==
    ASSUME NEW header
    PROVE  IsCookie(header) <=> header.name \in {"set-cookie", "Set-Cookie"}
BY DEF IsCookie, Lower

(* What CookiesSurvive says of one envelope. *)
Arrived(envelope, answer, sent) ==
    /\ "set-cookie" \notin DOMAIN envelope.headers
    /\ Len(envelope.cookies) = Cardinality(sent)
    /\ \A i \in sent : envelope.cookies[Rank(sent, i)] = answer.headers[i].value
    /\ \A i \in DOMAIN answer.headers \ sent : \E name \in DOMAIN envelope.headers :
         \E k \in DOMAIN envelope.headers[name] : envelope.headers[name][k] = answer.headers[i].value

(* What finish_page_response does to the headers. *)
LEMMA FinishedHeaders ==
    ASSUME NEW answer \in PageAnswer, NEW head, NEW sent,
           sent = {i \in DOMAIN answer.headers : answer.headers[i].name \in {"set-cookie", "Set-Cookie"}}
    PROVE  Arrived(Envelope(FinishPageResponse(answer, head)), answer, sent)
<1> DEFINE headers == answer.headers
           n == Len(headers)
           rest == (1..n) \ sent
           c == Cardinality(sent)
           others == Pick(headers, rest)
           cookies == Pick(headers, sent)
           lowered == [i \in DOMAIN others |-> [others[i] EXCEPT !.name = Lower(@)]]
           envelope == Envelope(FinishPageResponse(answer, head))
<1>1. /\ headers \in Seq(PageHeader) /\ n \in Nat /\ DOMAIN headers = 1..n
      /\ \A i \in 1..n : headers[i] \in PageHeader
    BY DEF PageAnswer
<1>2. sent = Cookies(headers) /\ sent \subseteq 1..n /\ rest \subseteq 1..n
    BY <1>1, CookieNames DEF Cookies
<1>3. \A i \in rest : Lower(headers[i].name) # "set-cookie"
    BY <1>1, CookieNames DEF IsCookie
<1>4. envelope.headers = Grouped(lowered) /\ envelope.cookies = [i \in DOMAIN cookies |-> cookies[i].value]
    BY <1>1, <1>2 DEF Envelope, FinishPageResponse
<1> HIDE DEF rest, n, c, headers, envelope
<1>5. /\ DOMAIN cookies = 1..c /\ c \in Nat
      /\ \A i \in sent : Rank(sent, i) \in DOMAIN cookies /\ cookies[Rank(sent, i)] = headers[i]
    <2>1. c \in Nat
        BY <1>1, <1>2, PlaceFacts DEF c
    <2>2. DOMAIN Pick(headers, sent) = 1..Cardinality(sent)
        BY <1>1, <1>2, PickFacts
    <2>3. \A i \in sent : /\ Rank(sent, i) \in DOMAIN Pick(headers, sent)
                          /\ Pick(headers, sent)[Rank(sent, i)] = headers[i]
        BY <1>1, <1>2, PickAt
    <2> QED
        BY <2>1, <2>2, <2>3 DEF c
<1>6. /\ DOMAIN others = 1..Cardinality(rest) /\ Cardinality(rest) \in Nat
      /\ \A k \in DOMAIN others : Nth(rest, k) \in rest /\ others[k] = headers[Nth(rest, k)]
      /\ \A i \in rest : Rank(rest, i) \in DOMAIN others /\ others[Rank(rest, i)] = headers[i]
    <2>1. Cardinality(rest) \in Nat
        BY <1>1, <1>2, PlaceFacts
    <2>2. /\ DOMAIN others = 1..Cardinality(rest)
          /\ \A k \in 1..Cardinality(rest) : Nth(rest, k) \in rest /\ others[k] = headers[Nth(rest, k)]
        BY <1>1, <1>2, PickFacts
    <2>3. \A i \in rest : Rank(rest, i) \in DOMAIN others /\ others[Rank(rest, i)] = headers[i]
        BY <1>1, <1>2, PickAt
    <2> QED
        BY <2>1, <2>2, <2>3
<1> HIDE DEF others, cookies
<1>7. /\ Len(envelope.cookies) = c
      /\ \A i \in sent : envelope.cookies[Rank(sent, i)] = headers[i].value
    BY <1>4, <1>5
<1>8. \A k \in DOMAIN others : /\ lowered[k].name = Lower(others[k].name) /\ lowered[k].value = others[k].value
                               /\ lowered[k].name # "set-cookie"
    <2> SUFFICES ASSUME NEW k \in DOMAIN others
                 PROVE  /\ lowered[k].name = Lower(others[k].name) /\ lowered[k].value = others[k].value
                        /\ lowered[k].name # "set-cookie"
        OBVIOUS
    <2>1. others[k] \in PageHeader
        BY <1>1, <1>2, <1>6
    <2>2. lowered[k] = [others[k] EXCEPT !.name = Lower(others[k].name)]
        OBVIOUS
    <2>3. /\ [others[k] EXCEPT !.name = Lower(others[k].name)].name = Lower(others[k].name)
          /\ [others[k] EXCEPT !.name = Lower(others[k].name)].value = others[k].value
        BY <2>1 DEF PageHeader
    <2>4. Lower(others[k].name) # "set-cookie"
        BY <1>3, <1>6
    <2> HIDE DEF lowered
    <2> QED
        BY <2>2, <2>3, <2>4
<1>9. DOMAIN lowered = 1..Cardinality(rest)
    BY <1>6
<1> HIDE DEF lowered
<1>10. "set-cookie" \notin DOMAIN envelope.headers
    <2>1. DOMAIN Grouped(lowered) = {lowered[k].name : k \in DOMAIN lowered}
        BY DEF Grouped
    <2> QED
        BY <1>4, <1>6, <1>8, <1>9, <2>1
<1>11. ASSUME NEW i \in rest
       PROVE  \E name \in DOMAIN envelope.headers : \E k \in DOMAIN envelope.headers[name] :
                envelope.headers[name][k] = headers[i].value
    <2> DEFINE r == Rank(rest, i)
    <2>1. r \in 1..Cardinality(rest) /\ lowered[r].value = headers[i].value
        BY <1>6, <1>8
    <2> HIDE DEF r
    <2>2. lowered[r].name \in DOMAIN Grouped(lowered)
        BY <1>6, <1>9, <2>1, GroupedFacts, ZenonT(60)
    <2>3. \E k \in DOMAIN Grouped(lowered)[lowered[r].name] :
            Grouped(lowered)[lowered[r].name][k] = lowered[r].value
        BY <1>6, <1>9, <2>1, GroupedFacts
    <2> QED
        BY <1>4, <2>1, <2>2, <2>3
<1> QED
    BY <1>1, <1>7, <1>10, <1>11 DEF Arrived, rest, n, c, headers, envelope

(* Set-Cookie headers arrive one by one, in order and in full, never among   *)
(* the joined headers, and every other value arrives under a name of its own *)
(* (page_http.rs:204-220, aws.rs:162-178).                                   *)
THEOREM CookiesArrive == Spec => []CookiesSurvive
<1>1. IInv /\ Settled => CookiesSurvive
    <2> SUFFICES ASSUME IInv, Settled, NEW s \in Slots, Replied(s), calls[s] # <<>>,
                        reply[s] # Envelope(Text(500))
                 PROVE  LET answer == IF calls[s] = <<"admit">> THEN page.rejection ELSE page.finalized
                            sent == {i \in DOMAIN answer.headers : answer.headers[i].name \in {"set-cookie", "Set-Cookie"}}
                        IN  /\ "set-cookie" \notin DOMAIN reply[s].headers
                            /\ Len(reply[s].cookies) = Cardinality(sent)
                            /\ \A i \in sent :
                                 reply[s].cookies[Cardinality({j \in sent : j <= i})] = answer.headers[i].value
                            /\ \A i \in DOMAIN answer.headers \ sent : \E n \in DOMAIN reply[s].headers :
                                 \E k \in DOMAIN reply[s].headers[n] : reply[s].headers[n][k] = answer.headers[i].value
        BY DEF CookiesSurvive
    <2> DEFINE answer == IF calls[s] = <<"admit">> THEN page.rejection ELSE page.finalized
               sent == {i \in DOMAIN answer.headers : answer.headers[i].name \in {"set-cookie", "Set-Cookie"}}
               head == s[2] = "HEAD"
               envelope == Envelope(FinishPageResponse(answer, head))
    <2>1. answer \in PageAnswer /\ answer = Answer(s)
        BY PageAssumption DEF IInv, TypeOK, Answer
    <2> HIDE DEF answer, head
    <2>2. reply[s] = ToWire(s, FinishPageResponse(answer, head))
        BY <2>1, SMTT(40) DEF Settled, SettledAt, head
    <2>3. reply[s] = envelope
        BY <2>2 DEF ToWire, ToEvent, ToResponse
    <2>4. sent = {i \in DOMAIN answer.headers : answer.headers[i].name \in {"set-cookie", "Set-Cookie"}}
        OBVIOUS
    <2> HIDE DEF sent
    <2>5. Arrived(envelope, answer, sent)
        BY <2>1, <2>4, FinishedHeaders
    <2> HIDE DEF envelope
    <2>6. \A i \in sent : Rank(sent, i) = Cardinality({j \in sent : j <= i})
        BY DEF Rank
    <2>7. /\ "set-cookie" \notin DOMAIN reply[s].headers
          /\ Len(reply[s].cookies) = Cardinality(sent)
          /\ \A i \in sent : reply[s].cookies[Cardinality({j \in sent : j <= i})] = answer.headers[i].value
          /\ \A i \in DOMAIN answer.headers \ sent : \E n \in DOMAIN reply[s].headers :
               \E k \in DOMAIN reply[s].headers[n] : reply[s].headers[n][k] = answer.headers[i].value
        BY <2>3, <2>5, <2>6 DEF Arrived
    <2> QED
        BY <2>7 DEF answer, sent
<1> QED
    BY <1>1, Settlement, PTL

-----------------------------------------------------------------------------
(* THE HEADERS BOTH HOSTS SEE *)

Places(headers, name) == {k \in DOMAIN headers : headers[k].name = name}

LEMMA NamedOne ==
    ASSUME NEW headers, NEW n \in Nat, DOMAIN headers = 1..n, NEW name, NEW r, Places(headers, name) = {r}
    PROVE  /\ Len(Named(headers, name)) = 1 /\ DOMAIN Named(headers, name) = 1..1
           /\ Named(headers, name)[1] = headers[r]
<1>1. Named(headers, name) = Pick(headers, {r})
    BY DEF Named, Places
<1>2. {r} \subseteq 1..n
    BY DEF Places
<1>3. Cardinality({r}) = 1
    BY FS_Singleton
<1>4. DOMAIN Pick(headers, {r}) = 1..1 /\ Len(Pick(headers, {r})) = 1
    BY <1>2, <1>3, PickFacts
<1>5. Nth({r}, 1) = r /\ Pick(headers, {r})[1] = headers[Nth({r}, 1)]
    BY <1>2, <1>3, PickFacts
<1> QED
    BY <1>1, <1>4, <1>5

LEMMA NamedNone ==
    ASSUME NEW headers, NEW n \in Nat, DOMAIN headers = 1..n, NEW name, Places(headers, name) = {}
    PROVE  Len(Named(headers, name)) = 0 /\ DOMAIN Named(headers, name) = 1..0
<1>1. Named(headers, name) = Pick(headers, {})
    BY DEF Named, Places
<1>2. {} \subseteq 1..n /\ Cardinality({}) = 0
    BY FS_EmptySet
<1>3. DOMAIN Pick(headers, {}) = 1..0 /\ Len(Pick(headers, {})) = 0
    BY <1>2, PickFacts
<1> QED
    BY <1>1, <1>3

(* A name that was sent has one or more values. *)
LEMMA NamedSome ==
    ASSUME NEW headers, NEW n \in Nat, DOMAIN headers = 1..n, NEW name, Places(headers, name) # {}
    PROVE  /\ Len(Named(headers, name)) \in Nat /\ Len(Named(headers, name)) >= 1
           /\ DOMAIN Named(headers, name) = 1..Len(Named(headers, name))
<1> DEFINE places == Places(headers, name)
<1>1. Named(headers, name) = Pick(headers, places) /\ places \subseteq 1..n
    BY DEF Named, Places
<1> HIDE DEF places
<1>2. /\ DOMAIN Pick(headers, places) = 1..Cardinality(places)
      /\ Len(Pick(headers, places)) = Cardinality(places) /\ Cardinality(places) \in Nat
    BY <1>1, PickFacts, PlaceFacts
<1>3. PICK i \in places : TRUE
    BY DEF places
<1>4. Rank(places, i) \in 1..Cardinality(places)
    BY <1>1, PlaceFacts
<1> QED
    BY <1>1, <1>2, <1>4

(* API Gateway hands over each name once, in no more headers than were sent; *)
(* a joined header has the length of its parts and their commas.             *)
LEMMA AwsHeaderFacts ==
    ASSUME NEW fields, NEW n \in Nat, DOMAIN fields = 1..n
    PROVE  /\ Len(AwsHeaders(fields)) \in Nat /\ DOMAIN AwsHeaders(fields) = 1..Len(AwsHeaders(fields))
           /\ Len(AwsHeaders(fields)) <= n
           /\ \A name : Places(fields, name) = {} => Places(AwsHeaders(fields), name) = {}
           /\ \A name : Places(fields, name) # {} =>
                \E r \in DOMAIN AwsHeaders(fields) :
                  LET same == Named(fields, name)
                  IN  /\ Places(AwsHeaders(fields), name) = {r}
                      /\ AwsHeaders(fields)[r].bytes =
                           Sum([k \in DOMAIN same |-> same[k].bytes]) + Len(same) - 1
                      /\ AwsHeaders(fields)[r].comma = (Len(same) > 1 \/ same[1].comma)
<1> DEFINE aws == AwsHeaders(fields)
           firsts == {i \in DOMAIN fields : \A j \in 1..(i - 1) : fields[j].name # fields[i].name}
           c == Cardinality(firsts)
           size(name) == LET same == Named(fields, name)
                         IN  Sum([k \in DOMAIN same |-> same[k].bytes]) + Len(same) - 1
           comma(name) == LET same == Named(fields, name) IN Len(same) > 1 \/ same[1].comma
<1>1. aws = [k \in 1..c |-> [name |-> fields[Nth(firsts, k)].name, sort |-> "plain",
                             bytes |-> size(fields[Nth(firsts, k)].name),
                             comma |-> comma(fields[Nth(firsts, k)].name)]]
    BY DEF AwsHeaders
<1>2. firsts \subseteq 1..n
    OBVIOUS
<1>3. \A i, j \in firsts : fields[i].name = fields[j].name => i = j
    <2> SUFFICES ASSUME NEW i \in firsts, NEW j \in firsts, fields[i].name = fields[j].name, i < j PROVE FALSE
        BY <1>2
    <2>1. i \in 1..(j - 1)
        BY <1>2
    <2> QED
        BY <2>1
<1>4. ASSUME NEW i \in 1..n PROVE \E f \in firsts : fields[f].name = fields[i].name
    <2> DEFINE T == {j \in 1..n : fields[j].name = fields[i].name}
    <2>1. T \subseteq Nat /\ T # {}
        OBVIOUS
    <2>2. PICK f \in T : \A j \in T : f <= j
        <3> HIDE DEF T
        <3> QED
            BY <2>1, Routing!LeastNatural
    <2>3. \A j \in 1..(f - 1) : j \in 1..n /\ ~(f <= j)
        OBVIOUS
    <2>4. f \in firsts
        BY <2>2, <2>3
    <2> QED
        BY <2>4
<1> HIDE DEF aws, firsts, size, comma
<1>5. c \in Nat /\ c <= n
    <2>1. IsFiniteSet(1..n) /\ Cardinality(1..n) = n
        BY FS_Interval
    <2>2. c <= Cardinality(1..n) /\ IsFiniteSet(firsts)
        BY <1>2, <2>1, FS_Subset
    <2> QED
        BY <2>1, <2>2, FS_CardinalityType
<1> HIDE DEF c
<1>6. /\ DOMAIN aws = 1..c /\ Len(aws) = c
      /\ \A k \in 1..c : /\ aws[k].name = fields[Nth(firsts, k)].name
                         /\ aws[k].bytes = size(fields[Nth(firsts, k)].name)
                         /\ aws[k].comma = comma(fields[Nth(firsts, k)].name)
    BY <1>1, <1>5
<1>7. /\ \A k \in 1..c : Nth(firsts, k) \in firsts /\ Rank(firsts, Nth(firsts, k)) = k
      /\ \A i \in firsts : Rank(firsts, i) \in 1..c /\ Nth(firsts, Rank(firsts, i)) = i
    BY <1>2, PlaceFacts DEF c
<1>8. ASSUME NEW name, Places(fields, name) = {} PROVE Places(aws, name) = {}
    <2> SUFFICES ASSUME NEW k \in 1..c, aws[k].name = name PROVE FALSE
        BY <1>6 DEF Places
    <2>1. Nth(firsts, k) \in DOMAIN fields /\ fields[Nth(firsts, k)].name = name
        BY <1>2, <1>6, <1>7
    <2> QED
        BY <1>8, <2>1 DEF Places
<1>9. ASSUME NEW name, Places(fields, name) # {}
      PROVE  \E r \in DOMAIN aws :
               Places(aws, name) = {r} /\ aws[r].bytes = size(name) /\ aws[r].comma = comma(name)
    <2>1. PICK i \in 1..n : fields[i].name = name
        BY <1>9 DEF Places
    <2>2. PICK f \in firsts : fields[f].name = name
        BY <1>4, <2>1
    <2> DEFINE r == Rank(firsts, f)
    <2>3. r \in 1..c /\ Nth(firsts, r) = f
        BY <1>7
    <2> HIDE DEF r
    <2>4. aws[r].name = name /\ aws[r].bytes = size(name) /\ aws[r].comma = comma(name)
        BY <1>6, <2>2, <2>3
    <2>5. \A k \in 1..c : aws[k].name = name => k = r
        <3> SUFFICES ASSUME NEW k \in 1..c, aws[k].name = name PROVE k = r
            OBVIOUS
        <3>1. Nth(firsts, k) \in firsts /\ fields[Nth(firsts, k)].name = name
            BY <1>6, <1>7
        <3>2. Nth(firsts, k) = f
            BY <1>3, <2>2, <3>1
        <3> QED
            BY <1>7, <2>3, <3>2
    <2>6. Places(aws, name) = {r}
        BY <1>6, <2>3, <2>4, <2>5 DEF Places
    <2> QED
        BY <1>6, <2>3, <2>4, <2>6
<1> QED
    BY <1>5, <1>6, <1>8, <1>9 DEF aws, size, comma

(* A sensitive name is ambiguous on both hosts or on none. *)
LEMMA AmbiguityAgrees ==
    ASSUME NEW fields \in Seq(BrowserHeader)
    PROVE  Ambiguous(AwsHeaders(fields)) <=> Ambiguous(fields)
<1> DEFINE aws == AwsHeaders(fields)
           n == Len(fields)
           twice(headers, name) ==
             LET values == Named(headers, name)
             IN  Len(values) > 1 \/ \E i \in DOMAIN values : values[i].comma
<1>1. n \in Nat /\ DOMAIN fields = 1..n
    OBVIOUS
<1> HIDE DEF n, aws
<1>2. Len(aws) \in Nat /\ DOMAIN aws = 1..Len(aws)
    BY <1>1, AwsHeaderFacts DEF aws
<1>3. ASSUME NEW name PROVE twice(aws, name) <=> twice(fields, name)
    <2>1. CASE Places(fields, name) = {}
        <3>1. Places(aws, name) = {}
            BY <1>1, <2>1, AwsHeaderFacts DEF aws
        <3>2. /\ Len(Named(aws, name)) = 0 /\ DOMAIN Named(aws, name) = 1..0
              /\ Len(Named(fields, name)) = 0 /\ DOMAIN Named(fields, name) = 1..0
            BY <1>1, <1>2, <2>1, <3>1, NamedNone
        <3>3. 1..0 = {} /\ ~(0 > 1)
            OBVIOUS
        <3>4. \A headers : Len(Named(headers, name)) = 0 /\ DOMAIN Named(headers, name) = 1..0 =>
                             ~twice(headers, name)
            BY <3>3
        <3> HIDE DEF twice
        <3> QED
            BY <3>2, <3>4
    <2>2. CASE Places(fields, name) # {}
        <3> DEFINE same == Named(fields, name)
        <3>1. PICK r \in DOMAIN aws :
                Places(aws, name) = {r} /\ aws[r].comma = (Len(same) > 1 \/ same[1].comma)
            BY <1>1, <2>2, AwsHeaderFacts DEF aws
        <3>2. /\ Len(Named(aws, name)) = 1 /\ DOMAIN Named(aws, name) = 1..1
              /\ Named(aws, name)[1] = aws[r]
            BY <1>2, <3>1, NamedOne
        <3>3. Len(same) \in Nat /\ Len(same) >= 1 /\ DOMAIN same = 1..Len(same)
            BY <1>1, <2>2, NamedSome
        <3> HIDE DEF same
        <3>4. twice(aws, name) <=> (Len(same) > 1 \/ same[1].comma)
            <4>1. aws[r].comma <=> (Len(same) > 1 \/ same[1].comma)
                BY <3>1
            <4>2. ~(1 > 1) /\ 1 \in 1..1 /\ \A i \in 1..1 : i = 1
                OBVIOUS
            <4>3. twice(aws, name) <=> Named(aws, name)[1].comma
                BY <3>2, <4>2, Zenon
            <4>4. Named(aws, name)[1].comma <=> aws[r].comma
                BY <3>2
            <4> HIDE DEF twice
            <4> QED
                BY <4>1, <4>3, <4>4, Zenon
        <3>5. (Len(same) > 1 \/ \E i \in DOMAIN same : same[i].comma) <=> (Len(same) > 1 \/ same[1].comma)
            <4>1. CASE Len(same) > 1
                BY <4>1
            <4>2. CASE Len(same) = 1
                <5>1. \A i \in DOMAIN same : i = 1
                    BY <3>3, <4>2
                <5>2. 1 \in DOMAIN same
                    BY <3>3, <4>2
                <5> QED
                    BY <5>1, <5>2
            <4> QED
                BY <3>3, <4>1, <4>2
        <3> QED
            BY <3>4, <3>5 DEF same
    <2> QED
        BY <2>1, <2>2
<1>4. \A headers : Ambiguous(headers) <=>
        \E name \in {"host", "authorization", "content-length"} : twice(headers, name)
    BY DEF Ambiguous
<1> HIDE DEF twice
<1> QED
    BY <1>3, <1>4 DEF aws

(* A name without two values is not sent twice. *)
LEMMA SentOnce ==
    ASSUME NEW fields, NEW n \in Nat, DOMAIN fields = 1..n, NEW name,
           ~(Len(Named(fields, name)) > 1),
           NEW i \in 1..n, NEW j \in 1..n, fields[i].name = name, fields[j].name = name
    PROVE  i = j
<1> DEFINE places == Places(fields, name)
           c == Cardinality(places)
<1>1. Named(fields, name) = Pick(fields, places) /\ places \subseteq 1..n
    BY DEF Named, Places
<1>2. i \in places /\ j \in places
    BY DEF Places
<1> HIDE DEF places
<1>3. Len(Named(fields, name)) = c /\ c \in Nat
    BY <1>1, PickFacts, PlaceFacts
<1>4. /\ Rank(places, i) \in 1..c /\ Nth(places, Rank(places, i)) = i
      /\ Rank(places, j) \in 1..c /\ Nth(places, Rank(places, j)) = j
    BY <1>1, <1>2, PlaceFacts
<1> HIDE DEF c
<1>5. \A k, m \in 1..c : k = m
    BY <1>3
<1>6. Rank(places, i) = Rank(places, j)
    BY <1>4, <1>5
<1> QED
    BY <1>4, <1>6

(* Nothing is left to count but what comes up to i. *)
LEMMA NthOfAll ==
    ASSUME NEW n \in Nat
    PROVE  Cardinality(1..n) = n /\ \A k \in 1..n : Nth(1..n, k) = k
<1>1. \A m \in Nat : Cardinality(1..m) = m
    BY FS_Interval
<1>2. ASSUME NEW k \in 1..n PROVE Nth(1..n, k) = k
    <2> DEFINE i == Nth(1..n, k)
    <2>1. i \in 1..n /\ Rank(1..n, i) = k
        BY <1>1, PlaceFacts
    <2> HIDE DEF i
    <2>2. {j \in 1..n : j <= i} = 1..i /\ i \in Nat
        BY <2>1
    <2>3. Rank(1..n, i) = i
        BY <1>1, <2>2 DEF Rank
    <2> QED
        BY <2>1, <2>3 DEF i
<1> QED
    BY <1>1, <1>2

LEMMA SumOfJust ==
    ASSUME NEW b \in Nat, NEW sizes \in [1..1 -> Nat], sizes[1] = b
    PROVE  Sum(sizes) = b
<1>1. sizes \in Seq(Nat) /\ Len(sizes) = 1
    BY IsSequence
<1>2. PICK sums : Partial(sums, sizes) /\ Sum(sizes) = sums[1]
    BY <1>1, SumRun
<1>3. sums[0] = 0 /\ sums[1] = sums[0] + sizes[1]
    BY <1>1, <1>2 DEF Partial
<1> QED
    BY <1>2, <1>3

(* API Gateway hands over headers of plain text as they are, when no name    *)
(* was sent twice.                                                           *)
LEMMA DistinctHeaders ==
    ASSUME NEW fields \in Seq(BrowserHeader),
           \A i \in DOMAIN fields : fields[i].sort = "plain",
           \A i, j \in DOMAIN fields : fields[i].name = fields[j].name => i = j
    PROVE  AwsHeaders(fields) = fields
<1> DEFINE n == Len(fields)
           firsts == {i \in DOMAIN fields : \A j \in 1..(i - 1) : fields[j].name # fields[i].name}
           header(k) == LET same == Named(fields, fields[k].name)
                        IN  [name |-> fields[k].name, sort |-> "plain",
                             bytes |-> Sum([m \in DOMAIN same |-> same[m].bytes]) + Len(same) - 1,
                             comma |-> Len(same) > 1 \/ same[1].comma]
<1>1. n \in Nat /\ DOMAIN fields = 1..n /\ fields = [k \in 1..n |-> fields[k]]
    OBVIOUS
<1>2. firsts = 1..n
    BY <1>1
<1>3. AwsHeaders(fields) = [k \in 1..Cardinality(firsts) |-> header(Nth(firsts, k))]
    BY DEF AwsHeaders
<1>4. Cardinality(1..n) = n /\ \A k \in 1..n : Nth(1..n, k) = k
    BY <1>1, NthOfAll
<1> HIDE DEF n, firsts
<1>5. ASSUME NEW k \in 1..n PROVE header(k) = fields[k]
    <2> DEFINE same == Named(fields, fields[k].name)
               sizes == [m \in DOMAIN same |-> same[m].bytes]
    <2>1. fields[k] \in BrowserHeader /\ fields[k].sort = "plain"
        BY <1>1
    <2>2. /\ fields[k].bytes \in Nat /\ fields[k].comma \in BOOLEAN
          /\ fields[k] = [name |-> fields[k].name, sort |-> "plain",
                          bytes |-> fields[k].bytes, comma |-> fields[k].comma]
        BY <2>1 DEF BrowserHeader
    <2>3. Places(fields, fields[k].name) = {k}
        BY <1>1 DEF Places
    <2>4. Len(same) = 1 /\ DOMAIN same = 1..1 /\ same[1] = fields[k]
        <3>1. n \in Nat /\ DOMAIN fields = 1..n
            BY <1>1
        <3> HIDE DEF same
        <3>2. ASSUME NEW name, Places(fields, name) = {k}
              PROVE  /\ Len(Named(fields, name)) = 1 /\ DOMAIN Named(fields, name) = 1..1
                     /\ Named(fields, name)[1] = fields[k]
            BY <3>1, <3>2, NamedOne
        <3> QED
            BY <2>3, <3>2 DEF same
    <2> HIDE DEF same
    <2>5. sizes \in [1..1 -> Nat] /\ sizes[1] = fields[k].bytes
        BY <2>2, <2>4
    <2> HIDE DEF sizes
    <2>6. Sum(sizes) = fields[k].bytes
        BY <2>2, <2>5, SumOfJust
    <2>7. Sum(sizes) + Len(same) - 1 = fields[k].bytes /\ ~(Len(same) > 1)
        BY <2>2, <2>4, <2>6
    <2>8. (Len(same) > 1 \/ same[1].comma) = fields[k].comma
        BY <2>2, <2>4, <2>7
    <2>9. header(k) = [name |-> fields[k].name, sort |-> "plain",
                       bytes |-> Sum(sizes) + Len(same) - 1,
                       comma |-> Len(same) > 1 \/ same[1].comma]
        BY DEF same, sizes
    <2> HIDE DEF header
    <2> QED
        BY <2>2, <2>7, <2>8, <2>9
<1> HIDE DEF header
<1>6. AwsHeaders(fields) = [k \in 1..n |-> fields[k]]
    BY <1>2, <1>3, <1>4, <1>5
<1> QED
    BY <1>1, <1>6

(* The sum of at most one member is bounded as that member is. *)
LEMMA SumOfOne ==
    ASSUME NEW sizes \in Seq(Nat), Len(sizes) <= 1, NEW M \in Nat, \A i \in 1..Len(sizes) : sizes[i] <= M
    PROVE  Sum(sizes) <= M
<1> DEFINE n == Len(sizes)
<1>1. n \in Nat /\ n <= 1 /\ \A i \in 1..n : sizes[i] \in Nat /\ sizes[i] <= M
    OBVIOUS
<1>2. PICK sums : Partial(sums, sizes) /\ Sum(sizes) = sums[n]
    BY SumRun
<1>3. sums[0] = 0 /\ \A k \in 1..n : sums[k] = sums[k - 1] + sizes[k]
    BY <1>2, PartialFacts
<1> HIDE DEF n
<1>4. CASE n = 0
    BY <1>2, <1>3, <1>4
<1>5. CASE n = 1
    <2>1. sums[1] = sums[0] + sizes[1] /\ sizes[1] \in Nat /\ sizes[1] <= M
        <3>1. 1 \in 1..n /\ 1 - 1 = 0
            BY <1>5
        <3> QED
            BY <1>1, <1>3, <3>1
    <2> QED
        BY <1>2, <1>3, <1>5, <2>1
<1>6. n = 0 \/ n = 1
    BY <1>1
<1> QED
    BY <1>4, <1>5, <1>6

(* Of one small Cookie header both hosts only count the cookies. *)
LEMMA LinesAgree ==
    ASSUME NEW lines \in Seq(CookieLine), Len(lines) <= 1,
           \A i \in DOMAIN lines : LineBytes(lines[i]) <= MaxCookieBytes
    PROVE  BadCookies(FlattenSeq(lines)) <=> BadCookieHeaders(lines)
<1> DEFINE n == Len(lines)
           all == FlattenSeq(lines)
           totals == [i \in DOMAIN lines |-> Sum(lines[i])]
           measured == [i \in DOMAIN lines |-> LineBytes(lines[i])]
<1>1. n \in Nat /\ n <= 1 /\ DOMAIN lines = 1..n /\ \A i \in 1..n : lines[i] \in CookieLine
    OBVIOUS
<1>2. MaxCookieBytes \in Nat /\ MaxCookieTotalBytes \in Nat /\ MaxCookieBytes <= MaxCookieTotalBytes
    BY LimitAssumption
<1>3. lines \in Seq(Seq(Nat))
    <2>1. lines \in [1..n -> Seq(Nat)]
        BY <1>1, LineFacts
    <2> HIDE DEF n
    <2> QED
        BY <1>1, <2>1, IsSequence
<1>4. all \in Seq(Nat) /\ Sum(all) = Sum(totals)
    BY <1>3, FlattenMeasures
<1>5. measured \in Seq(Nat) /\ totals \in Seq(Nat) /\ Len(measured) = n /\ Len(totals) = n
    <2>1. measured \in [1..n -> Nat] /\ totals \in [1..n -> Nat]
        BY <1>1, LineFacts
    <2> HIDE DEF measured, totals, n
    <2> QED
        BY <1>1, <2>1, IsSequence
<1>6. \A i \in 1..n : totals[i] <= MaxCookieBytes /\ measured[i] <= MaxCookieBytes
    <2> SUFFICES ASSUME NEW i \in 1..n PROVE Sum(lines[i]) <= MaxCookieBytes /\ LineBytes(lines[i]) <= MaxCookieBytes
        BY <1>1
    <2>1. /\ Sum(lines[i]) \in Nat /\ LineBytes(lines[i]) \in Nat /\ Sum(lines[i]) <= LineBytes(lines[i])
          /\ LineBytes(lines[i]) <= MaxCookieBytes
        BY <1>1, LineFacts
    <2> QED
        BY <1>2, <2>1
<1>7. \A i \in DOMAIN lines : ~(LineBytes(lines[i]) > MaxCookieBytes)
    <2> SUFFICES ASSUME NEW i \in 1..n PROVE ~(LineBytes(lines[i]) > MaxCookieBytes)
        BY <1>1
    <2>1. LineBytes(lines[i]) \in Nat /\ LineBytes(lines[i]) <= MaxCookieBytes
        BY <1>1, LineFacts
    <2> QED
        BY <1>2, <2>1
<1> HIDE DEF n, totals, measured, all
<1>8. /\ Sum(totals) <= MaxCookieBytes /\ Sum(measured) <= MaxCookieBytes
      /\ Sum(totals) \in Nat /\ Sum(measured) \in Nat
    BY <1>1, <1>2, <1>5, <1>6, SumOfOne, SumType
<1>9. \A i \in DOMAIN all : ~(all[i] > MaxCookieBytes)
    <2> SUFFICES ASSUME NEW i \in 1..Len(all) PROVE ~(all[i] > MaxCookieBytes)
        BY <1>4
    <2>1. all[i] \in Nat /\ all[i] <= Sum(all)
        BY <1>4, SumMember
    <2> QED
        BY <1>2, <1>4, <1>8, <2>1
<1>10. ~(Sum(all) > MaxCookieTotalBytes) /\ ~(Sum(measured) > MaxCookieTotalBytes)
    BY <1>2, <1>4, <1>8
<1>11. BadCookies(all) <=> Len(all) > MaxCookieCount
    BY <1>9, <1>10 DEF BadCookies
<1>12. BadCookieHeaders(lines) <=> Len(all) > MaxCookieCount
    BY <1>7, <1>10 DEF BadCookieHeaders, measured, all
<1> QED
    BY <1>11, <1>12 DEF all

(* Base64 grows with the body, so only a body over the limit is refused for  *)
(* its encoding.                                                             *)
LEMMA EncodedBody ==
    ASSUME NEW body \in Nat, NEW binary
    PROVE  LET encoded == IF binary THEN ((body + 2) \div 3) * 4 ELSE body
           IN  (\/ encoded > (IF binary THEN MaxBase64BodyBytes ELSE MaxPageBodyBytes)
                \/ body > MaxPageBodyBytes)
               <=> body > MaxPageBodyBytes
<1>1. MaxPageBodyBytes \in Nat
    BY LimitAssumption
<1>2. body <= MaxPageBodyBytes => ((body + 2) \div 3) * 4 <= ((MaxPageBodyBytes + 2) \div 3) * 4
    BY <1>1
<1>3. ((body + 2) \div 3) * 4 \in Int /\ ((MaxPageBodyBytes + 2) \div 3) * 4 \in Int
    BY <1>1
<1> QED
    BY <1>1, <1>2, <1>3 DEF MaxBase64BodyBytes

LEMMA SequenceLengths ==
    ASSUME NEW A, NEW B, NEW a \in Seq(A), NEW b \in Seq(B)
    PROVE  Len(a \o b) = Len(a) + Len(b)
<1>1. a \in Seq(A \cup B) /\ b \in Seq(A \cup B)
    OBVIOUS
<1> QED
    BY <1>1

(* GCP counts Cookie headers among the headers. *)
LEMMA GcpFieldCount ==
    ASSUME NEW b, b.fields \in Seq(BrowserHeader), b.lines \in Seq(CookieLine)
    PROVE  Len(GcpFields(b)) = Len(b.fields) + Len(b.lines)
<1> DEFINE k == Len(b.lines)
           field(i) == [name |-> "cookie", bytes |-> LineBytes(b.lines[i]), sort |-> "plain", comma |-> FALSE]
           cookieFields == [i \in DOMAIN b.lines |-> field(i)]
           some == {field(i) : i \in 1..k}
<1>1. k \in Nat /\ DOMAIN b.lines = 1..k
    OBVIOUS
<1>2. GcpFields(b) = b.fields \o cookieFields
    BY DEF GcpFields
<1> HIDE DEF k, field
<1>3. cookieFields \in [1..k -> some]
    BY <1>1
<1> HIDE DEF cookieFields, some
<1>4. cookieFields \in Seq(some) /\ Len(cookieFields) = k
    BY <1>1, <1>3, IsSequence
<1>5. Len(b.fields \o cookieFields) = Len(b.fields) + Len(cookieFields)
    <2> HIDE DEF BrowserHeader
    <2> QED
        BY <1>4, SequenceLengths
<1> QED
    BY <1>2, <1>4, <1>5 DEF k

(* What the two hosts make of an ordinary request: unless GCP finds it too   *)
(* large before it has looked at the cookies, they refuse it alike, and page *)
(* code gets the same input, up to an empty query.                           *)
LEMMA OrdinaryAgrees ==
    ASSUME IInv, Ordinary, NEW m \in Methods
    PROVE  /\ Refusal(<<"gcp", m>>) = 413 \/ Refusal(<<"aws", m>>) = Refusal(<<"gcp", m>>)
           /\ Refusal(<<"gcp", m>>) = 0 =>
                PageInput(Normalized(<<"aws", m>>), patterns) =
                  QueryDropped(PageInput(Normalized(<<"gcp", m>>), patterns))
<1> DEFINE aws == <<"aws", m>>
           gcp == <<"gcp", m>>
           fields == request.fields
           lines == request.lines
           event == AwsEvent(Sent(aws))
<1>1. aws \in Slots /\ gcp \in Slots /\ aws[1] = "aws" /\ gcp[1] = "gcp" /\ aws[2] = m /\ gcp[2] = m
    BY DEF Slots, Hosts
<1>2. request \in BrowserRequest
    BY PageAssumption DEF IInv, TypeOK
<1>3. /\ fields \in Seq(BrowserHeader) /\ lines \in Seq(CookieLine) /\ request.body \in Nat
      /\ request.pathBytes \in Nat /\ request.queryBytes \in Nat \cup {NoQuery}
    BY <1>2 DEF BrowserRequest
<1> HIDE DEF aws, gcp
<1>4. /\ event.pathBytes = request.pathBytes
      /\ event.queryBytes = IF request.queryBytes = NoQuery THEN 0 ELSE request.queryBytes
      /\ event.headers = AwsHeaders(fields) /\ event.cookies = FlattenSeq(lines)
      /\ event.binary = request.binary /\ event.body = request.body
      /\ event.encoded = IF request.binary THEN ((request.body + 2) \div 3) * 4 ELSE request.body
      /\ event.method = m /\ event.path = request.path
    BY <1>1, SentFields DEF AwsEvent
<1>5. Sent(gcp).fields = fields /\ Sent(gcp).lines = lines
    BY <1>1, SentFields
<1>6. GcpFields(Sent(gcp)) = GcpFields(request)
    BY <1>5 DEF GcpFields
<1>7. AwsEvent(request).headers = AwsHeaders(fields)
    BY DEF AwsEvent
<1>8. ~(Len(GcpFields(request)) > MaxHeaderCount) /\ ~(Len(AwsHeaders(fields)) > MaxHeaderCount)
    <2> DEFINE n == Len(fields)
               k == Len(lines)
    <2>1. n \in Nat /\ k \in Nat /\ DOMAIN fields = 1..n
        BY <1>3
    <2>2. Len(GcpFields(request)) = n + k
        BY <1>3, GcpFieldCount
    <2>3. Len(AwsHeaders(fields)) \in Nat /\ Len(AwsHeaders(fields)) <= n
        <3>1. ASSUME NEW sent, NEW c \in Nat, DOMAIN sent = 1..c
              PROVE  Len(AwsHeaders(sent)) \in Nat /\ Len(AwsHeaders(sent)) <= c
            BY <3>1, AwsHeaderFacts
        <3> HIDE DEF n, fields
        <3> QED
            BY <2>1, <3>1
    <2> HIDE DEF n, k, fields
    <2>4. Len(GcpFields(request)) <= MaxHeaderCount /\ MaxHeaderCount \in Nat
        BY LimitAssumption DEF Ordinary
    <2> QED
        BY <2>1, <2>2, <2>3, <2>4
<1>9. HeaderFault(GcpFields(request)) = 0 /\ HeaderFault(AwsHeaders(fields)) = 0
    BY <1>7 DEF Ordinary
<1>10. BadCookies(FlattenSeq(lines)) <=> BadCookieHeaders(lines)
    <2>1. Len(lines) <= 1 /\ \A i \in DOMAIN lines : LineBytes(lines[i]) <= MaxCookieBytes
        BY DEF Ordinary
    <2> HIDE DEF lines
    <2> QED
        BY <1>3, <2>1, LinesAgree
<1>11. /\ Normalized(aws).method = Normalized(gcp).method
       /\ Normalized(aws).path = Normalized(gcp).path
       /\ Normalized(aws).body = Normalized(gcp).body
       /\ Normalized(aws).cookies = Normalized(gcp).cookies
       /\ Normalized(aws).query = IF event.queryBytes = 0 THEN NoQuery ELSE event.queryBytes
       /\ Normalized(gcp).query = request.queryBytes
       /\ Normalized(aws).headers = AwsHeaders(fields) /\ Normalized(gcp).headers = fields
    <2>1. /\ Normalized(aws).method = Supported(m) /\ Normalized(aws).path = request.path
          /\ Normalized(aws).body = request.body /\ Normalized(aws).cookies = FlattenSeq(lines)
          /\ Normalized(aws).query = IF event.queryBytes = 0 THEN NoQuery ELSE event.queryBytes
          /\ Normalized(aws).headers = AwsHeaders(fields)
        <3>1. Normalized(aws) = AwsRequest(AwsEvent(Sent(aws)))
            BY <1>1 DEF Normalized
        <3>2. event = AwsEvent(Sent(aws))
            OBVIOUS
        <3> HIDE DEF event, lines, fields
        <3> QED
            BY <1>4, <3>1, <3>2 DEF AwsRequest
    <2>2. /\ Normalized(gcp).method = Supported(m) /\ Normalized(gcp).path = request.path
          /\ Normalized(gcp).body = request.body /\ Normalized(gcp).cookies = FlattenSeq(lines)
          /\ Normalized(gcp).headers = fields /\ Normalized(gcp).query = request.queryBytes
        BY <1>1, SentFields DEF Normalized, GcpRequest
    <2> QED
        BY <2>1, <2>2
<1> HIDE DEF fields, lines, event
<1>12. StructuralRefusal(Normalized(aws), patterns) = StructuralRefusal(Normalized(gcp), patterns)
    <2>1. Ambiguous(Normalized(aws).headers) <=> Ambiguous(Normalized(gcp).headers)
        BY <1>3, <1>11, AmbiguityAgrees
    <2> QED
        BY <1>11, <2>1, StructuralChecks
<1>13. ASSUME Refusal(gcp) = 0
       PROVE  PageInput(Normalized(aws), patterns) = QueryDropped(PageInput(Normalized(gcp), patterns))
    <2>1. ~Ambiguous(fields)
        <3>1. StructuralRefusal(Normalized(gcp), patterns) = 0
            BY <1>13 DEF Refusal
        <3>2. MatchAnyPath(Normalized(gcp).path, patterns).status # 200 \/ ~Ambiguous(Normalized(gcp).headers)
            BY <3>1, StructuralChecks
        <3>3. MatchAnyPath(Normalized(gcp).path, patterns).status \in {0, 200}
            BY <3>1, StructuralChecks
        <3>4. MatchAnyPath(Normalized(gcp).path, patterns).status \in {200, 400, 404, 500}
            BY DEF MatchAnyPath, Miss, Hit
        <3> QED
            BY <1>11, <3>2, <3>3, <3>4
    <2>2. \A i, j \in DOMAIN fields : fields[i].name = fields[j].name => i = j
        <3> SUFFICES ASSUME NEW i \in DOMAIN fields, NEW j \in DOMAIN fields,
                            fields[i].name = fields[j].name, i # j
                     PROVE  FALSE
            OBVIOUS
        <3>1. fields[i].name \in {"host", "authorization", "content-length"}
            BY DEF Ordinary, fields
        <3>2. ~(Len(Named(fields, fields[i].name)) > 1)
            BY <2>1, <3>1 DEF Ambiguous
        <3>3. Len(fields) \in Nat /\ DOMAIN fields = 1..Len(fields)
            BY <1>3
        <3> QED
            BY <3>2, <3>3, SentOnce
    <2>3. \A i \in DOMAIN fields : fields[i].sort = "plain"
        BY DEF Ordinary, fields
    <2>4. AwsHeaders(fields) = fields
        BY <1>3, <2>2, <2>3, DistinctHeaders
    <2>5. Normalized(aws).query = IF Normalized(gcp).query = 0 THEN NoQuery ELSE Normalized(gcp).query
        BY <1>3, <1>4, <1>11 DEF NoQuery
    <2>6. Normalized(aws).headers = Normalized(gcp).headers
        BY <1>11, <2>4
    <2> QED
        BY <1>11, <2>5, <2>6 DEF PageInput, QueryDropped
<1>14. HostRefusal(aws) = IF request.pathBytes > MaxRawPathBytes \/ request.queryBytes > MaxRawQueryBytes THEN 414
                          ELSE IF BadCookies(FlattenSeq(lines)) THEN 400
                          ELSE IF request.body > MaxPageBodyBytes THEN 413 ELSE 0
    <2> DEFINE over == event.encoded > (IF event.binary THEN MaxBase64BodyBytes ELSE MaxPageBodyBytes)
    <2>1. HostRefusal(aws) = AwsRefusal(event)
        BY <1>1 DEF HostRefusal, event
    <2>2. AwsRefusal(event) = IF event.pathBytes > MaxRawPathBytes \/ event.queryBytes > MaxRawQueryBytes THEN 414
                              ELSE IF BadCookies(event.cookies) THEN 400
                              ELSE IF over \/ event.body > MaxPageBodyBytes THEN 413 ELSE 0
        BY <1>4, <1>8, <1>9, AwsChecks
    <2>3. (over \/ event.body > MaxPageBodyBytes) <=> request.body > MaxPageBodyBytes
        BY <1>3, <1>4, EncodedBody
    <2> HIDE DEF over
    <2>4. event.queryBytes > MaxRawQueryBytes <=> request.queryBytes > MaxRawQueryBytes
        <3>1. event.queryBytes = IF request.queryBytes = NoQuery THEN 0 ELSE request.queryBytes
            BY <1>4
        <3> HIDE DEF event
        <3> QED
            BY <1>3, <3>1, LimitAssumption DEF NoQuery
    <2> QED
        BY <1>4, <2>1, <2>2, <2>3, <2>4
<1>15. HostRefusal(gcp) = IF request.pathBytes > MaxRawPathBytes \/ request.queryBytes > MaxRawQueryBytes THEN 414
                          ELSE IF request.body > MaxPageBodyBytes THEN 413
                          ELSE IF BadCookieHeaders(lines) THEN 400 ELSE 0
    <2>1. /\ GcpHeadRefusal(Sent(gcp)) =
               IF request.pathBytes > MaxRawPathBytes \/ request.queryBytes > MaxRawQueryBytes THEN 414 ELSE 0
          /\ GcpBodyRefusal(Sent(gcp)) =
               IF request.body > MaxPageBodyBytes THEN 413 ELSE IF BadCookieHeaders(lines) THEN 400 ELSE 0
        BY <1>1, <1>5, <1>6, <1>8, <1>9, SentFields, GcpChecks
    <2> QED
        BY <1>1, <2>1 DEF HostRefusal
<1>16. Refusal(gcp) = 413 \/ Refusal(aws) = Refusal(gcp)
    BY <1>10, <1>12, <1>14, <1>15 DEF Refusal
<1> QED
    BY <1>13, <1>16 DEF aws, gcp

(* Both hosts answer an ordinary request alike and give page code the same   *)
(* input, although they normalize it differently (aws.rs:44-122,             *)
(* gcp.rs:51-111, lib.rs:40-108); an empty query, a body GCP could not read, *)
(* or a response it cannot represent, alone tells them apart.                *)
THEOREM HostsAnswerAlike == Spec => []HostsAgree
<1>1. IInv /\ Settled => HostsAgree
    <2> SUFFICES ASSUME IInv, Settled, NEW m \in Methods, Ordinary,
                        Replied(<<"aws", m>>), Replied(<<"gcp", m>>)
                 PROVE  LET aws == <<"aws", m>>
                            gcp == <<"gcp", m>>
                        IN  \/ /\ reply[aws] = reply[gcp] /\ calls[aws] = calls[gcp]
                               /\ input[aws] = QueryDropped(input[gcp])
                            \/ reply[gcp] = Envelope(Text(413))
                            \/ reply[gcp] = Envelope(Text(500)) /\ calls[gcp] # <<>> /\ calls[aws] = calls[gcp]
        BY DEF HostsAgree
    <2> DEFINE aws == <<"aws", m>>
               gcp == <<"gcp", m>>
    <2>1. aws \in Slots /\ gcp \in Slots /\ aws[1] = "aws" /\ gcp[1] = "gcp" /\ aws[2] = m /\ gcp[2] = m
        BY DEF Slots, Hosts
    <2>2. /\ Refusal(gcp) = 413 \/ Refusal(aws) = Refusal(gcp)
          /\ Refusal(gcp) = 0 => PageInput(Normalized(aws), patterns) =
                                   QueryDropped(PageInput(Normalized(gcp), patterns))
        BY OrdinaryAgrees
    <2>3. Replied(aws) /\ Replied(gcp)
        OBVIOUS
    <2> HIDE DEF aws, gcp
    <2>4. SettledAt(aws) /\ SettledAt(gcp)
        BY <2>1 DEF Settled
    <2>5. calls[aws] \in {<<>>, <<"admit">>, <<"admit", "run">>} /\ calls[gcp] \in {<<>>, <<"admit">>, <<"admit", "run">>}
        BY <2>1 DEF IInv, TypeOK
    <2>6. ASSUME calls[gcp] = <<>>, reply[gcp] # Envelope(Text(413))
          PROVE  /\ reply[aws] = reply[gcp] /\ calls[aws] = calls[gcp]
                 /\ input[aws] = QueryDropped(input[gcp])
        <3>1. Refusal(gcp) # 0 /\ reply[gcp] = Envelope(Text(Refusal(gcp))) /\ input[gcp] = NoInput
            BY <2>3, <2>4, <2>6 DEF SettledAt
        <3>2. Refusal(aws) = Refusal(gcp)
            BY <2>2, <2>6, <3>1
        <3>3. calls[aws] = <<>>
            BY <2>4, <3>1, <3>2 DEF SettledAt
        <3>4. input[aws] = NoInput /\ reply[aws] = Envelope(Text(Refusal(aws)))
            BY <2>1, <2>3, <2>4, <3>3 DEF SettledAt
        <3>5. QueryDropped(NoInput) = NoInput
            BY DEF QueryDropped, NoInput, NoQuery
        <3> QED
            BY <2>6, <3>1, <3>2, <3>3, <3>4, <3>5
    <2>7. ASSUME calls[gcp] # <<>>
          PROVE  /\ calls[aws] = calls[gcp] /\ input[aws] = QueryDropped(input[gcp])
                 /\ reply[aws] = reply[gcp] \/ reply[gcp] = Envelope(Text(500))
        <3>1. /\ Refusal(gcp) = 0 /\ input[gcp] = PageInput(Normalized(gcp), patterns)
              /\ page.admits = (calls[gcp] = <<"admit", "run">>)
              /\ reply[gcp] = ToWire(gcp, FinishPageResponse(Answer(gcp), gcp[2] = "HEAD"))
            BY <2>3, <2>4, <2>7 DEF SettledAt
        <3>2. Refusal(aws) = 0
            BY <2>2, <3>1
        <3>3. calls[aws] # <<>>
            BY <2>1, <2>3, <2>4, <3>2 DEF SettledAt
        <3>4. /\ input[aws] = PageInput(Normalized(aws), patterns)
              /\ page.admits = (calls[aws] = <<"admit", "run">>)
              /\ reply[aws] = ToWire(aws, FinishPageResponse(Answer(aws), aws[2] = "HEAD"))
            BY <2>3, <2>4, <3>3 DEF SettledAt
        <3>5. calls[aws] = calls[gcp]
            BY <2>5, <2>7, <3>1, <3>3, <3>4
        <3> DEFINE response == FinishPageResponse(Answer(gcp), m = "HEAD")
        <3>6. reply[gcp] = ToWire(gcp, response) /\ reply[aws] = ToWire(aws, response)
            BY <2>1, <3>1, <3>4, <3>5 DEF Answer
        <3> HIDE DEF response
        <3>7. /\ ToWire(aws, response) = Envelope(response)
              /\ ToWire(gcp, response) \in {Envelope(response), Envelope(Text(500))}
            BY <2>1 DEF ToWire, ToEvent, ToResponse
        <3> QED
            BY <2>2, <3>1, <3>4, <3>5, <3>6, <3>7
    <2> QED
        BY <2>6, <2>7 DEF aws, gcp
<1> QED
    BY <1>1, Settlement, PTL

-----------------------------------------------------------------------------
(* WHAT PAGE CODE SEES *)

(* Page code works on the request that was sent: its method and path, its    *)
(* cookies one by one, and as parameters what the first route names that     *)
(* describes the path, from which the path can be put together again.        *)
PageSeesTheRequest ==
    \A s \in Slots : calls[s] # <<>> =>
        /\ input[s].method = s[2] /\ s[2] \in {"GET", "HEAD"} /\ input[s].path = request.path
        /\ input[s].cookies = FlattenSeq(request.lines)
        /\ \E i \in DOMAIN patterns :
             /\ Routing!Describes(patterns[i].parts)
             /\ \A j \in DOMAIN patterns : Routing!Describes(patterns[j].parts) => i <= j
             /\ input[s].params = Routing!Binding(patterns[i].parts)
        /\ input[s].params = MatchAnyPath(request.path, patterns).params
        /\ MatchAnyPath(request.path, patterns).status = 200
        /\ Routing!PathIsRecoverable

(* The definitions of PagePath mean the same here and there. *)
LEMMA SameMatch ==
    ASSUME NEW path, NEW routes
    PROVE  MatchAnyPath(path, routes) = Routing!MatchAnyPath(path, routes)
<1>1. \A request_, pattern : Matches(request_, pattern) <=> Routing!Matches(request_, pattern)
    BY DEF Matches, Routing!Matches, Walk, Routing!Walk, Advance, Routing!Advance, Join, Routing!Join,
        Seqs!FlattenSeq, Routing!Seqs!FlattenSeq
<1>2. \A request_, parts : Walk(request_, parts) = Routing!Walk(request_, parts)
    BY DEF Walk, Routing!Walk, Advance, Routing!Advance, Join, Routing!Join,
        Seqs!FlattenSeq, Routing!Seqs!FlattenSeq
<1>3. \A segment : Decode(segment) = Routing!Decode(segment)
    BY DEF Decode, Routing!Decode, Decoded, Routing!Decoded
<1>4. BadPath(path) <=> Routing!BadPath(path)
    BY <1>3 DEF BadPath, Routing!BadPath, BadSegment, Routing!BadSegment, Broken, Routing!Broken
<1>5. DecodePathSegments(path) = Routing!DecodePathSegments(path)
    BY <1>3 DEF DecodePathSegments, Routing!DecodePathSegments
<1>6. \A pattern : ValidPattern(pattern) <=> Routing!ValidPattern(pattern)
    BY DEF ValidPattern, Routing!ValidPattern
<1>7. \A request_ : Hits(request_, routes) = Routing!Hits(request_, routes)
    BY <1>1 DEF Hits, Routing!Hits
<1>8. ASSUME NEW request_ PROVE Hit(request_, routes) = Routing!Hit(request_, routes)
    <2>1. \A hits : Seqs!Min(hits) = Routing!Seqs!Min(hits)
        BY DEF Seqs!Min, Routing!Seqs!Min
    <2> DEFINE first == routes[Seqs!Min(Hits(request_, routes))]
    <2>2. first = routes[Routing!Seqs!Min(Routing!Hits(request_, routes))]
        BY <1>7, <2>1
    <2> HIDE DEF first
    <2>3. Walk(request_, first.parts) = Routing!Walk(request_, first.parts)
        BY <1>2
    <2>4. UNION {end.params : end \in Walk(request_, first.parts)} =
            UNION {end.params : end \in Routing!Walk(request_, first.parts)}
        BY <2>3
    <2>5. Routing!Hit(request_, routes) =
            [status |-> 200, params |-> UNION {end.params : end \in Routing!Walk(request_, first.parts)}]
        BY <2>2 DEF Routing!Hit
    <2>6. Hit(request_, routes) =
            [status |-> 200, params |-> UNION {end.params : end \in Walk(request_, first.parts)}]
        BY DEF Hit, first
    <2> QED
        BY <2>4, <2>5, <2>6
<1>9. \A status : Miss(status) = Routing!Miss(status)
    BY DEF Miss, Routing!Miss, NoParams, Routing!NoParams
<1> QED
    BY <1>4, <1>5, <1>6, <1>7, <1>8, <1>9 DEF MatchAnyPath, Routing!MatchAnyPath

(* The routing model holds of every request on its way through invoke_page   *)
(* (lib.rs:55-78, page_http.rs:154-198, 274-422).                            *)
THEOREM PageCodeSeesTheRequest == Spec => []PageSeesTheRequest
<1>1. IInv /\ Settled => PageSeesTheRequest
    <2> SUFFICES ASSUME IInv, Settled, NEW s \in Slots, calls[s] # <<>>
                 PROVE  /\ input[s].method = s[2] /\ s[2] \in {"GET", "HEAD"} /\ input[s].path = request.path
                        /\ input[s].cookies = FlattenSeq(request.lines)
                        /\ \E i \in DOMAIN patterns :
                             /\ Routing!Describes(patterns[i].parts)
                             /\ \A j \in DOMAIN patterns : Routing!Describes(patterns[j].parts) => i <= j
                             /\ input[s].params = Routing!Binding(patterns[i].parts)
                        /\ input[s].params = MatchAnyPath(request.path, patterns).params
                        /\ MatchAnyPath(request.path, patterns).status = 200
                        /\ Routing!PathIsRecoverable
        BY DEF PageSeesTheRequest
    <2> DEFINE match == MatchAnyPath(request.path, patterns)
    <2>1. Refusal(s) = 0 /\ input[s] = PageInput(Normalized(s), patterns)
        BY DEF Settled, SettledAt
    <2>2. /\ Normalized(s).path = request.path /\ Normalized(s).cookies = FlattenSeq(request.lines)
          /\ Normalized(s).method = Supported(s[2])
        BY SentFields DEF Normalized, AwsRequest, AwsEvent, GcpRequest
    <2>3. StructuralRefusal(Normalized(s), patterns) = 0
        BY <2>1 DEF Refusal
    <2>4. match.status = 200
        <3>1. match.status \in {200, 400, 404, 500}
            BY DEF MatchAnyPath, Miss, Hit
        <3> QED
            BY <2>2, <2>3, <3>1, StructuralChecks
    <2>5. /\ input[s].params = match.params /\ input[s].cookies = FlattenSeq(request.lines)
          /\ input[s].path = request.path /\ input[s].method = Supported(s[2])
        BY <2>1, <2>2 DEF PageInput
    <2>10. input[s].method = s[2] /\ s[2] \in {"GET", "HEAD"}
        <3>1. Normalized(s).method # "unsupported"
            BY <2>3, StructuralChecks
        <3> QED
            BY <2>2, <2>5, <3>1 DEF Supported
    <2>6. Routing!IInv
        <3>1. request \in BrowserRequest /\ patterns \in Seq(Patterns)
            BY PageAssumption DEF IInv, TypeOK
        <3>2. request.path \in RawPaths
            BY <3>1 DEF BrowserRequest
        <3>3. request.path \in Routing!RawPaths /\ patterns \in Seq(Routing!Patterns)
            BY <3>1, <3>2 DEF RawPaths, Routing!RawPaths, Tokens, Routing!Tokens, Plain, Routing!Plain,
                Escapes, Routing!Escapes, Broken, Routing!Broken, Patterns, Routing!Patterns, Kinds, Routing!Kinds
        <3>4. match = Routing!MatchAnyPath(request.path, patterns)
            BY SameMatch
        <3> QED
            BY <3>3, <3>4 DEF Routing!IInv
    <2>7. Routing!Routed
        BY <2>4 DEF Routing!Routed, Routing!Pending
    <2>8. PICK i \in DOMAIN patterns :
            /\ Routing!Describes(patterns[i].parts)
            /\ \A j \in DOMAIN patterns : Routing!Describes(patterns[j].parts) => i <= j
            /\ match.params = Routing!Binding(patterns[i].parts)
        BY <2>4, <2>6, <2>7, Routing!FirstHit
    <2>9. Routing!PathIsRecoverable
        BY <2>6, Routing!Recoverable
    <2> QED
        BY <2>4, <2>5, <2>8, <2>9, <2>10
<1> QED
    BY <1>1, Settlement, PTL
=============================================================================
