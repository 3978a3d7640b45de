--------------------------- MODULE ConcernsProofs ---------------------------
(***************************************************************************)
(* For any lists of concerns, any number of runs, of files lost and of     *)
(* edits: types, that the two names of the authentication concern are      *)
(* never both there, that a run leaves a prefix of what it was asked for,  *)
(* and that one that reports success made all of it.                       *)
(***************************************************************************)
EXTENDS Concerns, TLAPS

(* Where the script is, and what it can rely on there. *)
Place ==
    /\ repo = "none" => file = Nothing
    /\ pc \in {"tar", "render"} => at = 0 /\ repo = "begun"
    /\ pc \in {"concern", "copy"} => at > 0
    /\ status = 0 /\ at > 0 => at > Len(request)
    /\ pc = "copy" => /\ at <= Len(request) /\ Concern \in Materialized
                      /\ before[Target[Concern]] = "absent"
                      /\ template[Source[Concern]] \in {"raw", "whole"}

(* A template is never half there, and is rendered unless the scaffold was   *)
(* cut short.                                                                *)
Reviewed == \A t \in Templates : template[t] # "part" /\ (template[t] = "raw" => repo = "begun")

(* What the concerns before this one left is as it should be. *)
Done == at > 0 => \A f \in Wanted(at - 1) : file[f] = "whole" \/ (file[f] = "raw" /\ repo = "begun")

IInv == TypeOK /\ Place /\ Reviewed /\ Done /\ AuthFilesNeverCoexist /\ FailureIsPrefix

-----------------------------------------------------------------------------
(* Concerns with a template have their files among Files. *)
LEMMA TargetFacts ==
    ASSUME NEW c \in Materialized
    PROVE  /\ Target[c] \in Files /\ Source[c] \in Templates
           /\ c \notin {"otel", "blocked", "unknown"}
           /\ Target[c] # Baseline
BY DEF Materialized, Files, Source, Target, Baseline

(* A list names concerns. *)
LEMMA RequestFacts ==
    ASSUME TypeOK
    PROVE  /\ request \in Seq(Concerns) /\ Len(request) \in Nat
           /\ \A i \in 1..Len(request) : request[i] \in Concerns
<1>1. <<>> \in Seq(Concerns)
    OBVIOUS
<1>2. request \in Seq(Concerns)
    BY <1>1, ConcernsAssumption DEF TypeOK
<1> QED
    BY <1>2

(* What the script has checked of a concern it does not refuse. *)
LEMMA RefusalFacts ==
    ASSUME NEW c \in Concerns
    PROVE  /\ Refusal(c) \in 0..8
           /\ Refusal(c) = 0 /\ c # "otel" =>
                /\ c \in Materialized /\ ~Conflict(c) /\ Free(Target[c])
                /\ Regular(template[Source[c]])
<1>1. c \in Materialized \/ c \in {"otel", "blocked", "unknown"}
    BY DEF Concerns
<1>2. c \in Materialized => c \notin {"otel", "blocked", "unknown"}
    BY TargetFacts
<1> QED
    BY <1>1, <1>2 DEF Refusal

(* One more concern adds its file. *)
LEMMA WantedFacts ==
    ASSUME NEW i \in Nat
    PROVE  /\ Wanted(0) = {}
           /\ request[i + 1] = "otel" => Wanted(i + 1) = Wanted(i)
           /\ request[i + 1] # "otel" => Wanted(i + 1) = Wanted(i) \cup {Target[request[i + 1]]}
<1>1. 1..(i + 1) = (1..i) \cup {i + 1}
    OBVIOUS
<1>2. 1..0 = {}
    OBVIOUS
<1> QED
    BY <1>1, <1>2 DEF Wanted
-----------------------------------------------------------------------------
(* The invariant holds initially. *)
LEMMA InvInit == Init => IInv
<1> SUFFICES ASSUME Init PROVE IInv
    OBVIOUS
<1> USE DEF Init
<1>1. MaxLost \in Nat /\ MaxRuns \in Nat /\ MaxEdits \in Nat
    BY ConcernsAssumption
<1>2. /\ file \in [Files -> Contents]
      /\ template \in [Templates -> {"absent", "whole", "link"}]
      /\ stack \in Stacks /\ directory \in BOOLEAN
    BY DEF Contents, Stacks, Nothing
<1>3. TypeOK
    <2>1. Len(<<>>) = 0
        OBVIOUS
    <2>2. repo \in {"none", "rendered"}
        OBVIOUS
    <2>3. /\ before \in [Files -> Contents] /\ file \in [Files -> Contents]
          /\ template \in [Templates -> Contents]
        BY <1>2 DEF Contents
    <2>4. /\ at \in 0..(Len(request) + 1) /\ request \in Lists \cup {<<>>}
        BY <2>1
    <2>5. runs \in 0..MaxRuns /\ edits \in 0..MaxEdits
        BY <1>1
    <2>6. /\ pc = "idle" /\ script = "none" /\ pristine \in BOOLEAN
          /\ status = NoStatus
        OBVIOUS
    <2> QED
        BY <1>2, <2>2, <2>3, <2>4, <2>5, <2>6 DEF TypeOK
<1>4. Place /\ Done /\ FailureIsPrefix
    BY DEF Place, Done, FailureIsPrefix, NoStatus
<1>5. Reviewed
    BY <1>2 DEF Reviewed
<1>6. AuthFilesNeverCoexist
    <2>1. ASSUME NEW f \in Files, NEW g \in Files, Exists(f), Exists(g), f # Baseline, g # Baseline
          PROVE  f = g
        BY <2>1 DEF Exists, Nothing
    <2>2. Target["shared"] # Target["compat"] /\ {"shared", "compat"} \subseteq DOMAIN Target
        BY DEF Target
    <2> QED
        BY <2>1, <2>2, TargetFacts DEF AuthFilesNeverCoexist
<1> QED
    BY <1>3, <1>4, <1>5, <1>6 DEF IInv

(* Nothing of it depends on how a run ended, if that was no success, nor on  *)
(* bounds and history.                                                       *)
LEMMA EndStep ==
    ASSUME IInv, NEW code \in {1, 2, 3, 4, 5, 6, 7, 8, 123, 130}, End(code), pc # "idle",
           UNCHANGED <<tree, pristine, script, request, at, before, runs, edits>>
    PROVE  IInv'
<1> USE DEF IInv, End, tree
<1>1. TypeOK'
    BY DEF TypeOK, NoStatus
<1>2. Place' /\ Reviewed' /\ Done'
    BY DEF Place, Reviewed, Done, Wanted
<1>3. AuthFilesNeverCoexist'
    BY DEF AuthFilesNeverCoexist, Exists
<1>4. FailureIsPrefix'
    BY DEF FailureIsPrefix, Touched, Wanted
<1> QED
    BY <1>1, <1>2, <1>3, <1>4

(* A scaffold starts in an empty directory or not at all. *)
LEMMA ScaffoldStep ==
    ASSUME IInv, NEW list \in Lists, Scaffold(list)
    PROVE  IInv'
<1> USE DEF IInv, Scaffold, Run, End, tree
<1>1. MaxRuns \in Nat /\ list \in Seq(Concerns)
    BY ConcernsAssumption
<1>2. TypeOK'
    BY <1>1 DEF TypeOK, NoStatus, Place
<1>3. Place' /\ Reviewed' /\ Done'
    BY DEF Place, Reviewed, Done, NoStatus, TypeOK
<1>4. AuthFilesNeverCoexist'
    BY DEF AuthFilesNeverCoexist, Exists
<1>5. FailureIsPrefix'
    BY DEF FailureIsPrefix
<1> QED
    BY <1>2, <1>3, <1>4, <1>5

(* So does enable-concern.sh in a repository with templates. *)
LEMMA EnableStep ==
    ASSUME IInv, NEW list \in Lists, Enable(list)
    PROVE  IInv'
<1> USE DEF IInv, Enable, Run, End, tree
<1>1. MaxRuns \in Nat /\ list \in Seq(Concerns) /\ Len(list) \in Nat
    BY ConcernsAssumption
<1>2. TypeOK'
    BY <1>1 DEF TypeOK, NoStatus
<1>3. Wanted(0)' = {}
    BY DEF Wanted
<1>4. Place' /\ Reviewed'
    BY DEF Place, Reviewed, NoStatus
<1>5. Done'
    BY <1>3 DEF Done
<1>6. AuthFilesNeverCoexist'
    BY DEF AuthFilesNeverCoexist, Exists
<1>7. FailureIsPrefix'
    BY <1>3 DEF FailureIsPrefix, Touched
<1> QED
    BY <1>2, <1>4, <1>5, <1>6, <1>7

(* The copied tree has neither name of the authentication concern. *)
LEMMA TarStep == ASSUME IInv, Tar PROVE IInv'
<1> USE DEF IInv, Tar, Running, End
<1>1. PICK lost \in SUBSET Copied :
          /\ file' = [f \in Files |-> IF f \in Copied \ lost THEN "raw" ELSE "absent"]
          /\ template' = [t \in Templates |-> IF t \in lost THEN "absent" ELSE "raw"]
          /\ stack' = IF "stack" \in lost THEN "absent" ELSE "reviewed"
    OBVIOUS
<1>2. at = 0 /\ repo = "begun"
    BY DEF Place
<1>3. TypeOK'
    <2>1. /\ file' \in [Files -> Contents] /\ template' \in [Templates -> Contents]
          /\ stack' \in Stacks
        BY <1>1 DEF Contents, Stacks
    <2> QED
        BY <1>2, <2>1 DEF TypeOK, NoStatus
<1>4. Place' /\ Done'
    BY <1>2 DEF Place, Done
<1>5. Reviewed'
    BY <1>1, <1>2 DEF Reviewed
<1>6. AuthFilesNeverCoexist'
    <2>1. ASSUME {"shared", "compat"} \subseteq Materialized
          PROVE  Target["shared"] \in Files /\ file'[Target["shared"]] = "absent"
        <3>1. Target["shared"] \in Files
            BY <2>1, TargetFacts
        <3>2. Target["shared"] \notin Copied
            BY ConcernsAssumption DEF Target, Copied, Baseline, Source
        <3> QED
            BY <1>1, <3>1, <3>2
    <2> QED
        BY <2>1 DEF AuthFilesNeverCoexist, Exists
<1>7. FailureIsPrefix'
    BY <1>2 DEF FailureIsPrefix
<1> QED
    BY <1>3, <1>4, <1>5, <1>6, <1>7

(* Rendering neither adds nor removes a file. *)
LEMMA RenderedFacts ==
    ASSUME NEW contents, NEW names, NEW S, contents \in [S -> Contents]
    PROVE  /\ Rendered(contents, names) \in [S -> Contents]
           /\ \A n \in S : /\ Rendered(contents, names)[n] = "absent" <=> contents[n] = "absent"
                           /\ Rendered(contents, names)[n] = "part" <=> contents[n] = "part"
                           /\ n \in names => Rendered(contents, names)[n] # "raw"
BY DEF Rendered, Contents

LEMMA RenderStep == ASSUME IInv, Render PROVE IInv'
<1> USE DEF IInv
<1>1. /\ at = 0 /\ repo = "begun" /\ pc = "render"
      /\ file \in [Files -> Contents] /\ template \in [Templates -> Contents]
    BY DEF Place, Render, TypeOK
<1>2. PICK S, T : file' = Rendered(file, S) /\ template' = Rendered(template, T)
                  /\ repo' \in {"begun", "rendered"} /\ (repo' = "rendered" => T = Templates)
    BY <1>1 DEF Render
<1>3. /\ file' \in [Files -> Contents] /\ template' \in [Templates -> Contents]
      /\ \A f \in Files : file'[f] = "absent" <=> file[f] = "absent"
    BY <1>1, <1>2, RenderedFacts
<1>4. /\ UNCHANGED <<script, request, runs, edits, directory, stack>>
      /\ \/ pc' = "idle" /\ status' \in {0, 123} /\ at' = 0 /\ UNCHANGED before
         \/ pc' = "concern" /\ at' = 1 /\ before' = file' /\ UNCHANGED status
      /\ pristine' \in BOOLEAN
    BY <1>1 DEF Render, Running, End, TypeOK
<1>5. Len(request) \in Nat
    BY RequestFacts
<1>6. TypeOK'
    BY <1>1, <1>2, <1>3, <1>4, <1>5 DEF TypeOK, NoStatus
<1>7. Wanted(0)' = {}
    BY DEF Wanted
<1>8. Place'
    BY <1>2, <1>4, <1>1 DEF Place, TypeOK, NoStatus
<1>9. Reviewed'
    <2> SUFFICES ASSUME NEW t \in Templates
                 PROVE  template'[t] # "part" /\ (template'[t] = "raw" => repo' = "begun")
        BY DEF Reviewed
    <2>1. template'[t] # "part"
        BY <1>1, <1>2, RenderedFacts DEF Reviewed
    <2>2. template'[t] = "raw" => repo' = "begun"
        BY <1>1, <1>2, RenderedFacts
    <2> QED
        BY <2>1, <2>2
<1>10. Done' /\ FailureIsPrefix'
    BY <1>4, <1>7 DEF Done, FailureIsPrefix, Touched
<1>11. AuthFilesNeverCoexist'
    BY <1>3, TargetFacts DEF AuthFilesNeverCoexist, Exists
<1> QED
    BY <1>6, <1>8, <1>9, <1>10, <1>11

(* The baseline is passed over. *)
LEMMA BaselineStep == ASSUME IInv, CheckBaseline PROVE IInv'
<1> USE DEF IInv, CheckBaseline, InLoop, Running, tree
<1>1. at \in 1..Len(request) /\ Len(request) \in Nat /\ request[at] = "otel"
    BY RequestFacts DEF Place, TypeOK, Concern
<1>2. Wanted(at) = Wanted(at - 1)
    BY <1>1, WantedFacts
<1>3. (Wanted(at - 1))' = Wanted(at)
    <2>1. at' - 1 = at
        BY <1>1
    <2> QED
        BY <2>1 DEF Wanted
<1>4. TypeOK'
    BY <1>1 DEF TypeOK
<1>5. Place' /\ Reviewed'
    BY <1>1 DEF Place, Reviewed, TypeOK, NoStatus
<1>6. Done'
    BY <1>1, <1>2, <1>3 DEF Done
<1>7. AuthFilesNeverCoexist'
    BY DEF AuthFilesNeverCoexist, Exists
<1>8. FailureIsPrefix'
    <2>1. Touched' = Touched
        BY DEF Touched
    <2>2. /\ Wanted(at) \subseteq Touched
          /\ \A f \in Touched : before[f] = "absent"
                                /\ (f \in Wanted(at) /\ file[f] # "part")
        BY <1>1, <1>2 DEF FailureIsPrefix, Done
    <2> QED
        BY <1>3, <2>1, <2>2 DEF FailureIsPrefix
<1> QED
    BY <1>4, <1>5, <1>6, <1>7, <1>8

(* cp creates a file where there was none, and never the rival of one.       *)
LEMMA CreateStep == ASSUME IInv, CreateTarget PROVE IInv'
<1> DEFINE c == Concern
<1> USE DEF IInv, CreateTarget, InLoop, Running
<1>1. /\ at \in 1..Len(request) /\ Len(request) \in Nat /\ c \in Concerns /\ c # "otel"
      /\ status = NoStatus /\ repo # "none"
    BY RequestFacts DEF Place, TypeOK, Concern
<1>2. /\ c \in Materialized /\ ~Conflict(c) /\ file[Target[c]] = "absent"
      /\ Regular(template[Source[c]])
    BY <1>1, RefusalFacts DEF Free, Exists
<1>3. /\ Target[c] \in Files /\ Source[c] \in Templates
    BY <1>2, TargetFacts
<1>4. template[Source[c]] \in {"raw", "whole"}
    BY <1>2, <1>3 DEF Regular, Reviewed, TypeOK, Contents
<1>5. Target[c] \notin Wanted(at - 1) /\ before[Target[c]] = "absent"
    BY <1>1, <1>2, <1>3 DEF Done, FailureIsPrefix, Touched
<1>6. \A f \in Files : file'[f] = IF f = Target[c] THEN "part" ELSE file[f]
    BY <1>3 DEF TypeOK
<1>7. Wanted(at - 1)' = Wanted(at - 1) /\ Wanted(at)' = Wanted(at)
    BY DEF Wanted
<1>8. Wanted(at) = Wanted(at - 1) \cup {Target[c]}
    BY <1>1, WantedFacts DEF Concern
<1>9. Wanted(at - 1) \subseteq Files
    BY <1>1 DEF FailureIsPrefix, Touched
<1>10. TypeOK'
    <2>1. file' \in [Files -> Contents] /\ file'[Target[c]] = "part"
        BY <1>3, <1>6 DEF TypeOK, Contents
    <2>2. Concern' = c
        BY DEF Concern
    <2> QED
        BY <1>1, <2>1, <2>2 DEF TypeOK
<1>11. Place'
    BY <1>1, <1>2, <1>4, <1>5 DEF Place, Concern, NoStatus
<1>12. Reviewed'
    BY DEF Reviewed
<1>13. Done'
    BY <1>1, <1>5, <1>6, <1>7, <1>9 DEF Done
<1>14. AuthFilesNeverCoexist'
    <2> SUFFICES ASSUME {"shared", "compat"} \subseteq Materialized
                 PROVE  ~(Exists(Target["shared"])' /\ Exists(Target["compat"])')
        BY DEF AuthFilesNeverCoexist, Exists
    <2>1. Target["shared"] \in Files /\ Target["compat"] \in Files
        BY TargetFacts
    <2>2. CASE c \in {"shared", "compat"}
        <3>1. file[Target[Rival[c]]] = "absent"
            BY <1>2, <2>2 DEF Conflict, Rival, Free, Exists
        <3>2. c = "shared" => Rival[c] = "compat"
            BY DEF Rival
        <3>3. c = "compat" => Rival[c] = "shared"
            BY DEF Rival
        <3>4. Target["shared"] # Target["compat"]
            BY DEF Target
        <3> QED
            BY <1>6, <2>1, <2>2, <3>1, <3>2, <3>3, <3>4 DEF Exists
    <2>3. CASE c \notin {"shared", "compat"}
        <3>1. Target[c] \notin {Target["shared"], Target["compat"]}
            BY <1>2, <2>3 DEF Target, Materialized, Source
        <3> QED
            BY <1>6, <2>1, <3>1 DEF Exists, AuthFilesNeverCoexist
    <2> QED
        BY <2>2, <2>3
<1>15. FailureIsPrefix'
    <2>1. Touched' = Touched \cup {Target[c]}
        BY <1>2, <1>3, <1>5, <1>6 DEF Touched
    <2>2. \A f \in Touched : before[f] = "absent" /\ f # Target[c] /\ file'[f] = file[f]
        BY <1>1, <1>2, <1>6 DEF FailureIsPrefix, Touched
    <2> QED
        BY <1>1, <1>3, <1>5, <1>6, <1>7, <1>8, <2>1, <2>2 DEF FailureIsPrefix
<1> QED
    BY <1>10, <1>11, <1>12, <1>13, <1>14, <1>15

(* The created file gets the contents of its template, or stays behind.      *)
LEMMA CopyStep == ASSUME IInv, Copy PROVE IInv'
<1> DEFINE c == Concern
<1> USE DEF IInv
<1>1. CASE End(1) /\ UNCHANGED <<file, at>>
    BY <1>1, EndStep DEF Copy, Running, tree
<1>2. CASE /\ file' = [file EXCEPT ![Target[c]] = template[Source[c]]]
           /\ pc' = "concern" /\ at' = at + 1 /\ UNCHANGED status
    <2> USE <1>2 DEF Copy, Running
    <2>1. /\ at \in 1..Len(request) /\ Len(request) \in Nat /\ c \in Materialized
          /\ status = NoStatus /\ repo # "none" /\ c # "otel"
          /\ file[Target[c]] = "part" /\ before[Target[c]] = "absent"
          /\ template[Source[c]] \in {"raw", "whole"}
        BY RequestFacts, TargetFacts DEF Place, TypeOK
    <2>2. Target[c] \in Files /\ Source[c] \in Templates
        BY <2>1, TargetFacts
    <2>3. \A f \in Files : file'[f] = IF f = Target[c] THEN template[Source[c]] ELSE file[f]
        BY <2>2 DEF TypeOK
    <2>4. (Wanted(at - 1))' = Wanted(at)
        <3>1. at' - 1 = at
            BY <2>1
        <3> QED
            BY <3>1 DEF Wanted
    <2>5. Wanted(at) = Wanted(at - 1) \cup {Target[c]}
        BY <2>1, WantedFacts DEF Concern
    <2>6. Wanted(at - 1) \subseteq Touched
        BY <2>1 DEF FailureIsPrefix
    <2>7. TypeOK'
        <3>1. file' \in [Files -> Contents]
            BY <2>1, <2>2 DEF TypeOK, Contents
        <3> QED
            BY <2>1, <3>1 DEF TypeOK
    <2>8. Place' /\ Reviewed'
        BY <2>1 DEF Place, Reviewed, NoStatus
    <2>9. Done'
        <3>1. template[Source[c]] = "whole" \/ (template[Source[c]] = "raw" /\ repo = "begun")
            BY <2>1, <2>2 DEF Reviewed
        <3> QED
            BY <2>1, <2>2, <2>3, <2>4, <2>5, <2>6, <3>1 DEF Done, Touched
    <2>10. AuthFilesNeverCoexist'
        <3>1. \A f \in Files : file'[f] # "absent" => file[f] # "absent"
            BY <2>1, <2>3
        <3> QED
            BY <3>1, TargetFacts DEF AuthFilesNeverCoexist, Exists
    <2>11. FailureIsPrefix'
        <3>1. Touched' = Touched
            BY <2>1, <2>2, <2>3 DEF Touched
        <3>2. Target[c] \in Touched
            BY <2>1, <2>2 DEF Touched
        <3>3. \A f \in Touched : /\ before[f] = "absent"
                                 /\ f \in Wanted(at) /\ file'[f] # "part"
            <4> SUFFICES ASSUME NEW f \in Touched
                         PROVE  before[f] = "absent" /\ f \in Wanted(at) /\ file'[f] # "part"
                OBVIOUS
            <4>1. f \in Files /\ before[f] = "absent"
                BY <2>1 DEF FailureIsPrefix, Touched
            <4>2. f \in Wanted(at)
                BY <2>1, <2>5 DEF FailureIsPrefix
            <4>3. file'[f] # "part"
                BY <2>1, <2>2, <2>3, <2>5, <4>1, <4>2 DEF Done
            <4> QED
                BY <4>1, <4>2, <4>3
        <3> QED
            BY <2>4, <2>5, <2>6, <3>1, <3>2, <3>3 DEF FailureIsPrefix
    <2> QED
        BY <2>7, <2>8, <2>9, <2>10, <2>11
<1> QED
    BY <1>1, <1>2 DEF Copy

(* A run succeeds when it has come to the end of its list. *)
LEMMA SucceedStep == ASSUME IInv, Succeed PROVE IInv'
<1> USE DEF IInv, Succeed, End, Running, tree
<1>1. TypeOK'
    BY DEF TypeOK, NoStatus
<1>2. Place' /\ Reviewed' /\ Done'
    BY DEF Place, Reviewed, Done, Wanted
<1>3. AuthFilesNeverCoexist'
    BY DEF AuthFilesNeverCoexist, Exists
<1>4. FailureIsPrefix'
    BY DEF FailureIsPrefix, Touched, Wanted
<1> QED
    BY <1>1, <1>2, <1>3, <1>4

(* The owner adds nothing but a stack, between runs. *)
LEMMA OwnerStep ==
    ASSUME IInv, ChangeStack \/ RemoveFile \/ RemoveRepository
    PROVE  IInv'
<1> USE DEF IInv
<1>1. /\ pc = "idle" /\ pc' = "idle" /\ at' = 0 /\ status' = NoStatus
      /\ UNCHANGED <<script, request, before, runs>>
      /\ edits' \in 0..MaxEdits /\ Len(request) \in Nat
    BY ConcernsAssumption, RequestFacts DEF ChangeStack, RemoveFile, RemoveRepository, Edit, TypeOK
<1>2. /\ file' \in [Files -> Contents] /\ template' \in [Templates -> Contents]
      /\ \A f \in Files : file'[f] # "absent" => file[f] # "absent"
      /\ repo' \in {repo, "none"} /\ (repo' = "none" /\ repo # "none" => file' = Nothing)
      /\ stack' \in Stacks /\ directory' \in BOOLEAN /\ pristine' \in BOOLEAN
    <2>1. CASE ChangeStack
        BY <2>1 DEF ChangeStack, Edit, TypeOK
    <2>2. CASE RemoveFile
        BY <2>2 DEF RemoveFile, Edit, TypeOK, Contents
    <2>3. CASE RemoveRepository
        BY <2>3 DEF RemoveRepository, TypeOK, Nothing, Contents, Stacks
    <2> QED
        BY <2>1, <2>2, <2>3
<1>3. TypeOK'
    BY <1>1, <1>2 DEF TypeOK
<1>4. Place' /\ Done' /\ FailureIsPrefix'
    <2>1. repo' = "none" => file' = Nothing
        BY <1>2 DEF ChangeStack, RemoveFile, RemoveRepository, Edit
    <2> QED
        BY <1>1, <2>1 DEF Place, Done, FailureIsPrefix, NoStatus
<1>5. Reviewed'
    <2>1. CASE UNCHANGED <<template, repo>>
        BY <2>1 DEF Reviewed
    <2>2. CASE \A t \in Templates : template'[t] = "absent"
        BY <2>2 DEF Reviewed
    <2> QED
        BY <2>1, <2>2 DEF ChangeStack, RemoveFile, RemoveRepository
<1>6. AuthFilesNeverCoexist'
    BY <1>2, TargetFacts DEF AuthFilesNeverCoexist, Exists
<1> QED
    BY <1>3, <1>4, <1>5, <1>6

(* Every step preserves it. *)
LEMMA InvStep == IInv /\ [Next]_vars => IInv'
<1> SUFFICES ASSUME IInv, [Next]_vars PROVE IInv'
    OBVIOUS
<1>1. CASE Refuse
    <2>1. Refusal(Concern) \in 0..8 /\ Refusal(Concern) # 0
        BY <1>1, RequestFacts, RefusalFacts DEF Refuse, InLoop, Concern, IInv, Place, TypeOK
    <2> QED
        BY <1>1, <2>1, EndStep DEF Refuse, InLoop, Running, tree
<1>2. CASE Interrupt
    BY <1>2, EndStep DEF Interrupt, Running, tree
<1>3. CASE UNCHANGED vars
    BY <1>3 DEF vars, tree, IInv, TypeOK, Place, Reviewed, Done, AuthFilesNeverCoexist, Exists,
       FailureIsPrefix, Touched, Wanted, Concern
<1> QED
    BY <1>1, <1>2, <1>3, ScaffoldStep, EnableStep, TarStep, RenderStep, BaselineStep, CreateStep,
       CopyStep, SucceedStep, OwnerStep DEF Next, Loop

(* The invariant holds throughout. *)
LEMMA Invariance == Spec => []IInv
BY InvInit, InvStep, PTL DEF Spec

-----------------------------------------------------------------------------
(* Type correctness, with what a script can rely on where it is.             *)
THEOREM TypeCorrect == Spec => []TypeOK
<1>1. IInv => TypeOK
    BY DEF IInv
<1> QED
    BY <1>1, Invariance, PTL

(* The canonical and the compatibility name of the authentication concern    *)
(* are never both there, over any sequence of runs, failures, interrupts and *)
(* edits (enable-concern.sh:75-88).                                          *)
THEOREM OneAuthFile == Spec => []AuthFilesNeverCoexist
<1>1. IInv => AuthFilesNeverCoexist
    BY DEF IInv
<1> QED
    BY <1>1, Invariance, PTL

(* However a run ends, it changed the files of a prefix of its list and      *)
(* overwrote nothing (enable-concern.sh:20-34, 38-100).                      *)
THEOREM RunsLeavePrefixes == Spec => []FailureIsPrefix
<1>1. IInv => FailureIsPrefix
    BY DEF IInv
<1> QED
    BY <1>1, Invariance, PTL

(* A run that reports success made every file of its list in full            *)
(* (enable-concern.sh:29-33).                                                *)
THEOREM SuccessIsOwned == Spec => []SuccessOwnsItsFiles
<1>1. IInv => SuccessOwnsItsFiles
    <2> SUFFICES ASSUME IInv, at > 0, status = 0, NEW f \in Wanted(Len(request))
                 PROVE  /\ before[f] = "absent"
                        /\ file[f] = "whole" \/ (file[f] = "raw" /\ repo = "begun")
        BY DEF SuccessOwnsItsFiles
    <2>1. at - 1 = Len(request)
        BY RequestFacts DEF IInv, Place, TypeOK
    <2> QED
        BY <2>1 DEF IInv, Done, FailureIsPrefix
<1> QED
    BY <1>1, Invariance, PTL
=============================================================================
