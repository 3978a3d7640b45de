------------------------------ MODULE Concerns ------------------------------
(***************************************************************************)
(* Repositories made from this template: scripts/scaffold.sh copies and    *)
(* renders the tree, scripts/enable-concern.sh materializes the concerns   *)
(* it is asked for one after the other, and either may fail or be          *)
(* interrupted at any point.  Between runs the owner edits the repository. *)
(*                                                                         *)
(* One repository, one run at a time.  A file is told apart by how much of *)
(* it there is and whether scaffold.sh has put the names of the repository *)
(* in it: "absent", "part" (cp did not finish), "raw", "whole", "link".    *)
(***************************************************************************)
EXTENDS Naturals, Sequences, FiniteSets

CONSTANTS
    Templates,  \* template files considered
    Lists,      \* lists of concerns a run may be asked for
    MaxLost,    \* bound: files one copy of the tree loses
    MaxRuns,    \* bound: runs of the scripts
    MaxEdits    \* bound: edits of the owner

(* The concerns with a template, and the file each of them writes. *)
Source == [middleware |-> "ores-mw.toml", chat |-> "ores-chat.toml", locks |-> "ores-lock.toml",
           shared |-> "shared-auth.toml", compat |-> "shared-auth.toml"]
Target == [middleware |-> ".ores-mw.toml", chat |-> ".ores-chat.toml", locks |-> ".ores-lock.toml",
           shared |-> ".shared-auth.toml", compat |-> ".auth-shared.toml"]
Rival == [shared |-> "compat", compat |-> "shared"]
Baseline == ".ores-otel.toml"
Materialized == {c \in DOMAIN Source : Source[c] \in Templates}
Concerns == Materialized \cup {"otel", "blocked", "unknown"}
Files == {Target[c] : c \in Materialized} \cup {Baseline}

ASSUME ConcernsAssumption ==
    /\ Templates \subseteq {Source[c] : c \in DOMAIN Source}
    /\ Lists \subseteq Seq(Concerns)
    /\ MaxLost \in Nat /\ MaxRuns \in Nat /\ MaxEdits \in Nat

Contents == {"absent", "part", "raw", "whole", "link"}
Stacks == {"absent", "reviewed", "test", "link"}

VARIABLES
    repo,      \* "none", "begun" or "rendered"
    file,      \* its concern files
    template,  \* its copies of the templates
    directory, \* is config/concerns/templates a real directory?
    stack,     \* its config/ores-middleware.stack.json
    pristine,  \* did scaffold.sh make it without middleware, and nothing since
               \* change it but the last run and the owner's care of the stack?
    pc,        \* the running script: "idle", "tar", "render", "concern" or "copy"
    script,    \* which one was started
    request,   \* the concerns it was asked for
    at,        \* the one it is at, 0 if it has not come to them
    before,    \* the files as the first of them found them
    status,    \* exit status of the last run, NoStatus while one is running
    runs, edits

tree == <<repo, file, template, directory, stack>>
vars == <<tree, pristine, pc, script, request, at, before, status, runs, edits>>

NoStatus == 1000
Exists(f) == file[f] # "absent"
Regular(content) == content \notin {"absent", "link"}
Nothing == [f \in Files |-> "absent"]

(* Nothing is there yet, or a repository the owner made. *)
Init ==
    /\ \/ /\ repo = "none" /\ file = Nothing /\ directory = FALSE
          /\ template = [t \in Templates |-> "absent"] /\ stack = "absent"
       \/ /\ repo = "rendered" /\ directory \in BOOLEAN
          /\ \E odd \in Files \cup Templates, content \in {"absent", "whole", "link"} :
                /\ file = [f \in Files |-> IF f = odd THEN content
                                           ELSE IF f = Baseline THEN "whole" ELSE "absent"]
                /\ template = [t \in Templates |-> IF t = odd THEN content ELSE "whole"]
          /\ stack \in Stacks
    /\ pristine = FALSE
    /\ pc = "idle" /\ script = "none" /\ request = <<>> /\ at = 0
    /\ before = file /\ status = NoStatus /\ runs = 0 /\ edits = 0

-----------------------------------------------------------------------------
Run(name, list) ==
    /\ pc = "idle" /\ runs < MaxRuns
    /\ runs' = runs + 1 /\ script' = name /\ request' = list
    /\ pristine' = (pristine /\ script = "scaffold")
    /\ UNCHANGED edits

(* The script exits. *)
End(code) == pc' = "idle" /\ status' = code

Running == UNCHANGED <<script, request, runs, edits>>

(* Mutant: the destination is not looked at. *)
MutScaffold(list) ==
    /\ Run("scaffold", list) /\ at' = 0
    /\ repo' = "begun" /\ pc' = "tar" /\ status' = NoStatus
    /\ UNCHANGED <<file, template, directory, stack, before>>

(* An existing destination is refused; otherwise an empty one is made. *)
Scaffold(list) ==
    /\ Run("scaffold", list) /\ at' = 0
    /\ \/ repo # "none" /\ End(1) /\ UNCHANGED <<tree, before>>
       \/ /\ repo = "none" /\ repo' = "begun"
          /\ pc' = "tar" /\ status' = NoStatus
          /\ UNCHANGED <<file, template, directory, stack, before>>

(* The tree of the template is packed and unpacked.  It holds .ores-mw.toml, *)
(* the baseline, an admissible stack and the templates.  The pipeline has    *)
(* the status of its last command: a file the first tar cannot read is       *)
(* missing without notice, while a failing second tar ends the script.       *)
Copied == {Baseline, ".ores-mw.toml", "stack"} \cup Templates

Tar ==
    /\ pc = "tar"
    /\ \E lost \in SUBSET Copied :
          /\ Cardinality(lost) <= MaxLost
          /\ file' = [f \in Files |-> IF f \in Copied \ lost THEN "raw" ELSE "absent"]
          /\ template' = [t \in Templates |-> IF t \in lost THEN "absent" ELSE "raw"]
          /\ stack' = IF "stack" \in lost THEN "absent" ELSE "reviewed"
    /\ directory' = TRUE
    /\ \/ pc' = "render" /\ UNCHANGED status
       \/ End(2)
    /\ Running /\ UNCHANGED <<repo, pristine, at, before>>

Rendered(contents, names) ==
    [n \in DOMAIN contents |-> IF n \in names /\ contents[n] = "raw" THEN "whole" ELSE contents[n]]

(* sed rewrites the files one by one, and may fail at any of them. *)
Render ==
    /\ pc = "render"
    /\ \/ /\ file' = Rendered(file, Files) /\ template' = Rendered(template, Templates)
          /\ repo' = "rendered"
          /\ IF request = <<>>
             THEN End(0) /\ pristine' = TRUE /\ UNCHANGED <<at, before>>
             ELSE pc' = "concern" /\ at' = 1 /\ before' = file' /\ UNCHANGED <<status, pristine>>
       \/ \E names \in SUBSET (Copied \ {"stack"}) :
             /\ file' = Rendered(file, names) /\ template' = Rendered(template, names)
             /\ End(123) /\ UNCHANGED <<repo, pristine, at, before>>
    /\ Running /\ UNCHANGED <<directory, stack>>

(* enable-concern.sh on its own. *)
Enable(list) ==
    /\ Run("enable", list) /\ before' = file
    /\ \/ (repo = "none" \/ ~directory) /\ End(2) /\ at' = 0
       \/ /\ repo # "none" /\ directory
          /\ pc' = "concern" /\ at' = 1 /\ status' = NoStatus
    /\ UNCHANGED tree

-----------------------------------------------------------------------------
(* Mutant: a link that leads nowhere counts as free. *)
MutFreeFollows(f) == file[f] \in {"absent", "link"}

Free(f) == ~Exists(f)

(* Mutant: only the canonical name is looked for. *)
MutConflictOneWay(c) == c = "compat" /\ ~Free(Target[Rival[c]])

Conflict(c) ==
    /\ c \in DOMAIN Rival
    /\ Rival[c] \in Materialized
    /\ ~Free(Target[Rival[c]])

(* The status concern c is refused with, 0 if it is not. *)
Refusal(c) ==
    CASE c = "otel"    -> IF Regular(file[Baseline]) THEN 0 ELSE 5
      [] c = "blocked" -> 7
      [] c = "unknown" -> 2
      [] OTHER -> IF c = "middleware" /\ stack # "reviewed" THEN 8
                  ELSE IF Conflict(c) THEN 6
                  ELSE IF ~Regular(template[Source[c]]) THEN 3
                  ELSE IF ~Free(Target[c]) THEN 4 ELSE 0

Concern == request[at]
Wanted(i) == {Target[request[j]] : j \in {k \in 1..i : request[k] # "otel"}}
InLoop == pc = "concern" /\ at <= Len(request)

Refuse ==
    /\ InLoop /\ Refusal(Concern) # 0
    /\ End(Refusal(Concern))
    /\ Running /\ UNCHANGED <<tree, pristine, at, before>>

CheckBaseline ==
    /\ InLoop /\ Refusal(Concern) = 0 /\ Concern = "otel"
    /\ at' = at + 1
    /\ Running /\ UNCHANGED <<tree, pristine, pc, before, status>>

(* cp creates the target... *)
CreateTarget ==
    /\ InLoop /\ Refusal(Concern) = 0 /\ Concern # "otel"
    /\ file' = [file EXCEPT ![Target[Concern]] = "part"]
    /\ pc' = "copy"
    /\ Running /\ UNCHANGED <<repo, template, directory, stack, pristine, at, before, status>>

(* Mutant: a failing cp is not noticed. *)
MutCopyUnchecked ==
    /\ pc = "copy"
    /\ \/ file' = [file EXCEPT ![Target[Concern]] = template[Source[Concern]]]
       \/ UNCHANGED file
    /\ pc' = "concern" /\ at' = at + 1 /\ UNCHANGED status
    /\ Running /\ UNCHANGED <<repo, template, directory, stack, pristine, before>>

(* ...and fills it, or fails. *)
Copy ==
    /\ pc = "copy"
    /\ \/ /\ file' = [file EXCEPT ![Target[Concern]] = template[Source[Concern]]]
          /\ pc' = "concern" /\ at' = at + 1 /\ UNCHANGED status
       \/ End(1) /\ UNCHANGED <<file, at>>
    /\ Running /\ UNCHANGED <<repo, template, directory, stack, pristine, before>>

Succeed ==
    /\ pc = "concern" /\ at > Len(request)
    /\ End(0)
    /\ pristine' = (pristine \/ (script = "scaffold" /\ Target["middleware"] \notin Wanted(Len(request))))
    /\ Running /\ UNCHANGED <<tree, at, before>>

Interrupt ==
    /\ pc # "idle"
    /\ End(130)
    /\ Running /\ UNCHANGED <<tree, pristine, at, before>>

-----------------------------------------------------------------------------
(* THE OWNER, between runs *)

Edit ==
    /\ pc = "idle" /\ repo # "none" /\ edits < MaxEdits
    /\ edits' = edits + 1
    /\ at' = 0 /\ status' = NoStatus
    /\ UNCHANGED <<directory, pc, script, request, before, runs>>

ChangeStack ==
    /\ Edit
    /\ stack' \in Stacks \ {stack, "absent"}
    /\ UNCHANGED <<repo, file, template, pristine>>

RemoveFile ==
    /\ Edit
    /\ \E f \in Files : Exists(f) /\ file' = [file EXCEPT ![f] = "absent"]
    /\ pristine' = FALSE
    /\ UNCHANGED <<repo, template, stack>>

RemoveRepository ==
    /\ pc = "idle" /\ repo # "none" /\ edits < MaxEdits /\ edits' = edits + 1
    /\ repo' = "none" /\ file' = Nothing /\ template' = [t \in Templates |-> "absent"]
    /\ directory' = FALSE /\ stack' = "absent" /\ pristine' = FALSE
    /\ at' = 0 /\ status' = NoStatus
    /\ UNCHANGED <<pc, script, request, before, runs>>

Loop == Refuse \/ CheckBaseline \/ CreateTarget \/ Copy \/ Succeed

Next ==
    \/ \E list \in Lists : Scaffold(list) \/ Enable(list)
    \/ Tar \/ Render \/ Loop \/ Interrupt
    \/ ChangeStack \/ RemoveFile \/ RemoveRepository

Spec == Init /\ [][Next]_vars

-----------------------------------------------------------------------------
(* PROPERTIES *)

TypeOK ==
    /\ repo \in {"none", "begun", "rendered"}
    /\ file \in [Files -> Contents] /\ before \in [Files -> Contents]
    /\ template \in [Templates -> Contents]
    /\ directory \in BOOLEAN /\ stack \in Stacks /\ pristine \in BOOLEAN
    /\ pc \in {"idle", "tar", "render", "concern", "copy"}
    /\ script \in {"none", "scaffold", "enable"} /\ request \in Lists \cup {<<>>}
    /\ at \in 0..(Len(request) + 1)
    /\ status \in {NoStatus, 0, 1, 2, 3, 4, 5, 6, 7, 8, 123, 130}
    /\ runs \in 0..MaxRuns /\ edits \in 0..MaxEdits
    /\ pc # "idle" => status = NoStatus /\ repo # "none"
    /\ pc = "tar" => file = Nothing
    /\ pc = "copy" => file[Target[Concern]] = "part"

(* Whatever is enabled in whatever order, in one run or several, interrupted *)
(* or not, the canonical and the compatibility name of the authentication    *)
(* concern are never both there (enable-concern.sh:75-88).                   *)
AuthFilesNeverCoexist ==
    {"shared", "compat"} \subseteq Materialized =>
        ~(Exists(Target["shared"]) /\ Exists(Target["compat"]))

Touched == {f \in Files : file[f] # before[f]}

(* While concerns are enabled, and when a run has ended in whatever way, the *)
(* files that changed are those of the concerns before the one it stopped    *)
(* at, and perhaps part of that one's: nothing that was there is overwritten,*)
(* nothing is skipped (enable-concern.sh:20-34, 38-100).                     *)
FailureIsPrefix ==
    at > 0 =>
        /\ Wanted(at - 1) \subseteq Touched
        /\ \A f \in Touched :
              /\ before[f] = "absent"
              /\ \/ f \in Wanted(at - 1) /\ file[f] # "part"
                 \/ at <= Len(request) /\ f \in Wanted(at) /\ file[f] = "part"

(* A run that reports success made every file it was asked for, in full and  *)
(* itself: what an earlier run left is not taken over, so a list that failed *)
(* after its first file cannot simply be run again.  The names are rendered  *)
(* in them unless the scaffold was cut short (enable-concern.sh:29-33).      *)
SuccessOwnsItsFiles ==
    at > 0 /\ status = 0 => \A f \in Wanted(Len(request)) :
        /\ before[f] = "absent"
        /\ file[f] = "whole" \/ (file[f] = "raw" /\ repo = "begun")

(* docs/runtime-integrations.md:38-52: in a repository scaffolded without    *)
(* middleware, to which the owner then adds a reviewed stack, middleware can *)
(* be enabled.                                                               *)
DocumentedOrderEnables ==
    pristine /\ script = "enable" /\ request = <<"middleware">> /\ stack = "reviewed" =>
        status \notin 2..8
=============================================================================
