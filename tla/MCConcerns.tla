----------------------------- MODULE MCConcerns -----------------------------
(* A small instance of Concerns for TLC: both names of the authentication    *)
(* concern, middleware, and one concern that needs nothing of the owner.     *)
EXTENDS Concerns

MCTemplates == {"ores-mw.toml", "ores-chat.toml", "shared-auth.toml"}

(* Every list of up to two concerns, repeated ones included. *)
MCLists == UNION {[1..n -> Concerns] : n \in 0..2}

(* The order the documentation gives. *)
MCDocumentedLists == {<<"chat", "shared">>, <<"middleware">>}
=============================================================================
