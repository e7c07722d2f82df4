----------------------------- MODULE MCAccounts -----------------------------
(***************************************************************************)
(* Two tabs, of one browser or of two, each served by a replica of its own.*)
(***************************************************************************)
EXTENDS Accounts

CONSTANTS r1, r2, t1, t2

MCServes == (t1 :> r1) @@ (t2 :> r2)

Form(path) == <<"POST", <<"", "htmx">> \o path>>

MCVisits ==
  {Form(<<"secret">>), Form(<<"user">>), Form(<<"login">>), Form(<<"signout">>),
   Form(<<"environment">>), <<"DELETE", <<"", "htmx", "environment">>>>,
   Form(<<"token">>), Form(<<"token", "revoke">>),
   <<"POST", <<"", "api", "v1", "environment", "prod", "deployment">>>>}

(* A tab and its replica can change places with the others.                 *)
Symmetry ==
  Permutations(Browser) \cup Permutations(Name)
    \cup {(r1 :> r2) @@ (r2 :> r1) @@ (t1 :> t2) @@ (t2 :> t1)}
=============================================================================
