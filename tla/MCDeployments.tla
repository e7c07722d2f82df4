--------------------------- MODULE MCDeployments ---------------------------
(***************************************************************************)
(* Small instances of Deployments.  A deployment of module "app" has a     *)
(* database, whose wingman wants a secret before the database is applied,  *)
(* and a server, which needs a string from the user and a value the        *)
(* database's wingman computes.  Module "web" is one a form may name       *)
(* though no service of the deployment belongs to it.                      *)
(***************************************************************************)
EXTENDS Deployments, TLC

CONSTANTS d1, d2, f1, f2

StringLiteral == [form |-> "literal", kind |-> "String"]
Config(m, i) == [form |-> "config", module |-> m, identifier |-> i]
Point(m, i, k) == [module |-> m, identifier |-> i, kind |-> k]

Database(image) ==
  [module |-> "app", name |-> "db", image |-> image, command |-> None,
   env |-> {StringLiteral},
   wingman |-> [image |-> StringLiteral, points |-> {Point("app", "token", "Secret")}]]

Server ==
  [module |-> "app", name |-> "server", image |-> StringLiteral, command |-> StringLiteral,
   env |-> {Config("app", "key"),
            [form |-> "function", provider |-> <<"app", "db">>, points |-> {}, kind |-> "Secret"]},
   wingman |-> None]

MCDeclared == [d \in Deployment |-> {Point("app", "key", "String")}]

(* Both services of every deployment can be applied.                        *)
SoundServices == [d \in Deployment |-> <<Database(StringLiteral), Server>>]

(* Requests are alike: every deployment has the same services.              *)
Symmetry == Permutations(Deployment) \cup Permutations(Form)

(* Nothing has to be asked.                                                 *)
NoQuestions ==
  [d \in Deployment |-> <<[Server EXCEPT !.env = {StringLiteral}]>>]

(* The wingman asks once.                                                   *)
OneQuestion == [d \in Deployment |-> <<Database(StringLiteral)>>]

(* The database's image is a config point, which the code cannot ask for.   *)
DynamicImage == [d \in Deployment |-> <<Database(Config("app", "key")), Server>>]
============================================================================
