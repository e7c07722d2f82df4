------------------------- MODULE ServiceEvaluation -------------------------
(***************************************************************************)
(* What a service of a deployment evaluates to: a definition that can be   *)
(* applied to the cluster, the dynamic config points that still have to be *)
(* answered, an error, or a panic.                                         *)
(*                                                                         *)
(* An expression is an abstract syntax tree whose leaves the code          *)
(* evaluates to a kind of value:                                           *)
(*   [form |-> "literal",  kind |-> k]                                     *)
(*   [form |-> "config",   module |-> m, identifier |-> i]                 *)
(*   [form |-> "function", provider |-> <<m, s>>, points |-> P,            *)
(*                         kind |-> k]                                     *)
(* A "function" is one that only the wingman of service s of module m      *)
(* knows; the wingman asks for the points P before it returns a value.     *)
(* A point, an answered config and a declared config are all records       *)
(* [module, identifier, kind].                                             *)
(***************************************************************************)

CONSTANT None   \* the absent command, wingman or previous deployment

(***************************************************************************)
(* Results: a Go triple (value, points, error).  An unresolved point comes *)
(* with a nil value.                                                       *)
(***************************************************************************)
Value(k)   == [result |-> "value", kind |-> k, points |-> {}]
Missing(P) == [result |-> "points", kind |-> "nil", points |-> P]
Error      == [result |-> "error", kind |-> "nil", points |-> {}]
Panic      == [result |-> "panic", kind |-> "nil", points |-> {}]

(* State.FindConfig, Config.FindConfig and Points.Find. *)
Named(S, m, i) == {p \in S : p.module = m /\ p.identifier = i}

(* (config m i): the stored answer, else the declared point, else an error. *)
EvaluateConfig(m, i, declared, configs) ==
  IF Named(configs, m, i) # {} THEN
    Value((CHOOSE c \in Named(configs, m, i) : TRUE).kind)
  ELSE IF Named(declared, m, i) # {} THEN Missing(Named(declared, m, i))
  ELSE Error

Unanswered(P, configs) == {p \in P : Named(configs, p.module, p.identifier) = {}}

(* A function that is not built in is looked for among the wingmen that run. *)
EvaluateFunction(e, configs, wingmen) ==
  IF e.provider \notin wingmen THEN Error
  ELSE IF Unanswered(e.points, configs) # {} THEN Missing(Unanswered(e.points, configs))
  ELSE Value(e.kind)

EvaluateExpression(e, declared, configs, wingmen) ==
  CASE e.form = "literal"  -> Value(e.kind)
    [] e.form = "config"   -> EvaluateConfig(e.module, e.identifier, declared, configs)
    [] e.form = "function" -> EvaluateFunction(e, configs, wingmen)

(***************************************************************************)
(* The image, the command and the wingman's image must be strings.  Their  *)
(* kind is read before their points are: Kind or String of a nil value     *)
(* panics, so an unresolved point here is never asked for.                 *)
(***************************************************************************)
MustBeString(r) ==
  IF r.result = "points" THEN Panic
  ELSE IF r.result = "value" /\ r.kind # "String" THEN Error
  ELSE r

(* An environment variable may wait for its points, and may be a secret. *)
MustBeEnv(r) ==
  IF r.result = "value" /\ r.kind \notin {"String", "Secret"} THEN Error ELSE r

(* Only called on a service that has a wingman. *)
EvaluateWingman(s, declared, configs, wingmen) ==
  MustBeString(EvaluateExpression(s.wingman.image, declared, configs, wingmen))

(* Service.Evaluate: image, then command, then every environment variable. *)
EvaluateService(s, declared, configs, wingmen) ==
  LET image   == MustBeString(EvaluateExpression(s.image, declared, configs, wingmen))
      command == IF s.command = None THEN Value("String")
                 ELSE MustBeString(EvaluateExpression(s.command, declared, configs, wingmen))
      envs    == {MustBeEnv(EvaluateExpression(e, declared, configs, wingmen)) : e \in s.env}
      points  == UNION {r.points : r \in envs}
  IN  IF image.result # "value" THEN image
      ELSE IF command.result # "value" THEN command
      ELSE IF Error \in envs THEN Error
      ELSE IF points # {} THEN Missing(points)
      ELSE Value("Definition")

Expressions(s) ==
  {s.image} \cup s.env \cup (IF s.command = None THEN {} ELSE {s.command})
            \cup (IF s.wingman = None THEN {} ELSE {s.wingman.image})

(***************************************************************************)
(* What a running wingman still wants configured: it is sent the state and *)
(* answers with the points of its own that the state does not hold.        *)
(***************************************************************************)
WingmanPoints(s, configs) == Unanswered(s.wingman.points, configs)

WingmanOf(s) == <<s.module, s.name>>

(***************************************************************************)
(* FindConfigPoints: what the deployment's page asks for and what its form *)
(* accepts.  The wingman's points come first; the service's own are only   *)
(* looked at when the wingman has none.                                    *)
(***************************************************************************)
FindConfigPoints(s, declared, configs, wingmen) ==
  LET wingman == IF s.wingman = None THEN Value("String")
                 ELSE EvaluateWingman(s, declared, configs, wingmen)
      asked   == IF s.wingman # None /\ WingmanOf(s) \in wingmen
                 THEN WingmanPoints(s, configs) ELSE {}
  IN  IF wingman.result # "value" THEN wingman
      ELSE IF asked # {} THEN Missing(asked)
      ELSE EvaluateService(s, declared, configs, wingmen)
============================================================================
