------------------------------- MODULE Wingman -------------------------------
(***************************************************************************)
(* How a deployment gets the command of one of its services from a wingman:*)
(* the service's own wingman is asked for its config points, then the      *)
(* wingmen of the environment are asked, one after the other, for the      *)
(* function that the command calls, and the text that comes back is split. *)
(* A request is made again each second until it has failed ten times.      *)
(***************************************************************************)
EXTENDS Integers, FiniteSets, Shlex, Values, ServiceEvaluation

CONSTANTS
  Service,    \* the services that have a wingman, a set of <<module, name>>
  Own,        \* the one whose command is wanted
  Points,     \* what each wingman wants to be answered; of module None if it says none
  Answers,    \* what State.Configs may hold from the start
  Additions,  \* what a function may answer by itself
  Phrase      \* the commands that a function may return

ASSUME WingmanAssumption ==
  /\ IsFiniteSet(Service) /\ Own \in Service  \* those of a deployment
  /\ None \notin Phrase
  /\ \A p \in Phrase : IsPhrase(p)

Tries == 10

VARIABLES
  pc,        \* where the goroutine is
  asking,    \* what it asks for: "points" or "function"
  order,     \* the wingmen in the order in which the cluster has listed them
  at,        \* which of them is asked
  tries,     \* the times that the request has failed
  cancelled, \* the goroutine's context
  configs,   \* its State.Configs
  reply,     \* the last one with status 200
  outcome,   \* what the expression, and then the command, evaluates to
  answered,  \* State.Configs as the goroutine has read it, which never changes
  provides   \* the wingmen that know the function, which never changes

surroundings == <<answered, provides>>
vars == <<pc, asking, order, at, tries, cancelled, configs, reply, outcome, surroundings>>

Nothing == [kind |-> "nil", phrase |-> None]

(* GetFunctionResponse, and GetConfigPointsResponse as one that found.      *)
NotFound == [found |-> FALSE, points |-> {}, value |-> Nothing, configs |-> {}]
Found(points, value, theirs) ==
  [found |-> TRUE, points |-> points, value |-> value, configs |-> theirs]

Init ==
  /\ pc = "finding" /\ asking = "points"
  /\ order = <<Own>> /\ at = 1 /\ tries = 0
  /\ cancelled = FALSE
  /\ answered \in Answers /\ configs = answered
  /\ provides \in SUBSET Service
  /\ reply = NotFound
  /\ outcome = None

End(result) ==
  /\ pc' = "done"
  /\ outcome' = result

----------------------------------------------------------------------------
(***************************************************************************)
(* Finding wingmen                                                         *)
(***************************************************************************)

(* One with no service in the cluster is not asked for points.              *)
FindWingman ==
  /\ pc = "finding"
  /\ \/ pc' = "asking" /\ UNCHANGED outcome
     \/ pc' = "listing" /\ UNCHANGED outcome
     \/ End(Error)
  /\ UNCHANGED <<asking, order, at, tries, cancelled, configs, reply, surroundings>>

(* EvaluateFunction lists what has been applied of them, in any order; that *)
(* there is none comes out as an error too, in Registry.Evaluate.           *)
ListWingmen ==
  /\ pc = "listing"
  /\ asking' = "function"
  /\ \/ /\ \E S \in (SUBSET Service) \ {{}} : order' \in SetToSeqs(S)
        /\ at' = 1
        /\ pc' = "asking"
        /\ UNCHANGED outcome
     \/ End(Error) /\ UNCHANGED <<order, at>>
  /\ UNCHANGED <<tries, cancelled, configs, reply, surroundings>>

----------------------------------------------------------------------------
(***************************************************************************)
(* One request                                                             *)
(***************************************************************************)

(* client.Do fails on a cancelled context without asking anybody.           *)
Ask ==
  /\ pc = "asking"
  /\ pc' = IF ~cancelled THEN "waiting" ELSE "pausing"
  /\ UNCHANGED <<asking, order, at, tries, cancelled, configs, reply, outcome, surroundings>>

(* Point.Fill, with the module of a service.                                *)
Fill(points, w) == {[p EXCEPT !.module = IF @ = None THEN w[1] ELSE @] : p \in points}

(* The wingman, which has been sent the state.  Its function has a pointer  *)
(* to it, and what is left there goes back with the points or the value: it *)
(* may have added answers, and have dropped any of those it was sent.       *)
Asked(w, theirs) == {p \in Points[w] : Unanswered(Fill({p}, w), theirs) # {}}

Computed ==
  {[kind |-> k, phrase |-> None] : k \in (Kind \cup {"nil"}) \ {"String"}}
    \cup {[kind |-> "String", phrase |-> p] : p \in Phrase}

Replies(w) ==
  IF asking = "points" THEN {Found(Asked(w, configs), Nothing, {})}
  ELSE IF w \notin provides THEN {NotFound}
  ELSE LET points == Asked(w, configs) IN
       {Found(points, v, theirs) :
          v \in IF points # {} THEN {Nothing} ELSE Computed,
          theirs \in SUBSET (configs \cup Additions)}

Handle ==
  /\ pc = "waiting"
  /\ reply' \in Replies(order[at])
  /\ tries' = 0
  /\ pc' = "decoding"
  /\ UNCHANGED <<asking, order, at, cancelled, configs, outcome, surroundings>>

(* The wingman is not up, the status is not 200 because the function failed *)
(* or its arguments are invalid, or the answer does not arrive.             *)
Refuse ==
  /\ pc = "waiting"
  /\ pc' = "pausing"
  /\ UNCHANGED <<asking, order, at, tries, cancelled, configs, reply, outcome, surroundings>>

(* Variants: an attempt more, no end of them, or on to the next wingman. *)
Pause_OneMore ==
  /\ pc = "pausing"
  /\ IF cancelled \/ tries > Tries
     THEN End(Error) /\ UNCHANGED tries
     ELSE tries' = tries + 1 /\ pc' = "asking" /\ UNCHANGED outcome
  /\ UNCHANGED <<asking, order, at, cancelled, configs, reply, surroundings>>

Pause_Forever ==
  /\ pc = "pausing"
  /\ pc' = "asking"
  /\ UNCHANGED <<asking, order, at, tries, cancelled, configs, reply, outcome, surroundings>>

Pause_NextWingman ==
  /\ pc = "pausing"
  /\ IF tries + 1 = Tries /\ at < Len(order)
     THEN at' = at + 1 /\ tries' = 0 /\ pc' = "asking" /\ UNCHANGED outcome
     ELSE IF tries + 1 = Tries THEN End(Error) /\ UNCHANGED <<at, tries>>
     ELSE tries' = tries + 1 /\ pc' = "asking" /\ UNCHANGED <<at, outcome>>
  /\ UNCHANGED <<asking, order, cancelled, configs, reply, surroundings>>

(* A second later; a context that is cancelled by then need not be noticed. *)
Pause ==
  /\ pc = "pausing"
  /\ \/ (cancelled \/ tries + 1 = Tries) /\ End(Error) /\ UNCHANGED tries
     \/ tries + 1 < Tries /\ tries' = tries + 1 /\ pc' = "asking" /\ UNCHANGED outcome
  /\ UNCHANGED <<asking, order, at, cancelled, configs, reply, surroundings>>

----------------------------------------------------------------------------
(***************************************************************************)
(* What is made of the reply                                               *)
(***************************************************************************)

(* These points are filled, those that a function returns are not.          *)
DecodePoints ==
  /\ pc = "decoding" /\ asking = "points"
  /\ \/ End(Error)
     \/ reply.points # {} /\ End(Missing(Fill(reply.points, Own)))
     \/ reply.points = {} /\ pc' = "listing" /\ UNCHANGED outcome
  /\ UNCHANGED <<asking, order, at, tries, cancelled, configs, reply, surroundings>>

(* The text of a value, and what is read back of it.                        *)
Written == [p \in Phrase |-> Write(p)]

Returned(v) == [kind |-> v.kind, text |-> IF v.phrase = None THEN NoText ELSE Written[v.phrase]]

ReadBack(v) == Unmarshal(Marshal(Returned(v)))

Evaluated(result) == pc' = "evaluated" /\ outcome' = result

NextWingman ==
  IF at < Len(order) THEN at' = at + 1 /\ pc' = "asking" /\ UNCHANGED outcome
  ELSE End(Error) /\ UNCHANGED at

(* Variants: the state is taken over before it is looked whether the        *)
(* function was found, or the points are not looked at. *)
DecodeFunction_CopiesFirst ==
  /\ pc = "decoding" /\ asking = "function"
  /\ configs' = reply.configs
  /\ IF ~reply.found THEN NextWingman
     ELSE /\ Evaluated(IF reply.points # {} THEN Missing(reply.points)
                       ELSE IF ReadBack(reply.value) = Refused THEN Error
                       ELSE Value(ReadBack(reply.value).kind))
          /\ UNCHANGED at
  /\ UNCHANGED <<asking, order, tries, cancelled, reply, surroundings>>

DecodeFunction_NoPoints ==
  /\ pc = "decoding" /\ asking = "function"
  /\ IF ~reply.found THEN NextWingman /\ UNCHANGED configs
     ELSE /\ configs' = reply.configs
          /\ Evaluated(IF ReadBack(reply.value) = Refused THEN Error
                       ELSE Value(ReadBack(reply.value).kind))
          /\ UNCHANGED at
  /\ UNCHANGED <<asking, order, tries, cancelled, reply, surroundings>>

(* The body cannot be read to its end, or it is a response.                 *)
DecodeFunction ==
  /\ pc = "decoding" /\ asking = "function"
  /\ \/ End(Error) /\ UNCHANGED <<at, configs>>
     \/ ~reply.found /\ NextWingman /\ UNCHANGED configs
     \/ /\ reply.found
        /\ configs' = reply.configs
        /\ Evaluated(IF reply.points # {} THEN Missing(reply.points)
                     ELSE IF ReadBack(reply.value) = Refused THEN Error
                     ELSE Value(ReadBack(reply.value).kind))
        /\ UNCHANGED at
  /\ UNCHANGED <<asking, order, tries, cancelled, reply, surroundings>>

Words == [text \in {NoText} \cup {Written[p] : p \in Phrase} |-> Split(text)]

(* Service.Evaluate: it must be a string, which is split into words.        *)
SplitCommand ==
  LET split == Words[ReadBack(reply.value).text] IN
  /\ pc = "evaluated"
  /\ End(IF MustBeString(outcome).result # "value" THEN MustBeString(outcome)
         ELSE IF ~split.ok THEN Error
         ELSE [result |-> "command", words |-> split.words])
  /\ UNCHANGED <<asking, order, at, tries, cancelled, configs, reply, surroundings>>

----------------------------------------------------------------------------
Goroutine ==
  \/ FindWingman \/ ListWingmen \/ Ask \/ Refuse \/ Pause
  \/ DecodePoints \/ DecodeFunction \/ SplitCommand

(* The deployment is cancelled.                                             *)
Cancel ==
  /\ ~cancelled
  /\ cancelled' = TRUE
  /\ UNCHANGED <<pc, asking, order, at, tries, configs, reply, outcome, surroundings>>

Next == Goroutine \/ Handle \/ Cancel

Spec == Init /\ [][Next]_vars

(* The goroutine runs, and a request is answered or its connection fails.   *)
FairSpec == Spec /\ WF_vars(Goroutine \/ Handle)

----------------------------------------------------------------------------
Outcome ==
  {None, Error, Panic}
    \cup {Value(k) : k \in Kind}
    \cup [result : {"points"}, kind : {"nil"}, points : SUBSET UNION {Points[w] \cup Fill(Points[w], Own) : w \in Service}]

TypeOK ==
  /\ pc \in {"finding", "listing", "asking", "waiting", "pausing", "decoding", "evaluated", "done"}
  /\ asking \in {"points", "function"}
  /\ order \in Seq(Service) /\ at \in 1..Cardinality(Service)
  /\ tries \in 0..(Tries - 1)
  /\ cancelled \in BOOLEAN
  /\ configs \subseteq (UNION Answers) \cup Additions
  /\ outcome \in Outcome
       \cup {[result |-> "command", words |-> Words[text].words] : text \in DOMAIN Words}

(* Of all the wingmen that are asked, only the one whose function is taken  *)
(* changes State.Configs, and to what it has sent back: not one that does   *)
(* not know it, nor one that has run it and could not get its answer across.*)
OnlyTheFunctionChanges ==
  configs # answered =>
    /\ pc \in {"evaluated", "done"} /\ asking = "function"
    /\ order[at] \in provides
    /\ configs = reply.configs

(* A function is that of the first wingman in the list that knows it, be it *)
(* hard to reach: nobody's answer stands in for it.                         *)
TheFirstAnswers ==
  pc = "evaluated" => \A i \in 1..(at - 1) : order[i] \notin provides

(* What the protocol comes to, when it does not fail, is what evaluation    *)
(* takes it to be, save that points may have no module yet.                 *)
AgreesWithEvaluation ==
  pc = "evaluated" /\ outcome.result # "error" =>
    \E w \in provides, k \in Kind :
      [outcome EXCEPT !.points = Fill(@, w)] =
        EvaluateFunction([provider |-> w, points |-> Fill(Points[w], w), kind |-> k],
                         answered, Range(order))

(* What a function has returned is refused if it is a number, and only then;*)
(* it is null if it has no form in JSON, and is else of the kind it was of. *)
KindsSurvive ==
  pc = "evaluated" /\ reply.points = {} =>
    outcome =
      CASE reply.value.kind = "Integer" -> Error
        [] reply.value.kind \in {"nil", "ServiceReference"} -> Value("Null")
        [] OTHER -> Value(reply.value.kind)

(* The container is given the words that were meant, and a command is only  *)
(* refused where something is left open.                                    *)
CommandIsMeant ==
  /\ pc = "evaluated" /\ outcome = Value("String") =>
       Words[ReadBack(reply.value).text].ok = Meant(reply.value.phrase).ok
  /\ outcome # None /\ outcome.result = "command" =>
       /\ Meant(reply.value.phrase).ok
       /\ outcome.words = Meant(reply.value.phrase).words

(* The goroutine gets over it, whether wingmen ever come up or not.         *)
Ends == <>(pc = "done")
==============================================================================
