---------------------------- MODULE WingmanProofs ----------------------------
(***************************************************************************)
(* What a deployment makes of its wingmen, for any number of them, whatever*)
(* they want, return or add, and in whatever order they are listed.        *)
(***************************************************************************)
EXTENDS Wingman, ShlexProofs, FiniteSetTheorems

----------------------------------------------------------------------------
(***************************************************************************)
(* The operators                                                           *)
(***************************************************************************)

(* What the wingman w, that knows the function, replies to one that holds   *)
(* the answers of the start.                                                *)
Answering(w) ==
  {Found(Asked(w, answered), v, theirs) :
     v \in IF Asked(w, answered) # {} THEN {Nothing} ELSE Computed,
     theirs \in SUBSET (answered \cup Additions)}

Result(r) ==
  IF r.points # {} THEN Missing(r.points)
  ELSE IF ReadBack(r.value) = Refused THEN Error
  ELSE Value(ReadBack(r.value).kind)

LEMMA FoundIs ==
  ASSUME NEW points, NEW value, NEW theirs
  PROVE  /\ Found(points, value, theirs).found
         /\ Found(points, value, theirs).points = points
         /\ Found(points, value, theirs).value = value
         /\ Found(points, value, theirs).configs = theirs
  BY DEF Found

LEMMA NotFoundIs == ~NotFound.found
  BY DEF NotFound

LEMMA ComputedIs ==
  ASSUME NEW v \in Computed
  PROVE  \/ v.kind \in (Kind \cup {"nil"}) \ {"String"} /\ v.phrase = None
         \/ v.kind = "String" /\ v.phrase \in Phrase
  BY DEF Computed

(* Of what a function returns, a number is refused, what has no form in JSON*)
(* is read back as null, and all else as it was.                            *)
LEMMA ReadBackIs ==
  ASSUME NEW v, v.kind \in Kind \cup {"nil"}
  PROVE  \/ v.kind = "Integer" /\ ReadBack(v) = Refused
         \/ v.kind \in {"nil", "ServiceReference", "Null"}
              /\ ReadBack(v) = [kind |-> "Null", text |-> NoText]
         \/ v.kind \in {"String", "Identifier", "Secret", "Boolean"}
              /\ ReadBack(v) = [kind |-> v.kind, text |-> Returned(v).text]
<1>1. Returned(v).kind = v.kind
  BY DEF Returned
<1>2. v.kind \in {"Null", "String", "Identifier", "Secret", "Boolean", "Integer",
                 "ServiceReference", "nil"}
  BY DEF Kind
<1> QED BY <1>1, <1>2 DEF ReadBack, Marshal, Unmarshal, Decoded, Asserted, IsText

LEMMA RefusedKind == Refused.kind = "error" /\ "error" \notin Kind
  BY DEF Refused, Kind

(* A point is unanswered before it is filled as it is afterwards.           *)
LEMMA FillAsked ==
  ASSUME NEW w, NEW theirs
  PROVE  Fill(Asked(w, theirs), w) = Unanswered(Fill(Points[w], w), theirs)
  BY DEF Fill, Asked, Unanswered

LEMMA FillEmpty == ASSUME NEW w PROVE Fill({}, w) = {}
  BY DEF Fill

LEMMA AskedNone ==
  ASSUME NEW w, NEW theirs
  PROVE  Asked(w, theirs) = {} <=> Unanswered(Fill(Points[w], w), theirs) = {}
<1>1. Fill(Asked(w, theirs), w) = {} <=> Asked(w, theirs) = {}
  BY DEF Fill
<1> QED BY <1>1, FillAsked

LEMMA Listed ==
  ASSUME NEW S \in SUBSET Service, S # {}, NEW s \in SetToSeqs(S)
  PROVE  /\ s \in Seq(Service) /\ Len(s) \in 1..Cardinality(Service)
<1>1. IsFiniteSet(Service)
  BY WingmanAssumption
<1>2. IsFiniteSet(S) /\ Cardinality(S) \in Nat /\ Cardinality(S) <= Cardinality(Service)
  BY <1>1, FS_Subset, FS_CardinalityType
<1>3. Cardinality(S) # 0
  BY <1>2, FS_EmptySet
<1>4. s \in [1..Cardinality(S) -> S]
  BY DEF SetToSeqs
<1> DEFINE n == Cardinality(S)
<1>5. s \in Seq(Service) /\ Len(s) = n
  <2>1. n \in Nat /\ s \in [1..n -> Service]
    BY <1>2, <1>4
  <2> HIDE DEF n
  <2> QED BY ONLY <2>1
<1>6. Cardinality(Service) \in Nat
  BY <1>1, FS_CardinalityType
<1> QED BY <1>2, <1>3, <1>5, <1>6

----------------------------------------------------------------------------
(***************************************************************************)
(* The inductive invariant                                                 *)
(***************************************************************************)

Commands == {[result |-> "command", words |-> Words[text].words] : text \in DOMAIN Words}

Phases == {"finding", "listing", "asking", "waiting", "pausing", "decoding"}

Bounded ==
  /\ pc \in Phases \cup {"evaluated", "done"}
  /\ asking \in {"points", "function"}
  /\ order \in Seq(Service) /\ Len(order) <= Cardinality(Service) /\ at \in 1..Len(order)
  /\ tries \in 0..(Tries - 1)
  /\ cancelled \in BOOLEAN
  /\ answered \in Answers

(* Only the service's own wingman is asked for points; a function is that of*)
(* a wingman before which the list has none that knows it.                  *)
InOrder ==
  /\ asking = "points" => order = <<Own>>
  /\ pc \in {"finding", "listing"} => asking = "points"
  /\ asking = "function" => \A i \in 1..(at - 1) : order[i] \notin provides

(* State.Configs is changed by the reply that ends the evaluation alone.    *)
Unchanged ==
  /\ pc \in Phases => configs = answered /\ outcome = None
  /\ pc = "done" =>
       \/ configs = answered
       \/ asking = "function" /\ order[at] \in provides /\ configs = reply.configs

(* The reply is to what has been asked last.                                *)
InReply ==
  /\ pc = "decoding" /\ asking = "points" => reply = Found(Asked(Own, answered), Nothing, {})
  /\ pc = "decoding" /\ asking = "function" =>
       \/ order[at] \notin provides /\ reply = NotFound
       \/ order[at] \in provides /\ reply \in Answering(order[at])
  /\ pc = "evaluated" =>
       /\ asking = "function" /\ order[at] \in provides
       /\ reply \in Answering(order[at]) /\ outcome = Result(reply)
       /\ configs = reply.configs

Stored == configs \subseteq (UNION Answers) \cup Additions

Ended ==
  pc = "done" =>
    \/ outcome \in Outcome
    \/ /\ outcome \in Commands
       /\ reply.value.phrase \in Phrase
       /\ Words[Written[reply.value.phrase]].ok
       /\ outcome.words = Words[Written[reply.value.phrase]].words

WingmanInv == Bounded /\ InOrder /\ Unchanged /\ InReply /\ Stored /\ Ended

LEMMA InitWingman == Init => WingmanInv
<1> SUFFICES ASSUME Init PROVE WingmanInv
  OBVIOUS
<1>1. Cardinality(Service) \in Nat /\ 1 <= Cardinality(Service)
  <2>1. Cardinality(Service) \in Nat /\ Cardinality(Service) # 0
    BY WingmanAssumption, FS_CardinalityType, FS_EmptySet
  <2> QED BY <2>1
<1>2. <<Own>> \in Seq(Service) /\ Len(<<Own>>) = 1
  BY WingmanAssumption
<1>3. Bounded
  <2>1. order \in Seq(Service) /\ Len(order) = 1 /\ at = 1 /\ tries = 0
    BY <1>2 DEF Init
  <2>2. pc = "finding" /\ asking = "points" /\ cancelled = FALSE /\ answered \in Answers
    BY DEF Init
  <2>3. /\ Len(order) <= Cardinality(Service) /\ at \in 1..Len(order)
        /\ tries \in 0..(Tries - 1)
    BY ONLY <1>1, <2>1 DEF Tries
  <2> QED BY ONLY <2>1, <2>2, <2>3 DEF Bounded, Phases
<1>4. InOrder /\ Unchanged /\ Ended
  BY DEF Init, InOrder, Unchanged, Ended
<1>5. InReply
  BY DEF Init, InReply
<1>6. Stored
  BY DEF Init, Stored
<1> QED BY <1>3, <1>4, <1>5, <1>6 DEF WingmanInv

LEMMA AskingOwn == ASSUME WingmanInv, asking = "points" PROVE at = 1 /\ order[at] = Own
<1>1. \A own : Len(<<own>>) = 1 /\ <<own>>[1] = own
  OBVIOUS
<1>2. order = <<Own>> /\ at \in 1..Len(order)
  BY DEF WingmanInv, InOrder, Bounded
<1>3. Len(order) = 1 /\ order[1] = Own
  BY ONLY <1>1, <1>2, Zenon
<1> QED BY ONLY <1>2, <1>3

LEMMA Frame ==
  ASSUME UNCHANGED answered
  PROVE  /\ \A w : Answering(w)' = Answering(w)
         /\ Asked(Own, answered)' = Asked(Own, answered)
  BY DEF Answering, Asked

(* Steps after which the goroutine goes on with what it has, or has failed. *)
LEMMA EndError ==
  ASSUME WingmanInv, pc \in Phases, pc' = "done", outcome' = Error,
         UNCHANGED <<asking, order, at, tries, cancelled, configs, surroundings>>
  PROVE  WingmanInv'
<1>1. Bounded'
  BY DEF WingmanInv, Bounded, surroundings
<1>2. InOrder' /\ Unchanged' /\ InReply' /\ Stored'
  BY DEF WingmanInv, InOrder, Unchanged, InReply, Stored, Phases, surroundings
<1>3. Ended'
  BY DEF Ended, Outcome
<1> QED BY <1>1, <1>2, <1>3 DEF WingmanInv

LEMMA FindWingmanKeeps == ASSUME WingmanInv, FindWingman PROVE WingmanInv'
<1>1. CASE End(Error)
  BY <1>1, EndError DEF FindWingman, End, Phases, surroundings
<1>2. CASE pc' \in {"asking", "listing"} /\ UNCHANGED outcome
  <2>1. pc = "finding" /\ UNCHANGED <<asking, order, at, tries, cancelled, configs, reply, surroundings>>
    BY DEF FindWingman
  <2>2. Bounded' /\ Stored'
    BY <1>2, <2>1 DEF WingmanInv, Bounded, Stored, Phases, surroundings
  <2>3. InOrder' /\ Unchanged' /\ InReply' /\ Ended'
    BY <1>2, <2>1 DEF WingmanInv, InOrder, Unchanged, InReply, Ended, Phases, surroundings
  <2> QED BY <2>2, <2>3 DEF WingmanInv
<1> QED BY <1>1, <1>2 DEF FindWingman

LEMMA ListWingmenKeeps == ASSUME WingmanInv, ListWingmen PROVE WingmanInv'
<1>0. /\ pc = "listing" /\ asking' = "function"
      /\ UNCHANGED <<tries, cancelled, configs, reply, surroundings>>
  BY DEF ListWingmen
<1>1. CASE End(Error) /\ UNCHANGED <<order, at>>
  <2>1. at = 1
    BY <1>0, AskingOwn DEF WingmanInv, InOrder
  <2>2. Bounded' /\ Stored'
    BY <1>0, <1>1 DEF WingmanInv, Bounded, Stored, Phases, surroundings, End
  <2>3. InOrder' /\ Unchanged' /\ InReply'
    BY <1>0, <1>1, <2>1 DEF WingmanInv, InOrder, Unchanged, InReply, Phases, surroundings, End
  <2>4. Ended'
    BY <1>1 DEF Ended, Outcome, End
  <2> QED BY <2>2, <2>3, <2>4 DEF WingmanInv
<1>2. CASE \E S \in (SUBSET Service) \ {{}} : order' \in SetToSeqs(S)
             /\ at' = 1 /\ pc' = "asking" /\ UNCHANGED outcome
  <2>1. /\ order' \in Seq(Service) /\ Len(order') \in 1..Cardinality(Service)
        /\ at' = 1 /\ pc' = "asking" /\ UNCHANGED outcome
    <3>1. PICK S \in (SUBSET Service) \ {{}} : order' \in SetToSeqs(S)
      BY <1>2
    <3>2. S \in SUBSET Service /\ S # {}
      OBVIOUS
    <3>3. order' \in Seq(Service) /\ Len(order') \in 1..Cardinality(Service)
      BY ONLY <3>1, <3>2, Listed
    <3> QED BY <1>2, <3>3
  <2>2. Cardinality(Service) \in Nat
    BY WingmanAssumption, FS_CardinalityType
  <2>3. Bounded' /\ Stored'
    BY <1>0, <2>1, <2>2 DEF WingmanInv, Bounded, Stored, Phases, surroundings
  <2>4. InOrder' /\ Unchanged' /\ InReply' /\ Ended'
    BY <1>0, <2>1 DEF WingmanInv, InOrder, Unchanged, InReply, Ended, Phases, surroundings
  <2> QED BY <2>3, <2>4 DEF WingmanInv
<1> QED BY <1>1, <1>2 DEF ListWingmen

(* Asking, and asking again.                                                *)
LEMMA AskKeeps ==
  ASSUME WingmanInv, pc \in {"asking", "waiting", "pausing"},
         pc' \in {"asking", "waiting", "pausing"}, tries' \in 0..(Tries - 1),
         UNCHANGED <<asking, order, at, cancelled, configs, reply, outcome, surroundings>>
  PROVE  WingmanInv'
<1>1. Bounded' /\ Stored'
  BY DEF WingmanInv, Bounded, Stored, Phases, surroundings
<1>2. InOrder' /\ Unchanged' /\ InReply' /\ Ended'
  BY DEF WingmanInv, InOrder, Unchanged, InReply, Ended, Phases, surroundings
<1> QED BY <1>1, <1>2 DEF WingmanInv

LEMMA PauseKeeps == ASSUME WingmanInv, Pause PROVE WingmanInv'
<1>1. /\ pc = "pausing"
      /\ UNCHANGED <<asking, order, at, cancelled, configs, reply, surroundings>>
  BY DEF Pause
<1>2. CASE End(Error) /\ UNCHANGED tries
  BY <1>1, <1>2, EndError DEF End, Phases
<1>3. CASE tries + 1 < Tries /\ tries' = tries + 1 /\ pc' = "asking" /\ UNCHANGED outcome
  <2>1. tries' \in 0..(Tries - 1)
    BY <1>3 DEF WingmanInv, Bounded, Tries
  <2> QED BY <1>1, <1>3, <2>1, AskKeeps
<1> QED BY <1>2, <1>3 DEF Pause

LEMMA HandleKeeps == ASSUME WingmanInv, Handle PROVE WingmanInv'
<1>1. /\ pc = "waiting" /\ pc' = "decoding" /\ tries' = 0 /\ reply' \in Replies(order[at])
      /\ UNCHANGED <<asking, order, at, cancelled, configs, outcome, surroundings>>
  BY DEF Handle
<1>2. configs = answered
  BY <1>1 DEF WingmanInv, Unchanged, Phases
<1>3. asking = "points" => order[at] = Own
  BY AskingOwn
<1>4. asking = "points" => reply' = Found(Asked(Own, answered), Nothing, {})
  BY <1>1, <1>2, <1>3 DEF Replies
<1>5. asking = "function" =>
        \/ order[at] \notin provides /\ reply' = NotFound
        \/ order[at] \in provides /\ reply' \in Answering(order[at])
  BY <1>1, <1>2 DEF Replies, Answering
<1>6. InReply'
  <2>1. \A w : Answering(w)' = Answering(w)
    BY <1>1 DEF Answering, surroundings, Asked
  <2>2. Asked(Own, answered)' = Asked(Own, answered)
    BY <1>1 DEF surroundings, Asked
  <2> QED BY <1>1, <1>4, <1>5, <2>1, <2>2 DEF InReply, surroundings
<1>7. Bounded' /\ Stored'
  BY <1>1 DEF WingmanInv, Bounded, Stored, Phases, surroundings, Tries
<1>8. InOrder' /\ Unchanged' /\ Ended'
  BY <1>1 DEF WingmanInv, InOrder, Unchanged, Ended, Phases, surroundings
<1> QED BY <1>6, <1>7, <1>8 DEF WingmanInv

LEMMA PointsMissing ==
  ASSUME NEW P \in SUBSET UNION {Points[w] \cup Fill(Points[w], Own) : w \in Service}
  PROVE  Missing(P) \in Outcome
  BY DEF Missing, Outcome

LEMMA DecodePointsKeeps == ASSUME WingmanInv, DecodePoints PROVE WingmanInv'
<1>0. /\ pc = "decoding" /\ asking = "points"
      /\ UNCHANGED <<asking, order, at, tries, cancelled, configs, reply, surroundings>>
  BY DEF DecodePoints
<1>1. CASE End(Error)
  BY <1>0, <1>1, EndError DEF End, Phases
<1>2. CASE pc' = "listing" /\ UNCHANGED outcome
  <2>1. Bounded' /\ Stored'
    BY <1>0, <1>2 DEF WingmanInv, Bounded, Stored, Phases, surroundings
  <2>2. InOrder' /\ Unchanged' /\ InReply' /\ Ended'
    BY <1>0, <1>2 DEF WingmanInv, InOrder, Unchanged, InReply, Ended, Phases, surroundings
  <2> QED BY <2>1, <2>2 DEF WingmanInv
<1>3. CASE End(Missing(Fill(reply.points, Own)))
  <2>1. reply.points = Asked(Own, answered)
    BY <1>0, FoundIs DEF WingmanInv, InReply
  <2>2. Fill(reply.points, Own) \subseteq Fill(Points[Own], Own)
    BY <2>1 DEF Fill, Asked
  <2>3. Missing(Fill(reply.points, Own)) \in Outcome
    BY <2>2, PointsMissing, WingmanAssumption
  <2>4. Bounded' /\ Stored' /\ Ended'
    BY <1>0, <1>3, <2>3 DEF WingmanInv, Bounded, Stored, Ended, Phases, surroundings, End
  <2>5. InOrder' /\ Unchanged' /\ InReply'
    BY <1>0, <1>3 DEF WingmanInv, InOrder, Unchanged, InReply, Phases, surroundings, End
  <2> QED BY <2>4, <2>5 DEF WingmanInv
<1> QED BY <1>1, <1>2, <1>3 DEF DecodePoints

(* What a wingman replies to whom it knows the function of.                 *)
LEMMA AnsweringIs ==
  ASSUME NEW w, NEW r \in Answering(w)
  PROVE  /\ r.found
         /\ r.configs \subseteq answered \cup Additions
         /\ r.points = Asked(w, answered)
         /\ r.points = {} => r.value \in Computed
<1>1. PICK v \in IF Asked(w, answered) # {} THEN {Nothing} ELSE Computed,
           theirs \in SUBSET (answered \cup Additions) : r = Found(Asked(w, answered), v, theirs)
  BY DEF Answering
<1> QED BY <1>1, FoundIs

LEMMA DecodeFunctionKeeps == ASSUME WingmanInv, DecodeFunction PROVE WingmanInv'
<1>0. /\ pc = "decoding" /\ asking = "function"
      /\ UNCHANGED <<asking, order, tries, cancelled, reply, surroundings>>
  BY DEF DecodeFunction
<1>1. CASE End(Error) /\ UNCHANGED <<at, configs>>
  BY <1>0, <1>1, EndError DEF End, Phases
<1>2. CASE ~reply.found /\ NextWingman /\ UNCHANGED configs
  <2>1. order[at] \notin provides
    BY <1>0, <1>2, AnsweringIs DEF WingmanInv, InReply
  <2>2. CASE at < Len(order) /\ at' = at + 1 /\ pc' = "asking" /\ UNCHANGED outcome
    <3>1. Bounded' /\ Stored'
      BY <1>0, <1>2, <2>2 DEF WingmanInv, Bounded, Stored, Phases, surroundings
    <3>2. InOrder'
      <4>1. \A i \in 1..(at' - 1) : i = at \/ i \in 1..(at - 1)
        BY <2>2 DEF WingmanInv, Bounded
      <4> QED BY <1>0, <2>1, <2>2, <4>1 DEF WingmanInv, InOrder, surroundings
    <3>3. Unchanged' /\ InReply' /\ Ended'
      BY <1>0, <1>2, <2>2 DEF WingmanInv, Unchanged, InReply, Ended, Phases, surroundings
    <3> QED BY <3>1, <3>2, <3>3 DEF WingmanInv
  <2>3. CASE End(Error) /\ UNCHANGED at
    BY <1>0, <1>2, <2>3, EndError DEF End, Phases
  <2> QED BY <1>2, <2>2, <2>3 DEF NextWingman
<1>3. CASE /\ reply.found /\ configs' = reply.configs
           /\ Evaluated(Result(reply)) /\ UNCHANGED at
  <2>1. order[at] \in provides /\ reply \in Answering(order[at])
    BY <1>0, <1>3, NotFoundIs DEF WingmanInv, InReply
  <2>2. Answering(order[at])' = Answering(order[at])
    BY <1>0, <1>3 DEF Answering, Asked, surroundings
  <2>3. Result(reply)' = Result(reply)
    BY <1>0 DEF Result
  <2>4. InReply'
    BY <1>0, <1>3, <2>1, <2>2, <2>3 DEF InReply, Evaluated, surroundings
  <2>5. Stored'
    <3>1. answered \in Answers
      BY DEF WingmanInv, Bounded
    <3> DEFINE w == order[at]
    <3>2. reply.configs \subseteq answered \cup Additions
      <4>1. reply \in Answering(w)
        BY <2>1
      <4> HIDE DEF w
      <4> QED BY ONLY <4>1, AnsweringIs
    <3>3. reply.configs \subseteq (UNION Answers) \cup Additions
      BY <3>1, <3>2
    <3> QED BY <1>0, <1>3, <3>3 DEF Stored, surroundings
  <2>6. Bounded'
    BY <1>0, <1>3 DEF WingmanInv, Bounded, Evaluated, Phases, surroundings
  <2>7. InOrder' /\ Unchanged' /\ Ended'
    BY <1>0, <1>3 DEF WingmanInv, InOrder, Unchanged, Ended, Evaluated, Phases, surroundings
  <2> QED BY <2>4, <2>5, <2>6, <2>7 DEF WingmanInv
<1>4. CASE /\ reply.found /\ configs' = reply.configs
           /\ Evaluated(IF reply.points # {} THEN Missing(reply.points)
                        ELSE IF ReadBack(reply.value) = Refused THEN Error
                        ELSE Value(ReadBack(reply.value).kind))
           /\ UNCHANGED at
  BY <1>3, <1>4, Zenon DEF Result
<1> QED BY <1>1, <1>2, <1>4 DEF DecodeFunction

(* Which command it is that ends the evaluation.                            *)
LEMMA StringIs ==
  ASSUME NEW w, NEW r \in Answering(w), Result(r) = Value("String")
  PROVE  /\ r.value.phrase \in Phrase
         /\ ReadBack(r.value).text = Written[r.value.phrase]
         /\ Written[r.value.phrase] \in DOMAIN Words
<1>1. r.points = {} /\ ReadBack(r.value).kind = "String"
  BY DEF Result, Missing, Value, Error
<1>2. r.value \in Computed
  BY <1>1, AnsweringIs
<1>3. r.value.kind \in Kind \cup {"nil"}
  BY <1>2, ComputedIs DEF Kind
<1>4. r.value.kind = "String" /\ ReadBack(r.value).text = Returned(r.value).text
  BY <1>1, <1>3, ReadBackIs, RefusedKind
<1>5. r.value.phrase \in Phrase
  BY <1>2, <1>4, ComputedIs
<1>6. Returned(r.value).text = Written[r.value.phrase]
  BY <1>5, WingmanAssumption DEF Returned
<1>7. Written[r.value.phrase] \in DOMAIN Words
  BY <1>5, Zenon DEF Words
<1> QED BY <1>4, <1>5, <1>6, <1>7

LEMMA ResultIs ==
  ASSUME NEW w \in Service, NEW r \in Answering(w)
  PROVE  /\ Result(r) \in Outcome
         /\ \/ Result(r) = Missing(r.points)
            \/ Result(r) = Error
            \/ \E k \in Kind : Result(r) = Value(k)
<1>1. CASE r.points # {}
  <2>1. r.points \subseteq Points[w]
    BY AnsweringIs DEF Asked
  <2> QED BY <1>1, <2>1, PointsMissing DEF Result
<1>2. CASE r.points = {}
  <2>1. r.value.kind \in Kind \cup {"nil"}
    BY <1>2, AnsweringIs, ComputedIs DEF Kind
  <2>2. ReadBack(r.value) # Refused => ReadBack(r.value).kind \in Kind
    BY <2>1, ReadBackIs DEF Kind
  <2> QED BY <1>2, <2>2 DEF Result, Outcome
<1> QED BY <1>1, <1>2

LEMMA MustBeStringIs ==
  /\ \A P : MustBeString(Missing(P)) = Panic
  /\ MustBeString(Error) = Error
  /\ \A k \in Kind \ {"String"} : MustBeString(Value(k)) = Error
  /\ MustBeString(Value("String")) = Value("String")
  /\ Value("String").result = "value" /\ Panic.result = "panic" /\ Error.result = "error"
  BY DEF MustBeString, Missing, Value, Error, Panic

LEMMA SplitCommandKeeps == ASSUME WingmanInv, SplitCommand PROVE WingmanInv'
<1> DEFINE split == Words[ReadBack(reply.value).text]
           result == IF MustBeString(outcome).result # "value" THEN MustBeString(outcome)
                     ELSE IF ~split.ok THEN Error
                     ELSE [result |-> "command", words |-> split.words]
<1>1. /\ pc = "evaluated" /\ pc' = "done" /\ outcome' = result
      /\ UNCHANGED <<asking, order, at, tries, cancelled, configs, reply, surroundings>>
  BY DEF SplitCommand, End
<1>2. /\ order[at] \in Service /\ reply \in Answering(order[at])
      /\ outcome = Result(reply)
  BY <1>1 DEF WingmanInv, InReply, Bounded
<1>3. Ended'
  <2>2. CASE MustBeString(outcome) \in {Error, Panic}
    <3>1. outcome' \in Outcome
      BY <1>1, <2>2, MustBeStringIs DEF Outcome
    <3> QED BY <3>1 DEF Ended, Outcome
  <2>3. CASE outcome = Value("String") /\ MustBeString(outcome) = outcome
    <3>1. /\ reply.value.phrase \in Phrase
          /\ ReadBack(reply.value).text = Written[reply.value.phrase]
          /\ Written[reply.value.phrase] \in DOMAIN Words
      BY <1>2, <2>3, StringIs
    <3>2. MustBeString(outcome).result = "value"
      BY <2>3 DEF Value
    <3>3. CASE ~split.ok
      <4>1. outcome' = Error
        BY <1>1, <3>2, <3>3
      <4> QED BY <4>1 DEF Ended, Outcome
    <3>4. CASE split.ok
      <4>1. outcome' = [result |-> "command", words |-> split.words]
        BY <1>1, <3>2, <3>4
      <4>2. split = Words[Written[reply.value.phrase]]
        BY <3>1
      <4> HIDE DEF split, result
      <4>3. outcome' \in Commands
        BY <3>1, <4>1, <4>2 DEF Commands
      <4>4. reply' = reply /\ outcome'.words = split.words
        BY <1>1, <4>1
      <4> QED BY <3>1, <3>4, <4>2, <4>3, <4>4 DEF Ended, Commands
    <3> QED BY <3>3, <3>4
  <2> QED BY <1>2, <2>2, <2>3, ResultIs, MustBeStringIs
<1>4. Bounded' /\ Stored'
  BY <1>1 DEF WingmanInv, Bounded, Stored, Phases, surroundings
<1>5. InOrder' /\ Unchanged' /\ InReply'
  BY <1>1 DEF WingmanInv, InOrder, Unchanged, InReply, Phases, surroundings
<1> QED BY <1>3, <1>4, <1>5 DEF WingmanInv

LEMMA CancelKeeps == ASSUME WingmanInv, Cancel PROVE WingmanInv'
<1>1. cancelled' = TRUE
      /\ UNCHANGED <<pc, asking, order, at, tries, configs, reply, outcome, surroundings>>
  BY DEF Cancel
<1>2. Bounded' /\ Stored' /\ Ended'
  BY <1>1 DEF WingmanInv, Bounded, Stored, Ended, Phases, surroundings
<1>3. InOrder' /\ Unchanged'
  BY <1>1 DEF WingmanInv, InOrder, Unchanged, Phases, surroundings
<1>4. InReply'
  BY <1>1, Frame DEF WingmanInv, InReply, surroundings
<1> QED BY <1>2, <1>3, <1>4 DEF WingmanInv

LEMMA NextKeeps == WingmanInv /\ [Next]_vars => WingmanInv'
<1> SUFFICES ASSUME WingmanInv, [Next]_vars PROVE WingmanInv'
  OBVIOUS
<1>1. CASE Ask \/ Refuse
  <2>1. /\ pc \in {"asking", "waiting"} /\ pc' \in {"waiting", "pausing"} /\ tries' = tries
        /\ UNCHANGED <<asking, order, at, cancelled, configs, reply, outcome, surroundings>>
    BY <1>1 DEF Ask, Refuse
  <2>2. tries \in 0..(Tries - 1)
    BY DEF WingmanInv, Bounded
  <2> QED BY <2>1, <2>2, AskKeeps
<1>2. CASE UNCHANGED vars
  <2>1. UNCHANGED <<pc, asking, order, at, tries, cancelled, configs, reply, outcome, surroundings>>
    BY <1>2 DEF vars
  <2>2. Bounded' /\ Stored' /\ Ended'
    BY <2>1 DEF WingmanInv, Bounded, Stored, Ended, Phases, surroundings
  <2>3. InOrder' /\ Unchanged'
    BY <2>1 DEF WingmanInv, InOrder, Unchanged, Phases, surroundings
  <2>4. InReply'
    BY <2>1, Frame DEF WingmanInv, InReply, surroundings
  <2> QED BY <2>2, <2>3, <2>4 DEF WingmanInv
<1> QED BY <1>1, <1>2, FindWingmanKeeps, ListWingmenKeeps, PauseKeeps, HandleKeeps,
           DecodePointsKeeps, DecodeFunctionKeeps, SplitCommandKeeps, CancelKeeps
        DEF Next, Goroutine

LEMMA AlwaysWingman == Spec => []WingmanInv
<1> QED BY InitWingman, NextKeeps, PTL DEF Spec

----------------------------------------------------------------------------
(***************************************************************************)
(* Theorems                                                                *)
(***************************************************************************)

(* Every variable keeps its type: the list is of wingmen of the deployment, *)
(* the one that is asked is in it, and no request fails more than ten times.*)
THEOREM TypeCorrect == Spec => []TypeOK
<1>1. WingmanInv => TypeOK
  <2> SUFFICES ASSUME WingmanInv PROVE TypeOK
    OBVIOUS
  <2>1. Cardinality(Service) \in Nat /\ Len(order) \in Nat
    BY WingmanAssumption, FS_CardinalityType DEF WingmanInv, Bounded
  <2>2. order \in Seq(Service) /\ at \in 1..Cardinality(Service)
    BY <2>1 DEF WingmanInv, Bounded
  <2>3. outcome \in Outcome \cup Commands
    <3>1. CASE pc \in Phases
      BY <3>1 DEF WingmanInv, Unchanged, Outcome
    <3>2. CASE pc = "evaluated"
      BY <3>2, ResultIs DEF WingmanInv, InReply, Bounded
    <3>3. CASE pc = "done"
      BY <3>3 DEF WingmanInv, Ended
    <3> QED BY <3>1, <3>2, <3>3 DEF WingmanInv, Bounded
  <2> QED BY <2>2, <2>3 DEF WingmanInv, Bounded, Phases, Stored, TypeOK, Commands
<1> QED BY <1>1, AlwaysWingman, PTL

(* Only the reply of the wingman whose function is taken replaces           *)
(* State.Configs, whatever the others reply, and however many requests are  *)
(* lost.                                                                    *)
THEOREM FunctionChanges == Spec => []OnlyTheFunctionChanges
<1>1. WingmanInv => OnlyTheFunctionChanges
  BY DEF WingmanInv, Bounded, Unchanged, InReply, OnlyTheFunctionChanges
<1> QED BY <1>1, AlwaysWingman, PTL

(* EvaluateFunction goes on to the next wingman in the list only when the   *)
(* one it asked has replied that it does not know the function.             *)
THEOREM FirstThatKnows == Spec => []TheFirstAnswers
<1>1. WingmanInv => TheFirstAnswers
  BY DEF WingmanInv, InReply, InOrder, TheFirstAnswers
<1> QED BY <1>1, AlwaysWingman, PTL

(* The protocol of requests, retries and replies comes to what evaluation   *)
(* takes a function to be, whenever it does not end in an error.            *)
THEOREM ProtocolEvaluates == Spec => []AgreesWithEvaluation
<1>1. WingmanInv => AgreesWithEvaluation
  <2> SUFFICES ASSUME WingmanInv, pc = "evaluated", outcome.result # "error"
               PROVE  \E w \in provides, k \in Kind :
                        [outcome EXCEPT !.points = Fill(@, w)] =
                          EvaluateFunction([provider |-> w, points |-> Fill(Points[w], w),
                                            kind |-> k], answered, Range(order))
    BY DEF AgreesWithEvaluation
  <2> DEFINE w == order[at]
             e(k) == [provider |-> w, points |-> Fill(Points[w], w), kind |-> k]
  <2>1. w \in provides /\ reply \in Answering(w) /\ outcome = Result(reply)
    BY DEF WingmanInv, InReply
  <2>2. w \in Range(order) /\ w \in Service
    BY DEF WingmanInv, Bounded, Range
  <2> HIDE DEF w
  <2>3. reply.points = Asked(w, answered)
        /\ (reply.points = {} => reply.value.kind \in Kind \cup {"nil"})
    BY <2>1, AnsweringIs, ComputedIs DEF Kind
  <2>4. CASE reply.points # {}
    <3>1. outcome = Missing(reply.points)
      BY <2>1, <2>4 DEF Result
    <3>2. [outcome EXCEPT !.points = Fill(@, w)]
            = Missing(Unanswered(Fill(Points[w], w), answered))
      BY <2>3, <3>1, FillAsked DEF Missing
    <3>3. EvaluateFunction(e("String"), answered, Range(order))
            = Missing(Unanswered(Fill(Points[w], w), answered))
      BY <2>2, <2>3, <2>4, AskedNone DEF EvaluateFunction
    <3>4. "String" \in Kind
      BY DEF Kind
    <3> QED BY <2>1, <3>2, <3>3, <3>4
  <2>5. CASE reply.points = {}
    <3> DEFINE k == ReadBack(reply.value).kind
    <3>1. ReadBack(reply.value) # Refused /\ outcome = Value(k)
      BY <2>1, <2>5 DEF Result, Error
    <3>2. k \in Kind
      BY <2>3, <2>5, <3>1, ReadBackIs DEF Kind
    <3> HIDE DEF k
    <3>3. [outcome EXCEPT !.points = Fill(@, w)] = Value(k)
      BY <3>1, FillEmpty DEF Value
    <3>4. EvaluateFunction(e(k), answered, Range(order)) = Value(k)
      BY <2>2, <2>3, <2>5, AskedNone DEF EvaluateFunction
    <3> QED BY <2>1, <3>2, <3>3, <3>4
  <2> QED BY <2>4, <2>5
<1> QED BY <1>1, AlwaysWingman, PTL

(* MarshalJSON and Unmarshal keep the kind of a value, but for those that   *)
(* have no form in JSON and come back as null, and for numbers, which fail. *)
THEOREM KindsKept == Spec => []KindsSurvive
<1>1. WingmanInv => KindsSurvive
  <2> SUFFICES ASSUME WingmanInv, pc = "evaluated", reply.points = {}
               PROVE  outcome =
                        CASE reply.value.kind = "Integer" -> Error
                          [] reply.value.kind \in {"nil", "ServiceReference"} -> Value("Null")
                          [] OTHER -> Value(reply.value.kind)
    BY DEF KindsSurvive
  <2>1. reply \in Answering(order[at]) /\ outcome = Result(reply)
    BY DEF WingmanInv, InReply
  <2>2. /\ ReadBack(reply.value) = Refused => outcome = Error
        /\ ReadBack(reply.value) # Refused => outcome = Value(ReadBack(reply.value).kind)
    BY <2>1 DEF Result
  <2>3. reply.value.kind \in Kind \cup {"nil"}
    BY <2>1, AnsweringIs, ComputedIs DEF Kind
  <2>4. \/ reply.value.kind = "Integer" /\ outcome = Error
        \/ reply.value.kind \in {"nil", "ServiceReference", "Null"} /\ outcome = Value("Null")
        \/ /\ reply.value.kind \in {"String", "Identifier", "Secret", "Boolean"}
           /\ outcome = Value(reply.value.kind)
    BY <2>2, <2>3, ReadBackIs, RefusedKind DEF Kind
  <2> QED BY ONLY <2>4
<1> QED BY <1>1, AlwaysWingman, PTL

LEMMA OutcomeIs ==
  ASSUME NEW o \in Outcome, o # None
  PROVE  o.result # "command"
BY DEF Outcome, Missing, Value, Error, Panic

LEMMA WordsAre ==
  ASSUME NEW p \in Phrase
  PROVE  Words[Written[p]] = Meant(p)
<1>1. Written[p] = Write(p) /\ Written[p] \in {NoText} \cup {Written[q] : q \in Phrase}
  BY DEF Written
<1>2. Words[Written[p]] = Split(Write(p))
  BY <1>1, Zenon DEF Words
<1> QED BY <1>2, WingmanAssumption, SplitsAsMeant

(* The container gets the words that the command means, for every command   *)
(* that is well formed, and no other command is refused than one that is    *)
(* left open.                                                               *)
THEOREM CommandMeant == Spec => []CommandIsMeant
<1>1. WingmanInv => CommandIsMeant
  <2> SUFFICES ASSUME WingmanInv PROVE CommandIsMeant
    OBVIOUS
  <2> DEFINE p == reply.value.phrase
  <2>1. ASSUME pc = "evaluated", outcome = Value("String")
        PROVE  Words[ReadBack(reply.value).text].ok = Meant(p).ok
    <3>1. order[at] \in provides /\ reply \in Answering(order[at]) /\ outcome = Result(reply)
      BY <2>1 DEF WingmanInv, InReply
    <3>2. p \in Phrase /\ ReadBack(reply.value).text = Written[p]
      BY <2>1, <3>1, StringIs
    <3> HIDE DEF p
    <3> QED BY <3>2, WordsAre
  <2>2. ASSUME outcome # None, outcome.result = "command"
        PROVE  Meant(p).ok /\ outcome.words = Meant(p).words
    <3>1. outcome \notin Outcome
      BY <2>2, OutcomeIs
    <3>2. pc = "done"
      <4>1. CASE pc \in Phases
        BY <2>2, <4>1 DEF WingmanInv, Unchanged
      <4>2. CASE pc = "evaluated"
        BY <3>1, <4>2, ResultIs DEF WingmanInv, InReply, Bounded
      <4> QED BY <4>1, <4>2 DEF WingmanInv, Bounded, Phases
    <3>3. p \in Phrase /\ Words[Written[p]].ok /\ outcome.words = Words[Written[p]].words
      BY <3>1, <3>2 DEF WingmanInv, Ended
    <3> HIDE DEF p
    <3> QED BY <3>3, WordsAre
  <2> QED BY <2>1, <2>2 DEF CommandIsMeant
<1> QED BY <1>1, AlwaysWingman, PTL
====
