-------------------------------- MODULE Shlex --------------------------------
(***************************************************************************)
(* shlex.Split: how the command of a service becomes the arguments of its  *)
(* container.  A text is a sequence of runes, and the lexer one step per   *)
(* rune, which Split takes over the whole text.                            *)
(***************************************************************************)
EXTENDS Integers, Sequences, SequencesExt

Classify(rune) ==
  CASE rune \in {" ", "\t", "\r", "\n"} -> "space"
    [] rune = "\"" -> "escapingQuote"
    [] rune = "'"  -> "nonEscapingQuote"
    [] rune = "\\" -> "escape"
    [] rune = "#"  -> "comment"
    [] OTHER       -> "unknown"

(* The state of scanStream, and the words that Split has been given so far. *)
NewLexer == [state |-> "start", comment |-> FALSE, value |-> <<>>, words |-> <<>>]

Turn(l, state) == [l EXCEPT !.state = state]
Take(l, rune, state) == [l EXCEPT !.state = state, !.value = Append(@, rune)]

(* A token ends.  Lexer.Next skips comments, and the next token starts over.*)
Token(l) == [NewLexer EXCEPT !.words = IF l.comment THEN l.words ELSE Append(l.words, l.value)]

Opened(l, class) ==
  CASE class = "escapingQuote"    -> Turn(l, "quotingEscaping")
    [] class = "nonEscapingQuote" -> Turn(l, "quoting")
    [] class = "escape"           -> Turn(l, "escaping")

Openers == {"escapingQuote", "nonEscapingQuote", "escape"}

Start(l, rune, class) ==
  IF class = "space" THEN l
  ELSE IF class = "comment" THEN [Turn(l, "comment") EXCEPT !.comment = TRUE]
  ELSE IF class \in Openers THEN Opened(l, class)
  ELSE Take(l, rune, "inWord")

(* A # within a word is part of it.                                         *)
InWord(l, rune, class) ==
  IF class = "space" THEN Token(l)
  ELSE IF class \in Openers THEN Opened(l, class)
  ELSE Take(l, rune, "inWord")

(* Variant: a closing quote ends the word. *)
Quoted_EndsWord(l, rune, class) ==
  IF class = "escapingQuote" THEN Token(l)
  ELSE IF class = "escape" THEN Turn(l, "escapingQuoted")
  ELSE Take(l, rune, "quotingEscaping")

(* In double quotes an escape takes any rune as it is.                      *)
Quoted(l, rune, class) ==
  IF class = "escapingQuote" THEN Turn(l, "inWord")
  ELSE IF class = "escape" THEN Turn(l, "escapingQuoted")
  ELSE Take(l, rune, "quotingEscaping")

ScanRune(l, rune) ==
  LET class == Classify(rune) IN
  CASE l.state = "start"           -> Start(l, rune, class)
    [] l.state = "inWord"          -> InWord(l, rune, class)
    [] l.state = "escaping"        -> Take(l, rune, "inWord")
    [] l.state = "escapingQuoted"  -> Take(l, rune, "quotingEscaping")
    [] l.state = "quotingEscaping" -> Quoted(l, rune, class)
    [] l.state = "quoting"         ->
         IF class = "nonEscapingQuote" THEN Turn(l, "inWord") ELSE Take(l, rune, "quoting")
    [] l.state = "comment"         ->
         IF rune = "\n" THEN Token(l) ELSE Take(l, rune, "comment")

(* The end of the text: nothing more, one more token, or an error where     *)
(* something is still open.                                                 *)
Split(text) ==
  LET after[n \in 0..Len(text)] == IF n = 0 THEN NewLexer ELSE ScanRune(after[n - 1], text[n])
      l == after[Len(text)] IN
  CASE l.state = "start"                -> [ok |-> TRUE, words |-> l.words]
    [] l.state \in {"inWord", "comment"} -> [ok |-> TRUE, words |-> Token(l).words]
    [] OTHER                            -> [ok |-> FALSE, words |-> <<>>]

----------------------------------------------------------------------------
(***************************************************************************)
(* The reference: what a person means who writes a command.  A phrase is a *)
(* sequence of items, a word being a sequence of parts of which each is    *)
(* quoted in a way of its own.                                             *)
(***************************************************************************)
Bare(runes)    == [quote |-> "bare", runes |-> runes]
Escaped(runes) == [quote |-> "escape", runes |-> runes]
Single(runes)  == [quote |-> "single", runes |-> runes]
Double(runes)  == [quote |-> "double", runes |-> runes]

(* The last part of an open item is never closed; "doubleEscape" is one in  *)
(* double quotes that ends in an escape.                                    *)
Word(parts)       == [item |-> "word", parts |-> parts]
Gap(runes)        == [item |-> "gap", runes |-> runes]
Remark(runes)     == [item |-> "remark", runes |-> runes]
Open(parts, last) == [item |-> "open", parts |-> parts, last |-> last]

Rune == STRING
Part == [quote : {"bare", "escape", "single", "double", "doubleEscape"}, runes : Seq(Rune)]
Item == [item : {"word"}, parts : Seq(Part)]
          \cup [item : {"gap", "remark"}, runes : Seq(Rune)]
          \cup [item : {"open"}, parts : Seq(Part), last : Part]

(* Each part holds what it can hold as it is quoted.                        *)
IsPart(p) ==
  \/ p.quote = "bare" /\ Len(p.runes) > 0
       /\ \A i \in DOMAIN p.runes : Classify(p.runes[i]) \in {"unknown", "comment"}
  \/ p.quote = "escape" /\ Len(p.runes) > 0
  \/ p.quote = "single" /\ \A i \in DOMAIN p.runes : p.runes[i] # "'"
  \/ p.quote = "double"

(* A word does not begin with a #, which would make it a remark.            *)
IsParts(parts) ==
  /\ \A i \in DOMAIN parts : IsPart(parts[i])
  /\ Len(parts) > 0 /\ parts[1].quote = "bare" => Classify(parts[1].runes[1]) # "comment"

IsItem(i) ==
  \/ i.item = "word" /\ Len(i.parts) > 0 /\ IsParts(i.parts)
  \/ i.item = "gap" /\ Len(i.runes) > 0
       /\ \A j \in DOMAIN i.runes : Classify(i.runes[j]) = "space"
  \/ i.item = "remark" /\ \A j \in DOMAIN i.runes : i.runes[j] # "\n"
  \/ /\ i.item = "open" /\ IsParts(i.parts)
     /\ \/ i.last.quote \in {"escape", "double", "doubleEscape"}
        \/ i.last.quote = "single" /\ IsPart(i.last)

(* There is a gap after every word, and nothing after an open item.         *)
IsPhrase(phrase) ==
  /\ phrase \in Seq(Item)
  /\ \A i \in DOMAIN phrase : IsItem(phrase[i])
  /\ \A i \in 1..(Len(phrase) - 1) :
       /\ phrase[i].item = "word" => phrase[i + 1].item = "gap"
       /\ phrase[i].item # "open"

Map(Op(_), s) == [i \in DOMAIN s |-> Op(s[i])]
Concat(Op(_), s) == FlattenSeq(Map(Op, s))

Guard(rune) == <<"\\", rune>>
GuardInDouble(rune) == IF rune \in {"\"", "\\"} THEN <<"\\", rune>> ELSE <<rune>>

WritePart(p) ==
  CASE p.quote = "bare"   -> p.runes
    [] p.quote = "escape" -> Concat(Guard, p.runes)
    [] p.quote = "single" -> <<"'">> \o p.runes \o <<"'">>
    [] p.quote = "double" -> <<"\"">> \o Concat(GuardInDouble, p.runes) \o <<"\"">>

WriteOpen(p) ==
  CASE p.quote = "escape" -> Concat(Guard, p.runes) \o <<"\\">>
    [] p.quote = "single" -> <<"'">> \o p.runes
    [] p.quote = "double" -> <<"\"">> \o Concat(GuardInDouble, p.runes)
    [] p.quote = "doubleEscape" -> <<"\"">> \o Concat(GuardInDouble, p.runes) \o <<"\\">>

WriteItem(i) ==
  CASE i.item = "word"   -> Concat(WritePart, i.parts)
    [] i.item = "gap"    -> i.runes
    [] i.item = "remark" -> <<"#">> \o i.runes \o <<"\n">>
    [] i.item = "open"   -> Concat(WritePart, i.parts) \o WriteOpen(i.last)

Write(phrase) == Concat(WriteItem, phrase)

RunesOf(p) == p.runes
MeantWords(i) == IF i.item = "word" THEN <<Concat(RunesOf, i.parts)>> ELSE <<>>

Meant(phrase) ==
  IF \E i \in DOMAIN phrase : phrase[i].item = "open" THEN [ok |-> FALSE, words |-> <<>>]
  ELSE [ok |-> TRUE, words |-> Concat(MeantWords, phrase)]
==============================================================================
