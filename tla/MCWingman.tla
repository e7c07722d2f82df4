------------------------------ MODULE MCWingman ------------------------------
(***************************************************************************)
(* The wingmen of two services.  That of the database wants a secret, that *)
(* of the queue a string that it gives no module.                          *)
(***************************************************************************)
EXTENDS Wingman

Database == <<"app", "db">>
Queue == <<"app", "queue">>

Password == [module |-> "app", identifier |-> "token", kind |-> "Secret"]
Key == [module |-> "app", identifier |-> "key", kind |-> "String"]
Size == [module |-> None, identifier |-> "size", kind |-> "String"]
Filled == [Size EXCEPT !.module = "app"]

MCAnswers == {{}, {Password}, {Password, Filled}}
MCAdditions == {Key}

MCService == {Database, Queue}
MCPoints == [w \in MCService |-> IF w = Database THEN {Password} ELSE {Size}]

MCWords ==
  {Word(<<Bare(<<"a">>)>>),
   Word(<<Bare(<<"a", "#">>), Single(<<" ", "\\", "\"">>)>>),
   Word(<<Double(<<"'", "\"", "\\">>), Bare(<<"a">>)>>),
   Word(<<Single(<<>>)>>),
   Word(<<Escaped(<<"#", "\n">>), Double(<<"#">>)>>)}

MCGaps == {<<Gap(<<" ">>)>>, <<Gap(<<"\n", "\t">>)>>, <<Gap(<<" ">>), Remark(<<"a", "'", " ">>)>>}
MCOpen ==
  {Open(<<>>, Double(<<"a">>)), Open(<<>>, Single(<<"\\">>)), Open(<<Bare(<<"a">>)>>, Escaped(<<>>)),
   Open(<<>>, [quote |-> "doubleEscape", runes |-> <<"'">>])}

MCPhrase ==
  {<<>>} \cup {<<w>> : w \in MCWords}
    \cup {<<v>> \o g \o <<w>> : v \in MCWords, g \in MCGaps, w \in MCWords}
    \cup {<<v>> \o g \o <<w>> : v \in MCWords, g \in MCGaps, w \in MCOpen}
    \cup {g \o <<w>> \o g : g \in MCGaps, w \in MCWords}
==============================================================================
