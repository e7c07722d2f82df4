----------------------------- MODULE ShlexProofs -----------------------------
(***************************************************************************)
(* Split finds the words of every phrase that Write puts down.             *)
(***************************************************************************)
EXTENDS Shlex, SequenceTheorems, WellFoundedInduction, TLAPS

----------------------------------------------------------------------------
(***************************************************************************)
(* Induction over the naturals, for a set.                                 *)
(***************************************************************************)

LEMMA Induction ==
  ASSUME NEW S, 0 \in S, \A n \in Nat : n \in S => n + 1 \in S
  PROVE  Nat \subseteq S
<1> DEFINE Less == {ss \in Nat \X Nat : ss[1] < ss[2]}
           T == Nat \ S
<1>1. IsWellFoundedOn(Less, Nat)
  BY NatLessThanWellFounded DEF OpToRel
<1>2. \A x, y \in Nat : y < x => <<y, x>> \in Less
  OBVIOUS
<1> HIDE DEF Less
<1>3. SUFFICES ASSUME T # {} PROVE FALSE
  OBVIOUS
<1>4. PICK x \in T : \A y \in T : ~(<<y, x>> \in Less)
  <2>1. T \subseteq Nat
    OBVIOUS
  <2> HIDE DEF T
  <2> QED BY ONLY <1>1, <1>3, <2>1, WFMin
<1>5. x \in Nat /\ x \notin S /\ x # 0
  BY <1>4
<1>6. x - 1 \in Nat /\ x - 1 < x /\ (x - 1) + 1 = x
  BY <1>5
<1>7. x - 1 \in S
  BY <1>2, <1>4, <1>5, <1>6
<1> QED BY <1>5, <1>6, <1>7

LEMMA UpTo ==
  ASSUME NEW N \in Nat, NEW S, 0 \in S, \A n \in 0..(N - 1) : n \in S => n + 1 \in S
  PROVE  N \in S
<1> DEFINE T == {n \in Nat : n <= N => n \in S}
<1>1. 0 \in T
  OBVIOUS
<1>2. \A n \in Nat : n \in T => n + 1 \in T
  OBVIOUS
<1> HIDE DEF T
<1>3. N \in T
  BY <1>1, <1>2, Induction
<1> QED BY <1>3 DEF T

----------------------------------------------------------------------------
(***************************************************************************)
(* The lexer goes from l to m over a text.                                 *)
(***************************************************************************)

Path(f, l, text, m) ==
  /\ f = [n \in 0..Len(text) |-> f[n]]
  /\ f[0] = l /\ f[Len(text)] = m
  /\ \A n \in 1..Len(text) : f[n] = ScanRune(f[n - 1], text[n])

Reads(l, text, m) == \E f : Path(f, l, text, m)

LEMMA EmptyIs ==
  ASSUME NEW S
  PROVE  <<>> \in Seq(S) /\ Len(<<>>) = 0 /\ \A s \in Seq(S) : <<>> \o s = s /\ s \o <<>> = s
<1>1. <<>> \in Seq(S) /\ Len(<<>>) = 0
  OBVIOUS
<1>2. \A s \in Seq(S) : <<>> \o s = s /\ s \o <<>> = s
  BY ConcatEmptySeq
<1> QED BY <1>1, <1>2

LEMMA OneIs ==
  ASSUME NEW S, NEW r \in S
  PROVE  <<r>> \in Seq(S) /\ Len(<<r>>) = 1 /\ <<r>>[1] = r
  OBVIOUS

LEMMA ReadNothing == ASSUME NEW l, NEW s, Len(s) = 0 PROVE Reads(l, s, l)
<1> DEFINE f == [n \in 0..0 |-> l]
<1>1. Path(f, l, s, l)
  BY DEF Path
<1> QED BY <1>1, Zenon DEF Reads

LEMMA ReadRune == ASSUME NEW l, NEW r PROVE Reads(l, <<r>>, ScanRune(l, r))
<1> DEFINE f == [n \in 0..1 |-> IF n = 0 THEN l ELSE ScanRune(l, r)]
           s == <<r>>
<1>1. Len(s) = 1 /\ s[1] = r
  OBVIOUS
<1> HIDE DEF s
<1>2. /\ f = [n \in 0..1 |-> f[n]]
      /\ f[0] = l /\ f[1] = ScanRune(l, r)
  OBVIOUS
<1>3. \A n \in 1..1 : f[n] = ScanRune(f[n - 1], s[n])
  <2> TAKE n \in 1..1
  <2>1. n = 1 /\ n - 1 = 0
    OBVIOUS
  <2> HIDE DEF f
  <2> QED BY <2>1, <1>1, <1>2
<1> HIDE DEF f
<1>4. Path(f, l, s, ScanRune(l, r))
  BY <1>1, <1>2, <1>3 DEF Path
<1> QED BY <1>4, Zenon DEF Reads, s

LEMMA ReadMore ==
  ASSUME NEW X, NEW s \in Seq(X), NEW t \in Seq(X), NEW l, NEW m, NEW n,
         Reads(l, s, m), Reads(m, t, n)
  PROVE  Reads(l, s \o t, n)
<1>1. PICK f : Path(f, l, s, m)
  BY DEF Reads
<1>2. PICK g : Path(g, m, t, n)
  BY DEF Reads
<1> DEFINE a == Len(s)
           b == Len(t)
           u == s \o t
           h == [k \in 0..(a + b) |-> IF k <= a THEN f[k] ELSE g[k - a]]
<1>3. /\ a \in Nat /\ b \in Nat /\ Len(u) = a + b
      /\ \A k \in 1..a : u[k] = s[k]
      /\ \A k \in (a + 1)..(a + b) : u[k] = t[k - a]
  OBVIOUS
<1> HIDE DEF a, b, u
<1>4. /\ f[0] = l /\ f[a] = m /\ g[0] = m /\ g[b] = n
      /\ \A k \in 1..a : f[k] = ScanRune(f[k - 1], s[k])
      /\ \A k \in 1..b : g[k] = ScanRune(g[k - 1], t[k])
  BY <1>1, <1>2 DEF Path, a, b
<1>5. \A k \in 0..(a + b) : h[k] = IF k <= a THEN f[k] ELSE g[k - a]
  OBVIOUS
<1>6. h = [k \in 0..(a + b) |-> h[k]]
  OBVIOUS
<1> HIDE DEF h
<1>7. h[0] = l /\ h[a + b] = n
  <2>1. 0 \in 0..(a + b) /\ 0 <= a /\ a + b \in 0..(a + b) /\ (a + b) - a = b
    BY <1>3
  <2>2. CASE b = 0
    <3>1. a + b = a /\ a <= a
      BY <1>3, <2>2
    <3> QED BY <1>4, <1>5, <2>1, <2>2, <3>1
  <2>3. CASE b # 0
    <3>1. ~(a + b <= a)
      BY <1>3, <2>3
    <3> QED BY <1>4, <1>5, <2>1, <3>1
  <2> QED BY <2>2, <2>3
<1>8. ASSUME NEW k \in 1..(a + b) PROVE h[k] = ScanRune(h[k - 1], u[k])
  <2>1. CASE k <= a
    <3>1. k \in 1..a /\ k - 1 <= a /\ k \in 0..(a + b) /\ k - 1 \in 0..(a + b)
      BY <1>3, <2>1
    <3> QED BY <1>3, <1>4, <1>5, <2>1, <3>1
  <2>2. CASE k > a
    <3>1. /\ k - a \in 1..b /\ ~(k <= a) /\ k \in 0..(a + b) /\ k - 1 \in 0..(a + b)
          /\ k \in (a + 1)..(a + b) /\ (k - 1) - a = (k - a) - 1
      BY <1>3, <2>2
    <3>2. h[k - 1] = g[(k - a) - 1]
      <4>1. CASE k - 1 <= a
        <5>1. k - 1 = a /\ (k - a) - 1 = 0
          BY <1>3, <2>2, <4>1
        <5> QED BY <1>4, <1>5, <3>1, <4>1, <5>1
      <4>2. CASE ~(k - 1 <= a)
        BY <1>5, <3>1, <4>2
      <4> QED BY <4>1, <4>2
    <3>3. h[k] = g[k - a]
      BY <1>5, <3>1
    <3> QED BY <1>3, <1>4, <3>1, <3>2, <3>3
  <2> QED BY <1>3, <2>1, <2>2
<1>9. Path(h, l, u, n)
  BY <1>3, <1>6, <1>7, <1>8 DEF Path
<1> QED BY <1>9, Zenon DEF Reads, u

(* What Split computes is that path.                                        *)
Ending(l) ==
  CASE l.state = "start"                 -> [ok |-> TRUE, words |-> l.words]
    [] l.state \in {"inWord", "comment"} -> [ok |-> TRUE, words |-> Token(l).words]
    [] OTHER                             -> [ok |-> FALSE, words |-> <<>>]

LEMMA SplitReads ==
  ASSUME NEW text, Len(text) \in Nat, NEW l, Reads(NewLexer, text, l)
  PROVE  Split(text) = Ending(l)
<1> DEFINE N == Len(text)
           Is(g) == g = [n \in 0..N |-> IF n = 0 THEN NewLexer ELSE ScanRune(g[n - 1], text[n])]
           after == CHOOSE g : Is(g)
<1>1. PICK f : Path(f, NewLexer, text, l)
  BY DEF Reads
<1>2. /\ N \in Nat /\ f = [n \in 0..N |-> f[n]] /\ f[0] = NewLexer /\ f[N] = l
      /\ \A n \in 1..N : f[n] = ScanRune(f[n - 1], text[n])
  BY <1>1 DEF Path
<1>3. Is(f)
  <2>1. \A n \in 0..N : f[n] = IF n = 0 THEN NewLexer ELSE ScanRune(f[n - 1], text[n])
    BY <1>2
  <2> QED BY <1>2, <2>1
<1>4. Is(after)
  <2> HIDE DEF Is
  <2> QED BY <1>3, Zenon
<1>5. Split(text) = Ending(after[N])
  BY Zenon DEF Split, Ending
<1> HIDE DEF after
<1>6. \A n \in 0..N : after[n] = IF n = 0 THEN NewLexer ELSE ScanRune(after[n - 1], text[n])
  BY <1>4
<1> DEFINE S == {n \in 0..N : after[n] = f[n]}
<1>7. 0 \in S
  BY <1>2, <1>6
<1>8. ASSUME NEW n \in 0..(N - 1), n \in S PROVE n + 1 \in S
  <2>1. n + 1 \in 1..N /\ n + 1 \in 0..N /\ n + 1 # 0 /\ (n + 1) - 1 = n
    BY <1>2
  <2>2. after[n + 1] = ScanRune(after[n], text[n + 1])
    BY <1>6, <2>1
  <2>3. f[n + 1] = ScanRune(f[n], text[n + 1])
    BY <1>2, <2>1
  <2> QED BY <1>8, <2>1, <2>2, <2>3
<1> HIDE DEF S
<1>9. N \in S
  BY <1>2, <1>7, <1>8, UpTo
<1>10. after[N] = l
  BY <1>2, <1>9 DEF S
<1> QED BY <1>5, <1>10

----------------------------------------------------------------------------
(***************************************************************************)
(* Sequences that are joined.                                              *)
(***************************************************************************)

Joined(f, seqs) ==
  /\ f[0] = <<>>
  /\ \A i \in 1..Len(seqs) : f[i] = f[i - 1] \o seqs[i]

LEMMA JoinedIs ==
  ASSUME NEW X, NEW seqs \in Seq(Seq(X))
  PROVE  \E f \in [0..Len(seqs) -> Seq(X)] : Joined(f, seqs)
<1> DEFINE N == Len(seqs)
           Is(f, k) == /\ f \in [0..k -> Seq(X)]
                       /\ f[0] = <<>>
                       /\ \A i \in 1..k : f[i] = f[i - 1] \o seqs[i]
           S == {k \in 0..N : \E f : Is(f, k)}
           empty == <<>>
<1>1. N \in Nat /\ \A i \in 1..N : seqs[i] \in Seq(X)
  OBVIOUS
<1>2. empty \in Seq(X)
  OBVIOUS
<1> HIDE DEF empty
<1>3. 0 \in S
  <2> DEFINE f == [i \in 0..0 |-> empty]
  <2>1. f \in [0..0 -> Seq(X)] /\ f[0] = empty
    BY <1>2
  <2>2. Is(f, 0)
    BY <2>1 DEF empty
  <2> HIDE DEF f, Is
  <2>3. 0 \in 0..N
    BY <1>1
  <2> QED BY <2>2, <2>3
<1>4. ASSUME NEW k \in 0..(N - 1), k \in S PROVE k + 1 \in S
  <2>1. PICK f : Is(f, k)
    BY <1>4, Zenon
  <2> DEFINE next == f[k] \o seqs[k + 1]
             g == [i \in 0..(k + 1) |-> IF i <= k THEN f[i] ELSE next]
  <2>2. /\ k \in Nat /\ k + 1 \in 1..N /\ k + 1 \in 0..N /\ ~(k + 1 <= k)
        /\ (k + 1) - 1 = k /\ k + 1 \in 0..(k + 1) /\ k \in 0..k
    BY <1>1
  <2>3. f \in [0..k -> Seq(X)] /\ \A i \in 1..k : f[i] = f[i - 1] \o seqs[i]
    BY <2>1
  <2>4. f[k] \in Seq(X) /\ seqs[k + 1] \in Seq(X)
    BY <1>1, <2>2, <2>3
  <2>5. next \in Seq(X)
    BY <2>4, ConcatProperties
  <2>6. f[0] = empty
    BY <2>1 DEF empty
  <2> HIDE DEF next, Is
  <2>7. g \in [0..(k + 1) -> Seq(X)] /\ g[0] = empty /\ g[k + 1] = next
    BY <2>2, <2>3, <2>5, <2>6
  <2>8. \A i \in 0..k : g[i] = f[i]
    BY <2>2
  <2> HIDE DEF g
  <2>9. ASSUME NEW i \in 1..(k + 1) PROVE g[i] = g[i - 1] \o seqs[i]
    <3>1. CASE i = k + 1
      <4>1. g[i] = next /\ i - 1 = k /\ g[k] = f[k]
        BY <2>2, <2>7, <2>8, <3>1
      <4> QED BY <3>1, <4>1 DEF next
    <3>2. CASE i # k + 1
      <4>1. i \in 1..k /\ i \in 0..k /\ i - 1 \in 0..k
        BY <2>2, <3>2
      <4> QED BY <2>3, <2>8, <4>1
    <3> QED BY <3>1, <3>2
  <2>10. Is(g, k + 1)
    BY <2>7, <2>9 DEF Is, empty
  <2> QED BY <2>2, <2>10
<1>5. N \in S
  <2> HIDE DEF S
  <2> QED BY <1>1, <1>3, <1>4, UpTo
<1>6. PICK f : Is(f, N)
  BY <1>5, Zenon
<1> QED BY <1>6 DEF Joined

LEMMA FlattenIs ==
  ASSUME NEW X, NEW seqs \in Seq(Seq(X)), NEW f \in [0..Len(seqs) -> Seq(X)], Joined(f, seqs)
  PROVE  FlattenSeq(seqs) = f[Len(seqs)]
<1> DEFINE N == Len(seqs)
           Is(g) == g = [i \in 1..N |-> IF i = 1 THEN seqs[i] ELSE g[i - 1] \o seqs[i]]
           flatten == CHOOSE g : Is(g)
<1>1. N \in Nat /\ \A i \in 1..N : seqs[i] \in Seq(X)
  OBVIOUS
<1>2. f[0] = <<>> /\ \A i \in 1..N : f[i] = f[i - 1] \o seqs[i]
  BY DEF Joined
<1>3. CASE N = 0
  <2>1. seqs = <<>>
    BY <1>3, EmptySeq
  <2>2. FlattenSeq(seqs) = seqs
    BY <1>3 DEF FlattenSeq
  <2> QED BY <1>2, <1>3, <2>1, <2>2
<1>4. CASE N # 0
  <2> DEFINE h == [i \in 1..N |-> f[i]]
  <2>1. 1 \in 1..N /\ 1 - 1 = 0
    BY <1>1, <1>4
  <2>2. f[1] = seqs[1]
    <3>1. f[1] = f[1 - 1] \o seqs[1] /\ seqs[1] \in Seq(X)
      BY <1>1, <1>2, <2>1
    <3>2. <<>> \o seqs[1] = seqs[1]
      BY <3>1, EmptyIs
    <3> QED BY <1>2, <2>1, <3>1, <3>2
  <2>3. Is(h)
    <3>1. ASSUME NEW i \in 1..N
          PROVE  f[i] = IF i = 1 THEN seqs[i] ELSE h[i - 1] \o seqs[i]
      <4>1. CASE i = 1
        BY <2>2, <4>1
      <4>2. CASE i # 1
        <5>1. i - 1 \in 1..N
          BY <1>1, <4>2
        <5> QED BY <1>2, <4>2, <5>1
      <4> QED BY <4>1, <4>2
    <3> QED BY <3>1
  <2>4. Is(flatten)
    <3> HIDE DEF Is, h
    <3> QED BY <2>3, Zenon
  <2>5. FlattenSeq(seqs) = flatten[N]
    BY <1>4 DEF FlattenSeq
  <2> HIDE DEF flatten
  <2>6. \A i \in 1..N : flatten[i] = IF i = 1 THEN seqs[i] ELSE flatten[i - 1] \o seqs[i]
    BY <2>4
  <2> DEFINE S == {k \in 0..N : k = 0 \/ flatten[k] = f[k]}
  <2>7. 0 \in S
    BY <1>1
  <2>8. ASSUME NEW k \in 0..(N - 1), k \in S PROVE k + 1 \in S
    <3>1. k + 1 \in 1..N /\ (k + 1) - 1 = k /\ k + 1 \in 0..N
      BY <1>1
    <3>2. flatten[k + 1] = f[k + 1]
      <4>1. CASE k = 0
        BY <2>1, <2>2, <2>6, <4>1
      <4>2. CASE k # 0
        <5>1. flatten[k] = f[k] /\ k + 1 # 1
          BY <2>8, <3>1, <4>2
        <5>2. flatten[k + 1] = flatten[(k + 1) - 1] \o seqs[k + 1]
          BY <2>6, <3>1, <5>1
        <5>3. f[k + 1] = f[(k + 1) - 1] \o seqs[k + 1]
          BY <1>2, <3>1
        <5> QED BY <3>1, <5>1, <5>2, <5>3
      <4> QED BY <4>1, <4>2
    <3> QED BY <3>1, <3>2
  <2>9. N \in S
    <3> HIDE DEF S
    <3> QED BY <1>1, <2>7, <2>8, UpTo
  <2> QED BY <1>4, <2>5, <2>9
<1> QED BY <1>3, <1>4

(* The lexer goes over the pieces of a text one after another.              *)
LEMMA ReadPieces ==
  ASSUME NEW X, NEW pieces \in Seq(Seq(X)), NEW at,
         \A i \in 1..Len(pieces) : Reads(at[i - 1], pieces[i], at[i])
  PROVE  Reads(at[0], FlattenSeq(pieces), at[Len(pieces)])
<1> DEFINE N == Len(pieces)
<1>1. N \in Nat /\ \A i \in 1..N : pieces[i] \in Seq(X)
  OBVIOUS
<1>2. PICK f \in [0..N -> Seq(X)] : Joined(f, pieces)
  BY JoinedIs
<1>3. f[0] = <<>> /\ \A i \in 1..N : f[i] = f[i - 1] \o pieces[i]
  BY <1>2 DEF Joined
<1> DEFINE S == {k \in 0..N : Reads(at[0], f[k], at[k])}
<1>4. 0 \in S
  <2>1. Len(f[0]) = 0
    BY <1>3, EmptyIs
  <2>2. Reads(at[0], f[0], at[0])
    BY <2>1, ReadNothing
  <2> QED BY <1>1, <2>2
<1>5. ASSUME NEW k \in 0..(N - 1), k \in S PROVE k + 1 \in S
  <2>1. k + 1 \in 1..N /\ k + 1 \in 0..N /\ (k + 1) - 1 = k /\ k \in 0..N
    BY <1>1
  <2>2. /\ Reads(at[0], f[k], at[k]) /\ Reads(at[k], pieces[k + 1], at[k + 1])
        /\ f[k] \in Seq(X) /\ pieces[k + 1] \in Seq(X)
    BY <1>1, <1>2, <1>5, <2>1
  <2>3. Reads(at[0], f[k] \o pieces[k + 1], at[k + 1])
    BY <2>2, ReadMore
  <2> QED BY <1>3, <2>1, <2>3
<1>6. N \in S
  <2> HIDE DEF S
  <2> QED BY <1>1, <1>4, <1>5, UpTo
<1>7. Reads(at[0], f[N], at[N])
  BY <1>6
<1> QED BY <1>2, <1>7, FlattenIs

LEMMA ReadEach ==
  ASSUME NEW s, Len(s) \in Nat, NEW at, \A i \in 1..Len(s) : at[i] = ScanRune(at[i - 1], s[i])
  PROVE  Reads(at[0], s, at[Len(s)])
<1> DEFINE f == [n \in 0..Len(s) |-> at[n]]
<1>1. \A n \in 0..Len(s) : f[n] = at[n]
  OBVIOUS
<1>2. f = [n \in 0..Len(s) |-> f[n]]
  OBVIOUS
<1> HIDE DEF f
<1>3. Path(f, at[0], s, at[Len(s)])
  BY <1>1, <1>2 DEF Path
<1> QED BY <1>3, Zenon DEF Reads

----------------------------------------------------------------------------
(***************************************************************************)
(* One rune.                                                               *)
(***************************************************************************)

LEMMA ClassifyIs ==
  /\ Classify("\\") = "escape" /\ Classify("\"") = "escapingQuote"
  /\ Classify("'") = "nonEscapingQuote" /\ Classify("#") = "comment"
BY DEF Classify

LEMMA ClassifyOf ==
  ASSUME NEW r
  PROVE  /\ Classify(r) \in {"space", "escapingQuote", "nonEscapingQuote", "escape", "comment", "unknown"}
         /\ Classify(r) = "escapingQuote" => r = "\""
         /\ Classify(r) = "nonEscapingQuote" => r = "'"
         /\ Classify(r) = "escape" => r = "\\"
<1>1. CASE r \in {" ", "\t", "\r", "\n"}
  BY <1>1 DEF Classify
<1>2. CASE r \in {"\"", "'", "\\", "#"}
  BY <1>2 DEF Classify
<1>3. CASE r \notin {" ", "\t", "\r", "\n", "\"", "'", "\\", "#"}
  BY <1>3 DEF Classify
<1> QED BY <1>1, <1>2, <1>3

(* The fields of a lexer. *)
Lexer(state, comment, value, words) ==
  [state |-> state, comment |-> comment, value |-> value, words |-> words]

LEMMA SetState ==
  ASSUME NEW s, NEW t, NEW c, NEW v, NEW w
  PROVE  [Lexer(s, c, v, w) EXCEPT !.state = t] = Lexer(t, c, v, w)
BY DEF Lexer

LEMMA SetValue ==
  ASSUME NEW s, NEW c, NEW v, NEW u, NEW w
  PROVE  [Lexer(s, c, v, w) EXCEPT !.value = u] = Lexer(s, c, u, w)
BY DEF Lexer

LEMMA SetWords ==
  ASSUME NEW s, NEW c, NEW v, NEW w, NEW x
  PROVE  [Lexer(s, c, v, w) EXCEPT !.words = x] = Lexer(s, c, v, x)
BY DEF Lexer

LEMMA SetComment ==
  ASSUME NEW s, NEW c, NEW d, NEW v, NEW w
  PROVE  [Lexer(s, c, v, w) EXCEPT !.comment = d] = Lexer(s, d, v, w)
BY DEF Lexer

LEMMA SetBoth ==
  ASSUME NEW l, NEW u, NEW t
  PROVE  [l EXCEPT !.state = t, !.value = u] = [[l EXCEPT !.state = t] EXCEPT !.value = u]
OBVIOUS

LEMMA FieldsAre ==
  ASSUME NEW s, NEW c, NEW v, NEW w
  PROVE  LET l == Lexer(s, c, v, w) IN
         l.state = s /\ l.value = v /\ l.words = w
BY DEF Lexer

LEMMA TurnIs ==
  ASSUME NEW s, NEW t, NEW c, NEW v, NEW w
  PROVE  Turn(Lexer(s, c, v, w), t) = Lexer(t, c, v, w)
BY SetState DEF Turn

LEMMA TakeIs ==
  ASSUME NEW s, NEW t, NEW c, NEW v, NEW w, NEW r
  PROVE  Take(Lexer(s, c, v, w), r, t) = Lexer(t, c, Append(v, r), w)
<1> DEFINE l == Lexer(s, c, v, w)
           u == Append(v, r)
<1>1. Take(l, r, t) = [l EXCEPT !.state = t, !.value = Append(l.value, r)]
  BY DEF Take
<1>2. l.value = v
  BY FieldsAre
<1>3. Take(l, r, t) = [l EXCEPT !.state = t, !.value = u]
  BY <1>1, <1>2
<1> HIDE DEF u
<1>4. [l EXCEPT !.state = t, !.value = u] = [[l EXCEPT !.state = t] EXCEPT !.value = u]
  BY SetBoth
<1>5. [l EXCEPT !.state = t] = Lexer(t, c, v, w)
  BY SetState
<1>6. [Lexer(t, c, v, w) EXCEPT !.value = u] = Lexer(t, c, u, w)
  BY SetValue
<1> QED BY <1>3, <1>4, <1>5, <1>6 DEF u

LEMMA WordEnds ==
  ASSUME NEW s, NEW v, NEW w
  PROVE  Token(Lexer(s, FALSE, v, w)) = Lexer("start", FALSE, <<>>, Append(w, v))
<1> DEFINE empty == <<>>
           no == FALSE
           l == Lexer(s, no, v, w)
<1>1. NewLexer = Lexer("start", no, empty, empty)
  BY DEF NewLexer, Lexer
<1> HIDE DEF no
<1>2. l.comment = no /\ l.value = v /\ l.words = w
  BY DEF Lexer
<1> HIDE DEF l
<1>3. Token(l) = [NewLexer EXCEPT !.words = Append(w, v)]
  BY <1>2 DEF Token, no
<1> HIDE DEF empty
<1>4. \A x : [NewLexer EXCEPT !.words = x] = Lexer("start", no, empty, x)
  BY <1>1, SetWords
<1>5. Token(l) = Lexer("start", no, empty, Append(w, v))
  BY <1>3, <1>4
<1> QED BY <1>5 DEF empty, no, l

LEMMA RemarkDropped ==
  ASSUME NEW s, NEW c, c, NEW v, NEW w
  PROVE  Token(Lexer(s, c, v, w)) = Lexer("start", FALSE, <<>>, w)
<1> DEFINE empty == <<>>
           no == FALSE
           l == Lexer(s, c, v, w)
<1>1. NewLexer = Lexer("start", no, empty, empty)
  BY DEF NewLexer, Lexer
<1>2. l.comment = c /\ l.value = v /\ l.words = w
  BY DEF Lexer
<1> HIDE DEF l
<1>3. Token(l) = [NewLexer EXCEPT !.words = w]
  BY <1>2 DEF Token
<1> HIDE DEF empty, no
<1>4. \A x : [NewLexer EXCEPT !.words = x] = Lexer("start", no, empty, x)
  BY <1>1, SetWords
<1>5. Token(l) = Lexer("start", no, empty, w)
  BY <1>3, <1>4
<1> QED BY <1>5 DEF empty, no, l

LEMMA ScanIs ==
  ASSUME NEW l, NEW r
  PROVE  /\ l.state = "start" => ScanRune(l, r) = Start(l, r, Classify(r))
         /\ l.state = "inWord" => ScanRune(l, r) = InWord(l, r, Classify(r))
         /\ l.state = "escaping" => ScanRune(l, r) = Take(l, r, "inWord")
         /\ l.state = "escapingQuoted" => ScanRune(l, r) = Take(l, r, "quotingEscaping")
         /\ l.state = "quotingEscaping" => ScanRune(l, r) = Quoted(l, r, Classify(r))
         /\ l.state = "quoting" =>
              ScanRune(l, r) = IF Classify(r) = "nonEscapingQuote" THEN Turn(l, "inWord")
                               ELSE Take(l, r, "quoting")
         /\ l.state = "comment" =>
              ScanRune(l, r) = IF r = "\n" THEN Token(l) ELSE Take(l, r, "comment")
BY DEF ScanRune

LEMMA Openings ==
  ASSUME NEW c, NEW v, NEW w, NEW from \in {"start", "inWord"}, NEW r
  PROVE  LET next == ScanRune(Lexer(from, c, v, w), r) IN
         /\ Classify(r) = "escape" => next = Lexer("escaping", c, v, w)
         /\ Classify(r) = "escapingQuote" => next = Lexer("quotingEscaping", c, v, w)
         /\ Classify(r) = "nonEscapingQuote" => next = Lexer("quoting", c, v, w)
<1> DEFINE l == Lexer(from, c, v, w)
<1>1. l.state = from
  BY FieldsAre
<1>2. \A state : Turn(l, state) = Lexer(state, c, v, w)
  BY TurnIs
<1> HIDE DEF l
<1>3. Classify(r) \in Openers => ScanRune(l, r) = Opened(l, Classify(r))
  BY <1>1, ScanIs DEF Start, InWord, Openers
<1>4. /\ Opened(l, "escapingQuote") = Lexer("quotingEscaping", c, v, w)
      /\ Opened(l, "nonEscapingQuote") = Lexer("quoting", c, v, w)
      /\ Opened(l, "escape") = Lexer("escaping", c, v, w)
  BY <1>2 DEF Opened
<1>5. /\ Classify(r) = "escape" => ScanRune(l, r) = Lexer("escaping", c, v, w)
      /\ Classify(r) = "escapingQuote" => ScanRune(l, r) = Lexer("quotingEscaping", c, v, w)
      /\ Classify(r) = "nonEscapingQuote" => ScanRune(l, r) = Lexer("quoting", c, v, w)
  BY <1>3, <1>4 DEF Openers
<1> QED BY <1>5 DEF l

LEMMA Takings ==
  ASSUME NEW c, NEW v, NEW w, NEW r
  PROVE  LET next(state) == ScanRune(Lexer(state, c, v, w), r)
             taken(state) == Lexer(state, c, Append(v, r), w) IN
         /\ next("escaping") = taken("inWord")
         /\ next("escapingQuoted") = taken("quotingEscaping")
         /\ Classify(r) # "nonEscapingQuote" => next("quoting") = taken("quoting")
         /\ Classify(r) \notin {"escapingQuote", "escape"} =>
              next("quotingEscaping") = taken("quotingEscaping")
         /\ Classify(r) \in {"unknown", "comment"} => next("inWord") = taken("inWord")
         /\ Classify(r) = "unknown" => next("start") = taken("inWord")
         /\ r # "\n" => next("comment") = taken("comment")
<1> DEFINE u == Append(v, r)
           l(state) == Lexer(state, c, v, w)
<1>1. \A from, to : Take(l(from), r, to) = Lexer(to, c, u, w)
  BY TakeIs
<1>2. \A state : l(state).state = state
  BY FieldsAre
<1> HIDE DEF u, l
<1>3. ScanRune(l("escaping"), r) = Lexer("inWord", c, u, w)
  BY <1>1, <1>2, ScanIs
<1>4. ScanRune(l("escapingQuoted"), r) = Lexer("quotingEscaping", c, u, w)
  BY <1>1, <1>2, ScanIs
<1>5. Classify(r) # "nonEscapingQuote" => ScanRune(l("quoting"), r) = Lexer("quoting", c, u, w)
  BY <1>1, <1>2, ScanIs
<1>6. Classify(r) \notin {"escapingQuote", "escape"} =>
        ScanRune(l("quotingEscaping"), r) = Lexer("quotingEscaping", c, u, w)
  BY <1>1, <1>2, ScanIs DEF Quoted
<1>7. Classify(r) \in {"unknown", "comment"} =>
        ScanRune(l("inWord"), r) = Lexer("inWord", c, u, w)
  BY <1>1, <1>2, ScanIs DEF InWord, Openers
<1>8. Classify(r) = "unknown" => ScanRune(l("start"), r) = Lexer("inWord", c, u, w)
  BY <1>1, <1>2, ScanIs DEF Start, Openers
<1>9. r # "\n" => ScanRune(l("comment"), r) = Lexer("comment", c, u, w)
  BY <1>1, <1>2, ScanIs
<1> QED BY <1>3, <1>4, <1>5, <1>6, <1>7, <1>8, <1>9 DEF u, l

LEMMA Closings ==
  ASSUME NEW c, NEW v, NEW w, NEW r
  PROVE  LET next(state) == ScanRune(Lexer(state, c, v, w), r)
             turned(state) == Lexer(state, c, v, w) IN
         /\ Classify(r) = "escapingQuote" => next("quotingEscaping") = turned("inWord")
         /\ Classify(r) = "escape" => next("quotingEscaping") = turned("escapingQuoted")
         /\ Classify(r) = "nonEscapingQuote" => next("quoting") = turned("inWord")
<1> DEFINE l(state) == Lexer(state, c, v, w)
<1>1. \A from, to : Turn(l(from), to) = l(to)
  BY TurnIs
<1>2. \A state : l(state).state = state
  BY FieldsAre
<1> HIDE DEF l
<1>3. Classify(r) = "escapingQuote" => ScanRune(l("quotingEscaping"), r) = l("inWord")
  BY <1>1, <1>2, ScanIs DEF Quoted
<1>4. Classify(r) = "escape" => ScanRune(l("quotingEscaping"), r) = l("escapingQuoted")
  BY <1>1, <1>2, ScanIs DEF Quoted
<1>5. Classify(r) = "nonEscapingQuote" => ScanRune(l("quoting"), r) = l("inWord")
  BY <1>1, <1>2, ScanIs
<1> QED BY <1>3, <1>4, <1>5 DEF l

LEMMA SpaceStays ==
  ASSUME NEW c, NEW w, NEW v, NEW r, Classify(r) = "space"
  PROVE  ScanRune(Lexer("start", c, v, w), r) = Lexer("start", c, v, w)
BY ScanIs, FieldsAre DEF Start

LEMMA SpaceEnds ==
  ASSUME NEW w, NEW v, NEW r, Classify(r) = "space"
  PROVE  ScanRune(Lexer("inWord", FALSE, v, w), r) = Lexer("start", FALSE, <<>>, Append(w, v))
<1> DEFINE l == Lexer("inWord", FALSE, v, w)
<1>1. l.state = "inWord"
  BY DEF Lexer
<1>2. Token(l) = Lexer("start", FALSE, <<>>, Append(w, v))
  BY WordEnds, Zenon
<1> HIDE DEF l
<1>3. ScanRune(l, r) = Token(l)
  BY ONLY <1>1, Classify(r) = "space", ScanIs DEF InWord
<1> QED BY ONLY <1>2, <1>3, Zenon DEF l

LEMMA RemarkBegins ==
  ASSUME NEW c, NEW v, NEW w, NEW r, Classify(r) = "comment"
  PROVE  ScanRune(Lexer("start", c, v, w), r) = Lexer("comment", TRUE, v, w)
<1> DEFINE yes == TRUE
           l == Lexer("start", c, v, w)
<1>1. ScanRune(l, r) = Start(l, r, Classify(r))
  BY ScanIs, FieldsAre
<1>2. Start(l, r, Classify(r)) = [Turn(l, "comment") EXCEPT !.comment = TRUE]
  <2> HIDE DEF l
  <2>1. "comment" # "space"
    OBVIOUS
  <2> QED BY <2>1, Zenon DEF Start
<1>3. Turn(l, "comment") = Lexer("comment", c, v, w)
  BY TurnIs
<1> HIDE DEF yes
<1>4. [Lexer("comment", c, v, w) EXCEPT !.comment = yes] = Lexer("comment", yes, v, w)
  BY SetComment
<1> HIDE DEF l
<1> QED BY ONLY <1>1, <1>2, <1>3, <1>4, Zenon DEF yes, l

LEMMA LineEnds ==
  ASSUME NEW l, l.state = "comment", NEW r, r = "\n"
  PROVE  ScanRune(l, r) = Token(l)
BY ScanIs, Zenon

LEMMA RemarkEnds ==
  ASSUME NEW c, c, NEW v, NEW w, NEW r, r = "\n"
  PROVE  ScanRune(Lexer("comment", c, v, w), r) = Lexer("start", FALSE, <<>>, w)
<1> DEFINE l == Lexer("comment", c, v, w)
<1>1. l.state = "comment"
  BY ONLY FieldsAre
<1>2. Token(l) = Lexer("start", FALSE, <<>>, w)
  BY RemarkDropped, Zenon
<1> HIDE DEF l
<1>3. ScanRune(l, r) = Token(l)
  BY <1>1, LineEnds, Zenon
<1> QED BY ONLY <1>2, <1>3, Zenon DEF l

(* In a word, or before one. *)
At(state, value, words) == Lexer(state, FALSE, value, words)

LEMMA Opens ==
  ASSUME NEW v, NEW w, NEW from \in {"start", "inWord"}, NEW r
  PROVE  /\ Classify(r) = "escape" => ScanRune(At(from, v, w), r) = At("escaping", v, w)
         /\ Classify(r) = "escapingQuote" => ScanRune(At(from, v, w), r) = At("quotingEscaping", v, w)
         /\ Classify(r) = "nonEscapingQuote" => ScanRune(At(from, v, w), r) = At("quoting", v, w)
<1> DEFINE no == FALSE
<1> HIDE DEF no
<1>1. \A state : At(state, v, w) = Lexer(state, no, v, w)
  BY Zenon DEF At, no
<1> QED BY <1>1, Openings

LEMMA Takes ==
  ASSUME NEW v, NEW w, NEW r
  PROVE  /\ ScanRune(At("escaping", v, w), r) = At("inWord", Append(v, r), w)
         /\ ScanRune(At("escapingQuoted", v, w), r) = At("quotingEscaping", Append(v, r), w)
         /\ Classify(r) # "nonEscapingQuote" =>
              ScanRune(At("quoting", v, w), r) = At("quoting", Append(v, r), w)
         /\ Classify(r) \notin {"escapingQuote", "escape"} =>
              ScanRune(At("quotingEscaping", v, w), r) = At("quotingEscaping", Append(v, r), w)
         /\ Classify(r) \in {"unknown", "comment"} =>
              ScanRune(At("inWord", v, w), r) = At("inWord", Append(v, r), w)
         /\ Classify(r) = "unknown" =>
              ScanRune(At("start", v, w), r) = At("inWord", Append(v, r), w)
<1> DEFINE no == FALSE
<1> HIDE DEF no
<1>1. \A state, u : At(state, u, w) = Lexer(state, no, u, w)
  BY Zenon DEF At, no
<1> QED BY <1>1, Takings

LEMMA Closes ==
  ASSUME NEW v, NEW w, NEW r
  PROVE  /\ Classify(r) = "escapingQuote" =>
              ScanRune(At("quotingEscaping", v, w), r) = At("inWord", v, w)
         /\ Classify(r) = "escape" =>
              ScanRune(At("quotingEscaping", v, w), r) = At("escapingQuoted", v, w)
         /\ Classify(r) = "nonEscapingQuote" => ScanRune(At("quoting", v, w), r) = At("inWord", v, w)
<1> DEFINE no == FALSE
<1> HIDE DEF no
<1>1. \A state, u : At(state, u, w) = Lexer(state, no, u, w)
  BY Zenon DEF At, no
<1> QED BY <1>1, Closings

----------------------------------------------------------------------------
(***************************************************************************)
(* What the lexer takes from a sequence of runes, each written in a way.   *)
(***************************************************************************)

LEMMA SaidSoFar ==
  ASSUME NEW X, NEW runes \in Seq(X), NEW v \in Seq(X)
  PROVE  /\ v \o SubSeq(runes, 1, 0) = v
         /\ v \o SubSeq(runes, 1, Len(runes)) = v \o runes
         /\ \A i \in 1..Len(runes) :
              /\ v \o SubSeq(runes, 1, i - 1) \in Seq(X)
              /\ v \o SubSeq(runes, 1, i) = Append(v \o SubSeq(runes, 1, i - 1), runes[i])
<1>1. v \o SubSeq(runes, 1, 0) = v
  BY SubSeqEmpty, ConcatEmptySeq
<1>2. SubSeq(runes, 1, Len(runes)) = runes
  BY SubSeqFull
<1>3. ASSUME NEW i \in 1..Len(runes)
      PROVE  /\ v \o SubSeq(runes, 1, i - 1) \in Seq(X)
             /\ v \o SubSeq(runes, 1, i) = Append(v \o SubSeq(runes, 1, i - 1), runes[i])
  <2> DEFINE front == SubSeq(runes, 1, i - 1)
             r == runes[i]
  <2>1. front \in Seq(X) /\ r \in X
    BY SubSeqProperties
  <2>2. SubSeq(runes, 1, i) = front \o <<r>>
    <3>1. 1 \in 1..Len(runes) /\ i \in 1..Len(runes)
      OBVIOUS
    <3> QED BY <3>1, SubSeqRecursiveSecond
  <2> HIDE DEF front, r
  <2>3. <<r>> \in Seq(X)
    BY <2>1, OneIs
  <2>4. v \o (front \o <<r>>) = (v \o front) \o <<r>>
    BY <2>1, <2>3, ConcatAssociative
  <2>5. v \o front \in Seq(X)
    BY <2>1, ConcatProperties
  <2>6. Append(v \o front, r) = (v \o front) \o <<r>>
    BY <2>1, <2>5, AppendIsConcat
  <2> QED BY <2>2, <2>4, <2>5, <2>6 DEF front, r
<1> QED BY <1>1, <1>2, <1>3

LEMMA ReadValue ==
  ASSUME NEW X, NEW runes \in Seq(X), NEW pieces \in Seq(Seq(X)), Len(pieces) = Len(runes),
         NEW v \in Seq(X), NEW w, NEW from, NEW state,
         \A i \in 1..Len(runes) : \A u \in Seq(X) :
           Reads(At(IF i = 1 THEN from ELSE state, u, w), pieces[i], At(state, Append(u, runes[i]), w))
  PROVE  Reads(At(from, v, w), FlattenSeq(pieces),
               At(IF Len(runes) = 0 THEN from ELSE state, v \o runes, w))
<1> DEFINE N == Len(runes)
           said(i) == v \o SubSeq(runes, 1, i)
           at == [i \in 0..N |-> At(IF i = 0 THEN from ELSE state, said(i), w)]
<1>1. N \in Nat /\ Len(pieces) = N
  OBVIOUS
<1>2. /\ said(0) = v /\ said(N) = v \o runes
      /\ \A i \in 1..N : said(i - 1) \in Seq(X) /\ said(i) = Append(said(i - 1), runes[i])
  <2>1. said(0) = v
    BY ONLY SaidSoFar, runes \in Seq(X), v \in Seq(X)
  <2>2. said(N) = v \o runes
    BY ONLY SaidSoFar, runes \in Seq(X), v \in Seq(X)
  <2>3. \A i \in 1..N : said(i - 1) \in Seq(X) /\ said(i) = Append(said(i - 1), runes[i])
    BY ONLY SaidSoFar, runes \in Seq(X), v \in Seq(X), SMTT(30)
  <2> QED BY <2>1, <2>2, <2>3
<1>3. \A i \in 0..N : at[i] = At(IF i = 0 THEN from ELSE state, said(i), w)
  OBVIOUS
<1> HIDE DEF said, at
<1>4. ASSUME NEW i \in 1..N PROVE Reads(at[i - 1], pieces[i], at[i])
  <2>1. i - 1 \in 0..N /\ i \in 0..N /\ i # 0 /\ (i - 1 = 0 <=> i = 1)
    BY <1>1
  <2>2. at[i] = At(state, Append(said(i - 1), runes[i]), w)
    BY <1>2, <1>3, <2>1
  <2>3. at[i - 1] = At(IF i = 1 THEN from ELSE state, said(i - 1), w)
    BY <1>3, <2>1
  <2>4. said(i - 1) \in Seq(X)
    BY <1>2
  <2> QED BY <2>2, <2>3, <2>4
<1>5. Reads(at[0], FlattenSeq(pieces), at[N])
  BY <1>1, <1>4, ReadPieces
<1>6. at[0] = At(from, v, w) /\ at[N] = At(IF N = 0 THEN from ELSE state, v \o runes, w)
  <2>1. 0 \in 0..N /\ N \in 0..N
    BY <1>1
  <2> QED BY <1>2, <1>3, <2>1
<1> QED BY <1>5, <1>6

LEMMA FlattenType ==
  ASSUME NEW X, NEW seqs \in Seq(Seq(X))
  PROVE  FlattenSeq(seqs) \in Seq(X)
<1>1. PICK f \in [0..Len(seqs) -> Seq(X)] : Joined(f, seqs)
  BY JoinedIs
<1>2. FlattenSeq(seqs) = f[Len(seqs)]
  BY <1>1, FlattenIs
<1>3. Len(seqs) \in 0..Len(seqs)
  OBVIOUS
<1> QED BY <1>2, <1>3

LEMMA FlattenRunes ==
  ASSUME NEW X, NEW runes \in Seq(X)
  PROVE  LET pieces == [i \in 1..Len(runes) |-> <<runes[i]>>] IN
         pieces \in Seq(Seq(X)) /\ Len(pieces) = Len(runes) /\ FlattenSeq(pieces) = runes
<1> DEFINE N == Len(runes)
           pieces == [i \in 1..N |-> <<runes[i]>>]
           f == [i \in 0..N |-> SubSeq(runes, 1, i)]
<1>1. N \in Nat
  OBVIOUS
<1>2. \A i \in 1..N : pieces[i] = <<runes[i]>>
  OBVIOUS
<1>3. \A i \in 1..N : <<runes[i]>> \in Seq(X)
  <2> TAKE i \in 1..N
  <2>1. runes[i] \in X
    OBVIOUS
  <2> QED BY <2>1, OneIs
<1>4. pieces \in Seq(Seq(X)) /\ Len(pieces) = N
  <2>1. pieces \in [1..N -> Seq(X)]
    BY <1>3
  <2> HIDE DEF pieces
  <2> QED BY <1>1, <2>1
<1>5. \A i \in 0..N : f[i] = SubSeq(runes, 1, i)
  OBVIOUS
<1>6. f \in [0..N -> Seq(X)]
  <2>1. \A i \in 0..N : SubSeq(runes, 1, i) \in Seq(X)
    <3> TAKE i \in 0..N
    <3>1. i \in Int /\ 1 \in Int /\ \A j \in 1..i : runes[j] \in X
      BY <1>1
    <3> QED BY <3>1, SubSeqProperties
  <2> QED BY <2>1
<1> HIDE DEF pieces, f
<1>7. f[0] = <<>>
  BY <1>1, <1>5, SubSeqEmpty
<1>8. \A i \in 1..N : f[i] = f[i - 1] \o pieces[i]
  <2> TAKE i \in 1..N
  <2>1. 1 \in 1..N /\ i - 1 \in 0..N /\ i \in 0..N
    BY <1>1
  <2>2. SubSeq(runes, 1, i) = SubSeq(runes, 1, i - 1) \o <<runes[i]>>
    BY <2>1, SubSeqRecursiveSecond
  <2> QED BY <1>2, <1>5, <2>1, <2>2
<1>9. FlattenSeq(pieces) = f[N]
  BY <1>4, <1>6, <1>7, <1>8, FlattenIs DEF Joined
<1>10. f[N] = runes
  BY <1>1, <1>5, SubSeqFull
<1> QED BY <1>4, <1>9, <1>10 DEF pieces

LEMMA ReadRunes ==
  ASSUME NEW X, NEW runes \in Seq(X), NEW v \in Seq(X), NEW w, NEW from, NEW state,
         \A i \in 1..Len(runes) : \A u \in Seq(X) :
           ScanRune(At(IF i = 1 THEN from ELSE state, u, w), runes[i])
             = At(state, Append(u, runes[i]), w)
  PROVE  Reads(At(from, v, w), runes, At(IF Len(runes) = 0 THEN from ELSE state, v \o runes, w))
<1> DEFINE pieces == [i \in 1..Len(runes) |-> <<runes[i]>>]
<1>1. pieces \in Seq(Seq(X)) /\ Len(pieces) = Len(runes) /\ FlattenSeq(pieces) = runes
  BY FlattenRunes, Zenon
<1>2. \A i \in 1..Len(runes) : pieces[i] = <<runes[i]>>
  OBVIOUS
<1> HIDE DEF pieces
<1>3. ASSUME NEW i \in 1..Len(runes), NEW u \in Seq(X)
      PROVE  Reads(At(IF i = 1 THEN from ELSE state, u, w), pieces[i],
                   At(state, Append(u, runes[i]), w))
  <2> DEFINE at == IF i = 1 THEN from ELSE state
  <2>1. pieces[i] = <<runes[i]>>
    BY <1>2
  <2>2. ScanRune(At(at, u, w), runes[i]) = At(state, Append(u, runes[i]), w)
    BY Zenon
  <2> HIDE DEF at
  <2>3. Reads(At(at, u, w), <<runes[i]>>, ScanRune(At(at, u, w), runes[i]))
    BY ONLY ReadRune
  <2>4. Reads(At(at, u, w), pieces[i], At(state, Append(u, runes[i]), w))
    BY ONLY <2>1, <2>2, <2>3, Zenon
  <2> QED BY <2>4, Zenon DEF at
<1>4. Reads(At(from, v, w), FlattenSeq(pieces),
            At(IF Len(runes) = 0 THEN from ELSE state, v \o runes, w))
  BY <1>1, <1>3, ReadValue
<1> QED BY <1>1, <1>4

LEMMA TwoIs ==
  ASSUME NEW S, NEW a \in S, NEW b \in S
  PROVE  <<a, b>> \in Seq(S) /\ Len(<<a, b>>) = 2 /\ <<a, b>>[1] = a /\ <<a, b>>[2] = b
OBVIOUS

LEMMA ReadTwo ==
  ASSUME NEW S, NEW a \in S, NEW b \in S, NEW l
  PROVE  Reads(l, <<a, b>>, ScanRune(ScanRune(l, a), b))
<1> DEFINE s == <<a, b>>
           at == [n \in 0..2 |-> IF n = 0 THEN l ELSE IF n = 1 THEN ScanRune(l, a)
                                 ELSE ScanRune(ScanRune(l, a), b)]
<1>1. Len(s) = 2 /\ s[1] = a /\ s[2] = b
  BY TwoIs
<1>2. at[0] = l /\ at[1] = ScanRune(l, a) /\ at[2] = ScanRune(at[1], b)
  OBVIOUS
<1> HIDE DEF s, at
<1>3. ASSUME NEW i \in 1..2 PROVE at[i] = ScanRune(at[i - 1], s[i])
  <2>1. CASE i = 1
    <3>1. i - 1 = 0
      BY <2>1
    <3> QED BY <1>1, <1>2, <2>1, <3>1
  <2>2. CASE i = 2
    <3>1. i - 1 = 1
      BY <2>2
    <3> QED BY <1>1, <1>2, <2>2, <3>1
  <2> QED BY <2>1, <2>2
<1>4. Reads(at[0], s, at[2])
  <2>1. Len(s) \in Nat /\ \A i \in 1..Len(s) : at[i] = ScanRune(at[i - 1], s[i])
    BY <1>1, <1>3
  <2>2. Reads(at[0], s, at[Len(s)])
    BY <2>1, ReadEach
  <2> QED BY <1>1, <2>2
<1> QED BY <1>2, <1>4 DEF s

(* The runes of a phrase, and those that Write adds.                        *)
Glyph == Rune \cup {"\\", "\"", "'", "#", "\n"}

LEMMA GlyphsAre ==
  /\ "\\" \in Glyph /\ "\"" \in Glyph /\ "'" \in Glyph
  /\ "#" \in Glyph /\ "\n" \in Glyph /\ Rune \subseteq Glyph
BY DEF Glyph

LEMMA ReadGuarded ==
  ASSUME NEW runes \in Seq(Glyph), NEW v \in Seq(Glyph), NEW w, NEW from \in {"start", "inWord"}
  PROVE  /\ Concat(Guard, runes) \in Seq(Glyph)
         /\ Reads(At(from, v, w), Concat(Guard, runes),
                  At(IF Len(runes) = 0 THEN from ELSE "inWord", v \o runes, w))
<1> DEFINE pieces == [i \in 1..Len(runes) |-> <<"\\", runes[i]>>]
           b == "\\"
<1>1. Concat(Guard, runes) = FlattenSeq(pieces)
  <2>1. DOMAIN runes = 1..Len(runes)
    OBVIOUS
  <2> QED BY <2>1, Zenon DEF Concat, Map, Guard
<1>2. b \in Glyph /\ Classify(b) = "escape" /\ \A i \in 1..Len(runes) : runes[i] \in Glyph
  <2>1. b \in Glyph
    BY GlyphsAre, Zenon
  <2>2. Classify(b) = "escape"
    BY ClassifyIs, Zenon
  <2>3. \A i \in 1..Len(runes) : runes[i] \in Glyph
    OBVIOUS
  <2> QED BY <2>1, <2>2, <2>3
<1> HIDE DEF b
<1>3. \A i \in 1..Len(runes) : pieces[i] = <<b, runes[i]>>
  BY DEF b
<1>4. pieces \in Seq(Seq(Glyph)) /\ Len(pieces) = Len(runes)
  <2>1. \A i \in 1..Len(runes) : <<b, runes[i]>> \in Seq(Glyph)
    BY <1>2, TwoIs
  <2>2. pieces \in [1..Len(runes) -> Seq(Glyph)]
    <3>1. pieces = [i \in 1..Len(runes) |-> pieces[i]]
      OBVIOUS
    <3> HIDE DEF pieces
    <3> QED BY <1>3, <2>1, <3>1
  <2> HIDE DEF pieces
  <2> QED BY <2>2
<1> HIDE DEF pieces
<1>5. ASSUME NEW i \in 1..Len(runes), NEW u \in Seq(Glyph)
      PROVE  Reads(At(IF i = 1 THEN from ELSE "inWord", u, w), pieces[i],
                   At("inWord", Append(u, runes[i]), w))
  <2> DEFINE state == IF i = 1 THEN from ELSE "inWord"
             r == runes[i]
  <2>1. state \in {"start", "inWord"} /\ r \in Glyph
    BY <1>2
  <2> HIDE DEF state, r
  <2>2. ScanRune(At(state, u, w), b) = At("escaping", u, w)
    BY <1>2, <2>1, Opens
  <2>3. ScanRune(At("escaping", u, w), r) = At("inWord", Append(u, r), w)
    BY Takes
  <2>4. Reads(At(state, u, w), <<b, r>>, At("inWord", Append(u, r), w))
    BY <1>2, <2>1, <2>2, <2>3, ReadTwo
  <2> QED BY <1>3, <2>4 DEF state, r
<1>6. Reads(At(from, v, w), FlattenSeq(pieces),
            At(IF Len(runes) = 0 THEN from ELSE "inWord", v \o runes, w))
  BY <1>4, <1>5, ReadValue
<1>7. FlattenSeq(pieces) \in Seq(Glyph)
  BY <1>4, FlattenType
<1> QED BY <1>1, <1>6, <1>7

LEMMA ReadInDouble ==
  ASSUME NEW runes \in Seq(Glyph), NEW v \in Seq(Glyph), NEW w
  PROVE  /\ Concat(GuardInDouble, runes) \in Seq(Glyph)
         /\ Reads(At("quotingEscaping", v, w), Concat(GuardInDouble, runes),
                  At("quotingEscaping", v \o runes, w))
<1> DEFINE pieces == [i \in 1..Len(runes) |-> GuardInDouble(runes[i])]
           b == "\\"
<1>1. Concat(GuardInDouble, runes) = FlattenSeq(pieces)
  <2>1. DOMAIN runes = 1..Len(runes)
    OBVIOUS
  <2> QED BY <2>1, Zenon DEF Concat, Map
<1>2. b \in Glyph /\ Classify(b) = "escape" /\ \A i \in 1..Len(runes) : runes[i] \in Glyph
  <2>1. b \in Glyph
    BY GlyphsAre, Zenon
  <2>2. Classify(b) = "escape"
    BY ClassifyIs, Zenon
  <2>3. \A i \in 1..Len(runes) : runes[i] \in Glyph
    OBVIOUS
  <2> QED BY <2>1, <2>2, <2>3
<1>3. \A r : \/ GuardInDouble(r) = <<b, r>>
             \/ GuardInDouble(r) = <<r>> /\ Classify(r) \notin {"escapingQuote", "escape"}
  BY ClassifyOf, Zenon DEF GuardInDouble
<1> HIDE DEF b
<1>4. \A r \in Glyph : GuardInDouble(r) \in Seq(Glyph)
  <2> TAKE r \in Glyph
  <2>1. <<b, r>> \in Seq(Glyph) /\ <<r>> \in Seq(Glyph)
    BY <1>2, OneIs, TwoIs
  <2> QED BY <1>3, <2>1
<1>5. pieces \in Seq(Seq(Glyph)) /\ Len(pieces) = Len(runes)
  <2>1. pieces \in [1..Len(runes) -> Seq(Glyph)]
    BY <1>2, <1>4
  <2> HIDE DEF pieces
  <2> QED BY <2>1
<1>6. \A i \in 1..Len(runes) : pieces[i] = GuardInDouble(runes[i])
  OBVIOUS
<1> HIDE DEF pieces
<1>7. ASSUME NEW r \in Glyph, NEW u \in Seq(Glyph)
      PROVE  Reads(At("quotingEscaping", u, w), GuardInDouble(r),
                   At("quotingEscaping", Append(u, r), w))
  <2>1. CASE GuardInDouble(r) = <<b, r>>
    <3>1. ScanRune(At("quotingEscaping", u, w), b) = At("escapingQuoted", u, w)
      BY <1>2, Closes
    <3>2. ScanRune(At("escapingQuoted", u, w), r) = At("quotingEscaping", Append(u, r), w)
      BY Takes
    <3> QED BY <1>2, <2>1, <3>1, <3>2, ReadTwo
  <2>2. CASE GuardInDouble(r) = <<r>> /\ Classify(r) \notin {"escapingQuote", "escape"}
    <3>1. ScanRune(At("quotingEscaping", u, w), r) = At("quotingEscaping", Append(u, r), w)
      BY <2>2, Takes
    <3> QED BY <2>2, <3>1, ReadRune
  <2> QED BY <1>3, <2>1, <2>2
<1>8. Reads(At("quotingEscaping", v, w), FlattenSeq(pieces), At("quotingEscaping", v \o runes, w))
  <2> DEFINE state == "quotingEscaping"
  <2>1. \A i \in 1..Len(runes) : \A u \in Seq(Glyph) :
          Reads(At(IF i = 1 THEN state ELSE state, u, w), pieces[i], At(state, Append(u, runes[i]), w))
    BY <1>2, <1>6, <1>7
  <2> HIDE DEF state
  <2>2. Reads(At(state, v, w), FlattenSeq(pieces),
              At(IF Len(runes) = 0 THEN state ELSE state, v \o runes, w))
    BY <1>5, <2>1, ReadValue
  <2> QED BY <2>2 DEF state
<1>9. FlattenSeq(pieces) \in Seq(Glyph)
  BY <1>5, FlattenType
<1> QED BY <1>1, <1>8, <1>9

LEMMA ReadSingle ==
  ASSUME NEW runes \in Seq(Glyph), NEW v \in Seq(Glyph), NEW w,
         \A i \in 1..Len(runes) : runes[i] # "'"
  PROVE  Reads(At("quoting", v, w), runes, At("quoting", v \o runes, w))
<1> DEFINE state == "quoting"
<1>1. ASSUME NEW i \in 1..Len(runes), NEW u \in Seq(Glyph)
      PROVE  ScanRune(At(state, u, w), runes[i]) = At(state, Append(u, runes[i]), w)
  <2>1. Classify(runes[i]) # "nonEscapingQuote"
    BY ClassifyOf
  <2> QED BY <2>1, Takes
<1> HIDE DEF state
<1>2. Reads(At(state, v, w), runes, At(IF Len(runes) = 0 THEN state ELSE state, v \o runes, w))
  BY <1>1, ReadRunes
<1> QED BY <1>2 DEF state

LEMMA ReadBare ==
  ASSUME NEW runes \in Seq(Glyph), NEW v \in Seq(Glyph), NEW w, NEW from \in {"start", "inWord"},
         Len(runes) > 0,
         \A i \in 1..Len(runes) : Classify(runes[i]) \in {"unknown", "comment"},
         from = "start" => Classify(runes[1]) # "comment"
  PROVE  Reads(At(from, v, w), runes, At("inWord", v \o runes, w))
<1>1. ASSUME NEW i \in 1..Len(runes), NEW u \in Seq(Glyph)
      PROVE  ScanRune(At(IF i = 1 THEN from ELSE "inWord", u, w), runes[i])
               = At("inWord", Append(u, runes[i]), w)
  <2>1. CASE i = 1 /\ from = "start"
    <3>1. Classify(runes[i]) = "unknown"
      BY <2>1
    <3> QED BY <2>1, <3>1, Takes
  <2>2. CASE ~(i = 1 /\ from = "start")
    <3>1. (IF i = 1 THEN from ELSE "inWord") = "inWord"
      BY <2>2
    <3> QED BY <3>1, Takes
  <2> QED BY <2>1, <2>2
<1>2. Reads(At(from, v, w), runes, At(IF Len(runes) = 0 THEN from ELSE "inWord", v \o runes, w))
  BY <1>1, ReadRunes
<1>3. Len(runes) # 0
  OBVIOUS
<1> QED BY <1>2, <1>3

----------------------------------------------------------------------------
(***************************************************************************)
(* The parts of words.                                                     *)
(***************************************************************************)

LEMMA PartRunes ==
  ASSUME NEW p \in Part
  PROVE  p.runes \in Seq(Glyph)
<1>1. p.runes \in Seq(Rune)
  BY DEF Part
<1> QED BY <1>1, GlyphsAre, SeqMonotonic

(* Between two runes, of which the first opens and the second closes.       *)
LEMMA ReadBetween ==
  ASSUME NEW a \in Glyph, NEW s \in Seq(Glyph), NEW b \in Glyph, NEW l, NEW m,
         Reads(ScanRune(l, a), s, m)
  PROVE  /\ <<a>> \o s \in Seq(Glyph) /\ Reads(l, <<a>> \o s, m)
         /\ <<a>> \o s \o <<b>> \in Seq(Glyph) /\ Reads(l, <<a>> \o s \o <<b>>, ScanRune(m, b))
<1> DEFINE first == <<a>>
           last == <<b>>
<1>1. first \in Seq(Glyph) /\ last \in Seq(Glyph)
  BY OneIs
<1>2. Reads(l, first, ScanRune(l, a)) /\ Reads(m, last, ScanRune(m, b))
  BY ReadRune
<1> HIDE DEF first, last
<1>3. first \o s \in Seq(Glyph) /\ Reads(l, first \o s, m)
  BY <1>1, <1>2, ConcatProperties, ReadMore
<1>4. first \o s \o last \in Seq(Glyph)
  BY <1>1, <1>3, ConcatProperties
<1>5. Reads(l, first \o s \o last, ScanRune(m, b))
  BY <1>1, <1>2, <1>3, ReadMore
<1> QED BY <1>3, <1>4, <1>5 DEF first, last

LEMMA ReadPart ==
  ASSUME NEW p \in Part, IsPart(p), NEW v \in Seq(Glyph), NEW w, NEW from \in {"start", "inWord"},
         from = "start" /\ p.quote = "bare" => Classify(p.runes[1]) # "comment"
  PROVE  WritePart(p) \in Seq(Glyph) /\ Reads(At(from, v, w), WritePart(p), At("inWord", v \o p.runes, w))
<1>1. p.runes \in Seq(Glyph) /\ DOMAIN p.runes = 1..Len(p.runes)
  <2>1. p.runes \in Seq(Glyph)
    BY PartRunes
  <2> HIDE DEF Part
  <2> QED BY <2>1, LenProperties
<1>2. CASE p.quote = "bare"
  <2>1. WritePart(p) = p.runes
    BY <1>2 DEF WritePart
  <2>2. Len(p.runes) > 0 /\ \A i \in 1..Len(p.runes) : Classify(p.runes[i]) \in {"unknown", "comment"}
    BY <1>1, <1>2 DEF IsPart
  <2> QED BY <1>1, <1>2, <2>1, <2>2, ReadBare
<1>3. CASE p.quote = "escape"
  <2>1. WritePart(p) = Concat(Guard, p.runes)
    BY <1>3 DEF WritePart
  <2>2. Len(p.runes) # 0
    BY <1>1, <1>3 DEF IsPart
  <2> QED BY <1>1, <2>1, <2>2, ReadGuarded
<1>4. CASE p.quote = "single"
  <2> DEFINE q == "'"
  <2>1. WritePart(p) = <<q>> \o p.runes \o <<q>>
    BY <1>4, Zenon DEF WritePart
  <2>2. q \in Glyph /\ Classify(q) = "nonEscapingQuote"
    BY GlyphsAre, ClassifyIs, Zenon
  <2>3. \A i \in 1..Len(p.runes) : p.runes[i] # q
    BY <1>1, <1>4 DEF IsPart
  <2>4. Reads(At("quoting", v, w), p.runes, At("quoting", v \o p.runes, w))
    BY <1>1, <2>3, ReadSingle
  <2> HIDE DEF q
  <2>5. ScanRune(At(from, v, w), q) = At("quoting", v, w)
    BY <2>2, Opens
  <2>6. ScanRune(At("quoting", v \o p.runes, w), q) = At("inWord", v \o p.runes, w)
    BY <2>2, Closes
  <2> QED BY <1>1, <2>1, <2>2, <2>4, <2>5, <2>6, ReadBetween
<1>5. CASE p.quote = "double"
  <2> DEFINE q == "\""
             s == Concat(GuardInDouble, p.runes)
  <2>1. WritePart(p) = <<q>> \o s \o <<q>>
    BY <1>5, Zenon DEF WritePart
  <2>2. q \in Glyph /\ Classify(q) = "escapingQuote"
    BY GlyphsAre, ClassifyIs, Zenon
  <2>3. s \in Seq(Glyph) /\ Reads(At("quotingEscaping", v, w), s, At("quotingEscaping", v \o p.runes, w))
    BY <1>1, ReadInDouble
  <2> HIDE DEF q, s
  <2>4. ScanRune(At(from, v, w), q) = At("quotingEscaping", v, w)
    BY <2>2, Opens
  <2>5. ScanRune(At("quotingEscaping", v \o p.runes, w), q) = At("inWord", v \o p.runes, w)
    BY <2>2, Closes
  <2> QED BY <1>1, <2>1, <2>2, <2>3, <2>4, <2>5, ReadBetween
<1> QED BY <1>2, <1>3, <1>4, <1>5 DEF IsPart

LEMMA ReadOpen ==
  ASSUME NEW p \in Part, NEW v \in Seq(Glyph), NEW w, NEW from \in {"start", "inWord"},
         \/ p.quote \in {"escape", "double", "doubleEscape"}
         \/ p.quote = "single" /\ IsPart(p)
  PROVE  /\ WriteOpen(p) \in Seq(Glyph)
         /\ \E state \in {"escaping", "escapingQuoted", "quoting", "quotingEscaping"} :
              \E u : Reads(At(from, v, w), WriteOpen(p), At(state, u, w))
<1> DEFINE b == "\\"
           q == "\""
           s == Concat(GuardInDouble, p.runes)
<1>1. p.runes \in Seq(Glyph) /\ DOMAIN p.runes = 1..Len(p.runes)
  <2>1. p.runes \in Seq(Glyph)
    BY PartRunes
  <2> QED BY <2>1, LenProperties
<1>2. b \in Glyph /\ Classify(b) = "escape" /\ q \in Glyph /\ Classify(q) = "escapingQuote"
  BY GlyphsAre, ClassifyIs, Zenon
<1>3. p.quote = "escape" => WriteOpen(p) = Concat(Guard, p.runes) \o <<b>>
  BY DEF WriteOpen
<1>4. /\ p.quote = "double" => WriteOpen(p) = <<q>> \o s
      /\ p.quote = "doubleEscape" => WriteOpen(p) = <<q>> \o s \o <<b>>
  BY DEF WriteOpen
<1>5. s \in Seq(Glyph) /\ Reads(At("quotingEscaping", v, w), s, At("quotingEscaping", v \o p.runes, w))
  BY <1>1, ReadInDouble
<1> HIDE DEF b, q, s
<1>6. CASE p.quote = "escape"
  <2> DEFINE state == IF Len(p.runes) = 0 THEN from ELSE "inWord"
             t == Concat(Guard, p.runes)
             last == <<b>>
  <2>1. t \in Seq(Glyph) /\ Reads(At(from, v, w), t, At(state, v \o p.runes, w))
    BY <1>1, ReadGuarded
  <2>2. state \in {"start", "inWord"}
    OBVIOUS
  <2> HIDE DEF state, t
  <2>3. ScanRune(At(state, v \o p.runes, w), b) = At("escaping", v \o p.runes, w)
    BY <1>2, <2>2, Opens
  <2>4. last \in Seq(Glyph) /\ Reads(At(state, v \o p.runes, w), last, At("escaping", v \o p.runes, w))
    BY <1>2, <2>3, OneIs, ReadRune
  <2> HIDE DEF last
  <2>5. t \o last \in Seq(Glyph) /\ Reads(At(from, v, w), t \o last, At("escaping", v \o p.runes, w))
    BY <2>1, <2>4, ConcatProperties, ReadMore
  <2> QED BY <1>3, <1>6, <2>5 DEF t, last
<1>7. CASE p.quote = "single"
  <2> DEFINE a == "'"
  <2>1. WriteOpen(p) = <<a>> \o p.runes
    BY <1>7, Zenon DEF WriteOpen
  <2>2. a \in Glyph /\ Classify(a) = "nonEscapingQuote"
    BY GlyphsAre, ClassifyIs, Zenon
  <2>3. \A i \in 1..Len(p.runes) : p.runes[i] # a
    BY <1>1, <1>7 DEF IsPart
  <2>4. Reads(At("quoting", v, w), p.runes, At("quoting", v \o p.runes, w))
    BY <1>1, <2>3, ReadSingle
  <2> HIDE DEF a
  <2>5. ScanRune(At(from, v, w), a) = At("quoting", v, w)
    BY <2>2, Opens
  <2>6. WriteOpen(p) \in Seq(Glyph) /\ Reads(At(from, v, w), WriteOpen(p), At("quoting", v \o p.runes, w))
    BY <1>1, <2>1, <2>2, <2>4, <2>5, ReadBetween
  <2> QED BY <2>6
<1>8. ScanRune(At(from, v, w), q) = At("quotingEscaping", v, w)
  BY <1>2, Opens
<1> DEFINE open == At("quotingEscaping", v \o p.runes, w)
<1>9. /\ <<q>> \o s \in Seq(Glyph) /\ Reads(At(from, v, w), <<q>> \o s, open)
       /\ <<q>> \o s \o <<b>> \in Seq(Glyph)
       /\ Reads(At(from, v, w), <<q>> \o s \o <<b>>, ScanRune(open, b))
  <2>1. Reads(ScanRune(At(from, v, w), q), s, open)
    BY <1>5, <1>8
  <2> HIDE DEF open
  <2> QED BY <1>2, <1>5, <2>1, ReadBetween
<1>10. CASE p.quote = "double"
  <2>1. WriteOpen(p) \in Seq(Glyph)
        /\ Reads(At(from, v, w), WriteOpen(p), At("quotingEscaping", v \o p.runes, w))
    BY <1>4, <1>10, <1>9
  <2> QED BY <2>1
<1>11. CASE p.quote = "doubleEscape"
  <2>1. ScanRune(At("quotingEscaping", v \o p.runes, w), b) = At("escapingQuoted", v \o p.runes, w)
    BY <1>2, Closes
  <2>2. WriteOpen(p) \in Seq(Glyph)
        /\ Reads(At(from, v, w), WriteOpen(p), At("escapingQuoted", v \o p.runes, w))
    BY <1>4, <1>11, <1>9, <2>1
  <2> QED BY <2>2
<1> QED BY <1>6, <1>7, <1>10, <1>11

----------------------------------------------------------------------------
(***************************************************************************)
(* The items of a phrase.                                                  *)
(***************************************************************************)

LEMMA ReadParts ==
  ASSUME NEW parts \in Seq(Part), IsParts(parts), NEW w
  PROVE  /\ Concat(WritePart, parts) \in Seq(Glyph) /\ Concat(RunesOf, parts) \in Seq(Glyph)
         /\ Reads(At("start", <<>>, w), Concat(WritePart, parts),
                  At(IF Len(parts) = 0 THEN "start" ELSE "inWord", Concat(RunesOf, parts), w))
<1> DEFINE N == Len(parts)
           pieces == [i \in 1..N |-> WritePart(parts[i])]
           values == [i \in 1..N |-> parts[i].runes]
           state(i) == IF i = 0 THEN "start" ELSE "inWord"
<1>1. /\ N \in Nat /\ DOMAIN parts = 1..N /\ \A i \in 1..N : parts[i] \in Part /\ IsPart(parts[i])
      /\ N > 0 /\ parts[1].quote = "bare" => Classify(parts[1].runes[1]) # "comment"
  BY DEF IsParts
<1>2. Concat(WritePart, parts) = FlattenSeq(pieces) /\ Concat(RunesOf, parts) = FlattenSeq(values)
  BY <1>1, Zenon DEF Concat, Map, RunesOf
<1>3. \A i \in 1..N : pieces[i] = WritePart(parts[i]) /\ values[i] = parts[i].runes
  OBVIOUS
<1>4. values \in Seq(Seq(Glyph)) /\ Len(values) = N
  <2>1. values \in [1..N -> Seq(Glyph)]
    BY <1>1, PartRunes
  <2> HIDE DEF values
  <2> QED BY <1>1, <2>1
<1>5. PICK f \in [0..Len(values) -> Seq(Glyph)] : Joined(f, values)
  BY <1>4, JoinedIs
<1>6. /\ f \in [0..N -> Seq(Glyph)] /\ f[0] = <<>> /\ \A i \in 1..N : f[i] = f[i - 1] \o values[i]
      /\ FlattenSeq(values) = f[N]
  BY <1>4, <1>5, FlattenIs DEF Joined
<1> HIDE DEF pieces, values
<1>7. ASSUME NEW i \in 1..N
      PROVE  /\ pieces[i] \in Seq(Glyph)
             /\ Reads(At(state(i - 1), f[i - 1], w), pieces[i], At(state(i), f[i], w))
  <2> DEFINE p == parts[i]
             from == state(i - 1)
             v == f[i - 1]
  <2>1. p \in Part /\ IsPart(p) /\ i - 1 \in 0..N /\ i \in 0..N
    BY <1>1
  <2>2. v \in Seq(Glyph) /\ f[i] = v \o p.runes
    BY <1>3, <1>6, <2>1
  <2>3. from \in {"start", "inWord"} /\ state(i) = "inWord"
    BY <1>1
  <2>4. from = "start" /\ p.quote = "bare" => Classify(p.runes[1]) # "comment"
    <3> SUFFICES ASSUME from = "start", p.quote = "bare"
                 PROVE  Classify(p.runes[1]) # "comment"
      OBVIOUS
    <3>1. i = 1 /\ N > 0
      BY <1>1
    <3> QED BY <1>1, <3>1
  <2> HIDE DEF p, from, v
  <2>5. WritePart(p) \in Seq(Glyph) /\ Reads(At(from, v, w), WritePart(p), At("inWord", v \o p.runes, w))
    BY <2>1, <2>2, <2>3, <2>4, ReadPart
  <2>6. pieces[i] = WritePart(p)
    BY <1>3 DEF p
  <2>7. Reads(At(from, v, w), pieces[i], At(state(i), f[i], w))
    BY <2>2, <2>3, <2>5, <2>6
  <2> QED BY <2>5, <2>6, <2>7 DEF from, v
<1>8. pieces \in Seq(Seq(Glyph)) /\ Len(pieces) = N
  <2>1. pieces = [i \in 1..N |-> pieces[i]]
    BY DEF pieces
  <2>2. pieces \in [1..N -> Seq(Glyph)]
    BY <1>7, <2>1
  <2> QED BY <1>1, <2>2
<1> DEFINE at == [i \in 0..N |-> At(state(i), f[i], w)]
<1>9. \A i \in 0..N : at[i] = At(state(i), f[i], w)
  OBVIOUS
<1> HIDE DEF state, at
<1>10. \A i \in 1..Len(pieces) : Reads(at[i - 1], pieces[i], at[i])
  <2> SUFFICES ASSUME NEW i \in 1..N PROVE Reads(at[i - 1], pieces[i], at[i])
    BY <1>8
  <2>1. i - 1 \in 0..N /\ i \in 0..N
    BY <1>1
  <2> QED BY <1>7, <1>9, <2>1
<1>11. Reads(at[0], FlattenSeq(pieces), at[N])
  BY <1>8, <1>10, ReadPieces
<1>12. at[0] = At("start", <<>>, w) /\ at[N] = At(IF N = 0 THEN "start" ELSE "inWord", f[N], w)
  BY <1>1, <1>6, <1>9 DEF state
<1>13. FlattenSeq(pieces) \in Seq(Glyph) /\ FlattenSeq(values) \in Seq(Glyph)
  BY <1>4, <1>8, FlattenType
<1> QED BY <1>2, <1>6, <1>11, <1>12, <1>13

(* A gap ends the word before it, if there is one.                          *)
LEMMA ReadGap ==
  ASSUME NEW runes \in Seq(Glyph), Len(runes) > 0,
         \A i \in 1..Len(runes) : Classify(runes[i]) = "space", NEW w
  PROVE  /\ Reads(At("start", <<>>, w), runes, At("start", <<>>, w))
         /\ \A v : Reads(At("inWord", v, w), runes, At("start", <<>>, Append(w, v)))
<1> DEFINE N == Len(runes)
           empty == <<>>
<1>1. N \in Nat /\ 1 \in 1..N
  OBVIOUS
<1> HIDE DEF empty
<1>2. ASSUME NEW x, NEW i \in 1..N
      PROVE  ScanRune(At("start", empty, x), runes[i]) = At("start", empty, x)
  BY SpaceStays DEF At
<1>3. Reads(At("start", empty, w), runes, At("start", empty, w))
  <2> DEFINE at == [i \in 0..N |-> At("start", empty, w)]
  <2>1. \A i \in 0..N : at[i] = At("start", empty, w)
    OBVIOUS
  <2> HIDE DEF at
  <2>2. \A i \in 1..N : at[i] = ScanRune(at[i - 1], runes[i])
    <3> TAKE i \in 1..N
    <3>1. i \in 0..N /\ i - 1 \in 0..N
      BY <1>1
    <3> QED BY <1>2, <2>1, <3>1
  <2>3. Reads(at[0], runes, at[N])
    BY <1>1, <2>2, ReadEach
  <2>4. 0 \in 0..N /\ N \in 0..N
    BY <1>1
  <2> QED BY <2>1, <2>3, <2>4
<1>4. ASSUME NEW v PROVE Reads(At("inWord", v, w), runes, At("start", empty, Append(w, v)))
  <2> DEFINE next == Append(w, v)
             at == [i \in 0..N |-> IF i = 0 THEN At("inWord", v, w) ELSE At("start", empty, next)]
  <2>1. ScanRune(At("inWord", v, w), runes[1]) = At("start", empty, next)
    <3>1. Classify(runes[1]) = "space"
      BY <1>1
    <3> HIDE DEF next
    <3> QED BY <3>1, SpaceEnds, Zenon DEF At, empty, next
  <2> HIDE DEF next
  <2>2. /\ at[0] = At("inWord", v, w) /\ at[N] = At("start", empty, next)
        /\ \A i \in 1..N : at[i] = At("start", empty, next)
    BY <1>1
  <2> HIDE DEF at
  <2>3. \A i \in 1..N : at[i] = ScanRune(at[i - 1], runes[i])
    <3> TAKE i \in 1..N
    <3>1. CASE i = 1
      <4>1. i - 1 = 0
        BY <3>1
      <4> QED BY <2>1, <2>2, <3>1, <4>1
    <3>2. CASE i # 1
      <4>1. i - 1 \in 1..N
        BY <1>1, <3>2
      <4> QED BY <1>2, <2>2, <4>1
    <3> QED BY <3>1, <3>2
  <2>4. Reads(at[0], runes, at[N])
    BY <1>1, <2>3, ReadEach
  <2> QED BY <2>2, <2>4 DEF next
<1> QED BY <1>3, <1>4, Zenon DEF empty

LEMMA ReadRemark ==
  ASSUME NEW runes \in Seq(Glyph), \A i \in 1..Len(runes) : runes[i] # "\n", NEW w
  PROVE  /\ <<"#">> \o runes \o <<"\n">> \in Seq(Glyph)
         /\ Reads(At("start", <<>>, w), <<"#">> \o runes \o <<"\n">>, At("start", <<>>, w))
<1> DEFINE N == Len(runes)
           empty == <<>>
           a == "#"
           b == "\n"
           yes == TRUE
           said(i) == empty \o SubSeq(runes, 1, i)
           at == [i \in 0..N |-> Lexer("comment", yes, said(i), w)]
<1>1. N \in Nat /\ empty \in Seq(Glyph)
  BY EmptyIs
<1>2. a \in Glyph /\ Classify(a) = "comment" /\ b \in Glyph
  BY GlyphsAre, ClassifyIs, Zenon
<1>3. \A i \in 1..N : runes[i] # b
  OBVIOUS
<1>4. \A i \in 0..N : at[i] = Lexer("comment", yes, said(i), w)
  OBVIOUS
<1> HIDE DEF empty, a
<1>5. said(0) = empty /\ \A i \in 1..N : said(i) = Append(said(i - 1), runes[i])
  <2>1. said(0) = empty
    BY ONLY SaidSoFar, runes \in Seq(Glyph), <1>1
  <2>2. \A i \in 1..N : said(i) = Append(said(i - 1), runes[i])
    BY ONLY SaidSoFar, runes \in Seq(Glyph), <1>1, SMTT(30)
  <2> QED BY <2>1, <2>2
<1> HIDE DEF said, at, yes
<1>6. \A i \in 1..N : at[i] = ScanRune(at[i - 1], runes[i])
  <2> TAKE i \in 1..N
  <2>1. i \in 0..N /\ i - 1 \in 0..N
    BY <1>1
  <2>2. ScanRune(Lexer("comment", yes, said(i - 1), w), runes[i])
          = Lexer("comment", yes, Append(said(i - 1), runes[i]), w)
    BY <1>3, Takings DEF b
  <2> QED BY <1>4, <1>5, <2>1, <2>2
<1>7. Reads(at[0], runes, at[N])
  BY <1>1, <1>6, ReadEach
<1>8. ScanRune(At("start", empty, w), a) = at[0]
  <2>1. ScanRune(At("start", empty, w), a) = Lexer("comment", yes, empty, w)
    BY <1>2, RemarkBegins, Zenon DEF At, yes
  <2>2. 0 \in 0..N
    BY <1>1
  <2> QED BY <1>4, <1>5, <2>1, <2>2
<1>9. ScanRune(at[N], b) = At("start", empty, w)
  <2>1. ScanRune(Lexer("comment", yes, said(N), w), b) = At("start", empty, w)
    BY RemarkEnds, Zenon DEF At, yes, empty
  <2>2. N \in 0..N
    BY <1>1
  <2> QED BY <1>4, <2>1, <2>2
<1> HIDE DEF b
<1>10. <<a>> \o runes \o <<b>> \in Seq(Glyph)
       /\ Reads(At("start", empty, w), <<a>> \o runes \o <<b>>, At("start", empty, w))
  BY <1>2, <1>7, <1>8, <1>9, ReadBetween
<1> QED BY <1>10 DEF a, b, empty

LEMMA ItemIs ==
  ASSUME NEW x \in Item
  PROVE  /\ x.item \in {"word", "gap", "remark", "open"}
         /\ x.item \in {"word", "open"} => x.parts \in Seq(Part)
         /\ x.item \in {"gap", "remark"} => x.runes \in Seq(Glyph)
         /\ x.item = "open" => x.last \in Part
<1>1. \A s \in Seq(Rune) : s \in Seq(Glyph)
  BY GlyphsAre, SeqMonotonic
<1>2. CASE x \in [item : {"word"}, parts : Seq(Part)]
  BY <1>2
<1>3. CASE x \in [item : {"gap", "remark"}, runes : Seq(Rune)]
  BY <1>1, <1>3
<1>4. CASE x \in [item : {"open"}, parts : Seq(Part), last : Part]
  BY <1>4
<1> QED BY <1>2, <1>3, <1>4 DEF Item

LEMMA WriteItemIs ==
  ASSUME NEW x
  PROVE  /\ x.item = "word" => WriteItem(x) = Concat(WritePart, x.parts)
         /\ x.item = "gap" => WriteItem(x) = x.runes
         /\ x.item = "remark" => WriteItem(x) = <<"#">> \o x.runes \o <<"\n">>
         /\ x.item = "open" => WriteItem(x) = Concat(WritePart, x.parts) \o WriteOpen(x.last)
<1>1. CASE x.item = "word"
  BY <1>1 DEF WriteItem
<1>2. CASE x.item = "gap"
  BY <1>2 DEF WriteItem
<1>3. CASE x.item = "remark"
  BY <1>3, Zenon DEF WriteItem
<1>4. CASE x.item = "open"
  BY <1>4 DEF WriteItem
<1> QED BY <1>1, <1>2, <1>3, <1>4

(* Before an item the lexer is where a word may begin, but for a gap.       *)
LEMMA ReadItem ==
  ASSUME NEW x \in Item, IsItem(x), x.item # "open", NEW w
  PROVE  /\ WriteItem(x) \in Seq(Glyph)
         /\ x.item = "word" =>
              /\ Concat(RunesOf, x.parts) \in Seq(Glyph)
              /\ Reads(At("start", <<>>, w), WriteItem(x), At("inWord", Concat(RunesOf, x.parts), w))
         /\ x.item # "word" => Reads(At("start", <<>>, w), WriteItem(x), At("start", <<>>, w))
         /\ x.item = "gap" =>
              \A v : Reads(At("inWord", v, w), WriteItem(x), At("start", <<>>, Append(w, v)))
<1>1. x.item \in {"word", "gap", "remark"}
  BY ItemIs
<1>2. CASE x.item = "word"
  <2>1. x.parts \in Seq(Part) /\ IsParts(x.parts) /\ Len(x.parts) # 0
    BY <1>2, ItemIs DEF IsItem
  <2>2. /\ Concat(WritePart, x.parts) \in Seq(Glyph) /\ Concat(RunesOf, x.parts) \in Seq(Glyph)
        /\ Reads(At("start", <<>>, w), Concat(WritePart, x.parts),
                 At(IF Len(x.parts) = 0 THEN "start" ELSE "inWord", Concat(RunesOf, x.parts), w))
    BY <2>1, ReadParts
  <2>3. WriteItem(x) = Concat(WritePart, x.parts)
    BY <1>2, WriteItemIs
  <2> DEFINE empty == <<>>
  <2> HIDE DEF empty
  <2>4. Reads(At("start", empty, w), Concat(WritePart, x.parts), At("inWord", Concat(RunesOf, x.parts), w))
    BY <2>1, <2>2 DEF empty
  <2> QED BY <1>2, <2>2, <2>3, <2>4 DEF empty
<1>3. CASE x.item = "gap"
  <2>1. x.runes \in Seq(Glyph) /\ WriteItem(x) = x.runes
    BY <1>3, ItemIs, WriteItemIs
  <2>2. Len(x.runes) > 0 /\ \A i \in 1..Len(x.runes) : Classify(x.runes[i]) = "space"
    <3>1. DOMAIN x.runes = 1..Len(x.runes)
      BY <2>1, LenProperties
    <3> QED BY <1>3, <3>1 DEF IsItem
  <2>3. /\ Reads(At("start", <<>>, w), x.runes, At("start", <<>>, w))
        /\ \A v : Reads(At("inWord", v, w), x.runes, At("start", <<>>, Append(w, v)))
    BY <2>1, <2>2, ReadGap
  <2> QED BY <1>3, <2>1, <2>3
<1>4. CASE x.item = "remark"
  <2>1. x.runes \in Seq(Glyph) /\ WriteItem(x) = <<"#">> \o x.runes \o <<"\n">>
    BY <1>4, ItemIs, WriteItemIs
  <2>2. \A i \in 1..Len(x.runes) : x.runes[i] # "\n"
    <3>1. DOMAIN x.runes = 1..Len(x.runes)
      BY <2>1, LenProperties
    <3> QED BY <1>4, <3>1 DEF IsItem
  <2>3. /\ <<"#">> \o x.runes \o <<"\n">> \in Seq(Glyph)
        /\ Reads(At("start", <<>>, w), <<"#">> \o x.runes \o <<"\n">>, At("start", <<>>, w))
    BY <2>1, <2>2, ReadRemark
  <2>4. WriteItem(x) \in Seq(Glyph) /\ Reads(At("start", <<>>, w), WriteItem(x), At("start", <<>>, w))
    BY <2>1, <2>3, Zenon
  <2>5. x.item # "word" /\ x.item # "gap"
    BY <1>4
  <2> QED BY <2>4, <2>5
<1> QED BY <1>1, <1>2, <1>3, <1>4

OpenStates == {"escaping", "escapingQuoted", "quoting", "quotingEscaping"}

LEMMA ReadOpenItem ==
  ASSUME NEW x \in Item, IsItem(x), x.item = "open", NEW w
  PROVE  /\ WriteItem(x) \in Seq(Glyph)
         /\ \E state \in OpenStates : \E u : Reads(At("start", <<>>, w), WriteItem(x), At(state, u, w))
<1> DEFINE from == IF Len(x.parts) = 0 THEN "start" ELSE "inWord"
           v == Concat(RunesOf, x.parts)
           s == Concat(WritePart, x.parts)
           t == WriteOpen(x.last)
           l == At("start", <<>>, w)
<1>1. x.parts \in Seq(Part) /\ x.last \in Part /\ IsParts(x.parts)
  BY ItemIs DEF IsItem
<1>2. \/ x.last.quote \in {"escape", "double", "doubleEscape"}
      \/ x.last.quote = "single" /\ IsPart(x.last)
  BY DEF IsItem
<1>3. v \in Seq(Glyph) /\ s \in Seq(Glyph) /\ Reads(l, s, At(from, v, w))
  BY <1>1, ReadParts
<1>4. from \in {"start", "inWord"}
  OBVIOUS
<1>5. WriteItem(x) = s \o t
  BY WriteItemIs
<1> HIDE DEF from, v, s, l
<1>6. t \in Seq(Glyph) /\ \E state \in OpenStates : \E u : Reads(At(from, v, w), t, At(state, u, w))
  BY <1>1, <1>2, <1>3, <1>4, ReadOpen DEF OpenStates
<1>7. PICK state \in OpenStates : \E u : Reads(At(from, v, w), t, At(state, u, w))
  BY <1>6
<1>8. PICK u : Reads(At(from, v, w), t, At(state, u, w))
  BY <1>7
<1> HIDE DEF t
<1>9. s \o t \in Seq(Glyph) /\ Reads(l, s \o t, At(state, u, w))
  BY <1>3, <1>6, <1>8, ConcatProperties, ReadMore
<1>10. WriteItem(x) \in Seq(Glyph) /\ Reads(l, WriteItem(x), At(state, u, w))
  BY <1>5, <1>9
<1> QED BY <1>10 DEF l

----------------------------------------------------------------------------
(***************************************************************************)
(* The phrase.                                                             *)
(***************************************************************************)

LEMMA EndingIs ==
  ASSUME NEW v, NEW w
  PROVE  /\ Ending(At("start", v, w)) = [ok |-> TRUE, words |-> w]
         /\ Ending(At("inWord", v, w)) = [ok |-> TRUE, words |-> Append(w, v)]
<1>1. \A state : At(state, v, w).state = state /\ At(state, v, w).words = w
  BY DEF At, Lexer
<1>2. Token(At("inWord", v, w)) = At("start", <<>>, Append(w, v))
  BY WordEnds, Zenon DEF At
<1>3. Token(At("inWord", v, w)).words = Append(w, v)
  <2> DEFINE next == Append(w, v)
  <2> HIDE DEF next
  <2>1. At("start", <<>>, next).words = next
    BY DEF At, Lexer
  <2> QED BY <1>2, <2>1 DEF next
<1>4. ASSUME NEW l, l.state = "start" PROVE Ending(l) = [ok |-> TRUE, words |-> l.words]
  BY <1>4, Zenon DEF Ending
<1>5. ASSUME NEW l, l.state = "inWord" PROVE Ending(l) = [ok |-> TRUE, words |-> Token(l).words]
  BY <1>5 DEF Ending
<1>6. Ending(At("start", v, w)) = [ok |-> TRUE, words |-> w]
  BY <1>1, <1>4, Zenon
<1>7. Ending(At("inWord", v, w)) = [ok |-> TRUE, words |-> Append(w, v)]
  BY <1>1, <1>3, <1>5, Zenon
<1> QED BY <1>6, <1>7, Zenon

(* An input that ends inside a quotation or after an escape is an error.    *)
LEMMA EndingOpen ==
  ASSUME NEW state \in OpenStates, NEW v, NEW w
  PROVE  Ending(At(state, v, w)) = [ok |-> FALSE, words |-> <<>>]
<1>1. At(state, v, w).state = state
  BY DEF At, Lexer
<1>2. ASSUME NEW l, l.state \in OpenStates PROVE Ending(l) = [ok |-> FALSE, words |-> <<>>]
  BY <1>2 DEF Ending, OpenStates
<1> QED BY <1>1, <1>2, Zenon

LEMMA PhraseIs ==
  ASSUME NEW phrase, IsPhrase(phrase)
  PROVE  /\ Len(phrase) \in Nat /\ DOMAIN phrase = 1..Len(phrase)
         /\ \A i \in 1..Len(phrase) : phrase[i] \in Item /\ IsItem(phrase[i])
         /\ \A i \in 1..(Len(phrase) - 1) :
              (phrase[i].item = "word" => phrase[i + 1].item = "gap") /\ phrase[i].item # "open"
<1>1. phrase \in Seq(Item)
  BY DEF IsPhrase
<1>2. Len(phrase) \in Nat /\ DOMAIN phrase = 1..Len(phrase)
  BY <1>1, LenProperties
<1>3. \A i \in 1..Len(phrase) : phrase[i] \in Item
  BY <1>1, ElementOfSeq
<1>4. \A i \in 1..Len(phrase) : IsItem(phrase[i])
  BY <1>2 DEF IsPhrase
<1>5. \A i \in 1..(Len(phrase) - 1) :
        (phrase[i].item = "word" => phrase[i + 1].item = "gap") /\ phrase[i].item # "open"
  BY DEF IsPhrase
<1> QED BY <1>2, <1>3, <1>4, <1>5

LEMMA MeantWordsAre ==
  ASSUME NEW x
  PROVE  /\ x.item = "word" => MeantWords(x) = <<Concat(RunesOf, x.parts)>>
         /\ x.item # "word" => MeantWords(x) = <<>>
<1>1. x.item = "word" => MeantWords(x) = <<Concat(RunesOf, x.parts)>>
  BY Zenon DEF MeantWords
<1>2. x.item # "word" => MeantWords(x) = <<>>
  BY Zenon DEF MeantWords
<1> QED BY <1>1, <1>2

(* Split finds in every phrase, written down, the words that it means, and  *)
(* fails for one with an open item.                                         *)
THEOREM SplitsAsMeant ==
  ASSUME NEW phrase, IsPhrase(phrase)
  PROVE  Split(Write(phrase)) = Meant(phrase)
<1> DEFINE N == Len(phrase)
           empty == <<>>
           pieces == [i \in 1..N |-> WriteItem(phrase[i])]
           meant == [i \in 1..N |-> MeantWords(phrase[i])]
           value(i) == Concat(RunesOf, phrase[i].parts)
           word(i) == i > 0 /\ phrase[i].item = "word"
<1>1. /\ N \in Nat /\ DOMAIN phrase = 1..N
      /\ \A i \in 1..N : phrase[i] \in Item /\ IsItem(phrase[i])
      /\ \A i \in 1..(N - 1) :
           (phrase[i].item = "word" => phrase[i + 1].item = "gap") /\ phrase[i].item # "open"
  BY PhraseIs
<1>2. Write(phrase) = FlattenSeq(pieces) /\ Concat(MeantWords, phrase) = FlattenSeq(meant)
  BY <1>1, Zenon DEF Write, Concat, Map
<1>3. \A i \in 1..N : pieces[i] = WriteItem(phrase[i]) /\ meant[i] = MeantWords(phrase[i])
  OBVIOUS
<1>4. \A i \in 1..N :
        /\ word(i) => value(i) \in Seq(Glyph) /\ MeantWords(phrase[i]) = <<value(i)>>
        /\ ~word(i) => MeantWords(phrase[i]) = empty
  <2> TAKE i \in 1..N
  <2>1. i > 0
    BY <1>1
  <2> DEFINE x == phrase[i]
  <2>2. x \in Item /\ IsItem(x)
    BY <1>1
  <2>3. word(i) <=> x.item = "word"
    BY <2>1
  <2>4. value(i) = Concat(RunesOf, x.parts)
    OBVIOUS
  <2> HIDE DEF x, value, word, empty
  <2>5. x.item = "word" => x.item # "open"
    OBVIOUS
  <2>6. x.item = "word" => value(i) \in Seq(Glyph)
    BY <2>2, <2>4, <2>5, ReadItem
  <2>7. x.item = "word" => MeantWords(x) = <<value(i)>>
    BY <2>4, MeantWordsAre
  <2>8. x.item # "word" => MeantWords(x) = empty
    BY MeantWordsAre, Zenon DEF empty
  <2>9. word(i) => value(i) \in Seq(Glyph) /\ MeantWords(x) = <<value(i)>>
    BY <2>3, <2>6, <2>7
  <2>10. ~word(i) => MeantWords(x) = empty
    BY <2>3, <2>8
  <2> QED BY <2>9, <2>10 DEF x
<1>5. meant \in Seq(Seq(Seq(Glyph))) /\ Len(meant) = N
  <2>1. \A i \in 1..N : MeantWords(phrase[i]) \in Seq(Seq(Glyph))
    <3> TAKE i \in 1..N
    <3>1. empty \in Seq(Seq(Glyph))
      BY EmptyIs
    <3> HIDE DEF empty, word, value
    <3>2. word(i) => <<value(i)>> \in Seq(Seq(Glyph))
      BY <1>4, OneIs
    <3> QED BY <1>4, <3>1, <3>2
  <2>2. meant \in [1..N -> Seq(Seq(Glyph))]
    BY <2>1
  <2> HIDE DEF meant
  <2> QED BY <1>1, <2>2
<1>6. PICK g \in [0..Len(meant) -> Seq(Seq(Glyph))] : Joined(g, meant)
  BY <1>5, JoinedIs
<1>7. /\ g \in [0..N -> Seq(Seq(Glyph))] /\ g[0] = empty
      /\ \A i \in 1..N : g[i] = g[i - 1] \o meant[i]
      /\ FlattenSeq(meant) = g[N]
  BY <1>5, <1>6, FlattenIs DEF Joined
<1> HIDE DEF empty, value, meant
<1>8. N \in Nat
  BY <1>1
<1>9. \A i \in 1..N : g[i] = IF word(i) THEN Append(g[i - 1], value(i)) ELSE g[i - 1]
  <2> TAKE i \in 1..N
  <2>1. i - 1 \in 0..N
    BY ONLY <1>8
  <2>2. g[i - 1] \in Seq(Seq(Glyph))
    BY <1>7, <2>1
  <2>3. CASE word(i)
    <3>1. g[i] = g[i - 1] \o <<value(i)>> /\ value(i) \in Seq(Glyph)
      BY <1>3, <1>4, <1>7, <2>3
    <3> QED BY <2>2, <2>3, <3>1, AppendIsConcat
  <2>4. CASE ~word(i)
    <3>1. g[i] = g[i - 1] \o empty
      BY <1>3, <1>4, <1>7, <2>4
    <3>2. g[i - 1] \o empty = g[i - 1]
      BY <2>2, ConcatEmptySeq DEF empty
    <3> QED BY <2>4, <3>1, <3>2
  <2> QED BY <2>3, <2>4
<1> DEFINE after(i) == IF word(i) THEN At("inWord", value(i), g[i - 1]) ELSE At("start", empty, g[i])
<1> HIDE DEF pieces
<1>10. ASSUME NEW i \in 1..N, phrase[i].item # "open"
      PROVE  pieces[i] \in Seq(Glyph) /\ Reads(after(i - 1), pieces[i], after(i))
  <2> DEFINE x == phrase[i]
             w == g[i - 1]
  <2>1. x \in Item /\ IsItem(x) /\ x.item # "open" /\ i > 0 /\ i - 1 \in 0..N
    BY <1>1, <1>10
  <2>2. pieces[i] = WriteItem(x) /\ word(i) = (x.item = "word")
    BY <1>3, <2>1
  <2> HIDE DEF x
  <2>3. /\ WriteItem(x) \in Seq(Glyph)
        /\ x.item = "word" => Reads(At("start", empty, w), WriteItem(x), At("inWord", value(i), w))
        /\ x.item # "word" => Reads(At("start", empty, w), WriteItem(x), At("start", empty, w))
        /\ x.item = "gap" =>
             \A v : Reads(At("inWord", v, g[i - 2]), WriteItem(x), At("start", empty, Append(g[i - 2], v)))
    <3> HIDE DEF w
    <3>1. value(i) = Concat(RunesOf, x.parts)
      BY DEF value, x
    <3> QED BY ONLY <2>1, <3>1, ReadItem, Zenon DEF empty
  <2>4. CASE word(i - 1)
    <3>1. i - 1 \in 1..(N - 1) /\ (i - 1) + 1 = i /\ i - 1 \in 1..N /\ (i - 1) - 1 = i - 2
      BY <1>1, <2>1, <2>4
    <3>2. x.item = "gap"
      BY <1>1, <2>4, <3>1 DEF x
    <3>3. ~word(i)
      BY <2>2, <3>2
    <3>4. after(i - 1) = At("inWord", value(i - 1), g[i - 2])
      BY <2>4, <3>1
    <3>5. after(i) = At("start", empty, g[i]) /\ g[i] = g[i - 1]
      BY <1>9, <3>3
    <3>6. g[i - 1] = Append(g[i - 2], value(i - 1))
      BY <1>9, <2>4, <3>1
    <3> HIDE DEF after, word
    <3> QED BY <2>2, <2>3, <3>2, <3>4, <3>5, <3>6
  <2>5. CASE ~word(i - 1)
    <3>1. after(i - 1) = At("start", empty, w)
      BY <2>5
    <3>2. CASE word(i)
      <4>1. after(i) = At("inWord", value(i), w)
        BY <3>2
      <4> HIDE DEF after, word, w
      <4> QED BY <2>2, <2>3, <3>1, <3>2, <4>1
    <3>3. CASE ~word(i)
      <4>1. after(i) = At("start", empty, w)
        BY <1>9, <3>3
      <4> HIDE DEF after, word, w
      <4> QED BY <2>2, <2>3, <3>1, <3>3, <4>1
    <3> QED BY <3>2, <3>3
  <2> QED BY <2>4, <2>5
<1>11. NewLexer = after(0)
  <2>1. ~word(0)
    OBVIOUS
  <2>2. after(0) = At("start", empty, empty)
    BY <1>7, <2>1
  <2> QED BY <2>2, Zenon DEF At, Lexer, NewLexer, empty
<1> DEFINE at == [i \in 0..N |-> after(i)]
<1>12. \A i \in 0..N : at[i] = after(i)
  OBVIOUS
<1>13. CASE \A i \in 1..N : phrase[i].item # "open"
  <2> HIDE DEF after, at
  <2>1. pieces \in Seq(Seq(Glyph)) /\ Len(pieces) = N
    <3>1. \A i \in 1..N : pieces[i] \in Seq(Glyph)
      BY <1>10, <1>13
    <3>2. pieces = [i \in 1..N |-> pieces[i]]
      BY DEF pieces
    <3>3. pieces \in [1..N -> Seq(Glyph)]
      BY <3>1, <3>2
    <3> QED BY <1>1, <3>3
  <2>2. \A i \in 1..Len(pieces) : Reads(at[i - 1], pieces[i], at[i])
    <3> SUFFICES ASSUME NEW i \in 1..N PROVE Reads(at[i - 1], pieces[i], at[i])
      BY <2>1
    <3>1. i - 1 \in 0..N /\ i \in 0..N
      BY <1>1
    <3> QED BY <1>10, <1>12, <1>13, <3>1
  <2>3. Reads(at[0], FlattenSeq(pieces), at[N])
    BY <2>1, <2>2, ReadPieces
  <2>4. at[0] = NewLexer /\ at[N] = after(N)
    BY <1>1, <1>11, <1>12
  <2>5. Len(Write(phrase)) \in Nat
    BY <1>2, <2>1, FlattenType, LenProperties
  <2>6. Split(Write(phrase)) = Ending(after(N))
    BY <1>2, <2>3, <2>4, <2>5, SplitReads
  <2>7. Ending(after(N)) = [ok |-> TRUE, words |-> g[N]]
    <3>1. CASE word(N)
      <4>1. N \in 1..N
        BY <1>1, <3>1
      <4>2. after(N) = At("inWord", value(N), g[N - 1]) /\ g[N] = Append(g[N - 1], value(N))
        BY <1>9, <3>1, <4>1 DEF after
      <4>3. Ending(At("inWord", value(N), g[N - 1])) = [ok |-> TRUE, words |-> Append(g[N - 1], value(N))]
        BY ONLY EndingIs, Zenon
      <4> QED BY ONLY <4>2, <4>3, Zenon
    <3>2. CASE ~word(N)
      <4>1. after(N) = At("start", empty, g[N])
        BY <3>2 DEF after
      <4>2. Ending(At("start", empty, g[N])) = [ok |-> TRUE, words |-> g[N]]
        BY ONLY EndingIs, Zenon
      <4> QED BY ONLY <4>1, <4>2, Zenon
    <3> QED BY <3>1, <3>2
  <2>8. ~\E i \in DOMAIN phrase : phrase[i].item = "open"
    BY <1>1, <1>13
  <2>9. Meant(phrase) = [ok |-> TRUE, words |-> g[N]]
    BY <1>2, <1>7, <2>8, Zenon DEF Meant
  <2> QED BY <2>6, <2>7, <2>9
<1>14. CASE \E i \in 1..N : phrase[i].item = "open"
  <2> DEFINE x == phrase[N]
             l == At("start", empty, g[N])
  <2>1. N \in 1..N /\ x.item = "open" /\ N - 1 \in 0..N
    BY <1>1, <1>14
  <2>2. x \in Item /\ IsItem(x)
    BY <1>1, <2>1
  <2>3. after(N - 1) = l
    <3>1. ~word(N - 1)
      <4> SUFFICES ASSUME N - 1 > 0, phrase[N - 1].item = "word" PROVE FALSE
        OBVIOUS
      <4>1. N - 1 \in 1..(N - 1) /\ (N - 1) + 1 = N
        BY <1>1
      <4>2. x.item = "gap"
        BY <1>1, <4>1
      <4> QED BY <2>1, <4>2
    <3>2. ~word(N)
      BY <2>1
    <3>3. g[N] = g[N - 1]
      BY <1>9, <2>1, <3>2
    <3> QED BY <3>1, <3>3
  <2> HIDE DEF after, at, x, word
  <2>4. /\ WriteItem(x) \in Seq(Glyph)
        /\ \E state \in OpenStates : \E u : Reads(l, WriteItem(x), At(state, u, g[N]))
    BY ONLY <2>1, <2>2, ReadOpenItem, Zenon DEF empty
  <2>5. PICK state \in OpenStates : \E u : Reads(l, WriteItem(x), At(state, u, g[N]))
    BY <2>4
  <2>6. PICK u : Reads(l, WriteItem(x), At(state, u, g[N]))
    BY <2>5
  <2> HIDE DEF l
  <2> DEFINE end == At(state, u, g[N])
             to == [i \in 0..N |-> IF i = N THEN end ELSE after(i)]
  <2>7. to[N] = end /\ \A i \in 0..(N - 1) : to[i] = after(i)
    <3>1. N \in 0..N /\ \A i \in 0..(N - 1) : i \in 0..N /\ i # N
      BY <1>8
    <3>2. \A i \in 0..N : to[i] = IF i = N THEN end ELSE after(i)
      OBVIOUS
    <3> HIDE DEF to, end
    <3> QED BY <3>1, <3>2
  <2> HIDE DEF end, to
  <2>8. pieces[N] = WriteItem(x)
    BY <1>3, <2>1 DEF x
  <2>9. ASSUME NEW i \in 1..N PROVE pieces[i] \in Seq(Glyph) /\ Reads(to[i - 1], pieces[i], to[i])
    <3>1. CASE i = N
      <4>1. to[N - 1] = l /\ N - 1 \in 0..(N - 1)
        BY <1>1, <2>1, <2>3, <2>7
      <4> QED BY <2>4, <2>6, <2>7, <2>8, <3>1, <4>1 DEF end
    <3>2. CASE i # N
      <4>1. i \in 1..(N - 1) /\ i \in 0..(N - 1) /\ i - 1 \in 0..(N - 1)
        BY ONLY <1>8, <3>2
      <4>2. phrase[i].item # "open"
        BY <1>1, <4>1
      <4> QED BY <1>10, <2>7, <4>1, <4>2
    <3> QED BY <3>1, <3>2
  <2>10. pieces \in Seq(Seq(Glyph)) /\ Len(pieces) = N
    <3>1. pieces = [i \in 1..N |-> pieces[i]]
      BY DEF pieces
    <3>2. pieces \in [1..N -> Seq(Glyph)]
      BY <2>9, <3>1
    <3> QED BY <1>1, <3>2
  <2>11. \A i \in 1..Len(pieces) : Reads(to[i - 1], pieces[i], to[i])
    BY <2>9, <2>10
  <2>12. Reads(to[0], FlattenSeq(pieces), to[N])
    BY <2>10, <2>11, ReadPieces
  <2>13. to[0] = NewLexer
    <3>1. 0 \in 0..(N - 1)
      BY <1>1, <2>1
    <3> QED BY <1>11, <2>7, <3>1
  <2>14. Len(Write(phrase)) \in Nat
    BY <1>2, <2>10, FlattenType, LenProperties
  <2>15. Split(Write(phrase)) = Ending(end)
    BY <1>2, <2>7, <2>12, <2>13, <2>14, SplitReads
  <2>16. Ending(end) = [ok |-> FALSE, words |-> <<>>]
    <3>1. state \in OpenStates
      OBVIOUS
    <3>2. Ending(At(state, u, g[N])) = [ok |-> FALSE, words |-> <<>>]
      BY ONLY <3>1, EndingOpen, Zenon
    <3>3. end = At(state, u, g[N])
      BY ONLY Zenon DEF end
    <3> QED BY ONLY <3>2, <3>3, Zenon
  <2>17. \E i \in DOMAIN phrase : phrase[i].item = "open"
    BY <1>1, <1>14
  <2>18. Meant(phrase) = [ok |-> FALSE, words |-> <<>>]
    BY <2>17, Zenon DEF Meant
  <2> QED BY <2>15, <2>16, <2>18, Zenon
<1> QED BY <1>13, <1>14
====
