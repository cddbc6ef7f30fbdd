------------------------- MODULE CommandLineProofs --------------------------
(***************************************************************************)
(* What build_command_line() writes, the child's runtime reads back as the *)
(* same arguments, for every list of arguments of every length in which    *)
(* no backslash ends up before a quote and every character is ASCII.       *)
(***************************************************************************)
EXTENDS CommandLine, TLAPS

(* The facts about folds, for each operator that is folded here. *)
ParseStep(p, st, c)    == ParseChar(st, c)
EscapeStep(p, text, c) == AddChar(text, c)
ArgStep(p, line, arg)  == AddArg(line, arg)

OnChar   == INSTANCE FoldFacts WITH op <- ParseStep
OnEscape == INSTANCE FoldFacts WITH op <- EscapeStep
OnArg    == INSTANCE FoldFacts WITH op <- ArgStep

(* The runtime's state in the middle of an argument, in quotes or not, of  *)
(* which n backslashes are not settled, perhaps right after a quote that   *)
(* closed a quoted part; and between two arguments.                        *)
After(done, cur, n, quoted, closed) ==
    [args |-> done, cur |-> cur, slashes |-> n, quoted |-> quoted, closed |-> closed, inArg |-> TRUE]
Inside(done, cur, n, quoted) == After(done, cur, n, quoted, FALSE)
Between(done) ==
    [args |-> done, cur |-> <<>>, slashes |-> 0, quoted |-> FALSE, closed |-> FALSE, inArg |-> FALSE]

Texts == Seq(Char)
Parse(st, text) == FoldLeft(ParseChar, st, text)

-----------------------------------------------------------------------------
(* How texts are put together. *)
LEMMA TextFacts ==
    ASSUME NEW X, NEW s \in Seq(X)
    PROVE  /\ <<>> \in Seq(X) /\ s \o <<>> = s /\ <<>> \o s = s
           /\ \A e \in X : <<e>> \in Seq(X) /\ s \o <<e>> = Append(s, e) /\ Append(s, e) \in Seq(X)
           /\ \A t \in Seq(X) : s \o t \in Seq(X)
           /\ \A t \in Seq(X), e \in X : s \o Append(t, e) = Append(s \o t, e)
           /\ \A t \in Seq(X), u \in Seq(X) : s \o (t \o u) = (s \o t) \o u
BY SMTT(60)

(* One element more at the end. *)
LEMMA AppendFacts ==
    ASSUME NEW X, NEW s \in Seq(X), NEW e \in X
    PROVE  /\ Append(s, e) \in Seq(X)
           /\ Len(s) + 1 \in DOMAIN Append(s, e) /\ Append(s, e)[Len(s) + 1] = e
           /\ \A i \in DOMAIN s : i \in DOMAIN Append(s, e) /\ Append(s, e)[i] = s[i]
           /\ Append(s, e) # <<>>
OBVIOUS

(* What is in it was there, or is that element. *)
LEMMA AppendDomain ==
    ASSUME NEW X, NEW s \in Seq(X), NEW e \in X, NEW i \in DOMAIN Append(s, e)
    PROVE  Append(s, e)[i] = e \/ (i \in DOMAIN s /\ Append(s, e)[i] = s[i])
OBVIOUS

(* A run of backslashes, one longer. *)
LEMMA SlashesFacts ==
    /\ Slashes(0) = <<>>
    /\ \A n \in Nat : Slashes(n) \in Texts /\ Slashes(n + 1) = Append(Slashes(n), Backslash)
BY DEF Slashes, Texts, Char

(* The characters are different, and so are the numbers of                 *)
(* backslashes that leave none and one when they are taken two by two.     *)
LEMMA CharFacts ==
    /\ Space \in Char /\ Quote \in Char /\ Backslash \in Char
    /\ Space # Quote /\ Quote # Backslash /\ Space # Backslash
    /\ 0 \div 2 = 0 /\ 0 % 2 = 0 /\ 1 \div 2 = 0 /\ 1 % 2 = 1 /\ 0 # 1
<1>1. Space \in Char /\ Quote \in Char /\ Backslash \in Char
  BY DEF Char
<1>2. Space # Quote /\ Quote # Backslash /\ Space # Backslash
  BY DEF Space, Quote, Backslash
<1>3. 0 \div 2 = 0 /\ 0 % 2 = 0 /\ 1 \div 2 = 0 /\ 1 % 2 = 1 /\ 0 # 1
  OBVIOUS
<1> QED BY <1>1, <1>2, <1>3

(* A backslash inside an argument is one more that is not settled. *)
LEMMA BackslashStep ==
    ASSUME NEW done, NEW cur, NEW n, NEW q, NEW k
    PROVE  ParseChar(After(done, cur, n, q, k), Backslash) = Inside(done, cur, n + 1, q)
BY CharFacts DEF ParseChar, Inside, After

(* What ParseChar does with each character inside an argument. *)
LEMMA InsideSteps ==
    ASSUME NEW done, NEW cur \in Texts, NEW n \in Nat, NEW q \in BOOLEAN, NEW k \in BOOLEAN
    PROVE  /\ ParseChar(After(done, cur, n, q, k), Backslash) = Inside(done, cur, n + 1, q)
           /\ ParseChar(Inside(done, cur, 0, TRUE), Quote) = After(done, cur, 0, FALSE, TRUE)
           /\ ParseChar(Inside(done, cur, 1, q), Quote) = Inside(done, Append(cur, Quote), 0, q)
           /\ ~q => ParseChar(After(done, cur, n, q, k), Space)
                      = Between(Append(done, cur \o Slashes(n)))
<1>1. ParseChar(After(done, cur, n, q, k), Backslash) = Inside(done, cur, n + 1, q)
  BY BackslashStep
<1>2. ParseChar(Inside(done, cur, 0, TRUE), Quote) = After(done, cur, 0, FALSE, TRUE)
  <2>1. cur \o Slashes(0) = cur
    BY SlashesFacts, TextFacts DEF Texts
  <2> QED BY <2>1, CharFacts DEF ParseChar, Inside, After
<1>3. ParseChar(Inside(done, cur, 1, q), Quote) = Inside(done, Append(cur, Quote), 0, q)
  <2>1. cur \o Slashes(0) = cur
    BY SlashesFacts, TextFacts DEF Texts
  <2>2. cur \o <<Quote>> = Append(cur, Quote)
    BY CharFacts, TextFacts DEF Texts
  <2> QED BY <2>1, <2>2, CharFacts DEF ParseChar, Inside, After
<1>4. ~q => ParseChar(After(done, cur, n, q, k), Space) = Between(Append(done, cur \o Slashes(n)))
  BY CharFacts DEF ParseChar, After, EndArg, Between
<1> QED BY <1>1, <1>2, <1>3, <1>4

(* ... and with one that is neither a quote nor a backslash nor a blank    *)
(* outside quotes.                                                         *)
LEMMA OtherStep ==
    ASSUME NEW done, NEW cur \in Texts, NEW n \in Nat, NEW q \in BOOLEAN, NEW k \in BOOLEAN,
           NEW c \in Char \ {Backslash, Quote}, q \/ c # Space
    PROVE  ParseChar(After(done, cur, n, q, k), c) = Inside(done, Append(cur \o Slashes(n), c), 0, q)
<1>1. cur \o Slashes(n) \in Texts
  BY SlashesFacts, TextFacts DEF Texts
<1>2. (cur \o Slashes(n)) \o <<c>> = Append(cur \o Slashes(n), c)
  BY <1>1, TextFacts DEF Texts
<1> QED BY <1>2, CharFacts DEF ParseChar, Inside, After

(* The same where no quoted part was just closed. *)
LEMMA OpenSteps ==
    ASSUME NEW done, NEW cur \in Texts, NEW n \in Nat
    PROVE  /\ ParseChar(Inside(done, cur, n, TRUE), Backslash) = Inside(done, cur, n + 1, TRUE)
           /\ \A c \in Char \ {Backslash, Quote} :
                ParseChar(Inside(done, cur, n, TRUE), c)
                  = Inside(done, Append(cur \o Slashes(n), c), 0, TRUE)
<1>1. ParseChar(After(done, cur, n, TRUE, FALSE), Backslash) = Inside(done, cur, n + 1, TRUE)
  BY InsideSteps
<1>2. ASSUME NEW c \in Char \ {Backslash, Quote}
      PROVE  ParseChar(After(done, cur, n, TRUE, FALSE), c)
               = Inside(done, Append(cur \o Slashes(n), c), 0, TRUE)
  BY OtherStep, ZenonT(60)
<1> QED BY <1>1, <1>2 DEF Inside

(* What ParseChar does with the first character of an argument. *)
LEMMA BetweenSteps ==
    ASSUME NEW done
    PROVE  /\ ParseChar(Between(done), Backslash) = Inside(done, <<>>, 1, FALSE)
           /\ ParseChar(Between(done), Quote) = Inside(done, <<>>, 0, TRUE)
           /\ \A c \in Char \ {Backslash, Quote, Space} :
                ParseChar(Between(done), c) = Inside(done, <<c>>, 0, FALSE)
<1>1. ParseChar(Between(done), Backslash) = Inside(done, <<>>, 1, FALSE)
  <2>1. 0 + 1 = 1
    OBVIOUS
  <2> QED BY <2>1, CharFacts DEF ParseChar, Inside, After, Between
<1>2. ParseChar(Between(done), Quote) = Inside(done, <<>>, 0, TRUE)
  <2>1. <<>> \o Slashes(0) = <<>>
    BY SlashesFacts
  <2> QED BY <2>1, CharFacts DEF ParseChar, Inside, After, Between
<1>3. ASSUME NEW c \in Char \ {Backslash, Quote, Space}
      PROVE  ParseChar(Between(done), c) = Inside(done, <<c>>, 0, FALSE)
  <2>1. <<>> \o Slashes(0) = <<>>
    BY SlashesFacts
  <2>2. <<>> \in Texts /\ <<>> \o <<c>> = <<c>>
    BY TextFacts DEF Texts
  <2> QED BY <2>1, <2>2, CharFacts DEF ParseChar, Inside, After, Between
<1> QED BY <1>1, <1>2, <1>3

(* Folding with a named operator is the fold of the module of facts. *)
LEMMA ParseFold ==
    ASSUME NEW st, NEW text
    PROVE  Parse(st, text) = OnChar!Fold(0, st, text)
BY DEF Parse, FoldLeft, MapThenFoldSet, Max, ParseStep,
       OnChar!Fold, OnChar!FoldLeft, OnChar!MapThenFoldSet, OnChar!Max

(* The same for the escapes. *)
LEMMA EscapeFold ==
    ASSUME NEW arg
    PROVE  Escape(arg) = OnEscape!Fold(0, <<>>, arg)
BY DEF Escape, FoldLeft, MapThenFoldSet, Max, EscapeStep,
       OnEscape!Fold, OnEscape!FoldLeft, OnEscape!MapThenFoldSet, OnEscape!Max

(* The same for the arguments. *)
LEMMA ArgFold ==
    ASSUME NEW program, NEW args
    PROVE  BuildCommandLine(program, args) = OnArg!Fold(0, <<Quote>> \o program \o <<Quote>>, args)
BY DEF BuildCommandLine, FoldLeft, MapThenFoldSet, Max, ArgStep,
       OnArg!Fold, OnArg!FoldLeft, OnArg!MapThenFoldSet, OnArg!Max

(* Taking a text apart, one character further. *)
LEMMA ParseOn ==
    ASSUME NEW st, NEW s \in Texts, NEW c \in Char
    PROVE  Parse(st, Append(s, c)) = ParseChar(Parse(st, s), c)
BY ParseFold, OnChar!FoldAppend DEF Texts, ParseStep

(* Taking two texts apart, one after the other. *)
LEMMA ParseJoin ==
    ASSUME NEW st, NEW s \in Texts, NEW t \in Texts
    PROVE  Parse(st, s \o t) = Parse(Parse(st, s), t)
BY ParseFold, OnChar!FoldConcat DEF Texts

(* Taking apart the shortest texts. *)
LEMMA ParseShort ==
    ASSUME NEW st, NEW c \in Char, NEW d \in Char
    PROVE  /\ Parse(st, <<>>) = st
           /\ Parse(st, <<c>>) = ParseChar(st, c)
           /\ Parse(st, <<c, d>>) = ParseChar(ParseChar(st, c), d)
<1>1. Parse(st, <<>>) = st
  BY ParseFold, OnChar!FoldEmpty
<1>2. Parse(st, <<c>>) = ParseChar(st, c)
  <2>1. <<c>> = Append(<<>>, c) /\ <<>> \in Texts
    BY DEF Texts
  <2>2. Parse(st, Append(<<>>, c)) = ParseChar(Parse(st, <<>>), c)
    BY <2>1, ParseOn
  <2> QED BY <1>1, <2>1, <2>2
<1>3. Parse(st, <<c, d>>) = ParseChar(ParseChar(st, c), d)
  <2>1. <<c, d>> = Append(<<c>>, d) /\ <<c>> \in Texts
    BY DEF Texts
  <2>2. Parse(st, Append(<<c>>, d)) = ParseChar(Parse(st, <<c>>), d)
    BY <2>1, ParseOn
  <2> QED BY <1>2, <2>1, <2>2
<1> QED BY <1>1, <1>2, <1>3

(* Escaping a text one character further. *)
LEMMA EscapeSteps ==
    /\ Escape(<<>>) = <<>>
    /\ \A s \in Texts, c \in Char :
         Escape(Append(s, c)) = Escape(s) \o (IF c = Quote THEN <<Backslash, Quote>> ELSE <<c>>)
    /\ \A s \in Texts : Escape(s) \in Texts
<1>1. Escape(<<>>) = <<>>
  BY EscapeFold, OnEscape!FoldEmpty
<1>2. \A s \in Texts, c \in Char :
         Escape(Append(s, c)) = Escape(s) \o (IF c = Quote THEN <<Backslash, Quote>> ELSE <<c>>)
  BY EscapeFold, OnEscape!FoldAppend DEF Texts, AddChar, EscapeStep
<1>3. \A s \in Texts : Escape(s) \in Texts
  <2> DEFINE T == {s \in Texts : Escape(s) \in Texts}
  <2>1. <<>> \in T
    <3>1. <<>> \in Texts
      BY DEF Texts
    <3> QED BY <1>1, <3>1
  <2>2. ASSUME NEW s \in Texts, NEW c \in Char, s \in T PROVE Append(s, c) \in T
    <3>1. <<Backslash, Quote>> \in Texts /\ <<c>> \in Texts /\ Append(s, c) \in Texts
      BY CharFacts DEF Texts
    <3>2. \A t \in Texts : Escape(s) \o t \in Texts
      BY <2>2, TextFacts DEF Texts
    <3> QED BY <1>2, <3>1, <3>2
  <2>3. Texts \subseteq T
    <3> HIDE DEF T
    <3> QED BY <2>1, <2>2, OnChar!SeqSetInduction DEF Texts
  <2> QED BY <2>3
<1> QED BY <1>1, <1>2, <1>3

-----------------------------------------------------------------------------
(* Reading a text that needs no quotes: what has been read is the argument *)
(* so far and the backslashes not settled.                                 *)
Reads(st, done, quoted, s) ==
    \E cur \in Texts, n \in Nat, closed \in BOOLEAN :
        /\ st = After(done, cur, n, quoted, closed)
        /\ cur \o Slashes(n) = s
        /\ n > 0 => s # <<>> /\ s[Len(s)] = Backslash
        /\ closed => ~quoted

(* With no backslash left open, and right after a closing quote. *)
LEMMA ReadsClean ==
    ASSUME NEW done, NEW q, NEW s \in Texts
    PROVE  /\ Reads(Inside(done, s, 0, q), done, q, s)
           /\ Reads(After(done, s, 0, FALSE, TRUE), done, FALSE, s)
<1>1. s \o Slashes(0) = s
  BY SlashesFacts, TextFacts DEF Texts
<1>2. 0 \in Nat /\ ~(0 > 0)
  OBVIOUS
<1>3. Reads(Inside(done, s, 0, q), done, q, s)
  BY <1>1, <1>2 DEF Reads, Inside
<1>4. Reads(After(done, s, 0, FALSE, TRUE), done, FALSE, s)
  BY <1>1, <1>2 DEF Reads
<1> QED BY <1>3, <1>4

(* One more character that is neither a quote nor, outside quotes, a blank. *)
LEMMA ReadsOn ==
    ASSUME NEW st, NEW done, NEW q \in BOOLEAN, NEW s \in Texts, Reads(st, done, q, s),
           NEW c \in Char \ {Quote}, q \/ c # Space
    PROVE  Reads(ParseChar(st, c), done, q, Append(s, c))
<1>1. PICK cur \in Texts, n \in Nat, k \in BOOLEAN :
        st = After(done, cur, n, q, k) /\ cur \o Slashes(n) = s
  BY DEF Reads
<1>2. Append(s, c) # <<>> /\ Append(s, c)[Len(Append(s, c))] = c /\ Append(s, c) \in Texts
  BY DEF Texts
<1>3. CASE c = Backslash
  <2>1. ParseChar(st, c) = Inside(done, cur, n + 1, q)
    <3>1. ParseChar(After(done, cur, n, q, k), Backslash) = Inside(done, cur, n + 1, q)
      BY BackslashStep
    <3> QED BY <3>1, <1>1, <1>3
  <2>2. cur \o Slashes(n + 1) = Append(s, c)
    <3>1. Slashes(n) \in Texts /\ Slashes(n + 1) = Append(Slashes(n), Backslash)
      BY SlashesFacts
    <3>2. cur \o Append(Slashes(n), Backslash) = Append(cur \o Slashes(n), Backslash)
      BY <3>1, CharFacts, TextFacts DEF Texts
    <3> QED BY <1>1, <1>3, <3>1, <3>2
  <2>3. n + 1 \in Nat /\ FALSE \in BOOLEAN
    OBVIOUS
  <2>4. ParseChar(st, c) = After(done, cur, n + 1, q, FALSE)
    BY <2>1 DEF Inside
  <2> QED BY <1>2, <1>3, <2>2, <2>3, <2>4, ZenonT(60) DEF Reads
<1>4. CASE c # Backslash
  <2>1. c \in Char \ {Backslash, Quote}
    BY <1>4
  <2>2. ParseChar(After(done, cur, n, q, k), c) = Inside(done, Append(cur \o Slashes(n), c), 0, q)
    BY <2>1, OtherStep
  <2> QED BY <1>1, <1>2, <2>2, ReadsClean
<1> QED BY <1>3, <1>4

(* An argument that is not put in quotes is read as it is. *)
LEMMA PlainRead ==
    ASSUME NEW done, NEW arg \in Texts, ~NeedsQuote(arg)
    PROVE  Reads(Parse(Between(done), arg), done, FALSE, arg)
<1> DEFINE X == Char \ {Space, Quote}
           T == {s \in Seq(X) : s # <<>> => Reads(Parse(Between(done), s), done, FALSE, s)}
<1>0. \A s \in Seq(X) : s \in Texts
  BY DEF Texts
<1>1. <<>> \in T
  OBVIOUS
<1>2. ASSUME NEW s \in Seq(X), NEW c \in X, s \in T PROVE Append(s, c) \in T
  <2>1. Parse(Between(done), Append(s, c)) = ParseChar(Parse(Between(done), s), c)
    BY <1>0, ParseOn
  <2>2. Append(s, c) \in Seq(X)
    OBVIOUS
  <2>3. CASE s # <<>>
    <3>1. Reads(ParseChar(Parse(Between(done), s), c), done, FALSE, Append(s, c))
      BY <1>0, <1>2, <2>3, ReadsOn
    <3> QED BY <2>1, <2>2, <3>1
  <2>4. CASE s = <<>>
    <3>1. ParseChar(Between(done), c) = ParseChar(Parse(Between(done), s), c) /\ Append(s, c) = <<c>>
      <4>1. Append(s, c) = <<c>>
        BY <2>4
      <4>2. Parse(Between(done), <<>>) = Between(done)
        BY CharFacts, ParseShort
      <4> QED BY <2>4, <4>1, <4>2
    <3>2. CASE c = Backslash
      <4>1. Slashes(1) = <<Backslash>> /\ <<>> \o Slashes(1) = <<c>> /\ <<>> \in Texts
        BY <3>2 DEF Slashes, Texts
      <4>2. 1 \in Nat /\ <<c>> # <<>> /\ <<c>>[Len(<<c>>)] = Backslash
        BY <3>2
      <4>3. Reads(Inside(done, <<>>, 1, FALSE), done, FALSE, <<c>>)
        BY <4>1, <4>2 DEF Reads, Inside
      <4> QED BY <2>1, <2>2, <3>1, <3>2, <4>3, BetweenSteps
    <3>3. CASE c # Backslash
      <4>1. <<c>> \in Texts /\ c \in Char \ {Backslash, Quote, Space}
        BY <3>3 DEF Texts
      <4>2. Reads(Inside(done, <<c>>, 0, FALSE), done, FALSE, <<c>>)
        BY <4>1, ReadsClean
      <4> QED BY <2>1, <2>2, <3>1, <4>1, <4>2, BetweenSteps
    <3> QED BY <3>2, <3>3
  <2> QED BY <2>3, <2>4
<1>3. Seq(X) \subseteq T
  <2> HIDE DEF T, X
  <2> QED BY <1>1, <1>2, OnChar!SeqSetInduction
<1>4. arg \in Seq(X) /\ arg # <<>>
  BY DEF NeedsQuote, Texts
<1> QED BY <1>3, <1>4

(* No backslash comes before a quote. *)
Clear(s) == \A i \in 1..(Len(s) - 1) : ~(s[i] = Backslash /\ s[i + 1] = Quote)

(* The escaped text in quotes is read as the text. *)
LEMMA EscapedRead ==
    ASSUME NEW done, NEW arg \in Texts, Clear(arg)
    PROVE  Reads(Parse(Inside(done, <<>>, 0, TRUE), Escape(arg)), done, TRUE, arg)
<1> DEFINE Start == Inside(done, <<>>, 0, TRUE)
           T == {s \in Texts : Clear(s) => Reads(Parse(Start, Escape(s)), done, TRUE, s)}
<1>1. <<>> \in T
  <2>1. <<>> \in Texts
    BY DEF Texts
  <2>2. Parse(Start, Escape(<<>>)) = Start
    BY CharFacts, ParseShort, EscapeSteps
  <2> QED BY <2>1, <2>2, ReadsClean
<1>2. ASSUME NEW s \in Texts, NEW c \in Char, s \in T PROVE Append(s, c) \in T
  <2>1. Append(s, c) \in Texts
    BY DEF Texts
  <2> SUFFICES ASSUME Clear(Append(s, c))
               PROVE  Reads(Parse(Start, Escape(Append(s, c))), done, TRUE, Append(s, c))
    BY <2>1
  <2>2. Clear(s) /\ (c = Quote /\ s # <<>> => s[Len(s)] # Backslash)
    <3>1. Len(s) \in Nat /\ Len(Append(s, c)) = Len(s) + 1 /\ Append(s, c)[Len(s) + 1] = c
      BY DEF Texts
    <3>2. \A i \in 1..Len(s) : Append(s, c)[i] = s[i]
      BY DEF Texts
    <3>3. Clear(s)
      BY <3>1, <3>2 DEF Clear
    <3>4. ASSUME c = Quote, s # <<>> PROVE s[Len(s)] # Backslash
      <4>1. Len(s) \in 1..(Len(Append(s, c)) - 1)
        BY <3>1, <3>4 DEF Texts
      <4> QED BY <3>1, <3>2, <3>4, <4>1 DEF Clear
    <3> QED BY <3>3, <3>4
  <2>3. PICK cur \in Texts, n \in Nat :
          /\ Parse(Start, Escape(s)) = Inside(done, cur, n, TRUE)
          /\ cur \o Slashes(n) = s
          /\ n > 0 => s # <<>> /\ s[Len(s)] = Backslash
    BY <1>2, <2>2 DEF Reads, Inside
  <2>4. Reads(Parse(Start, Escape(s)), done, TRUE, s)
    BY <1>2, <2>2
  <2>5. CASE c = Quote
    <3>1. n = 0 /\ s = cur
      <4>1. n = 0
        BY <2>2, <2>3, <2>5
      <4> QED BY <2>3, <4>1, SlashesFacts, TextFacts DEF Texts
    <3>2. Escape(s) \in Texts /\ Escape(Append(s, c)) = Escape(s) \o <<Backslash, Quote>>
      BY <2>5, EscapeSteps
    <3>3. <<Backslash, Quote>> \in Texts
      BY CharFacts DEF Texts
    <3>4. Parse(Start, Escape(Append(s, c)))
            = ParseChar(ParseChar(Parse(Start, Escape(s)), Backslash), Quote)
      <4>1. PICK st : st = Parse(Start, Escape(s))
        OBVIOUS
      <4> HIDE DEF Start
      <4>2. Parse(Start, Escape(s) \o <<Backslash, Quote>>) = Parse(st, <<Backslash, Quote>>)
        BY <3>2, <3>3, <4>1, ParseJoin
      <4>3. Parse(st, <<Backslash, Quote>>) = ParseChar(ParseChar(st, Backslash), Quote)
        BY CharFacts, ParseShort, ZenonT(60)
      <4> QED BY <3>2, <4>1, <4>2, <4>3
    <3>5. ParseChar(ParseChar(Parse(Start, Escape(s)), Backslash), Quote)
            = Inside(done, Append(cur, Quote), 0, TRUE)
      <4>1. ParseChar(Inside(done, cur, 0, TRUE), Backslash) = Inside(done, cur, 1, TRUE)
        <5>1. 0 + 1 = 1 /\ 0 \in Nat
          OBVIOUS
        <5>2. ParseChar(Inside(done, cur, 0, TRUE), Backslash) = Inside(done, cur, 0 + 1, TRUE)
          BY <5>1, OpenSteps, ZenonT(60)
        <5> QED BY <5>1, <5>2
      <4>2. ParseChar(Inside(done, cur, 1, TRUE), Quote) = Inside(done, Append(cur, Quote), 0, TRUE)
        BY InsideSteps
      <4> QED BY <2>3, <3>1, <4>1, <4>2
    <3> QED BY <2>1, <2>5, <3>1, <3>4, <3>5, ReadsClean
  <2>6. CASE c # Quote
    <3>1. Escape(s) \in Texts /\ Escape(Append(s, c)) = Append(Escape(s), c)
      <4>1. Escape(s) \in Texts /\ Escape(Append(s, c)) = Escape(s) \o <<c>>
        BY <2>6, EscapeSteps
      <4> QED BY <4>1, TextFacts DEF Texts
    <3>2. Parse(Start, Escape(Append(s, c))) = ParseChar(Parse(Start, Escape(s)), c)
      BY <3>1, ParseOn, ZenonT(60)
    <3> HIDE DEF Start
    <3> QED BY <2>4, <2>6, <3>2, ReadsOn
  <2> QED BY <2>5, <2>6
<1>3. Texts \subseteq T
  <2> HIDE DEF T
  <2> QED BY <1>1, <1>2, OnChar!SeqSetInduction DEF Texts
<1> QED BY <1>3

(* A blank ends an argument. *)
LEMMA BlankRead ==
    ASSUME NEW st, NEW done, NEW s \in Texts, Reads(st, done, FALSE, s)
    PROVE  ParseChar(st, Space) = Between(Append(done, s))
<1>1. PICK cur \in Texts, n \in Nat, k \in BOOLEAN :
        st = After(done, cur, n, FALSE, k) /\ cur \o Slashes(n) = s
  BY DEF Reads
<1>2. ParseChar(After(done, cur, n, FALSE, k), Space) = Between(Append(done, cur \o Slashes(n)))
  BY InsideSteps, ZenonT(60)
<1> QED BY <1>1, <1>2

(* What is ASCII is not changed by the conversion. *)
LEMMA WidenFacts ==
    ASSUME NEW arg \in Texts, \A i \in DOMAIN arg : arg[i] # Wide
    PROVE  Widen(arg) = arg
BY DEF Widen, Texts

(* An argument in quotes, closed by a quote that no backslash precedes. *)
LEMMA QuotedRead ==
    ASSUME NEW done, NEW arg \in Texts, NeedsQuote(arg), ~AtRisk(arg)
    PROVE  Reads(Parse(Between(done), Quoted(arg)), done, FALSE, arg)
<1>1. PICK inside : inside = Inside(done, <<>>, 0, TRUE)
  OBVIOUS
<1>2. /\ Quoted(arg) = (<<Quote>> \o Escape(arg)) \o <<Quote>>
      /\ <<Quote>> \in Texts /\ Escape(arg) \in Texts
  <2>1. Widen(arg) = arg
    BY WidenFacts DEF AtRisk
  <2>2. <<Quote>> \in Texts /\ Escape(arg) \in Texts
    BY CharFacts, EscapeSteps DEF Texts
  <2> QED BY <2>1, <2>2 DEF Quoted
<1>3. <<Quote>> \o Escape(arg) \in Texts
  BY <1>2, TextFacts DEF Texts
<1>4. Parse(Between(done), <<Quote>>) = inside
  <2>1. Parse(Between(done), <<Quote>>) = ParseChar(Between(done), Quote)
    BY CharFacts, ParseShort
  <2> QED BY <1>1, <2>1, BetweenSteps
<1>5. Parse(Between(done), Quoted(arg)) = ParseChar(Parse(inside, Escape(arg)), Quote)
  <2>1. Parse(Between(done), <<Quote>> \o Escape(arg)) = Parse(inside, Escape(arg))
    BY <1>2, <1>4, ParseJoin
  <2>2. PICK st : st = Parse(inside, Escape(arg))
    OBVIOUS
  <2>3. Parse(Between(done), Quoted(arg)) = Parse(st, <<Quote>>)
    BY <1>2, <1>3, <2>1, <2>2, ParseJoin
  <2>4. Parse(st, <<Quote>>) = ParseChar(st, Quote)
    BY CharFacts, ParseShort
  <2> QED BY <2>2, <2>3, <2>4
<1>6. Clear(arg) /\ (arg # <<>> => arg[Len(arg)] # Backslash)
  BY DEF Clear, Ambiguous, AtRisk, Texts
<1>7. PICK cur \in Texts, n \in Nat :
        /\ Parse(inside, Escape(arg)) = Inside(done, cur, n, TRUE)
        /\ cur \o Slashes(n) = arg
        /\ n > 0 => arg # <<>> /\ arg[Len(arg)] = Backslash
  <2>1. Reads(Parse(inside, Escape(arg)), done, TRUE, arg)
    BY <1>1, <1>6, EscapedRead
  <2>2. PICK cur \in Texts, n \in Nat, k \in BOOLEAN :
          /\ Parse(inside, Escape(arg)) = After(done, cur, n, TRUE, k)
          /\ cur \o Slashes(n) = arg
          /\ n > 0 => arg # <<>> /\ arg[Len(arg)] = Backslash
          /\ k => ~TRUE
    BY <2>1 DEF Reads
  <2>3. k = FALSE
    BY <2>2
  <2> QED BY <2>2, <2>3 DEF Inside
<1>8. n = 0
  BY <1>6, <1>7
<1>9. cur = arg
  BY <1>7, <1>8, SlashesFacts, TextFacts DEF Texts
<1>10. ParseChar(Inside(done, arg, 0, TRUE), Quote) = After(done, arg, 0, FALSE, TRUE)
  BY InsideSteps
<1> QED BY <1>5, <1>7, <1>8, <1>9, <1>10, ReadsClean

(* What is put on the command line is a text. *)
LEMMA PiecesAreTexts ==
    ASSUME NEW arg \in Texts, \A i \in DOMAIN arg : arg[i] # Wide
    PROVE  <<Space>> \in Texts /\ Quoted(arg) \in Texts
<1>1. <<Space>> \in Texts /\ <<Quote>> \in Texts /\ Escape(arg) \in Texts
  BY CharFacts, EscapeSteps DEF Texts
<1>2. <<Quote>> \o Escape(arg) \in Texts
  BY <1>1, TextFacts DEF Texts
<1>3. (<<Quote>> \o Escape(arg)) \o <<Quote>> \in Texts
  BY <1>1, <1>2, TextFacts DEF Texts
<1> QED BY <1>1, <1>3, WidenFacts DEF Quoted

(* One more argument on the command line. *)
LEMMA ArgRead ==
    ASSUME NEW st, NEW done, NEW s \in Texts, Reads(st, done, FALSE, s),
           NEW arg \in Texts, ~AtRisk(arg)
    PROVE  Reads(Parse(st, <<Space>> \o Quoted(arg)), Append(done, s), FALSE, arg)
<1>1. <<Space>> \in Texts /\ Quoted(arg) \in Texts
  BY PiecesAreTexts DEF AtRisk
<1>2. Parse(st, <<Space>>) = Between(Append(done, s))
  <2>1. Parse(st, <<Space>>) = ParseChar(st, Space)
    BY CharFacts, ParseShort
  <2> QED BY <2>1, BlankRead
<1>3. Parse(st, <<Space>> \o Quoted(arg)) = Parse(Between(Append(done, s)), Quoted(arg))
  BY <1>1, <1>2, ParseJoin
<1>4. CASE NeedsQuote(arg)
  BY <1>3, <1>4, QuotedRead
<1>5. CASE ~NeedsQuote(arg)
  BY <1>3, <1>5, PlainRead, WidenFacts DEF Quoted, AtRisk
<1> QED BY <1>4, <1>5

(* The command line, one argument longer. *)
LEMMA LineSteps ==
    ASSUME NEW list \in Seq(Texts), NEW arg \in Texts, BuildCommandLine(<<"x">>, list) \in Texts,
           \A i \in DOMAIN arg : arg[i] # Wide
    PROVE  BuildCommandLine(<<"x">>, Append(list, arg))
             = BuildCommandLine(<<"x">>, list) \o (<<Space>> \o Quoted(arg))
<1>1. BuildCommandLine(<<"x">>, Append(list, arg)) = AddArg(BuildCommandLine(<<"x">>, list), arg)
  BY ArgFold, OnArg!FoldAppend DEF ArgStep
<1> DEFINE line == BuildCommandLine(<<"x">>, list)
<1>2. (line \o <<Space>>) \o Quoted(arg) = line \o (<<Space>> \o Quoted(arg))
  BY PiecesAreTexts, TextFacts DEF Texts
<1> QED BY <1>1, <1>2 DEF AddArg

(* The program's name, in its quotes. *)
LEMMA ProgramRead ==
    /\ "x" \in Char /\ <<"x">> \in Texts
    /\ BuildCommandLine(<<"x">>, <<>>) \in Texts
    /\ Parse(NoArg, BuildCommandLine(<<"x">>, <<>>)) = After(<<>>, <<"x">>, 0, FALSE, TRUE)
<1>1. BuildCommandLine(<<"x">>, <<>>) = <<Quote>> \o <<"x">> \o <<Quote>>
  BY ArgFold, OnArg!FoldEmpty
<1>2. <<Quote>> \o <<"x">> \o <<Quote>> = Append(<<Quote, "x">>, Quote)
  OBVIOUS
<1>3. <<Quote, "x">> \in Texts /\ <<"x">> \in Texts /\ "x" \in Char
      /\ "x" \notin {Quote, Backslash, Space}
  <2>1. "x" \in Char /\ "x" \notin {Quote, Backslash, Space}
    BY DEF Char, Quote, Backslash, Space
  <2> QED BY <2>1, CharFacts DEF Texts
<1>4. NoArg = Between(<<>>)
  BY DEF NoArg, Between
<1>5. Parse(NoArg, <<Quote, "x">>) = Inside(<<>>, <<"x">>, 0, TRUE)
  <2>1. Parse(NoArg, <<Quote, "x">>) = ParseChar(ParseChar(NoArg, Quote), "x")
    BY <1>3, CharFacts, ParseShort, ZenonT(60)
  <2>2. ParseChar(NoArg, Quote) = Inside(<<>>, <<>>, 0, TRUE)
    BY <1>4, BetweenSteps
  <2>3. ParseChar(Inside(<<>>, <<>>, 0, TRUE), "x") = Inside(<<>>, Append(<<>> \o Slashes(0), "x"), 0, TRUE)
    <3>1. <<>> \in Texts /\ "x" \in Char \ {Backslash, Quote} /\ 0 \in Nat
      BY <1>3 DEF Texts
    <3> HIDE <1>3
    <3> QED BY <3>1, OpenSteps, ZenonT(60)
  <2>4. Append(<<>> \o Slashes(0), "x") = <<"x">>
    <3>1. <<>> \o Slashes(0) = <<>>
      BY SlashesFacts
    <3>2. Append(<<>>, "x") = <<"x">>
      OBVIOUS
    <3> QED BY <3>1, <3>2
  <2> QED BY <2>1, <2>2, <2>3, <2>4
<1>6. Parse(NoArg, Append(<<Quote, "x">>, Quote)) = After(<<>>, <<"x">>, 0, FALSE, TRUE)
  <2>1. Parse(NoArg, Append(<<Quote, "x">>, Quote)) = ParseChar(Parse(NoArg, <<Quote, "x">>), Quote)
    BY <1>3, CharFacts, ParseOn
  <2>2. ParseChar(Inside(<<>>, <<"x">>, 0, TRUE), Quote) = After(<<>>, <<"x">>, 0, FALSE, TRUE)
    BY <1>3, InsideSteps
  <2> QED BY <1>5, <2>1, <2>2
<1>7. BuildCommandLine(<<"x">>, <<>>) \in Texts
  <2>1. Append(<<Quote, "x">>, Quote) \in Texts
    BY <1>3, CharFacts, TextFacts DEF Texts
  <2> QED BY <1>1, <1>2, <2>1
<1> QED BY <1>1, <1>2, <1>3, <1>6, <1>7

(* All the arguments: the last one is still open. *)
LEMMA ArgsRead ==
    ASSUME NEW args \in Seq(Texts), \A i \in DOMAIN args : ~AtRisk(args[i])
    PROVE  \E done \in Seq(Texts), s \in Texts :
             /\ Reads(Parse(NoArg, BuildCommandLine(<<"x">>, args)), done, FALSE, s)
             /\ Append(done, s) = <<<<"x">>>> \o args
<1> DEFINE Line(list) == BuildCommandLine(<<"x">>, list)
           T == {list \in Seq(Texts) : (\A i \in DOMAIN list : ~AtRisk(list[i])) =>
                   /\ Line(list) \in Texts
                   /\ \E done \in Seq(Texts), s \in Texts :
                        /\ Reads(Parse(NoArg, Line(list)), done, FALSE, s)
                        /\ Append(done, s) = <<<<"x">>>> \o list}
<1>1. <<>> \in T
  <2>1. "x" \in Char /\ <<"x">> \in Texts /\ Line(<<>>) \in Texts
    BY ProgramRead
  <2>2. Reads(Parse(NoArg, Line(<<>>)), <<>>, FALSE, <<"x">>)
    BY <2>1, ProgramRead, ReadsClean
  <2>3. Append(<<>>, <<"x">>) = <<<<"x">>>> \o <<>> /\ <<>> \in Seq(Texts)
    OBVIOUS
  <2> HIDE DEF Line
  <2> QED BY <2>1, <2>2, <2>3
<1>2. ASSUME NEW list \in Seq(Texts), NEW arg \in Texts, list \in T PROVE Append(list, arg) \in T
  <2>1. Append(list, arg) \in Seq(Texts)
    BY AppendFacts
  <2> SUFFICES ASSUME \A i \in DOMAIN Append(list, arg) : ~AtRisk(Append(list, arg)[i])
               PROVE  /\ Line(Append(list, arg)) \in Texts
                      /\ \E done \in Seq(Texts), s \in Texts :
                           /\ Reads(Parse(NoArg, Line(Append(list, arg))), done, FALSE, s)
                           /\ Append(done, s) = <<<<"x">>>> \o Append(list, arg)
    BY <2>1
  <2>2. ~AtRisk(arg) /\ \A i \in DOMAIN list : ~AtRisk(list[i])
    <3>1. Len(list) + 1 \in DOMAIN Append(list, arg) /\ Append(list, arg)[Len(list) + 1] = arg
      BY AppendFacts
    <3>2. \A i \in DOMAIN list : i \in DOMAIN Append(list, arg) /\ Append(list, arg)[i] = list[i]
      BY AppendFacts
    <3> QED BY <3>1, <3>2
  <2>3. PICK done \in Seq(Texts), s \in Texts :
          /\ Reads(Parse(NoArg, Line(list)), done, FALSE, s)
          /\ Append(done, s) = <<<<"x">>>> \o list
    BY <1>2, <2>2
  <2>4. Line(list) \in Texts
    BY <1>2, <2>2
  <2>5. Line(Append(list, arg)) = Line(list) \o (<<Space>> \o Quoted(arg))
    BY <2>2, <2>4, LineSteps DEF AtRisk
  <2> HIDE DEF Line
  <2>6. <<Space>> \o Quoted(arg) \in Texts /\ Line(Append(list, arg)) \in Texts
    <3>1. <<Space>> \o Quoted(arg) \in Texts
      BY <2>2, PiecesAreTexts, TextFacts DEF Texts, AtRisk
    <3> QED BY <2>4, <2>5, <3>1, TextFacts DEF Texts
  <2>7. Parse(NoArg, Line(Append(list, arg))) = Parse(Parse(NoArg, Line(list)), <<Space>> \o Quoted(arg))
    BY <2>4, <2>5, <2>6, ParseJoin
  <2>8. Reads(Parse(NoArg, Line(Append(list, arg))), Append(done, s), FALSE, arg)
    BY <2>2, <2>3, <2>7, ArgRead
  <2>9. Append(Append(done, s), arg) = <<<<"x">>>> \o Append(list, arg)
    <3>1. <<"x">> \in Texts
      BY DEF Texts, Char
    <3>2. <<<<"x">>>> \in Seq(Texts)
      BY <3>1
    <3>3. <<<<"x">>>> \o Append(list, arg) = Append(<<<<"x">>>> \o list, arg)
      BY <3>2, TextFacts
    <3> QED BY <2>3, <3>3
  <2>10. Append(done, s) \in Seq(Texts)
    OBVIOUS
  <2> QED BY <2>6, <2>8, <2>9, <2>10
<1>3. Seq(Texts) \subseteq T
  <2> HIDE DEF T
  <2> QED BY <1>1, <1>2, OnChar!SeqSetInduction
<1> QED BY <1>3

(* The child gets the arguments it was given: for every list of arguments, *)
(* of any number and length, in which no backslash ends up before a quote  *)
(* and no character is changed by the widening, the runtime reads back     *)
(* from the command line what was put into it.                             *)
THEOREM RoundTrip ==
    ASSUME NEW args \in Seq(Seq(Char)), \A i \in DOMAIN args : ~AtRisk(args[i])
    PROVE  Tail(ParseCommandLine(BuildCommandLine(<<"x">>, args))) = args
<1>1. PICK done \in Seq(Texts), s \in Texts :
        /\ Reads(Parse(NoArg, BuildCommandLine(<<"x">>, args)), done, FALSE, s)
        /\ Append(done, s) = <<<<"x">>>> \o args
  BY ArgsRead DEF Texts
<1>2. PICK cur \in Texts, n \in Nat, k \in BOOLEAN :
        /\ Parse(NoArg, BuildCommandLine(<<"x">>, args)) = After(done, cur, n, FALSE, k)
        /\ cur \o Slashes(n) = s
  BY <1>1 DEF Reads
<1>3. ParseCommandLine(BuildCommandLine(<<"x">>, args)) = Append(done, s)
  <2>1. ParseCommandLine(BuildCommandLine(<<"x">>, args))
          = EndArg(Parse(NoArg, BuildCommandLine(<<"x">>, args))).args
    BY DEF ParseCommandLine, Parse
  <2>2. EndArg(After(done, cur, n, FALSE, k)).args = Append(done, cur \o Slashes(n))
    BY DEF EndArg, After
  <2> QED BY <1>2, <2>1, <2>2
<1>4. Tail(<<<<"x">>>> \o args) = args
  OBVIOUS
<1> QED BY <1>1, <1>3, <1>4
=============================================================================
