---------------------------- MODULE LaunchProofs ----------------------------
(***************************************************************************)
(* The child that runs is the one that was asked for, and an error is      *)
(* reported for its cause: for every caller's environment, every set of    *)
(* variables, every PATH, every number of builder calls and of changes by  *)
(* others, and every list of arguments.                                    *)
(***************************************************************************)
EXTENDS Launch, CommandLineProofs, FiniteSetTheorems

(* The facts about folds, for each operator that is folded here. *)
AddStep(p, entries, e) == AddEntry(entries, e)

OnKeep == INSTANCE FoldFacts WITH op <- Keep
OnAdd  == INSTANCE FoldFacts WITH op <- AddStep

(* Entries as given, or garbled. *)
Shown            == [key : Keys \cup {Garbled}, value : Values \cup {Garbled}]
Entries          == Seq(Shown)
Block(base, add) == FoldLeft(AddEntry, base, add)

(* A variable has one entry exactly. *)
Once(entries, key) ==
    \E i \in DOMAIN entries : \A j \in DOMAIN entries : (entries[j].key = key) = (j = i)

-----------------------------------------------------------------------------
(* Folding with a named operator is the fold of the module of facts. *)
LEMMA WithoutFold ==
    ASSUME NEW entries, NEW keys
    PROVE  Without(entries, keys) = OnKeep!Fold(keys, <<>>, entries)
BY DEF Without, FoldLeft, MapThenFoldSet, Max,
       OnKeep!Fold, OnKeep!FoldLeft, OnKeep!MapThenFoldSet, OnKeep!Max

(* The same for the additions. *)
LEMMA BlockFold ==
    ASSUME NEW base, NEW add
    PROVE  Block(base, add) = OnAdd!Fold(0, base, add)
BY DEF Block, FoldLeft, MapThenFoldSet, Max, AddStep,
       OnAdd!Fold, OnAdd!FoldLeft, OnAdd!MapThenFoldSet, OnAdd!Max

(* Taking variables away, one entry further. *)
LEMMA WithoutSteps ==
    ASSUME NEW keys
    PROVE  /\ Without(<<>>, keys) = <<>>
           /\ \A s \in Entries, e \in Shown :
                Without(Append(s, e), keys) = Keep(keys, Without(s, keys), e)
BY WithoutFold, OnKeep!FoldEmpty, OnKeep!FoldAppend DEF Entries

(* What is left are entries. *)
LEMMA WithoutType ==
    ASSUME NEW keys
    PROVE  \A s \in Entries : Without(s, keys) \in Entries
<1> DEFINE T == {s \in Entries : Without(s, keys) \in Entries}
<1>1. <<>> \in T
  <2>1. <<>> \in Entries
    BY DEF Entries
  <2> QED BY <2>1, WithoutSteps
<1>2. ASSUME NEW s \in Entries, NEW e \in Shown, s \in T PROVE Append(s, e) \in T
  <2>1. Append(s, e) \in Entries /\ Append(Without(s, keys), e) \in Entries
    BY <1>2, AppendFacts DEF Entries
  <2> QED BY <1>2, <2>1, WithoutSteps DEF Keep
<1>3. Entries \subseteq T
  <2> HIDE DEF T
  <2> QED BY <1>1, <1>2, OnKeep!SeqSetInduction DEF Entries
<1> QED BY <1>3

(* What one more entry adds to the values of a variable. *)
LEMMA GivenSteps ==
    ASSUME NEW k, NEW s \in Entries, NEW e \in Shown
    PROVE  /\ Given(Append(s, e), k) = Given(s, k) \cup (IF e.key = k THEN {e.value} ELSE {})
           /\ Has(Append(s, e), k) = (Has(s, k) \/ e.key = k)
           /\ Has(s, k) = (Given(s, k) # {})
<1>1. DOMAIN Append(s, e) = DOMAIN s \cup {Len(s) + 1}
  BY DEF Entries
<1>2. Append(s, e)[Len(s) + 1] = e /\ \A i \in DOMAIN s : Append(s, e)[i] = s[i]
  BY AppendFacts DEF Entries
<1>3. Given(Append(s, e), k) = Given(s, k) \cup (IF e.key = k THEN {e.value} ELSE {})
  BY <1>1, <1>2 DEF Given
<1>4. Has(Append(s, e), k) = (Has(s, k) \/ e.key = k)
  BY <1>1, <1>2 DEF Has
<1>5. Has(s, k) = (Given(s, k) # {})
  BY DEF Has, Given
<1> QED BY <1>3, <1>4, <1>5

(* An empty list has no values. *)
LEMMA GivenNone == ASSUME NEW k PROVE Given(<<>>, k) = {} /\ ~Has(<<>>, k)
BY DEF Given, Has

(* One more entry, and a variable that has one entry exactly. *)
LEMMA OnceSteps ==
    ASSUME NEW k, NEW s \in Entries, NEW e \in Shown
    PROVE  /\ e.key = k /\ ~Has(s, k) => Once(Append(s, e), k)
           /\ e.key = k /\ Once(Append(s, e), k) => ~Has(s, k)
           /\ e.key # k => Once(Append(s, e), k) = Once(s, k)
<1>1. DOMAIN Append(s, e) = DOMAIN s \cup {Len(s) + 1} /\ Len(s) + 1 \notin DOMAIN s
  BY DEF Entries
<1>2. Append(s, e)[Len(s) + 1] = e /\ \A i \in DOMAIN s : Append(s, e)[i] = s[i]
  BY AppendFacts DEF Entries
<1>3. e.key = k /\ ~Has(s, k) => Once(Append(s, e), k)
  BY <1>1, <1>2 DEF Has, Once
<1>4. e.key = k /\ Once(Append(s, e), k) => ~Has(s, k)
  BY <1>1, <1>2 DEF Has, Once
<1>5. e.key # k => Once(Append(s, e), k) = Once(s, k)
  BY <1>1, <1>2 DEF Once
<1> QED BY <1>3, <1>4, <1>5

(* Taking variables away takes away these and leaves the others as they    *)
(* are, as often as they are there.                                        *)
LEMMA WithoutFacts ==
    ASSUME NEW keys, NEW k
    PROVE  \A s \in Entries :
             /\ Given(Without(s, keys), k) = IF k \in keys THEN {} ELSE Given(s, k)
             /\ k \notin keys /\ Once(s, k) => Once(Without(s, keys), k)
<1> DEFINE W(s) == Without(s, keys)
           T == {s \in Entries :
                   /\ Given(W(s), k) = IF k \in keys THEN {} ELSE Given(s, k)
                   /\ k \notin keys /\ Once(s, k) => Once(W(s), k)}
<1>1. <<>> \in T
  <2>1. <<>> \in Entries /\ W(<<>>) = <<>>
    BY WithoutSteps DEF Entries
  <2> QED BY <2>1, GivenNone
<1>2. ASSUME NEW s \in Entries, NEW e \in Shown, s \in T PROVE Append(s, e) \in T
  <2>1. Append(s, e) \in Entries /\ W(s) \in Entries
    BY AppendFacts, WithoutType DEF Entries
  <2>2. W(Append(s, e)) = IF e.key \in keys THEN W(s) ELSE Append(W(s), e)
    BY WithoutSteps DEF Keep
  <2>3. Given(W(s), k) = IF k \in keys THEN {} ELSE Given(s, k)
    BY <1>2
  <2>4. k \notin keys /\ Once(s, k) => Once(W(s), k)
    BY <1>2
  <2> HIDE DEF W
  <2>5. Given(W(Append(s, e)), k) = IF k \in keys THEN {} ELSE Given(Append(s, e), k)
    <3>1. Given(Append(s, e), k) = Given(s, k) \cup (IF e.key = k THEN {e.value} ELSE {})
      BY GivenSteps
    <3>2. Given(Append(W(s), e), k) = Given(W(s), k) \cup (IF e.key = k THEN {e.value} ELSE {})
      BY <2>1, GivenSteps
    <3> QED BY <2>2, <2>3, <3>1, <3>2
  <2>6. ASSUME k \notin keys, Once(Append(s, e), k) PROVE Once(W(Append(s, e)), k)
    <3>1. CASE e.key = k
      <4>1. ~Has(s, k)
        BY <2>6, <3>1, OnceSteps
      <4>2. ~Has(W(s), k)
        BY <2>1, <2>3, <4>1, GivenSteps, ZenonT(60)
      <4> QED BY <2>1, <2>2, <2>6, <3>1, <4>2, OnceSteps
    <3>2. CASE e.key # k
      <4>1. Once(W(s), k)
        BY <2>4, <2>6, <3>2, OnceSteps
      <4> QED BY <2>1, <2>2, <3>2, <4>1, OnceSteps
    <3> QED BY <3>1, <3>2
  <2> QED BY <2>1, <2>5, <2>6
<1>3. Entries \subseteq T
  <2> HIDE DEF T
  <2> QED BY <1>1, <1>2, OnKeep!SeqSetInduction DEF Entries
<1> QED BY <1>3

-----------------------------------------------------------------------------
(* The last entry of a variable, found at the largest of its positions. *)
LEMMA LastIs ==
    ASSUME NEW k, NEW s \in Entries, NEW j \in DOMAIN s, s[j].key = k,
           \A i \in DOMAIN s : i > j => s[i].key # k
    PROVE  LastOf(s, k) = s[j].value
<1> DEFINE I == {i \in 1..Len(s) : s[i].key = k}
<1>1. DOMAIN s = 1..Len(s) /\ Len(s) \in Nat
  BY DEF Entries
<1>2. j \in I /\ \A i \in I : j >= i
  BY <1>1
<1>3. \A x \in I : (\A y \in I : x >= y) => x = j
  BY <1>1, <1>2
<1>4. SelectLastInSeq(s, LAMBDA e : e.key = k) = IF I # {} THEN Max(I) ELSE 0
  BY DEF SelectLastInSeq
<1> HIDE DEF I
<1>5. Max(I) = j
  BY <1>2, <1>3 DEF Max
<1> QED BY <1>2, <1>4, <1>5 DEF LastOf

(* A variable that has entries has a last one. *)
LEMMA LastExists ==
    ASSUME NEW k, NEW s \in Entries, Has(s, k)
    PROVE  \E j \in DOMAIN s : s[j].key = k /\ \A i \in DOMAIN s : i > j => s[i].key # k
<1> DEFINE I == {i \in 1..Len(s) : s[i].key = k}
<1>1. DOMAIN s = 1..Len(s) /\ Len(s) \in Nat
  BY DEF Entries
<1>2. I # {} /\ I \in SUBSET (1..Len(s))
  BY <1>1 DEF Has
<1>3. PICK j \in I : \A i \in I : j >= i
  <2> HIDE DEF I
  <2> QED BY <1>1, <1>2, OnKeep!LargestExists
<1>4. ASSUME NEW i \in DOMAIN s, i > j PROVE s[i].key # k
  BY <1>1, <1>3, <1>4
<1> QED BY <1>1, <1>3, <1>4

(* The last of one more entry. *)
LEMMA LastSteps ==
    ASSUME NEW k, NEW s \in Entries, NEW e \in Shown
    PROVE  /\ e.key = k => LastOf(Append(s, e), k) = e.value
           /\ e.key # k /\ Has(s, k) => LastOf(Append(s, e), k) = LastOf(s, k)
<1>1. /\ DOMAIN Append(s, e) = DOMAIN s \cup {Len(s) + 1}
      /\ \A i \in DOMAIN s : i <= Len(s) /\ i \in Nat
      /\ Len(s) \in Nat /\ Append(s, e) \in Entries
  BY DEF Entries
<1>2. Append(s, e)[Len(s) + 1] = e /\ \A i \in DOMAIN s : Append(s, e)[i] = s[i]
  BY AppendFacts DEF Entries
<1>3. ASSUME e.key = k PROVE LastOf(Append(s, e), k) = e.value
  <2>1. \A i \in DOMAIN Append(s, e) : ~(i > Len(s) + 1)
    BY <1>1
  <2>2. PICK u \in Entries : u = Append(s, e)
    BY <1>1
  <2>3. PICK m \in DOMAIN u : m = Len(s) + 1
    BY <1>1, <2>2
  <2>4. u[m] = e /\ \A i \in DOMAIN u : ~(i > m)
    BY <1>2, <2>1, <2>2, <2>3
  <2>5. LastOf(u, k) = u[m].value
    BY <1>3, <2>4, LastIs
  <2> QED BY <2>2, <2>4, <2>5
<1>4. ASSUME e.key # k, Has(s, k) PROVE LastOf(Append(s, e), k) = LastOf(s, k)
  <2>1. PICK j \in DOMAIN s : s[j].key = k /\ \A i \in DOMAIN s : i > j => s[i].key # k
    BY <1>4, LastExists
  <2>2. LastOf(s, k) = s[j].value
    BY <2>1, LastIs
  <2>3. \A i \in DOMAIN Append(s, e) : i > j => Append(s, e)[i].key # k
    BY <1>1, <1>2, <1>4, <2>1
  <2>4. j \in DOMAIN Append(s, e) /\ Append(s, e)[j] = s[j]
    BY <1>1, <1>2
  <2>5. LastOf(Append(s, e), k) = Append(s, e)[j].value
    BY <1>1, <2>1, <2>3, <2>4, LastIs
  <2> QED BY <2>2, <2>4, <2>5
<1> QED BY <1>3, <1>4

(* The last entry in two lists, one after the other. *)
LEMMA LastConcat ==
    ASSUME NEW k, NEW s \in Entries
    PROVE  \A t \in Entries :
             /\ Has(s \o t, k) = (Has(s, k) \/ Has(t, k))
             /\ Has(t, k) => LastOf(s \o t, k) = LastOf(t, k)
             /\ ~Has(t, k) /\ Has(s, k) => LastOf(s \o t, k) = LastOf(s, k)
<1> DEFINE T == {t \in Entries :
                   /\ Has(s \o t, k) = (Has(s, k) \/ Has(t, k))
                   /\ Has(t, k) => LastOf(s \o t, k) = LastOf(t, k)
                   /\ ~Has(t, k) /\ Has(s, k) => LastOf(s \o t, k) = LastOf(s, k)}
<1>1. <<>> \in T
  <2>1. <<>> \in Entries /\ s \o <<>> = s
    BY TextFacts DEF Entries
  <2>2. ~Has(<<>>, k) /\ Has(s, k) \in BOOLEAN
    BY GivenNone DEF Has
  <2> QED BY <2>1, <2>2
<1>2. ASSUME NEW t \in Entries, NEW e \in Shown, t \in T PROVE Append(t, e) \in T
  <2>1. Append(t, e) \in Entries /\ s \o t \in Entries /\ s \o Append(t, e) = Append(s \o t, e)
    BY AppendFacts, TextFacts DEF Entries
  <2>2. PICK u \in Entries : u = s \o t
    BY <2>1
  <2>3. Has(Append(u, e), k) = (Has(u, k) \/ e.key = k) /\ Has(Append(t, e), k) = (Has(t, k) \/ e.key = k)
    BY GivenSteps
  <2>4. /\ e.key = k => LastOf(Append(u, e), k) = e.value
        /\ e.key # k /\ Has(u, k) => LastOf(Append(u, e), k) = LastOf(u, k)
    BY LastSteps
  <2>5. /\ e.key = k => LastOf(Append(t, e), k) = e.value
        /\ e.key # k /\ Has(t, k) => LastOf(Append(t, e), k) = LastOf(t, k)
    BY LastSteps
  <2>6. /\ Has(u, k) = (Has(s, k) \/ Has(t, k))
        /\ Has(t, k) => LastOf(u, k) = LastOf(t, k)
        /\ ~Has(t, k) /\ Has(s, k) => LastOf(u, k) = LastOf(s, k)
    BY <1>2, <2>2
  <2>7. s \o Append(t, e) = Append(u, e)
    BY <2>1, <2>2
  <2>8. /\ Has(s \o Append(t, e), k) = (Has(s, k) \/ Has(Append(t, e), k))
        /\ Has(Append(t, e), k) => LastOf(s \o Append(t, e), k) = LastOf(Append(t, e), k)
        /\ ~Has(Append(t, e), k) /\ Has(s, k) => LastOf(s \o Append(t, e), k) = LastOf(s, k)
    BY <2>3, <2>4, <2>5, <2>6, <2>7
  <2> QED BY <2>1, <2>8
<1>3. Entries \subseteq T
  <2> HIDE DEF T
  <2> QED BY <1>1, <1>2, OnKeep!SeqSetInduction DEF Entries
<1> QED BY <1>3

-----------------------------------------------------------------------------
(* Adding entries, one further. *)
LEMMA BlockSteps ==
    ASSUME NEW base
    PROVE  /\ Block(base, <<>>) = base
           /\ \A s \in Entries, e \in Shown :
                Block(base, Append(s, e)) = Append(Without(Block(base, s), {e.key}), e)
BY BlockFold, OnAdd!FoldEmpty, OnAdd!FoldAppend DEF Entries, AddStep, AddEntry

(* Entries added to entries. *)
LEMMA BlockType ==
    ASSUME NEW base \in Entries
    PROVE  \A s \in Entries : Block(base, s) \in Entries
<1> DEFINE T == {s \in Entries : Block(base, s) \in Entries}
<1>1. <<>> \in T
  <2>1. <<>> \in Entries
    BY DEF Entries
  <2> QED BY <2>1, BlockSteps
<1>2. ASSUME NEW s \in Entries, NEW e \in Shown, s \in T PROVE Append(s, e) \in T
  <2>1. Append(s, e) \in Entries
    BY AppendFacts DEF Entries
  <2>2. Without(Block(base, s), {e.key}) \in Entries
    BY <1>2, WithoutType
  <2>3. Append(Without(Block(base, s), {e.key}), e) \in Entries
    BY <2>2, AppendFacts DEF Entries
  <2> QED BY <2>1, <2>3, BlockSteps
<1>3. Entries \subseteq T
  <2> HIDE DEF T
  <2> QED BY <1>1, <1>2, OnKeep!SeqSetInduction DEF Entries
<1> QED BY <1>3

(* A variable that was added has one entry, with the value added last; one *)
(* that was not has the values it had.                                     *)
LEMMA BlockFacts ==
    ASSUME NEW base \in Entries, NEW k
    PROVE  \A s \in Entries :
             /\ Given(Block(base, s), k) = IF Has(s, k) THEN {LastOf(s, k)} ELSE Given(base, k)
             /\ Has(s, k) => Once(Block(base, s), k)
<1> DEFINE B(s) == Block(base, s)
           T == {s \in Entries :
                   /\ Given(B(s), k) = IF Has(s, k) THEN {LastOf(s, k)} ELSE Given(base, k)
                   /\ Has(s, k) => Once(B(s), k)}
<1>1. <<>> \in T
  <2>1. <<>> \in Entries
    BY DEF Entries
  <2> QED BY <2>1, GivenNone, BlockSteps
<1>2. ASSUME NEW s \in Entries, NEW e \in Shown, s \in T PROVE Append(s, e) \in T
  <2>1. Append(s, e) \in Entries /\ B(s) \in Entries
    BY AppendFacts, BlockType DEF Entries
  <2>2. PICK w \in Entries : w = Without(B(s), {e.key})
    BY <2>1, WithoutType
  <2>3. B(Append(s, e)) = Append(w, e)
    <3>1. Block(base, Append(s, e)) = Append(Without(Block(base, s), {e.key}), e)
      BY BlockSteps, Zenon
    <3> QED BY <2>2, <3>1, Zenon
  <2>4. /\ Given(B(s), k) = IF Has(s, k) THEN {LastOf(s, k)} ELSE Given(base, k)
        /\ Has(s, k) => Once(B(s), k)
    BY <1>2
  <2> HIDE DEF B
  <2>5. /\ Given(w, k) = IF k \in {e.key} THEN {} ELSE Given(B(s), k)
        /\ k \notin {e.key} /\ Once(B(s), k) => Once(w, k)
    BY <2>1, <2>2, WithoutFacts
  <2>6. Given(Append(w, e), k) = Given(w, k) \cup (IF e.key = k THEN {e.value} ELSE {})
        /\ Has(w, k) = (Given(w, k) # {})
    BY GivenSteps
  <2>7. Has(Append(s, e), k) = (Has(s, k) \/ e.key = k)
    BY GivenSteps
  <2>8. /\ e.key = k => LastOf(Append(s, e), k) = e.value
        /\ e.key # k /\ Has(s, k) => LastOf(Append(s, e), k) = LastOf(s, k)
    BY LastSteps
  <2>9. CASE e.key = k
    <3>1. Once(Append(w, e), k)
      BY <2>5, <2>6, <2>9, OnceSteps
    <3> QED BY <2>1, <2>3, <2>5, <2>6, <2>7, <2>8, <2>9, <3>1
  <2>10. CASE e.key # k
    <3>1. Once(Append(w, e), k) = Once(w, k)
      BY <2>10, OnceSteps
    <3> QED BY <2>1, <2>3, <2>4, <2>5, <2>6, <2>7, <2>8, <2>10, <3>1
  <2> QED BY <2>9, <2>10
<1>3. Entries \subseteq T
  <2> HIDE DEF T
  <2> QED BY <1>1, <1>2, OnKeep!SeqSetInduction DEF Entries
<1> QED BY <1>3

-----------------------------------------------------------------------------
(* Entries as given are entries. *)
LEMMA EntriesShown ==
    ASSUME NEW s \in Seq(Entry)
    PROVE  s \in Entries
<1>1. Entry \subseteq Shown
  BY DEF Entry, Shown
<1>2. DOMAIN s = 1..Len(s) /\ Len(s) \in Nat /\ \A i \in 1..Len(s) : s[i] \in Entry
  OBVIOUS
<1>3. s \in [1..Len(s) -> Shown]
  BY <1>1, <1>2
<1> QED BY <1>2, <1>3 DEF Entries

(* What garbling does to an entry: a name that is ASCII stays, and no      *)
(* other one becomes it; what has been garbled once stays as it is.        *)
LEMMA GarbleOne ==
    ASSUME NEW e \in Shown
    PROVE  /\ GarbleEntry(e) \in Shown
           /\ GarbleEntry(e).value = Garble(e.value)
           /\ \A k \in Keys \ NotAscii : (GarbleEntry(e).key = k) = (e.key = k)
BY TextAssumption DEF Shown, GarbleEntry, Garble

(* Twice garbled is garbled. *)
LEMMA GarbleTwice == ASSUME NEW v PROVE Garble(Garble(v)) = Garble(v)
BY TextAssumption DEF Garble

(* What garbling does to a list: the values of a variable whose name is    *)
(* ASCII are garbled, in the places where they were.                       *)
LEMMA GarbleFacts ==
    ASSUME NEW s \in Entries
    PROVE  /\ GarbleAll(s) \in Entries
           /\ \A k \in Keys \ NotAscii :
                /\ Given(GarbleAll(s), k) = {Garble(v) : v \in Given(s, k)}
                /\ {i \in DOMAIN GarbleAll(s) : GarbleAll(s)[i].key = k}
                     = {i \in DOMAIN s : s[i].key = k}
<1>1. DOMAIN s = 1..Len(s) /\ Len(s) \in Nat /\ \A i \in DOMAIN s : s[i] \in Shown
  BY DEF Entries
<1>2. DOMAIN GarbleAll(s) = DOMAIN s /\ \A i \in DOMAIN s : GarbleAll(s)[i] = GarbleEntry(s[i])
  BY DEF GarbleAll
<1>3. GarbleAll(s) \in Entries
  <2>1. GarbleAll(s) \in [1..Len(s) -> Shown]
    BY <1>1, GarbleOne DEF GarbleAll
  <2> QED BY <1>1, <2>1 DEF Entries
<1>4. ASSUME NEW k \in Keys \ NotAscii
      PROVE  /\ Given(GarbleAll(s), k) = {Garble(v) : v \in Given(s, k)}
             /\ {i \in DOMAIN GarbleAll(s) : GarbleAll(s)[i].key = k}
                  = {i \in DOMAIN s : s[i].key = k}
  <2>1. \A i \in DOMAIN s : /\ (GarbleAll(s)[i].key = k) = (s[i].key = k)
                            /\ GarbleAll(s)[i].value = Garble(s[i].value)
    BY <1>1, <1>2, GarbleOne
  <2>2. {i \in DOMAIN GarbleAll(s) : GarbleAll(s)[i].key = k} = {i \in DOMAIN s : s[i].key = k}
    BY <1>2, <2>1
  <2>3. Given(GarbleAll(s), k) = {Garble(v) : v \in Given(s, k)}
    BY <2>1, <2>2 DEF Given
  <2> QED BY <2>2, <2>3
<1> QED BY <1>3, <1>4

-----------------------------------------------------------------------------
(* What has been settled by each step, and still holds at the later ones:  *)
(* the additions, the file that was found, the directory, the environment, *)
(* and that a program without a wrapper had the magic of one.              *)
Additions == (IF config.dotenv THEN Dotenv[config.dir] ELSE <<>>) \o config.env
Inherited == IF platform = "windows" THEN GarbleAll(Parent) ELSE Parent
Remaining == Without(IF config.clear THEN <<>> ELSE Inherited, config.remove)

FirstFound ==
    \E i \in DOMAIN Candidates :
        /\ resolved = Candidates[i]
        /\ EndsSearch(resolved) \/ resolved[1] \in changed
        /\ \A j \in 1..(i - 1) : ~EndsSearch(Candidates[j])

Settled ==
    /\ DOMAIN files = Searched \cup (Dirs \X {""})
    /\ (outcome = "none") = (step # "done")
    /\ step = "build" => call = "none"
    /\ call = "spawn_detached" => config.headless
    /\ wrapper => platform = "windows"
    /\ step \in {"find", "directory", "env", "exec"} => adds = Additions
    /\ step \in {"build", "dotenv", "find"} => resolved = <<>>
    /\ step \in {"directory", "env", "exec"} => FirstFound
    /\ step \in {"env", "exec"} => config.dir \in dirs \/ config.dir \in changed
    /\ step = "exec" => env = Block(Remaining, adds)
    /\ step = "exec" /\ platform = "windows" /\ ~wrapper =>
         files[resolved] \in {"exec", "broken"} \/ resolved[1] \in changed

IInv == TypeOK /\ Settled /\ ChildAsAsked /\ ErrorsHaveCauses

-----------------------------------------------------------------------------
(* The search list: a sequence of pairs, of one for a name with a          *)
(* separator.                                                              *)
LEMMA CandidatesFacts ==
    ASSUME platform \in Platforms
    PROVE  /\ Len(Candidates) \in Nat /\ DOMAIN Candidates = 1..Len(Candidates)
           /\ \A i \in DOMAIN Candidates : Candidates[i] \in Searched /\ Candidates[i] # <<>>
           /\ program = "relative" => DOMAIN Candidates = {1} /\ Candidates[1] = <<Home, "">>
<1>1. CASE program = "relative"
  <2>1. Candidates = << <<Home, "">> >>
    BY <1>1 DEF Candidates
  <2>2. Len(Candidates) = 1 /\ DOMAIN Candidates = {1} /\ {1} = 1..1 /\ Candidates[1] = <<Home, "">>
    <3>1. PICK c : c = <<Home, "">>
      OBVIOUS
    <3>2. Len(<<c>>) = 1 /\ DOMAIN <<c>> = {1} /\ {1} = 1..1 /\ <<c>>[1] = c
      OBVIOUS
    <3> QED BY <2>1, <3>1, <3>2
  <2>3. <<Home, "">> # <<>>
    OBVIOUS
  <2>4. Candidates[1] \in Searched
    BY <2>2 DEF Searched
  <2>5. Candidates[1] # <<>>
    BY <2>2, <2>3
  <2>6. \A i \in DOMAIN Candidates : i = 1
    BY <2>2
  <2>7. Len(Candidates) \in Nat
    <3>1. 1 \in Nat
      OBVIOUS
    <3> QED BY <2>2, <3>1
  <2>8. DOMAIN Candidates = 1..Len(Candidates)
    <3>1. DOMAIN Candidates = 1..1 /\ Len(Candidates) = 1
      BY <2>2
    <3> QED BY <3>1, Zenon
  <2> QED BY <2>2, <2>4, <2>5, <2>6, <2>7, <2>8
<1>2. CASE program # "relative"
  <2> DEFINE exts == Extensions[platform]
             n    == Len(exts)
             m    == Len(Path) * n
  <2>1. n \in Nat /\ Len(Path) \in Nat
    BY PathAssumption
  <2>2. m \in Nat
    BY <2>1
  <2>3. Candidates = [i \in 1..m |-> <<Path[((i - 1) \div n) + 1], exts[((i - 1) % n) + 1]>>]
    BY <1>2 DEF Candidates
  <2> HIDE DEF m, n, exts
  <2>4. DOMAIN Candidates = 1..m /\ Len(Candidates) = m
    BY <2>2, <2>3
  <2>5. \A i \in DOMAIN Candidates : Candidates[i] # <<>>
    BY <2>3, <2>4
  <2> QED BY <1>2, <2>2, <2>4, <2>5 DEF Searched
<1> QED BY <1>1, <1>2

(* The search takes the first file, if there is one. *)
LEMMA SearchFacts ==
    ASSUME platform \in Platforms
    PROVE  LET i == SelectInSeq(Candidates, EndsSearch)
           IN  \/ i = 0 /\ \A j \in DOMAIN Candidates : ~EndsSearch(Candidates[j])
               \/ /\ i \in DOMAIN Candidates /\ i # 0 /\ EndsSearch(Candidates[i])
                  /\ \A j \in 1..(i - 1) : ~EndsSearch(Candidates[j])
<1> DEFINE I == {i \in 1..Len(Candidates) : EndsSearch(Candidates[i])}
<1>1. Len(Candidates) \in Nat /\ DOMAIN Candidates = 1..Len(Candidates)
  BY CandidatesFacts
<1>2. SelectInSeq(Candidates, EndsSearch) = IF I # {} THEN Min(I) ELSE 0
  BY DEF SelectInSeq
<1>3. CASE I = {}
  BY <1>1, <1>2, <1>3
<1>4. CASE I # {}
  <2>1. I \in SUBSET Nat
    BY <1>1
  <2>2. Min(I) \in I /\ \A y \in I : Min(I) <= y
    <3> HIDE DEF I
    <3>1. \E x \in I : \A y \in I : x <= y
      BY <1>4, <2>1, OnKeep!SmallestExists
    <3> QED BY <3>1 DEF Min
  <2>3. \A j \in 1..(Min(I) - 1) : j \in 1..Len(Candidates) /\ j \notin I
    BY <1>1, <2>2
  <2>4. \A j \in 1..(Min(I) - 1) : ~EndsSearch(Candidates[j])
    BY <2>3
  <2> QED BY <1>1, <1>2, <1>4, <2>2, <2>4
<1> QED BY <1>3, <1>4

(* A list with one entry exactly of a variable, counted. *)
LEMMA OnceCount ==
    ASSUME NEW k, NEW s \in Entries, Once(s, k)
    PROVE  Cardinality({i \in DOMAIN s : s[i].key = k}) = 1
<1>1. PICK i \in DOMAIN s : \A j \in DOMAIN s : (s[j].key = k) = (j = i)
  BY DEF Once
<1>2. {j \in DOMAIN s : s[j].key = k} = {i}
  BY <1>1
<1> QED BY <1>2, FS_Singleton

(* The entries of the environment that is built are the ones wanted, but   *)
(* for what Windows does to those of the caller.                           *)
WantedOf(inherited, key) ==
    IF Has(config.env, key) THEN {LastOf(config.env, key)}
    ELSE IF config.dotenv /\ Has(Dotenv[config.dir], key) THEN {LastOf(Dotenv[config.dir], key)}
    ELSE IF config.clear \/ key \in config.remove THEN {}
    ELSE Given(inherited, key)

(* The caller's environment as it is read is a list of entries. *)
LEMMA InheritedType == Inherited \in Entries /\ Parent \in Entries
<1>1. Parent \in Entries
  BY EnvAssumption, EntriesShown
<1>2. GarbleAll(Parent) \in Entries
  BY <1>1, GarbleFacts
<1> QED BY <1>1, <1>2 DEF Inherited

(* What is built, from what was inherited. *)
LEMMA EnvRight ==
    ASSUME TypeOK, adds = Additions, env = Block(Remaining, adds), NEW k \in Keys
    PROVE  /\ Given(env, k) = WantedOf(Inherited, k)
           /\ Has(adds, k) => Cardinality({i \in DOMAIN env : env[i].key = k}) = 1
<1> DEFINE D == IF config.dotenv THEN Dotenv[config.dir] ELSE <<>>
           P == IF config.clear THEN <<>> ELSE Inherited
<1>1. D \in Entries /\ config.env \in Entries /\ P \in Entries
  <2>1. config.dir \in Place /\ config.env \in Seq(Entry)
    BY DEF TypeOK, Place
  <2>2. <<>> \in Entries
    BY DEF Entries
  <2>3. Dotenv[config.dir] \in Seq(Entry)
    BY <2>1, EnvAssumption
  <2>4. Dotenv[config.dir] \in Entries /\ config.env \in Entries
    BY <2>1, <2>3, EntriesShown
  <2> QED BY <2>2, <2>4, InheritedType
<1>2. adds = D \o config.env /\ Remaining = Without(P, config.remove)
  BY DEF Additions, Remaining
<1>3. ~Has(<<>>, k) /\ Given(<<>>, k) = {}
  BY GivenNone
<1>4. /\ Has(adds, k) = (Has(D, k) \/ Has(config.env, k))
      /\ Has(config.env, k) => LastOf(adds, k) = LastOf(config.env, k)
      /\ ~Has(config.env, k) /\ Has(D, k) => LastOf(adds, k) = LastOf(D, k)
  <2> HIDE DEF D
  <2> QED BY <1>1, <1>2, LastConcat
<1>5. Remaining \in Entries /\ Given(Remaining, k) = IF k \in config.remove THEN {} ELSE Given(P, k)
  <2> HIDE DEF P
  <2> QED BY <1>1, <1>2, WithoutType, WithoutFacts
<1>6. adds \in Entries
  BY EntriesShown DEF TypeOK
<1>7. /\ Given(env, k) = IF Has(adds, k) THEN {LastOf(adds, k)} ELSE Given(Remaining, k)
      /\ Has(adds, k) => Once(env, k)
  BY <1>5, <1>6, BlockFacts
<1>8. Given(env, k) = WantedOf(Inherited, k)
  <2>1. Given(Remaining, k) = IF config.clear \/ k \in config.remove THEN {} ELSE Given(Inherited, k)
    BY <1>3, <1>5
  <2>2. Has(D, k) = (config.dotenv /\ Has(Dotenv[config.dir], k))
    <3>1. Has(D, k) \in BOOLEAN /\ Has(Dotenv[config.dir], k) \in BOOLEAN /\ config.dotenv \in BOOLEAN
      BY DEF Has, TypeOK
    <3> QED BY <1>3, <3>1
  <2>3. config.dotenv => D = Dotenv[config.dir]
    OBVIOUS
  <2> HIDE DEF D, P
  <2>4. CASE Has(config.env, k)
    BY <1>4, <1>7, <2>4 DEF WantedOf
  <2>5. CASE ~Has(config.env, k) /\ Has(D, k)
    BY <1>4, <1>7, <2>2, <2>3, <2>5 DEF WantedOf
  <2>6. CASE ~Has(config.env, k) /\ ~Has(D, k)
    BY <1>4, <1>7, <2>1, <2>2, <2>6 DEF WantedOf
  <2> QED BY <2>4, <2>5, <2>6
<1>9. env \in Entries
  BY DEF TypeOK, Entries, Shown
<1> QED BY <1>7, <1>8, <1>9, OnceCount

(* What the child sees of it: on Unix what was wanted, on Windows that,    *)
(* garbled.                                                                *)
Arriving == IF platform = "windows" THEN GarbleAll(env) ELSE env

(* The values that arrive are the ones wanted, garbled or not.             *)
LEMMA ShownRight ==
    ASSUME TypeOK, adds = Additions, env = Block(Remaining, adds), NEW k \in Keys, Arrives(k)
    PROVE  /\ Given(Arriving, k) = {IF Arrives(v) THEN v ELSE Garbled : v \in Wanted(k)}
           /\ Has(adds, k) => Cardinality({i \in DOMAIN Arriving : Arriving[i].key = k}) = 1
<1>1. /\ Given(env, k) = WantedOf(Inherited, k)
      /\ Has(adds, k) => Cardinality({i \in DOMAIN env : env[i].key = k}) = 1
  BY EnvRight
<1>2. Wanted(k) = WantedOf(Parent, k)
  BY DEF Wanted, WantedOf
<1>3. CASE platform = "unix"
  <2>1. Arriving = env /\ Inherited = Parent /\ \A v : Arrives(v)
    BY <1>3 DEF Inherited, Arrives, Arriving
  <2>2. {IF Arrives(v) THEN v ELSE Garbled : v \in Wanted(k)} = Wanted(k)
    BY <2>1
  <2> QED BY <1>1, <1>2, <2>1, <2>2
<1>4. CASE platform = "windows"
  <2>1. Arriving = GarbleAll(env) /\ Inherited = GarbleAll(Parent) /\ k \in Keys \ NotAscii
    BY <1>4 DEF Inherited, Arrives, Arriving
  <2>2. \A v : Garble(v) = IF Arrives(v) THEN v ELSE Garbled
    BY <1>4 DEF Garble, Arrives
  <2>3. env \in Entries
    BY DEF TypeOK, Entries, Shown
  <2>4. /\ Given(Arriving, k) = {Garble(v) : v \in Given(env, k)}
        /\ {i \in DOMAIN Arriving : Arriving[i].key = k} = {i \in DOMAIN env : env[i].key = k}
    BY <2>1, <2>3, GarbleFacts
  <2>5. Given(Inherited, k) = {Garble(v) : v \in Given(Parent, k)}
    BY <2>1, InheritedType, GarbleFacts
  <2>6. {Garble(v) : v \in WantedOf(Inherited, k)} = {Garble(v) : v \in WantedOf(Parent, k)}
    <3>1. {Garble(v) : v \in Given(Inherited, k)} = {Garble(v) : v \in Given(Parent, k)}
      BY <2>5, GarbleTwice
    <3> QED BY <3>1 DEF WantedOf
  <2>7. Given(Arriving, k) = {Garble(v) : v \in Wanted(k)}
    BY <1>1, <1>2, <2>4, <2>6
  <2>8. {IF Arrives(v) THEN v ELSE Garbled : v \in Wanted(k)} = {Garble(v) : v \in Wanted(k)}
    BY <2>2
  <2> QED BY <1>1, <2>4, <2>7, <2>8
<1> QED BY <1>3, <1>4 DEF TypeOK, Platforms

-----------------------------------------------------------------------------
(* The parameters of the search do not change, and what has been found     *)
(* stays found while the files do not change either.                       *)
LEMMA SearchStays ==
    ASSUME program' = program, platform' = platform
    PROVE  /\ Candidates' = Candidates /\ Searched' = Searched
           /\ files' = files => \A f : EndsSearch(f)' = EndsSearch(f)
           /\ UNCHANGED <<files, changed, resolved>> => FirstFound' = FirstFound
<1>1. Candidates' = Candidates
  BY DEF Candidates
<1>2. Searched' = Searched
  BY <1>1 DEF Searched
<1>3. files' = files => \A f : EndsSearch(f)' = EndsSearch(f)
  BY DEF EndsSearch
<1>4. UNCHANGED <<files, changed, resolved>> => FirstFound' = FirstFound
  BY <1>1 DEF FirstFound, EndsSearch
<1> QED BY <1>1, <1>2, <1>3, <1>4

(* A step that changes nothing that the end is judged by leaves it right. *)
LEMMA NotEnded ==
    ASSUME outcome' = "none"
    PROVE  ChildAsAsked' /\ ErrorsHaveCauses'
BY DEF ChildAsAsked, ErrorsHaveCauses

(* The initial states. *)
LEMMA InitIInv == Init => IInv
<1> SUFFICES ASSUME Init PROVE IInv
  OBVIOUS
<1>1. TypeOK
  <2>0. <<>> \in Seq(Entry) /\ {} \in SUBSET Keys
    OBVIOUS
  <2>1. config = NoConfig /\ NoConfig \in
          [env : Seq(Entry), remove : SUBSET Keys, clear : BOOLEAN, dotenv : BOOLEAN,
           dir : Dirs \cup {Home}, headless : BOOLEAN]
    BY <2>0 DEF Init, NoConfig
  <2>2. child.program = <<>>
    BY DEF Init, NoChild
  <2>3. <<>> \in Seq([key : Keys \cup {Garbled}, value : Values \cup {Garbled}])
    OBVIOUS
  <2>4. hidden \subseteq Dirs /\ dirs \subseteq Dirs \cup {Home}
    BY DEF Init
  <2> QED BY <2>0, <2>1, <2>2, <2>3, <2>4 DEF Init, TypeOK
<1>2. Settled
  <2>1. DOMAIN files = Searched \cup (Dirs \X {""})
    BY DEF Init
  <2> QED BY <2>1 DEF Init, Settled
<1>3. ChildAsAsked /\ ErrorsHaveCauses
  BY DEF Init, ChildAsAsked, ErrorsHaveCauses
<1> QED BY <1>1, <1>2, <1>3 DEF IInv

(* Build: nothing is settled yet. *)
LEMMA BuildStep == ASSUME IInv, Build PROVE IInv'
<1>1. TypeOK'
  <2>1. config' \in [env : Seq(Entry), remove : SUBSET Keys, clear : BOOLEAN, dotenv : BOOLEAN,
                     dir : Dirs \cup {Home}, headless : BOOLEAN]
    <3>1. config \in [env : Seq(Entry), remove : SUBSET Keys, clear : BOOLEAN, dotenv : BOOLEAN,
                      dir : Dirs \cup {Home}, headless : BOOLEAN]
      BY DEF IInv, TypeOK
    <3>2. CASE config' = config
      BY <3>1, <3>2
    <3>3. CASE \E e \in Entry : config' = [config EXCEPT !.env = Append(@, e)]
      BY <3>1, <3>3, SMTT(60)
    <3>4. CASE \E k \in Keys : config' = [config EXCEPT !.remove = @ \cup {k}]
      BY <3>1, <3>4
    <3>5. CASE config' = [config EXCEPT !.clear = TRUE]
      BY <3>1, <3>5
    <3>6. CASE config' = [config EXCEPT !.dotenv = TRUE]
      BY <3>1, <3>6
    <3>7. CASE \E d \in Dirs : config' = [config EXCEPT !.dir = d]
      BY <3>1, <3>7
    <3>8. CASE \E h \in BOOLEAN : config' = [config EXCEPT !.headless = h]
      BY <3>1, <3>8
    <3> QED BY <3>2, <3>3, <3>4, <3>5, <3>6, <3>7, <3>8 DEF Build
  <2>2. args' \in ArgLists \cup {<<>>}
    BY DEF Build, IInv, TypeOK
  <2> QED BY <2>1, <2>2 DEF Build, IInv, TypeOK, worldVars, fileVars
<1>2. Settled'
  BY SearchStays DEF Build, IInv, Settled, worldVars, fileVars
<1>3. outcome' = "none"
  BY DEF Build, IInv, Settled
<1> QED BY <1>1, <1>2, <1>3, NotEnded DEF IInv

(* Start: spawn_detached() is headless from here on. *)
LEMMA StartStep == ASSUME IInv, Start PROVE IInv'
<1>1. config' \in [env : Seq(Entry), remove : SUBSET Keys, clear : BOOLEAN, dotenv : BOOLEAN,
                   dir : Dirs \cup {Home}, headless : BOOLEAN]
      /\ (call' = "spawn_detached" => config'.headless)
  BY DEF Start, IInv, TypeOK
<1>2. TypeOK'
  BY <1>1 DEF Start, IInv, TypeOK, worldVars, fileVars
<1>3. Settled'
  BY <1>1, SearchStays DEF Start, IInv, Settled, worldVars, fileVars
<1>4. outcome' = "none"
  BY DEF Start, IInv, Settled
<1> QED BY <1>2, <1>3, <1>4, NotEnded DEF IInv

(* ApplyDotenv: the additions are the file's and then the caller's. *)
LEMMA ApplyDotenvStep == ASSUME IInv, ApplyDotenv PROVE IInv'
<1>1. adds' = Additions' /\ adds' \in Seq(Entry)
  <2>1. config.dir \in Place /\ config.env \in Seq(Entry)
    BY DEF IInv, TypeOK, Place
  <2>2. (IF config.dotenv THEN Dotenv[config.dir] ELSE <<>>) \in Seq(Entry)
    BY <2>1, EnvAssumption
  <2> QED BY <2>1, <2>2, TextFacts DEF ApplyDotenv, Additions, configVars
<1>2. TypeOK'
  BY <1>1 DEF ApplyDotenv, IInv, TypeOK, worldVars, fileVars, configVars
<1>3. Settled'
  BY <1>1, SearchStays DEF ApplyDotenv, IInv, Settled, worldVars, fileVars, configVars
<1>4. outcome' = "none"
  BY DEF ApplyDotenv, IInv, Settled
<1> QED BY <1>2, <1>3, <1>4, NotEnded DEF IInv

(* FindExecutable: the first file is found, or there is none, or the       *)
(* system does not tell.                                                   *)
LEMMA FindStep == ASSUME IInv, FindExecutable PROVE IInv'
<1> DEFINE i == SelectInSeq(Candidates, EndsSearch)
<1>0. platform \in Platforms /\ resolved = <<>> /\ outcome = "none" /\ child.program = <<>>
  BY DEF IInv, TypeOK, Settled, FindExecutable
<1>1. \/ i = 0 /\ \A j \in DOMAIN Candidates : ~EndsSearch(Candidates[j])
      \/ /\ i \in DOMAIN Candidates /\ i # 0 /\ EndsSearch(Candidates[i])
         /\ \A j \in 1..(i - 1) : ~EndsSearch(Candidates[j])
  BY <1>0, SearchFacts
<1>2. /\ \/ i = 0 /\ outcome' = "command_not_found" /\ step' = "done" /\ resolved' = resolved
         \/ /\ i # 0 /\ files[Candidates[i]] = "unknown"
            /\ outcome' = "filesystem_error" /\ step' = "done" /\ resolved' = resolved
         \/ /\ i # 0 /\ resolved' = Candidates[i] /\ step' = "directory" /\ outcome' = outcome
      /\ step = "find"
      /\ UNCHANGED <<platform, configVars, call, adds, wrapper, env, child, worldVars>>
  BY DEF FindExecutable, Fails
<1> HIDE DEF i
<1>3. Candidates' = Candidates /\ Searched' = Searched /\ files' = files
      /\ \A f : EndsSearch(f)' = EndsSearch(f)
  BY <1>2, SearchStays DEF configVars, worldVars, fileVars
<1>4. CASE resolved' = resolved /\ step' = "done"
           /\ outcome' \in {"command_not_found", "filesystem_error"}
  <2>1. TypeOK'
    <3>1. (outcome' = "child") = (child'.program # <<>>)
      BY <1>0, <1>2, <1>4
    <3> QED BY <1>0, <1>2, <1>4, <3>1, SMTT(60) DEF IInv, TypeOK, configVars, worldVars, fileVars
  <2>2. Settled'
    BY <1>2, <1>3, <1>4 DEF IInv, Settled, configVars, worldVars, fileVars
  <2>3. ChildAsAsked'
    BY <1>4 DEF ChildAsAsked
  <2>4. ErrorsHaveCauses'
    <3>1. outcome' = "command_not_found" => \A j \in DOMAIN Candidates : files[Candidates[j]] = "none"
      BY <1>1, <1>2, <1>4 DEF EndsSearch
    <3>2. outcome' = "filesystem_error" =>
            \E k \in DOMAIN Candidates :
              /\ files[Candidates[k]] = "unknown"
              /\ \A j \in 1..(k - 1) : files[Candidates[j]] = "none"
      BY <1>0, <1>1, <1>2, <1>4 DEF EndsSearch
    <3>3. resolved' = <<>>
      BY <1>0, <1>4
    <3> QED BY <1>3, <1>4, <3>1, <3>2, <3>3 DEF ErrorsHaveCauses
  <2> QED BY <2>1, <2>2, <2>3, <2>4 DEF IInv
<1>5. CASE i # 0 /\ resolved' = Candidates[i] /\ step' = "directory" /\ outcome' = outcome
  <2>1. resolved' \in Searched
    BY <1>0, <1>1, <1>2, <1>5, CandidatesFacts
  <2>2. TypeOK'
    <3>1. UNCHANGED <<platform, config, args, program, call, adds, wrapper, env, child, outcome,
                      files, dirs, hidden, changed, short>>
      BY <1>2, <1>5 DEF configVars, worldVars, fileVars
    <3>2. resolved' \in DOMAIN files
      BY <2>1 DEF IInv, Settled
    <3> QED BY <1>5, <3>1, <3>2 DEF IInv, TypeOK
  <2>3. FirstFound'
    BY <1>1, <1>2, <1>3, <1>5 DEF FirstFound
  <2>4. Settled'
    BY <1>2, <1>3, <1>5, <2>3 DEF IInv, Settled, configVars, worldVars, fileVars, Additions
  <2>5. outcome' = "none"
    BY <1>0, <1>5
  <2> QED BY <2>2, <2>4, <2>5, NotEnded DEF IInv
<1> QED BY <1>2, <1>4, <1>5

(* CheckDirectory: it exists, or the launch ends. *)
LEMMA CheckDirectoryStep == ASSUME IInv, CheckDirectory PROVE IInv'
<1>1. /\ step = "directory" /\ outcome = "none"
      /\ \/ config.dir \in hidden /\ step' = "done" /\ outcome' = "filesystem_error"
         \/ config.dir \notin dirs /\ step' = "done" /\ outcome' = "invalid_working_directory"
         \/ config.dir \in dirs /\ step' = "env" /\ outcome' = outcome
      /\ UNCHANGED <<platform, configVars, call, adds, resolved, wrapper, env, child, worldVars>>
  BY DEF CheckDirectory, Fails, IInv, Settled
<1>2. FirstFound /\ FirstFound' = FirstFound /\ Searched' = Searched /\ Additions' = Additions
  BY <1>1, SearchStays DEF IInv, Settled, configVars, worldVars, fileVars, Additions
<1>3. TypeOK'
  <2>1. child.program = <<>>
    BY <1>1 DEF IInv, TypeOK
  <2>2. (outcome' = "child") = (child'.program # <<>>)
    BY <1>1, <2>1
  <2>3. step' \in {"env", "done"}
        /\ outcome' \in {"none", "filesystem_error", "invalid_working_directory"}
    BY <1>1
  <2> QED BY <1>1, <2>2, <2>3, SMTT(60) DEF IInv, TypeOK, configVars, worldVars, fileVars
<1>4. Settled'
  BY <1>1, <1>2 DEF IInv, Settled, configVars, worldVars, fileVars
<1>5. CASE step' = "env"
  <2>1. outcome' = "none"
    BY <1>1, <1>5
  <2> QED BY <1>3, <1>4, <2>1, NotEnded DEF IInv
<1>6. CASE step' = "done"
  <2>1. outcome' \in {"filesystem_error", "invalid_working_directory"}
    BY <1>1, <1>6
  <2>2. EndsSearch(resolved) \/ resolved[1] \in changed
    BY <1>2 DEF FirstFound
  <2>3. resolved # <<>>
    BY <1>2, CandidatesFacts DEF FirstFound, IInv, TypeOK
  <2>4. UNCHANGED <<config, resolved, files, dirs, hidden, changed>>
    BY <1>1 DEF configVars, worldVars, fileVars
  <2>5. outcome' = "filesystem_error" => config.dir \in hidden
    BY <1>1, <1>6
  <2>6. outcome' = "invalid_working_directory" => config.dir \notin dirs
    BY <1>1, <1>6
  <2>7. ErrorsHaveCauses'
    BY <2>1, <2>2, <2>3, <2>4, <2>5, <2>6 DEF ErrorsHaveCauses, EndsSearch
  <2>8. ChildAsAsked'
    BY <2>1 DEF ChildAsAsked
  <2> QED BY <1>3, <1>4, <2>7, <2>8 DEF IInv
<1> QED BY <1>1, <1>5, <1>6

(* BuildEnvBlock: the environment, and whether a wrapper is needed. *)
LEMMA BuildEnvBlockStep == ASSUME IInv, BuildEnvBlock PROVE IInv'
<1>1. /\ step = "env" /\ step' = "exec"
      /\ wrapper' = (platform = "windows" /\ files[resolved] \notin {"exec", "broken"})
      /\ env' = Block(Remaining, adds)
      /\ UNCHANGED <<platform, configVars, call, adds, resolved, outcome, child, worldVars>>
  BY DEF BuildEnvBlock, Block, Remaining, Inherited
<1>2. FirstFound /\ FirstFound' = FirstFound /\ Searched' = Searched
      /\ Additions' = Additions /\ Remaining' = Remaining
  BY <1>1, SearchStays DEF IInv, Settled, configVars, worldVars, fileVars, Additions, Remaining,
                              Inherited
<1>3. env' \in Seq(Shown)
  <2>1. (IF config.clear THEN <<>> ELSE Inherited) \in Entries
    <3>1. <<>> \in Entries
      BY DEF Entries
    <3> QED BY <3>1, InheritedType
  <2>2. Remaining \in Entries
    BY <2>1, WithoutType DEF Remaining
  <2>3. adds \in Entries
    BY EntriesShown DEF IInv, TypeOK
  <2> QED BY <1>1, <2>2, <2>3, BlockType DEF Entries
<1>4. TypeOK'
  <2>1. wrapper' \in BOOLEAN
    BY <1>1
  <2> QED BY <1>1, <1>3, <2>1, SMTT(60) DEF Shown, IInv, TypeOK, configVars, worldVars, fileVars
<1>5. (env = Block(Remaining, adds))'
  BY <1>1, <1>2 DEF Block
<1>6. Settled'
  BY <1>1, <1>2, <1>5 DEF IInv, Settled, configVars, worldVars, fileVars
<1>7. outcome' = "none"
  BY <1>1 DEF IInv, Settled
<1> QED BY <1>4, <1>6, <1>7, NotEnded DEF IInv

(* What the last step leaves when there is a child. *)
Launched(file, dir, entries, argv) ==
    /\ child' = [program |-> file, dir |-> dir, env |-> entries, headless |-> config.headless,
                 argv |-> argv]
    /\ outcome' = "child" /\ step' = "done"

(* The launch has ended; nothing else is settled after that. *)
LEMMA EndedStays ==
    ASSUME IInv, step = "exec", step' = "done", ExecFrame, short' \in BOOLEAN,
           outcome' \in {"child", "command_not_found", "permission_denied", "platform_error"},
           outcome' # "child" => child' = child,
           outcome' = "child" => child'.program # <<>>
    PROVE  TypeOK' /\ Settled'
<1>0. UNCHANGED <<platform, config, args, program, call, adds, resolved, wrapper, env, files, dirs,
                  hidden, changed>>
  BY DEF ExecFrame, configVars, fileVars
<1>1. resolved # <<>> /\ Searched' = Searched
  BY <1>0, CandidatesFacts, SearchStays DEF IInv, TypeOK, Settled, FirstFound
<1>2. (outcome = "child") = (child.program # <<>>) /\ outcome = "none"
  BY DEF IInv, TypeOK, Settled
<1>3. (outcome' = "child") = (child'.program # <<>>)
  BY <1>1, <1>2
<1>4. TypeOK'
  BY <1>0, <1>3 DEF IInv, TypeOK
<1>5. Settled'
  BY <1>0, <1>1 DEF IInv, Settled
<1> QED BY <1>4, <1>5

(* What a child gets that does not depend on the program it is. *)
LEMMA EnvAsAskedNext ==
    ASSUME IInv, step = "exec", NEW file, NEW dir, NEW entries, NEW argv,
           Launched(file, dir, entries, argv), ExecFrame,
           entries = Arriving
    PROVE  EnvAsAsked'
<1>1. child'.env = entries /\ adds' = adds /\ config' = config /\ platform' = platform
  BY DEF Launched, ExecFrame, configVars
<1>2. TypeOK /\ adds = Additions /\ env = Block(Remaining, adds)
  BY DEF IInv, Settled
<1>3. ASSUME NEW k \in Keys, Arrives(k)
      PROVE  /\ Given(entries, k) = {IF Arrives(v) THEN v ELSE Garbled : v \in Wanted(k)}
             /\ Has(adds, k) => Cardinality({i \in DOMAIN entries : entries[i].key = k}) = 1
  BY <1>2, <1>3, ShownRight
<1>4. \A k : Wanted(k)' = Wanted(k)
  BY <1>1 DEF Wanted
<1>5. \A v : Arrives(v)' = Arrives(v)
  BY <1>1 DEF Arrives
<1> HIDE DEF Launched
<1>6. ASSUME NEW k \in Keys, Arrives(k)'
      PROVE  /\ Given(child'.env, k) = {IF Arrives(v)' THEN v ELSE Garbled : v \in Wanted(k)'}
             /\ Has(adds', k) =>
                  Cardinality({i \in DOMAIN child'.env : child'.env[i].key = k}) = 1
  <2>1. Arrives(k)
    BY <1>5, <1>6
  <2>2. {IF Arrives(v)' THEN v ELSE Garbled : v \in Wanted(k)'}
          = {IF Arrives(v) THEN v ELSE Garbled : v \in Wanted(k)}
    BY <1>4, <1>5
  <2>3. Given(child'.env, k) = Given(entries, k)
    BY <1>1
  <2>4. {i \in DOMAIN child'.env : child'.env[i].key = k}
          = {i \in DOMAIN entries : entries[i].key = k}
    BY <1>1
  <2>5. Has(adds', k) = Has(adds, k)
    BY <1>1
  <2> QED BY <1>3, <2>1, <2>2, <2>3, <2>4, <2>5
<1> QED BY <1>6 DEF EnvAsAsked

(* Where a relative name is looked for stays where it is. *)
LEMMA HomeStays ==
    ASSUME wrapper \in BOOLEAN, UNCHANGED <<wrapper, config>>
    PROVE  (IF wrapper' THEN config'.dir ELSE Home) = (IF wrapper THEN config.dir ELSE Home)
<1>1. wrapper' = wrapper /\ config'.dir = config.dir
  OBVIOUS
<1>2. CASE wrapper = TRUE
  BY <1>1, <1>2
<1>3. CASE wrapper = FALSE
  BY <1>1, <1>3
<1> QED BY <1>2, <1>3

(* An index that is not among the first i lies after them. *)
LEMMA LaterIndex ==
    ASSUME NEW n \in Nat, NEW i \in 1..n, NEW m \in 1..n, ~(m \in 1..i)
    PROVE  i \in 1..(m - 1)
BY SMT

(* A child that is started with the file that was found - or, when cmd is  *)
(* to look for a relative name, the one in its own directory - is the one  *)
(* asked for.                                                              *)
LEMMA LaunchedAsAsked ==
    ASSUME IInv, step = "exec", NEW file, NEW dir, NEW entries, NEW argv,
           Launched(file, dir, entries, argv), ExecFrame,
           entries = Arriving,
           file = IF program = "relative" THEN <<IF wrapper THEN config.dir ELSE Home, "">>
                                          ELSE resolved,
           dir = config.dir \/ (platform = "unix" /\ config.dir \in changed),
           \/ argv = args
           \/ platform = "windows" /\ (wrapper \/ \E i \in DOMAIN args : AtRisk(args[i]))
    PROVE  ChildAsAsked'
<1>1. EnvAsAsked'
  BY EnvAsAskedNext
<1>2. child'.program = file /\ child'.dir = dir /\ child'.argv = argv
      /\ child'.headless = config.headless
  BY DEF Launched
<1>3. UNCHANGED <<platform, program, config, args, call, wrapper, files, changed>>
  BY DEF ExecFrame, configVars, fileVars
<1>4. ProgramAsAsked'
  <2>1. CASE program = "relative"
    <3>1. file = <<IF wrapper THEN config.dir ELSE Home, "">>
      BY <2>1
    <3>2. (IF wrapper' THEN config'.dir ELSE Home) = (IF wrapper THEN config.dir ELSE Home)
      BY <1>3, HomeStays DEF IInv, TypeOK
    <3>3. child'.program = <<IF wrapper' THEN config'.dir ELSE Home, "">>
      <4>1. child'.program = <<IF wrapper THEN config.dir ELSE Home, "">>
        BY <1>2, <3>1, Zenon
      <4> QED BY <3>2, <4>1, Zenon
    <3>4. program' = "relative"
      BY <1>3, <2>1, Zenon
    <3> QED BY <3>3, <3>4 DEF ProgramAsAsked
  <2>2. CASE program # "relative"
    <3>1. Candidates' = Candidates /\ \A f : EndsSearch(f)' = EndsSearch(f)
      BY <1>3, SearchStays
    <3>2. PICK m \in DOMAIN Candidates :
            resolved = Candidates[m] /\ \A j \in 1..(m - 1) : ~EndsSearch(Candidates[j])
      BY DEF IInv, Settled, FirstFound
    <3>3. Len(Candidates) \in Nat /\ DOMAIN Candidates = 1..Len(Candidates)
      BY CandidatesFacts DEF IInv, TypeOK
    <3>4. ASSUME NEW i \in DOMAIN Candidates, \A j \in 1..i : Candidates[j] # resolved
          PROVE  ~EndsSearch(Candidates[i])
      <4>1. PICK n \in Nat : DOMAIN Candidates = 1..n
        BY <3>3
      <4>2. i \in 1..n /\ m \in 1..n
        BY <4>1
      <4>3. ~(m \in 1..i)
        BY <3>2, <3>4
      <4>4. i \in 1..(m - 1)
        BY <4>1, <4>2, <4>3, LaterIndex
      <4> QED BY <3>2, <4>4, ZenonT(60)
    <3>5. child'.program = resolved /\ program' # "relative"
      BY <1>2, <1>3, <2>2
    <3>6. \A i \in DOMAIN Candidates' :
            (\A j \in 1..i : Candidates'[j] # child'.program) => ~(EndsSearch(Candidates[i])')
      BY <3>1, <3>4, <3>5
    <3> QED BY <3>1, <3>5, <3>6 DEF ProgramAsAsked, EndsSearch
  <2> QED BY <2>1, <2>2
<1>5. DirectoryAsAsked'
  BY <1>2, <1>3 DEF DirectoryAsAsked
<1>6. RestAsAsked'
  <2>1. call = "spawn_detached" => config.headless
    BY DEF IInv, Settled
  <2>2. call' = "spawn_detached" => child'.headless
    BY <1>2, <1>3, <2>1
  <2>3. argv = args => child'.argv = args'
    BY <1>2, <1>3
  <2>4. platform = "windows" /\ (wrapper \/ \E i \in DOMAIN args : AtRisk(args[i])) =>
          platform' = "windows" /\ (wrapper' \/ \E i \in DOMAIN args' : AtRisk(args'[i]))
    BY <1>3
  <2>5. \/ child'.argv = args'
        \/ platform' = "windows" /\ (wrapper' \/ \E i \in DOMAIN args' : AtRisk(args'[i]))
    BY <2>3, <2>4, Zenon
  <2> QED BY <2>2, <2>5, Zenon DEF RestAsAsked
<1> QED BY <1>1, <1>4, <1>5, <1>6 DEF ChildAsAsked

(* The file that was found, for a name with a separator. *)
LEMMA RelativeFound ==
    ASSUME IInv, step = "exec"
    PROVE  resolved # <<>> /\ (program = "relative" => resolved = <<Home, "">>)
<1>1. PICK i \in DOMAIN Candidates : resolved = Candidates[i]
  BY DEF IInv, Settled, FirstFound
<1>2. platform \in Platforms
  BY DEF IInv, TypeOK
<1>3. Candidates[i] # <<>>
  BY <1>2, CandidatesFacts
<1>4. program = "relative" => i = 1 /\ Candidates[1] = <<Home, "">>
  BY <1>2, CandidatesFacts
<1> QED BY <1>1, <1>3, <1>4

(* ExecUnix: the program runs in the directory asked for, or where the     *)
(* caller is when that has gone, or errno says why it does not.            *)
LEMMA ExecUnixStep == ASSUME IInv, ExecUnix PROVE IInv'
<1> DEFINE dir == IF config.dir \in dirs THEN config.dir ELSE Home
<1>1. /\ step = "exec" /\ platform = "unix" /\ ExecFrame /\ short' \in BOOLEAN /\ step' = "done"
      /\ \/ /\ files[resolved] \in {"none", "script"} /\ outcome' = "command_not_found"
            /\ child' = child
         \/ /\ files[resolved] = "plain" /\ outcome' = "permission_denied" /\ child' = child
         \/ /\ files[resolved] = "broken" \/ short'
            /\ outcome' = "platform_error" /\ child' = child
         \/ Launched(resolved, dir, env, args)
  BY DEF ExecUnix, Refused, Fails, Runs, Launched
<1>2. FirstFound /\ resolved # <<>> /\ platform' = platform
      /\ UNCHANGED <<resolved, files, changed, config>>
  BY <1>1, RelativeFound DEF IInv, Settled, ExecFrame, configVars, fileVars
<1>3. CASE outcome' \in {"command_not_found", "permission_denied", "platform_error"} /\ child' = child
  <2>1. TypeOK' /\ Settled'
    BY <1>1, <1>3, EndedStays
  <2>2. ChildAsAsked'
    BY <1>3 DEF ChildAsAsked
  <2>3. files[resolved] = "none" => resolved[1] \in changed
    BY <1>2 DEF FirstFound, EndsSearch
  <2>4. /\ outcome' = "command_not_found" => files[resolved] \in {"none", "script"}
        /\ outcome' = "permission_denied" => files[resolved] = "plain"
        /\ outcome' = "platform_error" => files[resolved] = "broken" \/ short'
    BY <1>1, <1>3 DEF Launched
  <2>5. ErrorsHaveCauses'
    BY <1>1, <1>2, <1>3, <2>3, <2>4 DEF ErrorsHaveCauses
  <2> QED BY <2>1, <2>2, <2>5 DEF IInv
<1>4. CASE Launched(resolved, dir, env, args)
  <2>1. TypeOK' /\ Settled'
    BY <1>1, <1>2, <1>4, EndedStays DEF Launched
  <2>2. ErrorsHaveCauses'
    BY <1>4 DEF Launched, ErrorsHaveCauses
  <2>3. dir = config.dir \/ (platform = "unix" /\ config.dir \in changed)
    BY <1>1 DEF IInv, Settled
  <2> HIDE DEF dir
  <2>4. ~wrapper
    BY <1>1 DEF IInv, Settled
  <2>5. resolved = IF program = "relative" THEN <<IF wrapper THEN config.dir ELSE Home, "">>
                                           ELSE resolved
    BY <1>1, <2>4, RelativeFound
  <2>6. env = Arriving
    BY <1>1 DEF Arriving
  <2>7. ChildAsAsked'
    BY <1>1, <1>4, <2>3, <2>5, <2>6, LaunchedAsAsked
  <2> QED BY <2>1, <2>2, <2>7 DEF IInv
<1> QED BY <1>1, <1>3, <1>4

(* ExecWindows: CreateProcess() runs the program or cmd, or fails because  *)
(* the program cannot run, there is no room, or somebody has changed       *)
(* something.                                                              *)
LEMMA ExecWindowsStep == ASSUME IInv, ExecWindows PROVE IInv'
<1> DEFINE byCmd   == IF program = "relative" THEN <<config.dir, "">> ELSE resolved
           argv    == Tail(ParseCommandLine(BuildCommandLine(<<"x">>, args)))
           entries == GarbleAll(env)
           fails   == short' \/ config.dir \notin dirs \/ (~wrapper /\ files[resolved] # "exec")
<1>1. /\ step = "exec" /\ platform = "windows" /\ ExecFrame /\ short' \in BOOLEAN
      /\ step' = "done"
      /\ \/ fails /\ outcome' = "platform_error" /\ child' = child
         \/ wrapper /\ \E some \in {<<>>, args} : Launched(byCmd, config.dir, entries, some)
         \/ ~wrapper /\ Launched(resolved, config.dir, entries, argv)
  BY DEF ExecWindows, Fails, Runs, Launched
<1>2. byCmd # <<>> /\ resolved # <<>>
  <2>1. resolved # <<>>
    BY <1>1, RelativeFound
  <2>2. <<config.dir, "">> # <<>>
    OBVIOUS
  <2> QED BY <2>1, <2>2
<1>3. entries = Arriving
  BY <1>1 DEF Arriving
<1> HIDE DEF byCmd, argv, entries
<1>4. CASE outcome' = "platform_error" /\ child' = child /\ fails
  <2>1. TypeOK' /\ Settled'
    BY <1>1, <1>4, EndedStays
  <2>2. ChildAsAsked'
    BY <1>4 DEF ChildAsAsked
  <2>3. short' \/ files[resolved] = "broken" \/ {config.dir, resolved[1]} \cap changed # {}
    BY <1>1, <1>4 DEF IInv, Settled
  <2>4. UNCHANGED <<platform, resolved, files, changed, config>>
    BY <1>1 DEF ExecFrame, configVars, fileVars
  <2>5. ErrorsHaveCauses'
    BY <1>1, <1>4, <2>3, <2>4 DEF ErrorsHaveCauses
  <2> QED BY <2>1, <2>2, <2>5 DEF IInv
<1>5. ASSUME wrapper, NEW some, Launched(byCmd, config.dir, entries, some) PROVE IInv'
  <2>1. ChildAsAsked'
    <3>1. byCmd = IF program = "relative" THEN <<IF wrapper THEN config.dir ELSE Home, "">>
                                          ELSE resolved
      BY <1>5 DEF byCmd
    <3> QED BY <1>1, <1>3, <1>5, <3>1, LaunchedAsAsked
  <2>2. TypeOK' /\ Settled'
    BY <1>1, <1>2, <1>5, EndedStays DEF Launched
  <2>3. ErrorsHaveCauses'
    BY <1>5 DEF Launched, ErrorsHaveCauses
  <2> QED BY <2>1, <2>2, <2>3 DEF IInv
<1>6. CASE ~wrapper /\ Launched(resolved, config.dir, entries, argv)
  <2>1. argv = args \/ \E i \in DOMAIN args : AtRisk(args[i])
    <3>1. args \in Seq(Seq(Char))
      <4>1. args \in ArgLists \cup {<<>>}
        BY DEF IInv, TypeOK
      <4>2. <<>> \in Seq(Seq(Char))
        OBVIOUS
      <4> QED BY <4>1, <4>2, ArgAssumption
    <3> QED BY <3>1, RoundTrip DEF argv
  <2> HIDE DEF argv
  <2>2. ChildAsAsked'
    <3>1. resolved = IF program = "relative" THEN <<IF wrapper THEN config.dir ELSE Home, "">>
                                             ELSE resolved
      BY <1>1, <1>6, RelativeFound
    <3> QED BY <1>1, <1>3, <1>6, <2>1, <3>1, LaunchedAsAsked
  <2>3. TypeOK' /\ Settled'
    BY <1>1, <1>2, <1>6, EndedStays DEF Launched
  <2>4. ErrorsHaveCauses'
    BY <1>6 DEF Launched, ErrorsHaveCauses
  <2> QED BY <2>2, <2>3, <2>4 DEF IInv
<1> QED BY <1>1, <1>4, <1>5, <1>6

(* Others: no file appears, and what disappears or changes is known.       *)
LEMMA OthersStep == ASSUME IInv, Others PROVE IInv'
<1>1. /\ step \in {"find", "directory", "env", "exec"}
      /\ UNCHANGED <<platform, configVars, step, call, adds, resolved, wrapper, env, outcome, child,
                     hidden, short>>
      /\ changed \subseteq changed'
  BY DEF Others
<1>2. Candidates' = Candidates /\ Searched' = Searched /\ Additions' = Additions
      /\ Remaining' = Remaining
  BY <1>1, SearchStays DEF configVars, Additions, Remaining, Inherited
<1>3. DOMAIN files' = DOMAIN files /\ dirs' \subseteq dirs
  BY DEF Others
<1>4. \A f \in DOMAIN files :
        /\ EndsSearch(f)' => EndsSearch(f)
        /\ files'[f] = files[f] \/ f[1] \in changed'
  BY DEF Others, EndsSearch
<1>5. \A d \in dirs : d \in dirs' \/ d \in changed'
  BY DEF Others
<1>6. TypeOK'
  BY <1>1, <1>3 DEF IInv, TypeOK, configVars
<1>7. FirstFound => FirstFound'
  <2> SUFFICES ASSUME FirstFound PROVE FirstFound'
    OBVIOUS
  <2>1. PICK i \in DOMAIN Candidates :
          /\ resolved = Candidates[i]
          /\ EndsSearch(resolved) \/ resolved[1] \in changed
          /\ \A j \in 1..(i - 1) : ~EndsSearch(Candidates[j])
    BY DEF FirstFound
  <2>2. /\ Len(Candidates) \in Nat /\ DOMAIN Candidates = 1..Len(Candidates)
        /\ \A j \in DOMAIN Candidates : Candidates[j] \in DOMAIN files
    BY CandidatesFacts DEF IInv, TypeOK, Settled
  <2>3. EndsSearch(resolved)' \/ resolved'[1] \in changed'
    BY <1>1, <1>4, <2>1, <2>2 DEF EndsSearch
  <2>4. \A j \in 1..(i - 1) : ~EndsSearch(Candidates[j])'
    <3> TAKE j \in 1..(i - 1)
    <3>1. j \in DOMAIN Candidates
      BY <2>2
    <3>2. ~EndsSearch(Candidates[j]) /\ Candidates[j] \in DOMAIN files
      BY <2>1, <2>2, <3>1
    <3> QED BY <1>2, <1>4, <3>2 DEF EndsSearch
  <2> QED BY <1>1, <1>2, <2>1, <2>3, <2>4 DEF FirstFound
<1>8. step = "exec" /\ platform = "windows" /\ ~wrapper =>
        files'[resolved] \in {"exec", "broken"} \/ resolved[1] \in changed'
  <2> SUFFICES ASSUME step = "exec", platform = "windows", ~wrapper
               PROVE  files'[resolved] \in {"exec", "broken"} \/ resolved[1] \in changed'
    OBVIOUS
  <2>1. resolved \in DOMAIN files
    BY CandidatesFacts DEF IInv, TypeOK, Settled, FirstFound
  <2> QED BY <1>1, <1>4, <2>1 DEF IInv, Settled
<1>9. step = "exec" => (env = Block(Remaining, adds))'
  BY <1>1, <1>2 DEF IInv, Settled, Block
<1>10. step \in {"env", "exec"} => (config.dir \in dirs \/ config.dir \in changed)'
  BY <1>1, <1>5 DEF IInv, Settled, configVars
<1>11. Settled'
  BY <1>1, <1>2, <1>3, <1>7, <1>8, <1>9, <1>10 DEF IInv, Settled, configVars
<1>12. outcome' = "none"
  BY <1>1 DEF IInv, Settled
<1> QED BY <1>6, <1>11, <1>12, NotEnded DEF IInv

-----------------------------------------------------------------------------
(* A step that changes nothing. *)
LEMMA StutterStep == ASSUME IInv, UNCHANGED vars PROVE IInv'
<1>1. UNCHANGED <<platform, config, args, program, step, call, adds, resolved, wrapper, env,
                  outcome, child, files, dirs, hidden, changed, short>>
  BY DEF vars, configVars, worldVars, fileVars
<1>2. TypeOK'
  BY <1>1 DEF IInv, TypeOK
<1>3. Candidates' = Candidates /\ Searched' = Searched /\ FirstFound' = FirstFound
  BY <1>1, SearchStays
<1>4. Settled'
  BY <1>1, <1>3 DEF IInv, Settled, Additions, Remaining, Inherited, Block
<1>5. ChildAsAsked'
  BY <1>1, <1>3, ZenonT(60)
     DEF IInv, ChildAsAsked, EnvAsAsked, ProgramAsAsked, DirectoryAsAsked, RestAsAsked, Arrives,
         Wanted, EndsSearch
<1>6. ErrorsHaveCauses'
  BY <1>1, <1>3 DEF IInv, ErrorsHaveCauses, EndsSearch
<1> QED BY <1>2, <1>4, <1>5, <1>6 DEF IInv

(* Every step preserves the invariant. *)
LEMMA IInvStep == IInv /\ [Next]_vars => IInv'
<1> SUFFICES ASSUME IInv, [Next]_vars PROVE IInv'
  OBVIOUS
<1>1. CASE Build BY <1>1, BuildStep
<1>2. CASE Start BY <1>2, StartStep
<1>3. CASE ApplyDotenv BY <1>3, ApplyDotenvStep
<1>4. CASE FindExecutable BY <1>4, FindStep
<1>5. CASE CheckDirectory BY <1>5, CheckDirectoryStep
<1>6. CASE BuildEnvBlock BY <1>6, BuildEnvBlockStep
<1>7. CASE ExecUnix BY <1>7, ExecUnixStep
<1>8. CASE ExecWindows BY <1>8, ExecWindowsStep
<1>9. CASE Others BY <1>9, OthersStep
<1>10. CASE UNCHANGED vars BY <1>10, StutterStep
<1> QED BY <1>1, <1>2, <1>3, <1>4, <1>5, <1>6, <1>7, <1>8, <1>9, <1>10 DEF Next

(* The invariant holds throughout. *)
LEMMA IInvAlways == Spec => []IInv
BY InitIInv, IInvStep, PTL DEF Spec

(* The variables keep to their types, whatever the constants; a child is   *)
(* reported when, and only when, one was started.                          *)
THEOREM TypeCorrect == Spec => []TypeOK
<1>1. IInv => TypeOK
  BY DEF IInv
<1> QED BY <1>1, IInvAlways, PTL

(* The child that runs is the one that the configuration describes: its    *)
(* environment, its program, its directory and its arguments, for every    *)
(* number of builder calls in every order and of changes by others.        *)
THEOREM ChildIsAsAsked == Spec => []ChildAsAsked
<1>1. IInv => ChildAsAsked
  BY DEF IInv
<1> QED BY <1>1, IInvAlways, PTL

(* Every error of a launch has its cause in the files, the directories or  *)
(* what others have changed.                                               *)
THEOREM ErrorsAreCaused == Spec => []ErrorsHaveCauses
<1>1. IInv => ErrorsHaveCauses
  BY DEF IInv
<1> QED BY <1>1, IInvAlways, PTL
=============================================================================
