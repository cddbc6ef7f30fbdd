----------------------------- MODULE FoldFacts ------------------------------
(***************************************************************************)
(* Facts about folding a sequence with an operator, which may look at a    *)
(* parameter besides the result so far and the next element, for sequences *)
(* of every length.  A module that wants them for an operator of its own   *)
(* takes an instance of this one.                                          *)
(*                                                                         *)
(* Induction is stated for sets instead of predicates: what holds of an    *)
(* element is that it belongs to the set.                                  *)
(***************************************************************************)
EXTENDS Integers, SequencesExt, WellFoundedInduction, TLAPS

CONSTANT op(_, _, _)

Fold(p, base, seq) == FoldLeft(LAMBDA acc, e : op(p, acc, e), base, seq)

-----------------------------------------------------------------------------
(* No sequence of naturals goes down for ever. *)
LEMMA NatLess == IsWellFoundedOn({ss \in Nat \X Nat : ss[1] < ss[2]}, Nat)
BY NatLessThanWellFounded DEF OpToRel

(* Induction over the naturals. *)
THEOREM NatSetInduction ==
    ASSUME NEW T, 0 \in T, \A n \in Nat : n \in T => n + 1 \in T
    PROVE  Nat \subseteq T
<1> SUFFICES ASSUME NEW m \in Nat, m \notin T PROVE FALSE
  OBVIOUS
<1> DEFINE R == {ss \in Nat \X Nat : ss[1] < ss[2]}
           U == Nat \ T
<1>1. PICK x \in U : \A y \in U : ~(<<y, x>> \in R)
  <2>1. U \subseteq Nat /\ U # {}
    OBVIOUS
  <2>2. IsWellFoundedOn(R, Nat)
    BY NatLess
  <2> HIDE DEF R, U
  <2> QED BY <2>1, <2>2, WFMin
<1>2. x \in Nat /\ x # 0
  OBVIOUS
<1>3. x - 1 \in Nat /\ x - 1 < x /\ (x - 1) + 1 = x
  BY <1>2
<1>4. x - 1 \in T
  BY <1>1, <1>2, <1>3
<1> QED
  BY <1>2, <1>3, <1>4

(* Induction over sequences, which grow at the end. *)
THEOREM SeqSetInduction ==
    ASSUME NEW S, NEW T, <<>> \in T, \A s \in Seq(S), e \in S : s \in T => Append(s, e) \in T
    PROVE  Seq(S) \subseteq T
<1> DEFINE L == {n \in Nat : \A s \in Seq(S) : Len(s) = n => s \in T}
<1>1. 0 \in L
  <2> SUFFICES ASSUME NEW s \in Seq(S), Len(s) = 0 PROVE s \in T
    OBVIOUS
  <2>1. s = <<>>
    OBVIOUS
  <2> QED BY <2>1
<1>2. ASSUME NEW n \in Nat, n \in L PROVE n + 1 \in L
  <2> SUFFICES ASSUME NEW s \in Seq(S), Len(s) = n + 1 PROVE s \in T
    OBVIOUS
  <2> DEFINE t == [i \in 1..n |-> s[i]]
  <2>1. t \in Seq(S) /\ Len(t) = n /\ s[n + 1] \in S
    OBVIOUS
  <2>2. s = Append(t, s[n + 1])
    OBVIOUS
  <2>3. t \in T
    BY <1>2, <2>1
  <2> HIDE DEF t
  <2> QED BY <2>1, <2>2, <2>3
<1>3. Nat \subseteq L
  <2> HIDE DEF L
  <2> QED BY <1>1, <1>2, NatSetInduction
<1> QED BY <1>3

(* A set of naturals that is not empty has a smallest element. *)
THEOREM SmallestExists ==
    ASSUME NEW S \in SUBSET Nat, S # {}
    PROVE  \E x \in S : \A y \in S : x <= y
<1> DEFINE R == {ss \in Nat \X Nat : ss[1] < ss[2]}
<1>1. PICK x \in S : \A y \in S : ~(<<y, x>> \in R)
  <2>1. IsWellFoundedOn(R, Nat)
    BY NatLess
  <2> HIDE DEF R
  <2> QED BY <2>1, WFMin
<1>2. ASSUME NEW y \in S PROVE x <= y
  <2>1. x \in Nat /\ y \in Nat /\ (y < x => <<y, x>> \in R)
    OBVIOUS
  <2> HIDE DEF R
  <2> QED BY <1>1, <2>1
<1> HIDE DEF R
<1> QED BY <1>2

(* A set of numbers up to n that has n + 1 added has it as the largest. *)
LEMMA MaxOfMore ==
    ASSUME NEW n \in Nat, NEW s \in SUBSET (1..(n + 1)), n + 1 \in s
    PROVE  Max(s) = n + 1
<1> DEFINE P(x) == x \in s /\ \A y \in s : x >= y
<1>1. P(n + 1)
  OBVIOUS
<1>2. \A x : P(x) => x = n + 1
  OBVIOUS
<1>3. Max(s) = CHOOSE x : P(x)
  BY DEF Max
<1> HIDE DEF P
<1>4. P(CHOOSE x : P(x))
  BY <1>1
<1> QED BY <1>2, <1>3, <1>4

(* A set of numbers from 1 to n that is not empty has a largest element. *)
THEOREM LargestExists ==
    ASSUME NEW n \in Nat, NEW S \in SUBSET (1..n), S # {}
    PROVE  \E x \in S : \A y \in S : x >= y
<1> DEFINE L == {k \in Nat : \A t \in SUBSET (1..k) :
                               t # {} => \E x \in t : \A y \in t : x >= y}
<1>1. 0 \in L
  <2>1. 1..0 = {}
    OBVIOUS
  <2> QED BY <2>1
<1>2. ASSUME NEW k \in Nat, k \in L PROVE k + 1 \in L
  <2> SUFFICES ASSUME NEW t \in SUBSET (1..(k + 1)), t # {}
               PROVE  \E x \in t : \A y \in t : x >= y
    OBVIOUS
  <2>1. CASE k + 1 \in t
    BY <2>1
  <2>2. CASE k + 1 \notin t
    <3>1. t \in SUBSET (1..k)
      BY <2>2
    <3> QED BY <1>2, <3>1
  <2> QED BY <2>1, <2>2
<1>3. Nat \subseteq L
  <2> HIDE DEF L
  <2> QED BY <1>1, <1>2, NatSetInduction
<1> QED BY <1>3

-----------------------------------------------------------------------------
(* FoldLeft is a function on the sets of positions that satisfies this.    *)
Iter(p, S, base, seq, iter) ==
    iter = [s \in SUBSET S |-> IF s = {} THEN base ELSE op(p, iter[s \ {Max(s)}], seq[Max(s)])]

(* That is how FoldLeft is defined. *)
LEMMA FoldIs ==
    ASSUME NEW p, NEW base, NEW seq
    PROVE  Fold(p, base, seq)
             = (CHOOSE iter : Iter(p, DOMAIN seq, base, seq, iter))[DOMAIN seq]
BY DEF Fold, FoldLeft, MapThenFoldSet, Iter

(* Such a function exists. *)
LEMMA IterExists ==
    ASSUME NEW p, NEW base, NEW seq, NEW n \in Nat
    PROVE  \E iter : Iter(p, 1..n, base, seq, iter)
<1> DEFINE L == {k \in Nat : \E iter : Iter(p, 1..k, base, seq, iter)}
<1>1. 0 \in L
  <2>1. Iter(p, 1..0, base, seq, [s \in SUBSET (1..0) |-> base])
    BY DEF Iter
  <2> QED BY <2>1
<1>2. ASSUME NEW k \in Nat, k \in L PROVE k + 1 \in L
  <2>1. PICK f : Iter(p, 1..k, base, seq, f)
    BY <1>2
  <2> DEFINE S1 == 1..(k + 1)
             g == [s \in SUBSET S1 |->
                     IF k + 1 \in s THEN op(p, f[s \ {k + 1}], seq[k + 1]) ELSE f[s]]
  <2>2. ASSUME NEW s \in SUBSET S1
        PROVE  g[s] = IF s = {} THEN base ELSE op(p, g[s \ {Max(s)}], seq[Max(s)])
    <3>1. CASE k + 1 \in s
      <4>1. Max(s) = k + 1
        BY <3>1, MaxOfMore
      <4>2. s \ {k + 1} \in SUBSET S1 /\ k + 1 \notin s \ {k + 1}
        OBVIOUS
      <4>3. g[s \ {k + 1}] = f[s \ {k + 1}]
        BY <4>2
      <4>4. g[s] = op(p, f[s \ {k + 1}], seq[k + 1])
        BY <3>1
      <4> HIDE DEF g
      <4> QED BY <3>1, <4>1, <4>3, <4>4
    <3>2. CASE k + 1 \notin s
      <4>1. s \in SUBSET (1..k)
        BY <3>2
      <4>2. f[s] = IF s = {} THEN base ELSE op(p, f[s \ {Max(s)}], seq[Max(s)])
        BY <2>1, <4>1 DEF Iter
      <4>3. s \ {Max(s)} \in SUBSET S1 /\ k + 1 \notin s \ {Max(s)}
        BY <3>2
      <4>4. g[s] = f[s] /\ g[s \ {Max(s)}] = f[s \ {Max(s)}]
        BY <3>2, <4>3
      <4> HIDE DEF g
      <4> QED BY <4>2, <4>4
    <3> QED BY <3>1, <3>2
  <2>3. g = [s \in SUBSET S1 |-> IF s = {} THEN base ELSE op(p, g[s \ {Max(s)}], seq[Max(s)])]
    BY <2>2
  <2>4. Iter(p, S1, base, seq, g)
    <3> HIDE DEF g
    <3> QED BY <2>3 DEF Iter
  <2> QED BY <2>4
<1>3. Nat \subseteq L
  <2> HIDE DEF L
  <2> QED BY <1>1, <1>2, NatSetInduction
<1> QED BY <1>3

(* The results f of the fold after each number of elements. *)
Steps(p, base, s, f) ==
    /\ f[0] = base
    /\ \A k \in 0..(Len(s) - 1) : f[k + 1] = op(p, f[k], s[k + 1])

(* The fold goes through them, from the base to the last. *)
LEMMA FoldSteps ==
    ASSUME NEW p, NEW base, NEW X, NEW s \in Seq(X)
    PROVE  \E f : Steps(p, base, s, f) /\ Fold(p, base, s) = f[Len(s)]
<1> DEFINE it == CHOOSE iter : Iter(p, 1..Len(s), base, s, iter)
           f == [k \in 0..Len(s) |-> it[1..k]]
<1>0. DOMAIN s = 1..Len(s) /\ Len(s) \in Nat
  OBVIOUS
<1>1. Iter(p, 1..Len(s), base, s, it)
  BY <1>0, IterExists
<1>2. Fold(p, base, s) = it[1..Len(s)]
  BY <1>0, FoldIs
<1> HIDE DEF it
<1>3. it[1..0] = base
  <2>1. 1..0 = {} /\ {} \in SUBSET (1..Len(s))
    OBVIOUS
  <2> QED BY <1>1, <2>1 DEF Iter
<1>4. ASSUME NEW k \in 0..(Len(s) - 1)
      PROVE  it[1..(k + 1)] = op(p, it[1..k], s[k + 1])
  <2>1. 1..(k + 1) \in SUBSET (1..Len(s)) /\ 1..(k + 1) # {}
    <3>1. k + 1 \in 1..(k + 1)
      BY <1>0
    <3>2. \A j \in 1..(k + 1) : j \in 1..Len(s)
      BY <1>0
    <3> QED BY <3>1, <3>2
  <2>2. Max(1..(k + 1)) = k + 1
    <3>1. k \in Nat /\ 1..(k + 1) \in SUBSET (1..(k + 1)) /\ k + 1 \in 1..(k + 1)
      BY <1>0
    <3> QED BY <3>1, MaxOfMore
  <2>3. (1..(k + 1)) \ {k + 1} = 1..k
    BY <1>0
  <2> QED BY <1>1, <2>1, <2>2, <2>3 DEF Iter
<1>5. f[0] = base /\ f[Len(s)] = it[1..Len(s)]
  BY <1>0, <1>3
<1>6. \A k \in 0..(Len(s) - 1) : f[k + 1] = op(p, f[k], s[k + 1])
  <2> TAKE k \in 0..(Len(s) - 1)
  <2>1. f[k + 1] = it[1..(k + 1)] /\ f[k] = it[1..k]
    BY <1>0
  <2> QED BY <2>1, <1>4
<1> HIDE DEF f
<1> QED BY <1>2, <1>5, <1>6 DEF Steps

-----------------------------------------------------------------------------
(* Folding nothing leaves the base. *)
THEOREM FoldEmpty ==
    ASSUME NEW p, NEW base
    PROVE  Fold(p, base, <<>>) = base
<1>1. <<>> \in Seq({}) /\ Len(<<>>) = 0
  OBVIOUS
<1>2. PICK f : Steps(p, base, <<>>, f) /\ Fold(p, base, <<>>) = f[Len(<<>>)]
  BY <1>1, FoldSteps
<1> QED BY <1>1, <1>2 DEF Steps

(* One more element is one more application of the operator. *)
THEOREM FoldAppend ==
    ASSUME NEW p, NEW base, NEW X, NEW s \in Seq(X), NEW e \in X
    PROVE  Fold(p, base, Append(s, e)) = op(p, Fold(p, base, s), e)
<1>1. PICK f : Steps(p, base, s, f) /\ Fold(p, base, s) = f[Len(s)]
  BY FoldSteps
<1> DEFINE t == Append(s, e)
<1>2. /\ t \in Seq(X) /\ Len(t) = Len(s) + 1 /\ Len(s) \in Nat /\ t[Len(s) + 1] = e
      /\ \A k \in 1..Len(s) : t[k] = s[k]
  OBVIOUS
<1>3. PICK g : Steps(p, base, t, g) /\ Fold(p, base, t) = g[Len(t)]
  BY <1>2, FoldSteps
<1> HIDE DEF t
<1> DEFINE L == {k \in Nat : k <= Len(s) => g[k] = f[k]}
<1>4. 0 \in L
  BY <1>1, <1>3 DEF Steps
<1>5. ASSUME NEW k \in Nat, k \in L PROVE k + 1 \in L
  <2> SUFFICES ASSUME k + 1 <= Len(s) PROVE g[k + 1] = f[k + 1]
    OBVIOUS
  <2>1. k \in 0..(Len(s) - 1) /\ k \in 0..(Len(t) - 1) /\ k + 1 \in 1..Len(s)
    BY <1>2
  <2>2. g[k] = f[k]
    BY <1>5, <1>2
  <2> QED BY <2>1, <2>2, <1>1, <1>2, <1>3 DEF Steps
<1>6. Nat \subseteq L
  <2> HIDE DEF L
  <2> QED BY <1>4, <1>5, NatSetInduction
<1>7. g[Len(s)] = f[Len(s)]
  BY <1>2, <1>6
<1>8. Len(s) \in 0..(Len(t) - 1) /\ Len(t) = Len(s) + 1
  BY <1>2
<1>9. g[Len(s) + 1] = op(p, g[Len(s)], e)
  BY <1>2, <1>3, <1>8 DEF Steps
<1> QED BY <1>1, <1>3, <1>7, <1>8, <1>9 DEF t

(* Folding two sequences in a row is folding what they are together. *)
THEOREM FoldConcat ==
    ASSUME NEW p, NEW base, NEW X, NEW s \in Seq(X), NEW t \in Seq(X)
    PROVE  Fold(p, base, s \o t) = Fold(p, Fold(p, base, s), t)
<1>0. PICK mid : mid = Fold(p, base, s)
  OBVIOUS
<1> DEFINE T == {u \in Seq(X) : Fold(p, base, s \o u) = Fold(p, mid, u)}
<1>1. <<>> \in T
  <2>1. s \o <<>> = s /\ <<>> \in Seq(X)
    OBVIOUS
  <2> QED BY <1>0, <2>1, FoldEmpty
<1>2. ASSUME NEW u \in Seq(X), NEW e \in X, u \in T PROVE Append(u, e) \in T
  <2>1. /\ s \o Append(u, e) = Append(s \o u, e)
        /\ s \o u \in Seq(X) /\ Append(u, e) \in Seq(X)
    OBVIOUS
  <2>2. PICK v \in Seq(X) : v = s \o u
    BY <2>1
  <2>3. Fold(p, base, Append(v, e)) = op(p, Fold(p, base, v), e)
    BY FoldAppend
  <2>4. Fold(p, mid, Append(u, e)) = op(p, Fold(p, mid, u), e)
    BY FoldAppend
  <2> QED BY <1>2, <2>1, <2>2, <2>3, <2>4
<1>3. Seq(X) \subseteq T
  <2> HIDE DEF T
  <2> QED BY <1>1, <1>2, SeqSetInduction
<1> QED BY <1>0, <1>3
=============================================================================
