----------------------------- MODULE DataLemmas -----------------------------
(***************************************************************************)
(* Facts about the data of the models, for the proofs about more than one  *)
(* of them: induction over the naturals, with a set in the place of a      *)
(* predicate; sums over finite sets, as the models take them from the      *)
(* community modules (SumFunctionOnSet); and the pieces of bodies with the *)
(* chains they form (Pieces).                                              *)
(***************************************************************************)
EXTENDS Pieces, FiniteSets, Functions, FiniteSetTheorems, SequenceTheorems,
        WellFoundedInduction, TLAPS

\* Induction over the naturals, of a set that holds zero and every successor.
LEMMA SetInduction ==
  ASSUME NEW S, 0 \in S, \A n \in Nat : n \in S => n + 1 \in S
  PROVE  Nat \subseteq S
  <1> DEFINE R == OpToRel(<, Nat)
             T == Nat \ S
  <1>1. SUFFICES ASSUME T # {} PROVE FALSE
    OBVIOUS
  <1>2. IsWellFoundedOn(R, Nat)
    BY NatLessThanWellFounded DEF OpToRel
  <1>3. T \subseteq Nat
    OBVIOUS
  <1> HIDE DEF R, T
  <1>4. PICK n \in T : \A m \in T : ~(<<m, n>> \in R)
    BY <1>1, <1>2, <1>3, WFMin
  <1>5. n \in Nat /\ n # 0
    BY <1>4 DEF T
  <1>6. n - 1 \notin T
    <2>1. <<n - 1, n>> \in R
      BY <1>5 DEF R, OpToRel
    <2> QED BY <2>1, <1>4
  <1> QED BY <1>4, <1>5, <1>6 DEF T

\* Every set of numbers with a member has a least one.
LEMMA LeastOf ==
  ASSUME NEW S \in SUBSET Nat, S # {}
  PROVE  \E x \in S : \A y \in S : x <= y
  <1> DEFINE R == OpToRel(<, Nat)
  <1>1. IsWellFoundedOn(R, Nat)
    BY NatLessThanWellFounded DEF OpToRel
  <1>2. \A x, y \in Nat : x < y => <<x, y>> \in R
    BY DEF OpToRel
  <1> HIDE DEF R
  <1>3. PICK x \in S : \A y \in S : ~(<<y, x>> \in R)
    BY <1>1, WFMin
  <1>4. ASSUME NEW y \in S PROVE x <= y
    <2>1. x \in Nat /\ y \in Nat
      OBVIOUS
    <2>2. ~(y < x)
      BY <1>2, <1>3, <2>1
    <2> QED BY <2>1, <2>2
  <1> QED BY <1>4

-----------------------------------------------------------------------------
\* What SumFunctionOnSet computes, its recursion named.
Pick(s) == CHOOSE x \in s : TRUE
SumBody(f, g, s) == IF s = {} THEN 0 ELSE f[Pick(s)] + g[s \ {Pick(s)}]

\* The values it is taken of, and a solution of the recursion over the subsets of S.
NatOn(f, S) == \A x \in S : f[x] \in Nat
IsSum(g, f, S) == g = [s \in SUBSET S |-> SumBody(f, g, s)]
Solves(g, f, S) == \A s \in SUBSET S : g[s] = SumBody(f, g, s)

LEMMA SumIsRec ==
  ASSUME NEW f, NEW S
  PROVE  SumFunctionOnSet(f, S) = (CHOOSE g : IsSum(g, f, S))[S]
  BY Zenon DEF SumFunctionOnSet, FoldFunctionOnSet, MapThenFoldSet, IsSum, SumBody, Pick

LEMMA PickIn == ASSUME NEW s, s # {} PROVE Pick(s) \in s
  BY DEF Pick

\* The size of a set without one of its elements.
LEMMA SizeWithout ==
  ASSUME NEW S, IsFiniteSet(S), NEW T \in SUBSET S
  PROVE  /\ IsFiniteSet(T) /\ Cardinality(T) \in Nat /\ Cardinality(T) <= Cardinality(S)
         /\ \A x \in T : Cardinality(T \ {x}) = Cardinality(T) - 1
         /\ Cardinality(T) = 0 => T = {}
  <1>1. IsFiniteSet(T) /\ Cardinality(T) <= Cardinality(S)
    BY FS_Subset
  <1>2. Cardinality(T) \in Nat
    BY <1>1, FS_CardinalityType
  <1>3. ASSUME NEW x \in T PROVE Cardinality(T \ {x}) = Cardinality(T) - 1
    BY <1>1, FS_RemoveElement
  <1> QED BY <1>1, <1>2, <1>3, FS_EmptySet

\* The recursion has a solution.
LEMMA SumRecExists ==
  ASSUME NEW S, IsFiniteSet(S), NEW f, NatOn(f, S)
  PROVE  \E g \in [SUBSET S -> Nat] : IsSum(g, f, S)
  <1> USE DEF NatOn
  <1> DEFINE Good(n, g) == \A s \in SUBSET S : Cardinality(s) <= n => g[s] = SumBody(f, g, s)
             N == {n \in Nat : \E g \in [SUBSET S -> Nat] : Good(n, g)}
  <1>1. 0 \in N
    <2> DEFINE g == [s \in SUBSET S |-> 0]
    <2>1. ASSUME NEW s \in SUBSET S, Cardinality(s) <= 0 PROVE g[s] = SumBody(f, g, s)
      <3>1. s = {}
        BY <2>1, SizeWithout
      <3> QED BY <3>1 DEF SumBody
    <2>2. g \in [SUBSET S -> Nat]
      OBVIOUS
    <2> QED BY <2>1, <2>2
  <1>2. ASSUME NEW n \in Nat, n \in N PROVE n + 1 \in N
    <2>1. PICK g \in [SUBSET S -> Nat] : Good(n, g)
      BY <1>2
    <2> DEFINE h == [s \in SUBSET S |-> IF Cardinality(s) <= n THEN g[s] ELSE SumBody(f, g, s)]
    <2>2. ASSUME NEW s \in SUBSET S PROVE SumBody(f, g, s) \in Nat
      <3>1. CASE s = {}
        BY <3>1 DEF SumBody
      <3>2. CASE s # {}
        <4>1. Pick(s) \in S /\ s \ {Pick(s)} \in SUBSET S
          BY <3>2, PickIn
        <4>2. f[Pick(s)] \in Nat /\ g[s \ {Pick(s)}] \in Nat
          BY <4>1, <2>1
        <4> QED BY <3>2, <4>2 DEF SumBody
      <3> QED BY <3>1, <3>2
    <2>3. h \in [SUBSET S -> Nat]
      BY <2>1, <2>2
    <2>4. ASSUME NEW s \in SUBSET S, Cardinality(s) <= n + 1 PROVE h[s] = SumBody(f, h, s)
      <3>1. SumBody(f, h, s) = SumBody(f, g, s)
        <4>1. CASE s = {}
          BY <4>1 DEF SumBody
        <4>2. CASE s # {}
          <5>1. Pick(s) \in s /\ s \ {Pick(s)} \in SUBSET S
            BY <4>2, PickIn
          <5>2. Cardinality(s \ {Pick(s)}) <= n
            BY <5>1, <2>4, SizeWithout
          <5>3. h[s \ {Pick(s)}] = g[s \ {Pick(s)}]
            BY <5>1, <5>2
          <5> HIDE DEF h
          <5> QED BY <4>2, <5>3 DEF SumBody
        <4> QED BY <4>1, <4>2
      <3>2. h[s] = SumBody(f, g, s)
        BY <2>1
      <3> QED BY <3>1, <3>2
    <2>5. Good(n + 1, h)
      BY <2>4
    <2> HIDE DEF h, Good
    <2> QED BY <2>3, <2>5
  <1> HIDE DEF N
  <1>3. Cardinality(S) \in N
    BY <1>1, <1>2, SetInduction, FS_CardinalityType
  <1>4. PICK g \in [SUBSET S -> Nat] : Good(Cardinality(S), g)
    BY <1>3 DEF N
  <1>5. \A s \in SUBSET S : g[s] = SumBody(f, g, s)
    BY <1>4, SizeWithout
  <1>6. g = [s \in SUBSET S |-> SumBody(f, g, s)]
    BY <1>5
  <1> QED BY <1>6 DEF IsSum

\* Any element may be taken first.
AnyFirst(g, f, S) == \A T \in SUBSET S : \A x \in T : g[T] = f[x] + g[T \ {x}]

LEMMA SumAnyFirst ==
  ASSUME NEW S, IsFiniteSet(S), NEW f, NatOn(f, S),
         NEW g \in [SUBSET S -> Nat], Solves(g, f, S)
  PROVE  AnyFirst(g, f, S)
  <1> USE DEF NatOn, Solves, AnyFirst
  <1> DEFINE N == {n \in Nat : \A T \in SUBSET S :
                     Cardinality(T) <= n => \A x \in T : g[T] = f[x] + g[T \ {x}]}
  <1>0. ASSUME NEW T \in SUBSET S, T # {}
        PROVE  g[T] = f[Pick(T)] + g[T \ {Pick(T)}]
    BY <1>0 DEF SumBody
  <1>1. 0 \in N
    <2>1. ASSUME NEW T \in SUBSET S, Cardinality(T) <= 0 PROVE T = {}
      BY <2>1, SizeWithout
    <2> QED BY <2>1
  <1>2. ASSUME NEW n \in Nat, n \in N PROVE n + 1 \in N
    <2> SUFFICES ASSUME NEW T \in SUBSET S, Cardinality(T) <= n + 1, NEW x \in T
                 PROVE  g[T] = f[x] + g[T \ {x}]
      OBVIOUS
    <2> DEFINE c == Pick(T)
    <2>1. c \in T
      BY PickIn
    <2> HIDE DEF c
    <2>2. g[T] = f[c] + g[T \ {c}]
      BY <1>0 DEF c
    <2>3. CASE x = c
      BY <2>2, <2>3
    <2>4. CASE x # c
      <3>1. Cardinality(T \ {c}) <= n /\ Cardinality(T \ {x}) <= n
        BY <2>1, SizeWithout
      <3>2. g[T \ {c}] = f[x] + g[(T \ {c}) \ {x}]
        BY <3>1, <2>4, <1>2
      <3>3. g[T \ {x}] = f[c] + g[(T \ {x}) \ {c}]
        BY <3>1, <2>4, <2>1, <1>2
      <3>4. (T \ {x}) \ {c} = (T \ {c}) \ {x}
        OBVIOUS
      <3>5. g[T \ {x}] = f[c] + g[(T \ {c}) \ {x}]
        BY <3>3, <3>4
      <3>6. f[c] \in Nat /\ f[x] \in Nat
        BY <2>1
      <3>7. g[(T \ {c}) \ {x}] \in Nat
        OBVIOUS
      <3> HIDE DEF N
      <3> QED BY <2>2, <3>2, <3>5, <3>6, <3>7
    <2> QED BY <2>3, <2>4
  <1> HIDE DEF N
  <1>3. \A T \in SUBSET S : Cardinality(T) \in N
    BY <1>1, <1>2, SetInduction, SizeWithout
  <1> QED
    <2> SUFFICES ASSUME NEW T \in SUBSET S PROVE \A x \in T : g[T] = f[x] + g[T \ {x}]
      OBVIOUS
    <2>1. Cardinality(T) \in N /\ Cardinality(T) <= Cardinality(T)
      BY <1>3, SizeWithout
    <2> QED BY <2>1 DEF N

\* Solutions over two sets agree on the subsets of both.
LEMMA SumRecUnique ==
  ASSUME NEW S, IsFiniteSet(S), NEW U \in SUBSET S, NEW f, NEW g, NEW h,
         Solves(g, f, S), Solves(h, f, U)
  PROVE  \A T \in SUBSET U : h[T] = g[T]
  <1> USE DEF Solves
  <1> DEFINE N == {n \in Nat : \A T \in SUBSET U : Cardinality(T) <= n => h[T] = g[T]}
  <1>1. 0 \in N
    <2>1. ASSUME NEW T \in SUBSET U, Cardinality(T) <= 0 PROVE h[T] = g[T]
      <3>1. T = {} /\ T \in SUBSET S
        BY <2>1, SizeWithout
      <3>2. h[T] = 0 /\ g[T] = 0
        BY <3>1 DEF SumBody
      <3> QED BY <3>2
    <2> QED BY <2>1
  <1>2. ASSUME NEW n \in Nat, n \in N PROVE n + 1 \in N
    <2> SUFFICES ASSUME NEW T \in SUBSET U, Cardinality(T) <= n + 1 PROVE h[T] = g[T]
      OBVIOUS
    <2>1. h[T] = SumBody(f, h, T) /\ g[T] = SumBody(f, g, T)
      OBVIOUS
    <2>2. CASE T = {}
      BY <2>1, <2>2 DEF SumBody
    <2>3. CASE T # {}
      <3>1. Pick(T) \in T
        BY <2>3, PickIn
      <3>2. Cardinality(T \ {Pick(T)}) <= n
        BY <3>1, SizeWithout
      <3>3. h[T \ {Pick(T)}] = g[T \ {Pick(T)}]
        BY <3>2, <1>2
      <3> QED BY <2>1, <2>3, <3>3 DEF SumBody
    <2> QED BY <2>2, <2>3
  <1> HIDE DEF N
  <1>3. \A T \in SUBSET U : Cardinality(T) \in N
    BY <1>1, <1>2, SetInduction, SizeWithout
  <1> QED
    <2> SUFFICES ASSUME NEW T \in SUBSET U PROVE h[T] = g[T]
      OBVIOUS
    <2>1. Cardinality(T) \in N /\ Cardinality(T) <= Cardinality(T)
      BY <1>3, SizeWithout
    <2> QED BY <2>1 DEF N

-----------------------------------------------------------------------------
\* The sum over a subset, as a function of it.
Sums(g, f, S) ==
    /\ g[{}] = 0
    /\ \A T \in SUBSET S : SumFunctionOnSet(f, T) = g[T]
    /\ AnyFirst(g, f, S)

LEMMA SumIsFunction ==
  ASSUME NEW S, IsFiniteSet(S), NEW f, NatOn(f, S)
  PROVE  \E g \in [SUBSET S -> Nat] : Sums(g, f, S)
  <1>1. PICK g \in [SUBSET S -> Nat] : IsSum(g, f, S)
    BY SumRecExists
  <1>2. Solves(g, f, S)
    BY <1>1 DEF IsSum, Solves
  <1>3. g[{}] = 0
    BY <1>2 DEF SumBody, Solves
  <1>4. ASSUME NEW T \in SUBSET S PROVE SumFunctionOnSet(f, T) = g[T]
    <2> DEFINE chosen == CHOOSE h : IsSum(h, f, T)
    <2>1. IsFiniteSet(T) /\ NatOn(f, T)
      BY FS_Subset DEF NatOn
    <2>2. \E h \in [SUBSET T -> Nat] : IsSum(h, f, T)
      BY <2>1, SumRecExists
    <2>3. IsSum(chosen, f, T)
      BY <2>2, Zenon
    <2>4. Solves(chosen, f, T)
      BY <2>3 DEF IsSum, Solves
    <2>5. SumFunctionOnSet(f, T) = chosen[T]
      BY SumIsRec
    <2> HIDE DEF chosen
    <2>6. \A s \in SUBSET T : chosen[s] = g[s]
      BY <1>2, <2>4, SumRecUnique
    <2> QED BY <2>5, <2>6
  <1>5. AnyFirst(g, f, S)
    BY <1>1, <1>2, SumAnyFirst
  <1> QED BY <1>1, <1>3, <1>4, <1>5 DEF Sums

\* The sum over nothing is zero, and any element of a set contributes its value.
THEOREM SumEmpty == ASSUME NEW f PROVE SumFunctionOnSet(f, {}) = 0
  <1>1. IsFiniteSet({}) /\ NatOn(f, {})
    BY FS_EmptySet DEF NatOn
  <1>2. PICK g \in [SUBSET {} -> Nat] : Sums(g, f, {})
    BY <1>1, SumIsFunction
  <1> QED BY <1>2 DEF Sums

THEOREM SumNat ==
  ASSUME NEW S, IsFiniteSet(S), NEW f, NatOn(f, S)
  PROVE  SumFunctionOnSet(f, S) \in Nat
  <1>1. PICK g \in [SUBSET S -> Nat] : Sums(g, f, S)
    BY SumIsFunction
  <1> QED BY <1>1 DEF Sums

THEOREM SumRemove ==
  ASSUME NEW S, IsFiniteSet(S), NEW f, NatOn(f, S), NEW x \in S
  PROVE  SumFunctionOnSet(f, S) = f[x] + SumFunctionOnSet(f, S \ {x})
  <1>1. PICK g \in [SUBSET S -> Nat] : Sums(g, f, S)
    BY SumIsFunction
  <1> QED BY <1>1 DEF Sums, AnyFirst

\* It depends on the values there only.
THEOREM SumSame ==
  ASSUME NEW S, IsFiniteSet(S), NEW f, NEW h, NatOn(f, S), \A x \in S : h[x] = f[x]
  PROVE  SumFunctionOnSet(h, S) = SumFunctionOnSet(f, S)
  <1> DEFINE N == {n \in Nat : \A T \in SUBSET S : Cardinality(T) <= n =>
                      SumFunctionOnSet(h, T) = SumFunctionOnSet(f, T)}
  <1>1. 0 \in N
    <2>1. ASSUME NEW T \in SUBSET S, Cardinality(T) <= 0
          PROVE  SumFunctionOnSet(h, T) = SumFunctionOnSet(f, T)
      <3>1. T = {}
        BY <2>1, SizeWithout
      <3> QED BY <3>1, SumEmpty
    <2> QED BY <2>1
  <1>2. ASSUME NEW n \in Nat, n \in N PROVE n + 1 \in N
    <2> SUFFICES ASSUME NEW T \in SUBSET S, Cardinality(T) <= n + 1
                 PROVE  SumFunctionOnSet(h, T) = SumFunctionOnSet(f, T)
      OBVIOUS
    <2>1. CASE T = {}
      BY <2>1, SumEmpty
    <2>2. ASSUME NEW x \in T PROVE SumFunctionOnSet(h, T) = SumFunctionOnSet(f, T)
      <3>1. IsFiniteSet(T) /\ Cardinality(T \ {x}) <= n
        BY SizeWithout
      <3>2. SumFunctionOnSet(h, T \ {x}) = SumFunctionOnSet(f, T \ {x})
        BY <3>1, <1>2
      <3>3. SumFunctionOnSet(h, T) = h[x] + SumFunctionOnSet(h, T \ {x})
        BY <3>1, SumRemove DEF NatOn
      <3>4. SumFunctionOnSet(f, T) = f[x] + SumFunctionOnSet(f, T \ {x})
        BY <3>1, SumRemove DEF NatOn
      <3> QED BY <3>2, <3>3, <3>4
    <2> QED BY <2>1, <2>2
  <1> HIDE DEF N
  <1>3. Cardinality(S) \in N /\ Cardinality(S) <= Cardinality(S)
    BY <1>1, <1>2, SetInduction, SizeWithout
  <1> QED BY <1>3 DEF N

-----------------------------------------------------------------------------
(* Pieces and chains of them.                                              *)

\* The bounds of a piece, and its size.
LEMMA PieceFacts ==
  ASSUME NEW p \in Piece
  PROVE  /\ p.from \in Nat /\ p.upto \in Nat /\ p.from <= p.upto
         /\ Size(p) \in Nat /\ p.upto = p.from + Size(p)
  BY DEF Piece, Size

\* A chain of no piece covers nothing.
LEMMA ChainEmpty == \A a, b : Chain(<<>>, a, b) <=> a = b
  BY DEF Chain

\* A chain does not go back.
LEMMA ChainOrdered ==
  ASSUME NEW s \in Seq(Piece), NEW a \in Nat, NEW b \in Nat, Chain(s, a, b)
  PROVE  a <= b
<1>1. CASE s = <<>>
  BY <1>1 DEF Chain
<1>2. CASE s # <<>>
  <2>1. 1 \in 1 .. Len(s) /\ s[1] \in Piece
    BY <1>2
  <2> QED
    BY <1>2, <2>1 DEF Chain, Piece
<1> QED
  BY <1>1, <1>2

\* A piece that starts where a chain ends prolongs it.
LEMMA ChainAppend ==
  ASSUME NEW s \in Seq(Piece), NEW p \in Piece, NEW a \in Nat, NEW b \in Nat,
         Chain(s, a, b), p.from = b
  PROVE  Chain(Append(s, p), a, p.upto)
<1> DEFINE t == Append(s, p)
<1>1. /\ Len(t) = Len(s) + 1 /\ t # <<>> /\ t[Len(s) + 1] = p
      /\ \A i \in 1 .. Len(s) : t[i] = s[i]
      /\ Len(s) \in Nat
  OBVIOUS
<1>2. p.from \in Nat /\ p.upto \in Nat /\ b <= p.upto
  BY DEF Piece
<1>3. \A i \in 1 .. Len(s) : s[i].upto \in Nat /\ s[i].upto <= b
  BY DEF Chain, Piece
<1>4. \A i \in 1 .. Len(t) : t[i].upto <= p.upto
  BY <1>1, <1>2, <1>3
<1>5. CASE s = <<>>
  BY <1>1, <1>2, <1>4, <1>5 DEF Chain
<1>6. CASE s # <<>>
  <2>1. t[1].from = a /\ s[Len(s)].upto = b
    BY <1>1, <1>6 DEF Chain
  <2>2. ASSUME NEW i \in 1 .. Len(t) - 1
        PROVE  t[i].upto = t[i + 1].from
    <3>1. CASE i = Len(s)
      BY <1>1, <1>6, <2>1, <3>1
    <3>2. CASE i \in 1 .. Len(s) - 1
      BY <1>1, <1>6, <3>2 DEF Chain
    <3> QED
      BY <1>1, <3>1, <3>2
  <2> QED
    BY <1>1, <1>4, <2>1, <2>2 DEF Chain
<1> QED
  BY <1>5, <1>6

\* Chains that meet make one.
LEMMA ChainConcat ==
  ASSUME NEW s \in Seq(Piece), NEW t \in Seq(Piece),
         NEW a \in Nat, NEW b \in Nat, NEW c \in Nat,
         Chain(s, a, b), Chain(t, b, c)
  PROVE  Chain(s \o t, a, c)
<1> DEFINE u == s \o t
<1>1. /\ Len(u) = Len(s) + Len(t) /\ Len(s) \in Nat /\ Len(t) \in Nat
      /\ \A i \in 1 .. Len(s) : u[i] = s[i]
      /\ \A i \in 1 .. Len(t) : u[Len(s) + i] = t[i]
      /\ u \in Seq(Piece)
  OBVIOUS
<1>2. CASE s = <<>>
  <2>1. u = t /\ a = b
    BY <1>2 DEF Chain
  <2> QED
    BY <2>1
<1>3. CASE t = <<>>
  <2>1. u = s /\ b = c
    BY <1>3 DEF Chain
  <2> QED
    BY <2>1
<1>4. CASE s # <<>> /\ t # <<>>
  <2>1. b <= c
    BY ChainOrdered
  <2>2. u # <<>> /\ u[1].from = a /\ u[Len(u)].upto = c
    BY <1>1, <1>4 DEF Chain
  <2>3. ASSUME NEW i \in 1 .. Len(u)
        PROVE  u[i].upto <= c
    <3>1. CASE i \in 1 .. Len(s)
      <4>1. s[i] \in Piece
        BY <3>1
      <4>2. s[i].upto \in Nat
        BY <4>1 DEF Piece
      <4>3. s[i].upto <= b
        BY <1>4, <3>1 DEF Chain
      <4>4. u[i].upto = s[i].upto
        BY <1>1, <3>1
      <4> QED
        BY <2>1, <4>2, <4>3, <4>4
    <3>2. CASE i > Len(s)
      <4>1. i - Len(s) \in 1 .. Len(t) /\ u[i] = t[i - Len(s)]
        BY <1>1, <3>2
      <4> QED
        BY <1>4, <4>1 DEF Chain
    <3> QED
      BY <1>1, <3>1, <3>2
  <2>4. ASSUME NEW i \in 1 .. Len(u) - 1
        PROVE  u[i].upto = u[i + 1].from
    <3>1. CASE i < Len(s)
      BY <1>1, <1>4, <3>1 DEF Chain
    <3>2. CASE i = Len(s)
      BY <1>1, <1>4, <3>2 DEF Chain
    <3>3. CASE i > Len(s)
      <4>1. /\ i - Len(s) \in 1 .. Len(t) - 1
            /\ u[i] = t[i - Len(s)] /\ u[i + 1] = t[i - Len(s) + 1]
        BY <1>1, <3>3
      <4> QED
        BY <1>4, <4>1 DEF Chain
    <3> QED
      BY <1>1, <3>1, <3>2, <3>3
  <2> QED
    BY <2>2, <2>3, <2>4 DEF Chain
<1> QED
  BY <1>2, <1>3, <1>4

\* Taking the first piece off a chain leaves a chain that starts where it ends.
LEMMA ChainTail ==
  ASSUME NEW s \in Seq(Piece), s # <<>>, NEW a \in Nat, NEW b \in Nat,
         Chain(s, a, b)
  PROVE  /\ s[1] \in Piece /\ s[1].from = a /\ s[1].upto <= b
         /\ Tail(s) \in Seq(Piece)
         /\ Chain(Tail(s), s[1].upto, b)
<1>0. PICK t : t = Tail(s)
  OBVIOUS
<1>1. /\ Len(t) = Len(s) - 1 /\ Len(s) \in Nat /\ Len(s) >= 1
      /\ \A i \in 1 .. Len(t) : t[i] = s[i + 1]
      /\ t \in Seq(Piece) /\ s[1] \in Piece
  BY <1>0
<1>2. s[1].from = a /\ s[1].upto <= b
  BY <1>1 DEF Chain
<1>3. CASE Len(s) = 1
  <2>1. t = <<>>
    BY <1>1, <1>3
  <2>2. s[1].upto = b
    BY <1>3 DEF Chain
  <2>3. Chain(t, b, b)
    BY <2>1 DEF Chain
  <2>4. Chain(t, s[1].upto, b)
    BY <2>2, <2>3
  <2> QED
    BY <1>0, <1>1, <1>2, <2>4
<1>4. CASE Len(s) > 1
  <2>1. t # <<>> /\ t[1].from = s[1].upto /\ t[Len(t)].upto = b
    BY <1>1, <1>4 DEF Chain
  <2>2. \A i \in 1 .. Len(t) : t[i].upto <= b
    BY <1>1, <1>4 DEF Chain
  <2>3. \A i \in 1 .. Len(t) - 1 : t[i].upto = t[i + 1].from
    <3>1. SUFFICES ASSUME NEW i \in 1 .. Len(t) - 1
                   PROVE  t[i].upto = t[i + 1].from
      OBVIOUS
    <3>2. /\ i + 1 \in 1 .. Len(s) - 1
          /\ i \in 1 .. Len(t) /\ i + 1 \in 1 .. Len(t)
      BY <1>1, <1>4
    <3>3. t[i] = s[i + 1] /\ t[i + 1] = s[(i + 1) + 1]
      BY <1>1, <3>2
    <3>4. s[i + 1].upto = s[(i + 1) + 1].from
      BY <3>2 DEF Chain
    <3> QED
      BY <3>3, <3>4
  <2> QED
    BY <1>0, <1>1, <1>2, <2>1, <2>2, <2>3 DEF Chain
<1> QED
  BY <1>1, <1>3, <1>4

\* The ends of a chain are those of its first and its last piece.
LEMMA ChainEnds ==
  ASSUME NEW s \in Seq(Piece), s # <<>>, NEW a, NEW b, Chain(s, a, b)
  PROVE  s[1] \in Piece /\ s[1].from = a /\ Len(s) \in 1 .. Len(s)
         /\ s[Len(s)].upto = b /\ Upto(s) = b
<1>1. Len(s) \in Nat \ {0}
  BY EmptySeq
<1>2. s[1] \in Piece
  BY <1>1
<1> QED
  BY <1>1, <1>2 DEF Chain, Upto

\* One piece is a chain over itself.
LEMMA ChainOne == \A p \in Piece : Chain(<<p>>, p.from, p.upto)
  BY DEF Chain, Piece

\* A sequence of at most one piece is empty or that piece.
LEMMA Single ==
  ASSUME NEW s \in Seq(Piece), s # <<>>, Len(s) <= 1
  PROVE  s[1] \in Piece /\ s = <<s[1]>>
<1>1. Len(s) = 1 /\ s[1] \in Piece
  <2>1. Len(s) \in Nat \ {0}
    BY EmptySeq
  <2>2. Len(s) = 1
    BY <2>1
  <2> QED
    BY <2>2
<1>2. PICK t \in Seq(Piece) : t = <<s[1]>> /\ Len(t) = 1 /\ t[1] = s[1]
  BY <1>1
<1>3. \A i \in 1 .. Len(s) : s[i] = t[i]
  BY <1>1, <1>2
<1>4. s = t
  BY <1>1, <1>2, <1>3, SeqEqual
<1> QED
  BY <1>1, <1>2, <1>4
=============================================================================
