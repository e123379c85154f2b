-------------------------- MODULE NatServerProofs --------------------------
(***************************************************************************)
(* Proofs about the queue, the workers, the proxy health and the proxies   *)
(* NatServer offers, for every set of proxies, every configuration and     *)
(* every bound.                                                            *)
(***************************************************************************)
EXTENDS NatServer, FiniteSetTheorems, TLAPS

-----------------------------------------------------------------------------
(* Induction over the numbers, as a fact about sets. *)

\* A set of numbers with 0 that holds the next number of each has them all.
LEMMA Induction ==
    ASSUME NEW I, 0 \in I, \A n \in Nat : n \in I => n + 1 \in I
    PROVE  Nat \subseteq I
<1> DEFINE R == OpToRel(<, Nat)
<1> DEFINE T == Nat \ I
<1>1. IsWellFoundedOn(R, Nat)
  BY NatLessThanWellFounded, Zenon
<1>2. \A x, y \in Nat : x < y => <<x, y>> \in R
  BY DEF OpToRel
<1>3. T \subseteq Nat
  OBVIOUS
<1> HIDE DEF R
<1>4. ASSUME T # {} PROVE FALSE
  <2> HIDE DEF T
  <2>1. PICK x \in T : \A y \in T : ~ (<<y, x>> \in R)
    BY <1>1, <1>3, <1>4, WFMin
  <2>2. x \in Nat /\ x \notin I /\ x # 0
    BY <2>1 DEF T
  <2>3. x - 1 \in Nat /\ x - 1 < x /\ (x - 1) + 1 = x
    BY <2>2
  <2>4. x - 1 \notin T
    BY <1>2, <2>1, <2>2, <2>3
  <2>5. x - 1 \in I
    BY <2>3, <2>4 DEF T
  <2> QED BY <2>2, <2>3, <2>5
<1> QED BY <1>4

-----------------------------------------------------------------------------
(* Bags: what the workers hold *)

Copies(x, b) == IF BagIn(x, b) THEN b[x] ELSE 0

\* A worker takes x.
LEMMA BagAdd ==
    ASSUME NEW b, IsABag(b), NEW x, NEW c, c = b (+) SetToBag({x})
    PROVE  /\ IsABag(c)
           /\ BagToSet(c) = BagToSet(b) \cup {x}
           /\ Copies(x, c) = Copies(x, b) + 1
  <1>1. DOMAIN c = DOMAIN b \cup {x}
    BY DEF (+), SetToBag
  <1>2. ASSUME NEW y \in DOMAIN b, y # x PROVE c[y] = b[y] /\ c[y] \in Nat /\ c[y] > 0
    BY <1>2 DEF (+), SetToBag, IsABag
  <1>3. c[x] = Copies(x, b) + 1 /\ Copies(x, b) \in Nat
    BY DEF (+), SetToBag, IsABag, Copies, BagIn, BagToSet
  <1>4. IsABag(c)
    <2>1. \A y \in DOMAIN c : c[y] \in Nat /\ c[y] > 0
      BY <1>1, <1>2, <1>3
    <2>2. c = [y \in DOMAIN c |-> c[y]]
      BY DEF (+)
    <2> QED
      BY <2>1, <2>2 DEF IsABag
  <1> QED
    BY <1>1, <1>2, <1>3, <1>4 DEF Copies, BagIn, BagToSet

\* A worker is done with x.
LEMMA BagRemove ==
    ASSUME NEW b, IsABag(b), NEW x, BagIn(x, b), NEW c, c = b (-) SetToBag({x})
    PROVE  /\ IsABag(c)
           /\ BagToSet(c) \subseteq BagToSet(b)
           /\ Copies(x, c) = Copies(x, b) - 1
  <1> DEFINE d == [y \in DOMAIN b |-> IF y = x THEN b[y] - 1 ELSE b[y]]
  <1>0. c = [y \in {z \in DOMAIN d : d[z] > 0} |-> d[y]]
    BY DEF (-), SetToBag
  <1>1. \A y \in DOMAIN b : b[y] \in Nat /\ b[y] > 0
    BY DEF IsABag
  <1>2. x \in DOMAIN b
    BY DEF BagIn, BagToSet
  <1>3. DOMAIN c = {y \in DOMAIN b : y # x \/ b[x] > 1}
    <2>1. ASSUME NEW y \in DOMAIN b PROVE d[y] > 0 <=> y # x \/ b[x] > 1
      <3>1. b[y] \in Nat /\ b[y] > 0
        BY <1>1
      <3>2. CASE y = x
        BY <3>1, <3>2
      <3>3. CASE y # x
        BY <3>1, <3>3
      <3> QED
        BY <3>2, <3>3
    <2>2. DOMAIN d = DOMAIN b
      OBVIOUS
    <2> HIDE DEF d
    <2>3. DOMAIN c = {z \in DOMAIN d : d[z] > 0}
      BY <1>0
    <2> QED
      BY <2>1, <2>2, <2>3
  <1>4. \A y \in DOMAIN c : c[y] = IF y = x THEN b[x] - 1 ELSE b[y]
    BY <1>0, <1>3
  <1>5. IsABag(c)
    <2>1. \A y \in DOMAIN c : c[y] \in Nat /\ c[y] > 0
      BY <1>1, <1>2, <1>3, <1>4
    <2>2. c = [y \in DOMAIN c |-> c[y]]
      BY <1>0
    <2> QED
      BY <2>1, <2>2 DEF IsABag
  <1>6. Copies(x, c) = Copies(x, b) - 1
    BY <1>1, <1>2, <1>3, <1>4 DEF Copies, BagIn, BagToSet
  <1> QED
    BY <1>3, <1>5, <1>6 DEF BagToSet

\* Neither changes how often another packet is held.
LEMMA BagOthers ==
    ASSUME NEW b, IsABag(b), NEW x, NEW y, y # x
    PROVE  /\ Copies(y, b (+) SetToBag({x})) = Copies(y, b)
           /\ Copies(y, b (-) SetToBag({x})) = Copies(y, b)
  <1>0. \A z \in DOMAIN b : b[z] \in Nat /\ b[z] > 0
    BY DEF IsABag
  <1>1. Copies(y, b (+) SetToBag({x})) = Copies(y, b)
    BY <1>0 DEF Copies, BagIn, BagToSet, (+), SetToBag
  <1>2. Copies(y, b (-) SetToBag({x})) = Copies(y, b)
    BY <1>0 DEF Copies, BagIn, BagToSet, (-), SetToBag
  <1> QED
    BY <1>1, <1>2

-----------------------------------------------------------------------------
(* The number of packets that the workers hold: the sum over a finite bag. *)

Pick(S) == CHOOSE e \in S : TRUE
SumStep(g, f, S) == IF S = {} THEN 0 ELSE f[Pick(S)] + g[S \ {Pick(S)}]
SumOf(g, f) == g = [S \in SUBSET DOMAIN f |-> SumStep(g, f, S)]

\* BagCardinality adds up one element after the other.
LEMMA CardinalityIsSum ==
    ASSUME NEW b
    PROVE  BagCardinality(b) = (CHOOSE g : SumOf(g, b))[DOMAIN b]
  BY DEF BagCardinality, SumOf, SumStep, Pick

\* What is picked from a set is in it.
LEMMA PickFacts ==
    ASSUME NEW S, S # {}
    PROVE  Pick(S) \in S
  BY DEF Pick

\* The sum over a bag with finitely many elements is defined.
LEMMA SumExists ==
    ASSUME NEW b, IsABag(b), IsFiniteSet(DOMAIN b)
    PROVE  \E g \in [SUBSET DOMAIN b -> Nat] : SumOf(g, b)
<1> DEFINE D == DOMAIN b
           Up(g, n) == \A S \in SUBSET D : Cardinality(S) <= n => g[S] = SumStep(g, b, S)
           I == {n \in Nat : \E g \in [SUBSET D -> Nat] : Up(g, n)}
<1>0. \A e \in D : b[e] \in Nat
  BY DEF IsABag
<1>1. \A S \in SUBSET D : /\ Cardinality(S) \in Nat
                          /\ IsFiniteSet(S)
                          /\ Cardinality(S) = 0 <=> S = {}
                          /\ \A e \in S : Cardinality(S \ {e}) = Cardinality(S) - 1
  <2> SUFFICES ASSUME NEW S \in SUBSET D
               PROVE  /\ Cardinality(S) \in Nat
                      /\ IsFiniteSet(S)
                      /\ Cardinality(S) = 0 <=> S = {}
                      /\ \A e \in S : Cardinality(S \ {e}) = Cardinality(S) - 1
    OBVIOUS
  <2>1. IsFiniteSet(S)
    BY FS_Subset
  <2> QED BY <2>1, FS_CardinalityType, FS_EmptySet, FS_RemoveElement
<1>2. ASSUME NEW g \in [SUBSET D -> Nat], NEW S \in SUBSET D PROVE SumStep(g, b, S) \in Nat
  <2>1. CASE S = {}
    BY <2>1 DEF SumStep
  <2>2. CASE S # {}
    <3>1. b[Pick(S)] \in Nat /\ g[S \ {Pick(S)}] \in Nat
      BY <1>0, <2>2, PickFacts
    <3> QED BY <2>2, <3>1 DEF SumStep
  <2> QED BY <2>1, <2>2
<1> HIDE DEF D
<1>3. 0 \in I
  <2>1. Up([S \in SUBSET D |-> 0], 0)
    BY <1>1 DEF SumStep
  <2> QED BY <2>1
<1>4. ASSUME NEW n \in Nat, n \in I PROVE n + 1 \in I
  <2>1. PICK g \in [SUBSET D -> Nat] : Up(g, n)
    BY <1>4
  <2> DEFINE h == [S \in SUBSET D |-> IF Cardinality(S) <= n THEN g[S] ELSE SumStep(g, b, S)]
  <2>2. h \in [SUBSET D -> Nat]
    BY <1>2
  <2>3. ASSUME NEW S \in SUBSET D, Cardinality(S) <= n + 1 PROVE h[S] = SumStep(h, b, S)
    <3>1. h[S] = SumStep(g, b, S)
      BY <2>1, <2>3
    <3>2. ASSUME S # {} PROVE h[S \ {Pick(S)}] = g[S \ {Pick(S)}]
      <4>1. Pick(S) \in S
        BY <3>2, PickFacts
      <4>2. Cardinality(S \ {Pick(S)}) <= n /\ S \ {Pick(S)} \in SUBSET D
        BY <1>1, <2>3, <4>1
      <4> QED BY <4>2
    <3> HIDE DEF h
    <3> QED BY <3>1, <3>2 DEF SumStep
  <2> HIDE DEF h
  <2>4. Up(h, n + 1)
    BY <2>3
  <2> QED BY <2>2, <2>4
<1>5. Nat \subseteq I
  <2> HIDE DEF I
  <2> QED BY <1>3, <1>4, Induction
<1>6. Cardinality(D) \in Nat /\ \A S \in SUBSET D : Cardinality(S) <= Cardinality(D)
  BY <1>1, FS_Subset DEF D
<1>7. PICK g \in [SUBSET D -> Nat] : Up(g, Cardinality(D))
  BY <1>5, <1>6
<1>8. SumOf(g, b)
  BY <1>6, <1>7 DEF SumOf, D
<1> QED BY <1>7, <1>8 DEF D

\* The subsets of a finite bag's elements, by size.
LEMMA SubsetFacts ==
    ASSUME NEW D, IsFiniteSet(D), NEW S \in SUBSET D
    PROVE  /\ Cardinality(S) \in Nat
           /\ Cardinality(S) = 0 <=> S = {}
           /\ \A e \in S : Cardinality(S \ {e}) = Cardinality(S) - 1
<1>1. IsFiniteSet(S)
  BY FS_Subset
<1> QED BY <1>1, FS_CardinalityType, FS_EmptySet, FS_RemoveElement

\* The sum is the same whichever element is taken first.
LEMMA SumAnyOrder ==
    ASSUME NEW b, IsABag(b), IsFiniteSet(DOMAIN b),
           NEW g \in [SUBSET DOMAIN b -> Nat], SumOf(g, b), NEW y \in DOMAIN b
    PROVE  g[DOMAIN b] = b[y] + g[DOMAIN b \ {y}]
<1> DEFINE D == DOMAIN b
           I == {n \in Nat : \A S \in SUBSET D : \A x \in S :
                                Cardinality(S) <= n => g[S] = b[x] + g[S \ {x}]}
<1>0. \A e \in D : b[e] \in Nat
  BY DEF IsABag
<1>1. \A S \in SUBSET D : /\ Cardinality(S) \in Nat
                          /\ Cardinality(S) = 0 <=> S = {}
                          /\ \A e \in S : Cardinality(S \ {e}) = Cardinality(S) - 1
  BY SubsetFacts
<1>2. \A S \in SUBSET D : S # {} => Pick(S) \in S /\ g[S] = b[Pick(S)] + g[S \ {Pick(S)}]
  BY PickFacts DEF SumOf, SumStep
<1>3. 0 \in I
  BY <1>1
<1> HIDE DEF D
<1>4. ASSUME NEW n \in Nat, n \in I PROVE n + 1 \in I
  <2>1. ASSUME NEW S \in SUBSET D, NEW x \in S, Cardinality(S) <= n + 1
        PROVE  g[S] = b[x] + g[S \ {x}]
    <3> DEFINE e == Pick(S)
               E == S \ {e}
               B == S \ {x}
               C == (S \ {e}) \ {x}
    <3>1. e \in S /\ g[S] = b[e] + g[E]
      BY <1>2, <2>1
    <3>2. CASE e = x
      BY <3>1, <3>2
    <3>3. CASE e # x
      <4>1. E \in SUBSET D /\ B \in SUBSET D /\ C \in SUBSET D
        BY <2>1
      <4>2. Cardinality(E) <= n /\ Cardinality(B) <= n
        BY <1>1, <2>1, <3>1
      <4>3. g[E] = b[x] + g[C]
        BY <1>4, <2>1, <3>3, <4>1, <4>2
      <4>4. g[B] = b[e] + g[B \ {e}] /\ B \ {e} = C
        BY <1>4, <2>1, <3>1, <3>3, <4>1, <4>2
      <4>5. b[e] \in Nat /\ b[x] \in Nat /\ g[E] \in Nat /\ g[B] \in Nat /\ g[C] \in Nat
        BY <1>0, <2>1, <3>1, <4>1 DEF D
      <4> HIDE DEF E, B, C, e
      <4>6. g[S] = b[x] + g[B]
        <5>1. g[S] = b[e] + (b[x] + g[C]) /\ b[x] + g[B] = b[x] + (b[e] + g[C])
          BY <3>1, <4>3, <4>4
        <5>2. \A p, q, r \in Nat : p + (q + r) = q + (p + r)
          OBVIOUS
        <5> QED BY <4>5, <5>1, <5>2
      <4> QED BY <4>6 DEF B
    <3> QED BY <3>2, <3>3
  <2>2. \A S \in SUBSET D : \A x \in S : Cardinality(S) <= n + 1 => g[S] = b[x] + g[S \ {x}]
    BY <2>1
  <2>3. n + 1 \in Nat
    OBVIOUS
  <2> QED BY <2>2, <2>3, Zenon
<1>5. Nat \subseteq I
  <2> HIDE DEF I
  <2> QED BY <1>3, <1>4, Induction
<1>6. ASSUME NEW S \in SUBSET D, NEW x \in S PROVE g[S] = b[x] + g[S \ {x}]
  <2>1. Cardinality(S) \in Nat
    BY <1>1, <1>6
  <2>2. Cardinality(S) \in I /\ Cardinality(S) <= Cardinality(S)
    <3> HIDE DEF I
    <3> QED BY <1>5, <2>1
  <2> QED BY <1>6, <2>2
<1> QED BY <1>6 DEF D

\* Two bags that agree on S have the same sum over it.
LEMMA SumAgrees ==
    ASSUME NEW b, NEW c, IsFiniteSet(DOMAIN b), NEW g, SumOf(g, b), NEW h, SumOf(h, c),
           NEW T, T \subseteq DOMAIN b, T \subseteq DOMAIN c, \A e \in T : b[e] = c[e]
    PROVE  g[T] = h[T]
<1> DEFINE I == {n \in Nat : \A S \in SUBSET T : Cardinality(S) <= n => g[S] = h[S]}
<1>0. IsFiniteSet(T)
  BY FS_Subset
<1>1. \A S \in SUBSET T : /\ Cardinality(S) \in Nat
                          /\ Cardinality(S) = 0 <=> S = {}
                          /\ \A e \in S : Cardinality(S \ {e}) = Cardinality(S) - 1
  BY <1>0, SubsetFacts
<1>2. \A S \in SUBSET T : S # {} => /\ Pick(S) \in S
                                    /\ g[S] = b[Pick(S)] + g[S \ {Pick(S)}]
                                    /\ h[S] = c[Pick(S)] + h[S \ {Pick(S)}]
  BY PickFacts DEF SumOf, SumStep
<1>3. g[{}] = 0 /\ h[{}] = 0
  BY DEF SumOf, SumStep
<1>4. 0 \in I
  <2>1. ASSUME NEW S \in SUBSET T, Cardinality(S) <= 0 PROVE g[S] = h[S]
    <3>1. S = {}
      BY <1>1, <2>1
    <3> QED BY <1>3, <3>1
  <2> QED BY <2>1
<1>5. ASSUME NEW n \in Nat, n \in I PROVE n + 1 \in I
  <2>1. ASSUME NEW S \in SUBSET T, Cardinality(S) <= n + 1 PROVE g[S] = h[S]
    <3>1. CASE S = {}
      BY <1>3, <3>1
    <3>2. CASE S # {}
      <4>1. Pick(S) \in S /\ S \ {Pick(S)} \in SUBSET T
        BY <1>2, <2>1, <3>2
      <4>2. Cardinality(S \ {Pick(S)}) <= n
        BY <1>1, <2>1, <4>1
      <4>3. g[S \ {Pick(S)}] = h[S \ {Pick(S)}]
        BY <1>5, <4>1, <4>2
      <4> QED BY <1>2, <2>1, <3>2, <4>1, <4>3
    <3> QED BY <3>1, <3>2
  <2> QED BY <2>1
<1>6. Nat \subseteq I
  <2> HIDE DEF I
  <2> QED BY <1>4, <1>5, Induction
<1>7. Cardinality(T) \in I /\ Cardinality(T) <= Cardinality(T)
  BY <1>1, <1>6
<1> QED BY <1>7

\* What BagCardinality says of a finite bag.
LEMMA CardinalityFacts ==
    ASSUME NEW b, IsABag(b), IsFiniteSet(DOMAIN b)
    PROVE  \E g \in [SUBSET DOMAIN b -> Nat] : SumOf(g, b) /\ BagCardinality(b) = g[DOMAIN b]
<1> DEFINE g == CHOOSE h : SumOf(h, b)
<1>1. PICK f \in [SUBSET DOMAIN b -> Nat] : SumOf(f, b)
  BY SumExists
<1>2. SumOf(g, b)
  BY <1>1
<1>3. BagCardinality(b) = g[DOMAIN b]
  BY CardinalityIsSum
<1> HIDE DEF g
<1>4. g \in [SUBSET DOMAIN b -> Nat]
  <2>1. DOMAIN g = SUBSET DOMAIN b /\ g = [S \in SUBSET DOMAIN b |-> g[S]]
    BY <1>2 DEF SumOf
  <2>2. ASSUME NEW S \in SUBSET DOMAIN b PROVE g[S] = f[S]
    BY <1>1, <1>2, SumAgrees
  <2> QED BY <1>1, <2>1, <2>2
<1> QED BY <1>2, <1>3, <1>4

\* The size of a bag: the copies of x, and the sum over the others.
LEMMA CardinalityWithout ==
    ASSUME NEW b, IsABag(b), IsFiniteSet(DOMAIN b), NEW x
    PROVE  /\ Copies(x, b) \in Nat
           /\ \E g : /\ SumOf(g, b) /\ g[DOMAIN b \ {x}] \in Nat
                     /\ BagCardinality(b) = Copies(x, b) + g[DOMAIN b \ {x}]
<1>1. PICK g \in [SUBSET DOMAIN b -> Nat] : SumOf(g, b) /\ BagCardinality(b) = g[DOMAIN b]
  BY CardinalityFacts
<1>2. g[DOMAIN b \ {x}] \in Nat
  OBVIOUS
<1>3. CASE x \in DOMAIN b
  <2>1. Copies(x, b) = b[x] /\ b[x] \in Nat
    BY <1>3 DEF Copies, IsABag, BagIn, BagToSet
  <2>2. g[DOMAIN b] = b[x] + g[DOMAIN b \ {x}]
    BY <1>1, <1>3, SumAnyOrder
  <2> QED BY <1>1, <1>2, <2>1, <2>2
<1>4. CASE x \notin DOMAIN b
  <2>1. Copies(x, b) = 0 /\ DOMAIN b \ {x} = DOMAIN b
    BY <1>4 DEF Copies, BagIn, BagToSet
  <2> QED BY <1>1, <1>2, <2>1
<1> QED BY <1>3, <1>4

\* Bags that differ in the copies of x differ in size by as much.
LEMMA CardinalityOfCopies ==
    ASSUME NEW b, IsABag(b), IsFiniteSet(DOMAIN b), NEW c, IsABag(c), NEW x,
           \A y : y # x => Copies(y, c) = Copies(y, b)
    PROVE  /\ IsFiniteSet(DOMAIN c)
           /\ BagCardinality(b) \in Nat /\ BagCardinality(c) \in Nat
           /\ BagCardinality(c) - Copies(x, c) = BagCardinality(b) - Copies(x, b)
<1> DEFINE T == DOMAIN b \ {x}
<1>1. /\ \A y \in DOMAIN b : Copies(y, b) = b[y] /\ b[y] \in Nat /\ b[y] > 0
      /\ \A y \in DOMAIN c : Copies(y, c) = c[y] /\ c[y] \in Nat /\ c[y] > 0
      /\ \A y : y \notin DOMAIN b => Copies(y, b) = 0
      /\ \A y : y \notin DOMAIN c => Copies(y, c) = 0
  BY DEF Copies, IsABag, BagIn, BagToSet
<1>2. T = DOMAIN c \ {x} /\ \A e \in T : b[e] = c[e]
  <2>1. ASSUME NEW y, y # x PROVE y \in DOMAIN b <=> y \in DOMAIN c
    <3>1. Copies(y, c) = Copies(y, b)
      BY <2>1
    <3> QED BY <1>1, <3>1
  <2>2. ASSUME NEW y \in T PROVE b[y] = c[y]
    <3>1. y # x /\ y \in DOMAIN b /\ y \in DOMAIN c
      BY <2>1
    <3> QED BY <1>1, <3>1
  <2> QED BY <2>1, <2>2
<1>3. IsFiniteSet(DOMAIN c)
  <2>1. IsFiniteSet(DOMAIN b \cup {x}) /\ DOMAIN c \in SUBSET (DOMAIN b \cup {x})
    BY <1>2, FS_AddElement
  <2> QED BY <2>1, FS_Subset
<1>4. PICK g : SumOf(g, b) /\ g[T] \in Nat /\ BagCardinality(b) = Copies(x, b) + g[T]
  BY CardinalityWithout
<1>5. PICK h : SumOf(h, c) /\ BagCardinality(c) = Copies(x, c) + h[DOMAIN c \ {x}]
  BY <1>3, CardinalityWithout
<1>6. g[T] = h[T]
  BY <1>2, <1>4, <1>5, SumAgrees
<1>7. Copies(x, b) \in Nat /\ Copies(x, c) \in Nat
  BY <1>3, CardinalityWithout
<1>8. BagCardinality(c) = Copies(x, c) + g[T]
  BY <1>2, <1>5, <1>6
<1> HIDE DEF T
<1> QED BY <1>3, <1>4, <1>7, <1>8

\* A worker takes x, or is done with it: one more, one less.
LEMMA BagCardinalityStep ==
    ASSUME NEW b, IsABag(b), IsFiniteSet(DOMAIN b), NEW x
    PROVE  /\ IsFiniteSet(DOMAIN (b (+) SetToBag({x})))
           /\ BagCardinality(b) \in Nat
           /\ BagCardinality(b (+) SetToBag({x})) = BagCardinality(b) + 1
           /\ BagIn(x, b) => /\ IsFiniteSet(DOMAIN (b (-) SetToBag({x})))
                             /\ BagCardinality(b (-) SetToBag({x})) = BagCardinality(b) - 1
<1>0. Copies(x, b) \in Nat
  BY DEF Copies, IsABag, BagIn, BagToSet
<1>1. ASSUME NEW c, c = b (+) SetToBag({x})
      PROVE  /\ IsFiniteSet(DOMAIN c) /\ BagCardinality(b) \in Nat
             /\ BagCardinality(c) = BagCardinality(b) + 1
  <2>1. IsABag(c) /\ Copies(x, c) = Copies(x, b) + 1
    BY <1>1, BagAdd
  <2>2. \A y : y # x => Copies(y, c) = Copies(y, b)
    BY <1>1, BagOthers
  <2>3. /\ IsFiniteSet(DOMAIN c) /\ BagCardinality(b) \in Nat /\ BagCardinality(c) \in Nat
        /\ BagCardinality(c) - Copies(x, c) = BagCardinality(b) - Copies(x, b)
    BY <2>1, <2>2, CardinalityOfCopies
  <2> QED BY <1>0, <2>1, <2>3
<1>2. ASSUME BagIn(x, b), NEW c, c = b (-) SetToBag({x})
      PROVE  IsFiniteSet(DOMAIN c) /\ BagCardinality(c) = BagCardinality(b) - 1
  <2>1. IsABag(c) /\ Copies(x, c) = Copies(x, b) - 1
    BY <1>2, BagRemove
  <2>2. \A y : y # x => Copies(y, c) = Copies(y, b)
    BY <1>2, BagOthers
  <2>3. /\ IsFiniteSet(DOMAIN c) /\ BagCardinality(b) \in Nat /\ BagCardinality(c) \in Nat
        /\ BagCardinality(c) - Copies(x, c) = BagCardinality(b) - Copies(x, b)
    BY <2>1, <2>2, CardinalityOfCopies
  <2> QED BY <1>0, <2>1, <2>3
<1> QED BY <1>1, <1>2

-----------------------------------------------------------------------------
(* The queue *)

\* The queue holds at most QueueCap packets, the workers what they took.
PacketsInv ==
    /\ mq \in Seq(Packet) /\ Len(mq) <= QueueCap
    /\ IsABag(hand) /\ BagToSet(hand) \subseteq Packet \cup {Invite}

\* A packet joins the queue.
LEMMA RecvPackets ==
    ASSUME PacketsInv, NEW pkt \in Packet, recv_thread(pkt)
    PROVE  PacketsInv'
  <1> USE BoundAssumption
  <1>1. CASE Len(mq) < QueueCap
    BY <1>1 DEF recv_thread, PacketsInv
  <1>2. CASE ~ (Len(mq) < QueueCap)
    <2>1. mq # <<>>
      BY <1>2 DEF PacketsInv
    <2>2. Tail(mq) \in Seq(Packet) /\ Len(Tail(mq)) = Len(mq) - 1
      BY <2>1 DEF PacketsInv
    <2> QED
      BY <1>2, <2>2 DEF recv_thread, PacketsInv
  <1> QED
    BY <1>1, <1>2

\* The kinds of packets differ.
LEMMA PacketKinds ==
    /\ Connect # Invite
    /\ Connect \in Packet
    /\ \A p, b : Avail(p, b) # Connect /\ Avail(p, b) # Invite
    /\ \A p \in Proxy, b \in BOOLEAN : Avail(p, b) \in Packet
    /\ \A k \in Packet \cup {Invite} :
          k.type = "AVAIL" => k # Connect /\ k # Invite /\ k.from \in Proxy
  BY DEF Connect, Invite, Avail, Packet

\* A step that hands a packet to a worker or takes one back.
LEMMA HandPackets ==
    ASSUME PacketsInv
    PROVE  /\ proc_pool_thread => PacketsInv'
           /\ \A pkt : process(pkt) => PacketsInv'
  <1>1. ASSUME proc_pool_thread PROVE PacketsInv'
    <2>1. Head(mq) \in Packet /\ Tail(mq) \in Seq(Packet) /\ Len(Tail(mq)) = Len(mq) - 1
      BY <1>1 DEF PacketsInv, proc_pool_thread
    <2>2. hand' = hand (+) SetToBag({Head(mq)}) /\ mq' = Tail(mq)
      BY <1>1 DEF proc_pool_thread, take
    <2>3. IsABag(hand') /\ BagToSet(hand') = BagToSet(hand) \cup {Head(mq)}
      BY <2>2, BagAdd DEF PacketsInv
    <2>4. Len(mq') <= QueueCap
      <3>1. Len(mq) \in Nat /\ Len(mq) <= QueueCap /\ QueueCap \in Nat
        BY BoundAssumption DEF PacketsInv
      <3> QED
        BY <2>1, <2>2, <3>1
    <2>5. BagToSet(hand') \subseteq Packet \cup {Invite}
      BY <2>1, <2>3 DEF PacketsInv
    <2>6. mq' \in Seq(Packet)
      BY <2>1, <2>2
    <2> QED
      BY <2>3, <2>4, <2>5, <2>6 DEF PacketsInv
  <1>2. ASSUME NEW pkt, process(pkt) PROVE PacketsInv'
    <2>0. mq' = mq /\ BagIn(pkt, hand) /\ IsABag(hand)
      BY <1>2 DEF process, sp_ask_extinfo_rsp, connect_refused, connect_ack,
                  connect_invite, PacketsInv
    <2>1. CASE hand' = hand (-) SetToBag({pkt})
      <3>1. IsABag(hand') /\ BagToSet(hand') \subseteq BagToSet(hand)
        BY <2>0, <2>1, BagRemove
      <3> QED
        BY <2>0, <3>1 DEF PacketsInv
    <2>2. CASE hand' = (hand (-) SetToBag({pkt})) (+) SetToBag({Invite})
      <3> DEFINE b == hand (-) SetToBag({pkt})
      <3>1. IsABag(b) /\ BagToSet(b) \subseteq BagToSet(hand)
        BY <2>0, BagRemove
      <3>2. hand' = b (+) SetToBag({Invite})
        BY <2>2
      <3> HIDE DEF b
      <3>3. IsABag(hand') /\ BagToSet(hand') = BagToSet(b) \cup {Invite}
        BY <3>1, <3>2, BagAdd
      <3> QED
        BY <2>0, <3>1, <3>3 DEF PacketsInv
    <2> QED
      BY <1>2, <2>1, <2>2
      DEF process, sp_ask_extinfo_rsp, connect_refused, connect_ack, connect_invite
  <1> QED
    BY <1>1, <1>2

\* The queue and what the workers hold keep their shape in every step.
LEMMA StepPackets ==
    ASSUME PacketsInv, [Next]_vars
    PROVE  PacketsInv'
  <1>1. CASE connect
    BY <1>1, RecvPackets, PacketKinds DEF connect
  <1>2. ASSUME NEW p \in Proxy, ProxyAnswers(p) PROVE PacketsInv'
    <2>1. Avail(p, status[p] = "open") \in Packet
      BY PacketKinds
    <2> QED
      BY <1>2, <2>1, RecvPackets DEF ProxyAnswers
  <1>3. CASE proc_pool_thread \/ \E pkt \in BagToSet(hand) : process(pkt)
    BY <1>3, HandPackets
  <1>4. CASE UNCHANGED queue
    BY <1>4 DEF queue, PacketsInv
  <1> QED
    BY <1>1, <1>2, <1>3, <1>4
    DEF Next, timer_thread, reload, Lose, StatusChanges, vars

\* PacketsInv is invariant.
LEMMA PacketsInvariant == Spec => []PacketsInv
  <1>1. Init => PacketsInv
    <2> SUFFICES ASSUME Init PROVE PacketsInv
      OBVIOUS
    <2>1. mq = <<>> /\ hand = EmptyBag
      BY DEF Init
    <2>2. DOMAIN hand = {} /\ hand = [y \in {} |-> 1]
      BY <2>1 DEF EmptyBag, SetToBag
    <2> QED
      BY <2>1, <2>2, BoundAssumption DEF PacketsInv, IsABag, BagToSet
  <1> QED
    BY <1>1, StepPackets, PTL DEF Spec

-----------------------------------------------------------------------------
(* A CONNECT between the threads *)

Pos(q) == {i \in 1 .. Len(q) : q[i] = Connect}

\* Where a CONNECT stands after a packet joined.
LEMMA PosAppend ==
    ASSUME NEW q \in Seq(Packet), NEW pkt \in Packet
    PROVE  Pos(Append(q, pkt)) = IF pkt = Connect THEN Pos(q) \cup {Len(q) + 1} ELSE Pos(q)
  <1>1. Len(q) \in Nat /\ Len(Append(q, pkt)) = Len(q) + 1
    OBVIOUS
  <1>2. \A i \in 1 .. Len(q) : Append(q, pkt)[i] = q[i]
    OBVIOUS
  <1>3. Append(q, pkt)[Len(q) + 1] = pkt
    OBVIOUS
  <1>4. 1 .. (Len(q) + 1) = (1 .. Len(q)) \cup {Len(q) + 1} /\ Len(q) + 1 \notin 1 .. Len(q)
    BY <1>1
  <1> QED
    BY <1>1, <1>2, <1>3, <1>4 DEF Pos

\* Where it stands after the first packet left.
LEMMA PosTail ==
    ASSUME NEW q \in Seq(Packet), q # <<>>
    PROVE  /\ Head(q) = Connect <=> 1 \in Pos(q)
           /\ Pos(q) = {} => Pos(Tail(q)) = {}
           /\ Pos(q) = {1} => Pos(Tail(q)) = {}
           /\ \A i : Pos(q) = {i} /\ i # 1 => Pos(Tail(q)) = {i - 1}
  <1>1. Len(q) \in Nat /\ Len(q) >= 1 /\ Len(Tail(q)) = Len(q) - 1
    OBVIOUS
  <1>2. \A i \in 1 .. (Len(q) - 1) : Tail(q)[i] = q[i + 1]
    OBVIOUS
  <1>3. Pos(Tail(q)) = {i \in 1 .. (Len(q) - 1) : q[i + 1] = Connect}
    BY <1>1, <1>2 DEF Pos
  <1>4. Head(q) = Connect <=> 1 \in Pos(q)
    BY <1>1 DEF Pos
  <1>5. \A i \in Pos(Tail(q)) : i \in Int /\ i + 1 \in Pos(q) /\ i + 1 # 1
    BY <1>1, <1>3 DEF Pos
  <1>6. \A i \in Pos(q) : i # 1 => i \in Int /\ i - 1 \in Pos(Tail(q))
    <2> SUFFICES ASSUME NEW i \in Pos(q), i # 1 PROVE i \in Int /\ i - 1 \in Pos(Tail(q))
      OBVIOUS
    <2>1. i \in 1 .. Len(q) /\ q[i] = Connect
      BY DEF Pos
    <2>2. i - 1 \in 1 .. (Len(q) - 1) /\ (i - 1) + 1 = i
      BY <1>1, <2>1
    <2> QED
      BY <1>3, <2>1, <2>2
  <1>7. ASSUME NEW i, Pos(q) = {i}, i # 1 PROVE Pos(Tail(q)) = {i - 1}
    <2>1. i \in Int /\ i - 1 \in Pos(Tail(q))
      BY <1>6, <1>7
    <2>2. ASSUME NEW j \in Pos(Tail(q)) PROVE j = i - 1
      BY <1>5, <1>7, <2>1
    <2> QED
      BY <2>1, <2>2
  <1> QED
    BY <1>4, <1>5, <1>7

\* Where the CONNECT of src is.
KeptInv ==
    \/ request = "sent" /\ Copies(Connect, hand) = 0 /\ \E i : Pos(mq) = {i}
    \/ request = "sent" /\ Copies(Connect, hand) = 1 /\ Pos(mq) = {}
    \/ request # "sent" /\ Copies(Connect, hand) = 0 /\ Pos(mq) = {}

\* A packet joins the queue, and the oldest one may go.
LEMMA RecvKept ==
    ASSUME PacketsInv, KeptInv, NEW pkt \in Packet, pkt = Connect => request # "sent",
           recv_thread(pkt)
    PROVE  KeptInv'
  <1>0. mq \in Seq(Packet) /\ hand' = hand
    BY DEF PacketsInv, recv_thread
  <1>1. CASE Len(mq) < QueueCap
    BY <1>0, <1>1, PosAppend DEF recv_thread, KeptInv
  <1>2. CASE ~ (Len(mq) < QueueCap)
    <2>1. mq # <<>> /\ Tail(mq) \in Seq(Packet)
      BY <1>2, BoundAssumption DEF PacketsInv
    <2>2. mq' = Append(Tail(mq), pkt)
      BY <1>2 DEF recv_thread
    <2>3. request' = IF pkt = Connect THEN "sent"
                     ELSE IF Head(mq) = Connect THEN "dropped" ELSE request
      BY <1>2 DEF recv_thread
    <2>4. Pos(mq') = IF pkt = Connect THEN Pos(Tail(mq)) \cup {Len(Tail(mq)) + 1}
                     ELSE Pos(Tail(mq))
      BY <2>1, <2>2, PosAppend
    <2>5. CASE pkt = Connect
      <3>1. Pos(mq) = {} /\ Copies(Connect, hand) = 0
        BY <2>5 DEF KeptInv
      <3>2. Pos(Tail(mq)) = {}
        BY <1>0, <2>1, <3>1, PosTail
      <3>3. Pos(mq') = {Len(Tail(mq)) + 1} /\ request' = "sent" /\ Copies(Connect, hand') = 0
        BY <1>0, <2>3, <2>4, <2>5, <3>1, <3>2
      <3> QED
        BY <3>3 DEF KeptInv
    <2>6. CASE pkt # Connect /\ Head(mq) = Connect
      <3>1. Pos(mq) = {1} /\ Copies(Connect, hand) = 0
        BY <1>0, <2>1, <2>6, PosTail DEF KeptInv
      <3> QED
        BY <1>0, <2>1, <2>3, <2>4, <2>6, <3>1, PosTail DEF KeptInv
    <2>7. CASE pkt # Connect /\ Head(mq) # Connect
      <3>1. request' = request /\ Pos(mq') = Pos(Tail(mq)) /\ 1 \notin Pos(mq)
        BY <1>0, <2>1, <2>3, <2>4, <2>7, PosTail
      <3>2. Pos(mq) = {} => Pos(mq') = {}
        BY <1>0, <2>1, <3>1, PosTail
      <3>3. ASSUME NEW i, Pos(mq) = {i} PROVE Pos(mq') = {i - 1}
        <4>1. i # 1
          BY <3>1, <3>3
        <4> QED
          BY <1>0, <2>1, <3>1, <3>3, <4>1, PosTail
      <3>4. Copies(Connect, hand') = Copies(Connect, hand)
        BY <1>0
      <3> QED
        BY <3>1, <3>2, <3>3, <3>4 DEF KeptInv
    <2> QED
      BY <2>5, <2>6, <2>7
  <1> QED
    BY <1>1, <1>2

\* A worker takes a packet, or handles one.
LEMMA HandKept ==
    ASSUME PacketsInv, KeptInv
    PROVE  /\ proc_pool_thread => KeptInv'
           /\ \A pkt \in BagToSet(hand) : process(pkt) => KeptInv'
  <1>1. ASSUME proc_pool_thread PROVE KeptInv'
    <2>0. mq \in Seq(Packet) /\ mq # <<>> /\ IsABag(hand) /\ request' = request
      BY <1>1 DEF PacketsInv, proc_pool_thread
    <2>1. hand' = hand (+) SetToBag({Head(mq)}) /\ mq' = Tail(mq)
      BY <1>1 DEF proc_pool_thread, take
    <2>2. CASE Head(mq) = Connect
      <3>1. 1 \in Pos(mq)
        BY <2>0, <2>2, PosTail
      <3>2. request = "sent" /\ Copies(Connect, hand) = 0 /\ Pos(mq) = {1}
        BY <3>1 DEF KeptInv
      <3>3. Copies(Connect, hand') = 1
        BY <2>0, <2>1, <2>2, <3>2, BagAdd
      <3>4. Pos(mq') = {}
        BY <2>0, <2>1, <3>2, PosTail
      <3> QED
        BY <2>0, <3>2, <3>3, <3>4 DEF KeptInv
    <2>3. CASE Head(mq) # Connect
      <3>1. Copies(Connect, hand') = Copies(Connect, hand)
        BY <2>0, <2>1, <2>3, BagOthers
      <3>2. 1 \notin Pos(mq)
        BY <2>0, <2>3, PosTail
      <3>3. Pos(mq) = {} => Pos(mq') = {}
        BY <2>0, <2>1, PosTail
      <3>4. ASSUME NEW i, Pos(mq) = {i} PROVE Pos(mq') = {i - 1}
        <4>1. i # 1
          BY <3>2, <3>4
        <4> QED
          BY <2>0, <2>1, <3>4, <4>1, PosTail
      <3> QED
        BY <2>0, <3>1, <3>3, <3>4 DEF KeptInv
    <2> QED
      BY <2>2, <2>3
  <1>2. ASSUME NEW pkt \in BagToSet(hand), process(pkt) PROVE KeptInv'
    <2>0. mq' = mq /\ BagIn(pkt, hand) /\ IsABag(hand)
      BY <1>2 DEF process, sp_ask_extinfo_rsp, connect_refused, connect_ack,
                  connect_invite, PacketsInv
    <2> DEFINE b == hand (-) SetToBag({pkt})
    <2>1. /\ IsABag(b)
          /\ Copies(pkt, b) = Copies(pkt, hand) - 1
          /\ pkt # Connect => Copies(Connect, b) = Copies(Connect, hand)
      BY <2>0, BagRemove, BagOthers
    <2>2. CASE sp_ask_extinfo_rsp(pkt) \/ connect_invite(pkt)
      <3>1. pkt # Connect /\ request' = request /\ hand' = b
        BY <1>2, <2>2, PacketKinds DEF sp_ask_extinfo_rsp, connect_invite, PacketsInv
      <3> HIDE DEF b
      <3>2. Copies(Connect, hand') = Copies(Connect, hand)
        BY <2>1, <3>1
      <3> QED
        BY <2>0, <3>1, <3>2 DEF KeptInv
    <2>3. ASSUME pkt = Connect
          PROVE  Copies(Connect, b) = 0 /\ Pos(mq) = {}
      <3>1. Copies(Connect, hand) # 0
        BY <2>0, <2>3 DEF Copies, BagIn, BagToSet, IsABag
      <3>2. Copies(Connect, hand) = 1 /\ Pos(mq) = {}
        BY <3>1 DEF KeptInv
      <3> HIDE DEF b
      <3> QED
        BY <2>1, <2>3, <3>2
    <2>4. CASE connect_refused(pkt)
      <3>1. pkt = Connect /\ request' = "answered" /\ hand' = b
        BY <2>4 DEF connect_refused
      <3> HIDE DEF b
      <3> QED
        BY <2>0, <2>3, <3>1 DEF KeptInv
    <2>5. CASE connect_ack(pkt)
      <3>1. pkt = Connect /\ request' = "answered" /\ hand' = b (+) SetToBag({Invite})
        BY <2>5 DEF connect_ack
      <3> HIDE DEF b
      <3>2. Copies(Connect, hand') = Copies(Connect, b)
        BY <2>1, <3>1, BagOthers, PacketKinds
      <3> QED
        BY <2>0, <2>3, <3>1, <3>2 DEF KeptInv
    <2> QED
      BY <1>2, <2>2, <2>4, <2>5 DEF process
  <1> QED
    BY <1>1, <1>2

\* Every step knows where the CONNECT is.
LEMMA StepKept ==
    ASSUME PacketsInv, KeptInv, [Next]_vars
    PROVE  KeptInv'
  <1>1. CASE connect
    BY <1>1, RecvKept, PacketKinds DEF connect
  <1>2. ASSUME NEW p \in Proxy, ProxyAnswers(p) PROVE KeptInv'
    <2>1. Avail(p, status[p] = "open") \in Packet /\ Avail(p, status[p] = "open") # Connect
      BY PacketKinds
    <2> QED
      BY <1>2, <2>1, RecvKept DEF ProxyAnswers
  <1>3. CASE proc_pool_thread \/ \E pkt \in BagToSet(hand) : process(pkt)
    BY <1>3, HandKept
  <1>4. CASE UNCHANGED <<queue, request>>
    BY <1>4 DEF queue, KeptInv
  <1> QED
    BY <1>1, <1>2, <1>3, <1>4
    DEF Next, timer_thread, reload, Lose, StatusChanges, vars

\* However long the queue and however many workers: a CONNECT that is neither
\* answered nor dropped at the queue's limit is in one place, and no CONNECT
\* is answered twice or lost between the receiving thread and the workers.
THEOREM NatServerConnectKept == Spec => []ConnectKept
  <1>1. Init => KeptInv
    <2> SUFFICES ASSUME Init PROVE KeptInv
      OBVIOUS
    <2>1. mq = <<>> /\ hand = EmptyBag /\ request = "none"
      BY DEF Init
    <2>2. Pos(mq) = {}
      BY <2>1 DEF Pos
    <2>3. Copies(Connect, hand) = 0
      BY <2>1 DEF Copies, BagIn, BagToSet, EmptyBag, SetToBag
    <2> QED
      BY <2>1, <2>2, <2>3 DEF KeptInv
  <1>2. PacketsInv /\ KeptInv => ConnectKept
    <2> SUFFICES ASSUME PacketsInv, KeptInv PROVE ConnectKept
      OBVIOUS
    <2>1. {i \in DOMAIN mq : mq[i] = Connect} = Pos(mq)
      BY DEF Pos, PacketsInv
    <2>2. Copies(Connect, hand) = IF BagIn(Connect, hand) THEN hand[Connect] ELSE 0
      BY DEF Copies
    <2>3. Cardinality({}) = 0 /\ \A i : Cardinality({i}) = 1
      BY FS_EmptySet, FS_Singleton
    <2>4. Cardinality(Pos(mq)) + Copies(Connect, hand) = IF request = "sent" THEN 1 ELSE 0
      <3>1. ASSUME NEW i, Pos(mq) = {i} PROVE Cardinality(Pos(mq)) = 1
        BY <2>3, <3>1
      <3>2. Pos(mq) = {} => Cardinality(Pos(mq)) = 0
        BY <2>3
      <3> QED
        BY <3>1, <3>2 DEF KeptInv
    <2> QED
      BY <2>1, <2>2, <2>4 DEF ConnectKept
  <1> QED
    BY <1>1, <1>2, PacketsInvariant, StepKept, PTL DEF Spec

-----------------------------------------------------------------------------
(* Proxy health *)

\* An entry that says available was seen since the last round but one and has
\* down = 0: the mark that counts down takes available away.
AvailableIsRecent == \A p \in available : down[p] = 0 /\ age[p] <= 1

\* The table of proxies and what its entries say.
HealthInv ==
    /\ proxy_health \subseteq Proxy /\ available \subseteq proxy_health
    /\ down \in [Proxy -> 0 .. MaxDown]
    /\ age \in [Proxy -> 0 .. MaxAge]
    /\ AvailableIsRecent

\* A round of the timer: whom it leaves available answered since the last one.
LEMMA TimerHealth ==
    ASSUME HealthInv, timer_thread
    PROVE  HealthInv'
  <1> USE DEF MaxDown, MaxAge
  <1>1. PICK prompt \in SUBSET {p \in proxy_health : age[p] = 0} :
            mark_proxy_stale({p \in proxy_health : age[p] >= 1} \cup prompt)
    BY DEF timer_thread
  <1> DEFINE stale == {p \in proxy_health : age[p] >= 1} \cup prompt
  <1>2. /\ down' = [p \in Proxy |-> IF p \in stale /\ down[p] < MaxDown THEN down[p] + 1 ELSE down[p]]
        /\ available' = available \ stale
        /\ proxy_health' = proxy_health
        /\ age' = [p \in Proxy |-> IF p \in proxy_health /\ age[p] < MaxAge
                                   THEN age[p] + 1 ELSE age[p]]
    BY <1>1 DEF mark_proxy_stale, timer_thread
  <1>3. \A p \in proxy_health \ stale : ~ (age[p] >= 1)
    OBVIOUS
  <1> HIDE DEF stale
  <1>4. down' \in [Proxy -> 0 .. MaxDown] /\ age' \in [Proxy -> 0 .. MaxAge]
    BY <1>2 DEF HealthInv
  <1>5. ASSUME NEW p \in available' PROVE down'[p] = 0 /\ age'[p] <= 1
    <2>1. p \in available /\ p \in proxy_health /\ p \in Proxy /\ p \notin stale
      BY <1>2, <1>5 DEF HealthInv
    <2>2. down[p] = 0 /\ age[p] \in 0 .. MaxAge /\ ~ (age[p] >= 1)
      BY <1>3, <2>1 DEF HealthInv, AvailableIsRecent
    <2> QED
      BY <1>2, <2>1, <2>2
  <1> QED
    BY <1>2, <1>4, <1>5 DEF HealthInv, AvailableIsRecent

\* An answer is entered.
LEMMA AnswerHealth ==
    ASSUME PacketsInv, HealthInv, NEW pkt \in BagToSet(hand), sp_ask_extinfo_rsp(pkt)
    PROVE  HealthInv'
  <1> USE DEF MaxDown, MaxAge
  <1> DEFINE p == pkt.from
  <1>1. p \in Proxy
    BY PacketKinds DEF sp_ask_extinfo_rsp, PacketsInv
  <1>2. /\ proxy_health' = proxy_health \cup {p}
        /\ available' = IF pkt.available THEN available \cup {p} ELSE available \ {p}
        /\ down' = [down EXCEPT ![p] = 0]
        /\ age' = [age EXCEPT ![p] = 0]
    BY DEF sp_ask_extinfo_rsp, collect_proxy_avail
  <1> HIDE DEF p
  <1>3. down' \in [Proxy -> 0 .. MaxDown] /\ age' \in [Proxy -> 0 .. MaxAge]
    BY <1>1, <1>2 DEF HealthInv
  <1>4. proxy_health' \subseteq Proxy /\ available' \subseteq proxy_health'
    BY <1>1, <1>2 DEF HealthInv
  <1>5. ASSUME NEW q \in available' PROVE down'[q] = 0 /\ age'[q] <= 1
    <2>1. CASE q = p
      BY <1>1, <1>2, <2>1 DEF HealthInv
    <2>2. CASE q # p
      <3>1. q \in available
        BY <1>2, <1>5, <2>2
      <3> QED
        BY <1>2, <2>2, <3>1 DEF HealthInv, AvailableIsRecent
    <2> QED
      BY <2>1, <2>2
  <1> QED
    BY <1>3, <1>4, <1>5 DEF HealthInv, AvailableIsRecent

\* HealthInv is invariant.
LEMMA HealthInvariant == Spec => []HealthInv
  <1>1. Init => HealthInv
    BY DEF Init, HealthInv, AvailableIsRecent, MaxDown, MaxAge
  <1>2. ASSUME PacketsInv, HealthInv, [Next]_vars PROVE HealthInv'
    <2>1. CASE timer_thread
      BY <1>2, <2>1, TimerHealth
    <2>2. ASSUME NEW pkt \in BagToSet(hand), sp_ask_extinfo_rsp(pkt) PROVE HealthInv'
      BY <1>2, <2>2, AnswerHealth
    <2>3. CASE UNCHANGED health
      BY <1>2, <2>3 DEF health, HealthInv, AvailableIsRecent
    <2> QED
      BY <1>2, <2>1, <2>2, <2>3
      DEF Next, connect, proc_pool_thread, reload, ProxyAnswers, Lose, StatusChanges,
          process, connect_refused, connect_ack, connect_invite, vars
  <1> QED
    BY <1>1, <1>2, PacketsInvariant, PTL DEF Spec

\* Whatever answers are lost, late or handled out of order, an entry that says
\* available was renewed since the last round but one and counts no missed
\* answer.  So the threshold down < 2 (NatServer.h, the guide) and the penalty
\* of pick_proxy never apply: one missed round makes a proxy unavailable.
THEOREM NatServerAvailableIsRecent == Spec => []AvailableIsRecent
  <1>1. HealthInv => AvailableIsRecent
    BY DEF HealthInv
  <1> QED
    BY <1>1, HealthInvariant, PTL

-----------------------------------------------------------------------------
(* The candidates of an offer: FoldLeft over draws and configured proxies.  *)

FillStep(f, s, q, S) ==
    IF S = {} THEN s ELSE AddCandidate(f[S \ {Max(S)}], q[Max(S)])
FillOf(f, s, q, n) == f = [S \in SUBSET (1 .. n) |-> FillStep(f, s, q, S)]

\* FoldLeft adds the candidate with the highest index last.
LEMMA AddedIsFill ==
    ASSUME NEW s, NEW P, NEW q \in Seq(P)
    PROVE  Added(s, q) = (CHOOSE f : FillOf(f, s, q, Len(q)))[1 .. Len(q)]
<1>1. DOMAIN q = 1 .. Len(q)
  OBVIOUS
<1>2. Added(s, q) = (CHOOSE f : f = [S \in SUBSET (DOMAIN q) |-> FillStep(f, s, q, S)])[DOMAIN q]
  BY DEF Added, FoldLeft, MapThenFoldSet, FillStep
<1> QED BY <1>1, <1>2 DEF FillOf

\* A set of indices has a greatest one.
LEMMA MaxFacts ==
    ASSUME NEW n \in Nat, NEW S \in SUBSET (1 .. n), S # {}
    PROVE  /\ Max(S) \in S
           /\ \A y \in S : Max(S) >= y
<1> DEFINE I == {k \in Nat : \A U \in SUBSET (1 .. k) :
                                U # {} => \E x \in U : \A y \in U : x >= y}
<1>1. 0 \in I
  <2>1. \A U \in SUBSET (1 .. 0) : U = {}
    OBVIOUS
  <2> QED BY <2>1
<1>2. ASSUME NEW k \in Nat, k \in I PROVE k + 1 \in I
  <2>1. ASSUME NEW U \in SUBSET (1 .. (k + 1)), U # {} PROVE \E x \in U : \A y \in U : x >= y
    <3>1. CASE k + 1 \in U
      BY <2>1, <3>1
    <3>2. CASE k + 1 \notin U
      <4>1. U \in SUBSET (1 .. k)
        BY <2>1, <3>2
      <4> QED BY <1>2, <2>1, <4>1
    <3> QED BY <3>1, <3>2
  <2> QED BY <2>1
<1>3. n \in I
  <2> HIDE DEF I
  <2> QED BY <1>1, <1>2, Induction
<1>4. \E x \in S : \A y \in S : x >= y
  BY <1>3
<1> QED BY <1>4 DEF Max

\* The greatest index of 1 .. k, and of a set with n + 1 in it.
LEMMA MaxIs ==
    ASSUME NEW n \in Nat, NEW S \in SUBSET (1 .. (n + 1)), n + 1 \in S
    PROVE  Max(S) = n + 1
<1>1. Max(S) \in S /\ Max(S) >= n + 1
  <2>1. n + 1 \in Nat /\ S # {}
    OBVIOUS
  <2> QED BY <2>1, MaxFacts
<1>2. Max(S) \in 1 .. (n + 1)
  BY <1>1
<1> QED BY <1>1, <1>2

\* The fold is defined.
LEMMA FillExists ==
    ASSUME NEW s, NEW q, NEW m \in Nat
    PROVE  \E f : FillOf(f, s, q, m)
<1> DEFINE I == {n \in Nat : \E f : FillOf(f, s, q, n)}
<1>1. 0 \in I
  <2> DEFINE f == [S \in SUBSET (1 .. 0) |-> s]
  <2>1. \A S \in SUBSET (1 .. 0) : S = {}
    OBVIOUS
  <2>2. FillOf(f, s, q, 0)
    BY <2>1 DEF FillOf, FillStep
  <2> QED BY <2>2
<1>2. ASSUME NEW n \in Nat, n \in I PROVE n + 1 \in I
  <2>1. PICK f : FillOf(f, s, q, n)
    BY <1>2
  <2>2. \A S \in SUBSET (1 .. n) : f[S] = FillStep(f, s, q, S)
    BY <2>1 DEF FillOf
  <2> DEFINE g == [S \in SUBSET (1 .. (n + 1)) |->
                      IF n + 1 \in S THEN AddCandidate(f[S \ {n + 1}], q[n + 1]) ELSE f[S]]
  <2>3. ASSUME NEW S \in SUBSET (1 .. (n + 1)) PROVE g[S] = FillStep(g, s, q, S)
    <3>1. CASE n + 1 \in S
      <4>1. Max(S) = n + 1 /\ S # {}
        BY <3>1, MaxIs
      <4>2. S \ {n + 1} \in SUBSET (1 .. (n + 1)) /\ n + 1 \notin S \ {n + 1}
        OBVIOUS
      <4>3. g[S \ {n + 1}] = f[S \ {n + 1}]
        BY <4>2
      <4>4. g[S] = AddCandidate(f[S \ {n + 1}], q[n + 1])
        BY <3>1
      <4> HIDE DEF g
      <4> QED BY <4>1, <4>3, <4>4 DEF FillStep
    <3>2. CASE n + 1 \notin S
      <4>1. S \in SUBSET (1 .. n)
        BY <3>2
      <4>2. g[S] = FillStep(f, s, q, S)
        BY <2>2, <3>2, <4>1
      <4>3. g[S \ {Max(S)}] = f[S \ {Max(S)}]
        BY <3>2
      <4> HIDE DEF g
      <4> QED BY <4>2, <4>3 DEF FillStep
    <3> QED BY <3>1, <3>2
  <2>4. g = [S \in SUBSET (1 .. (n + 1)) |-> g[S]]
    OBVIOUS
  <2> HIDE DEF g
  <2>5. FillOf(g, s, q, n + 1)
    BY <2>3, <2>4 DEF FillOf
  <2> QED BY <2>5
<1>3. Nat \subseteq I
  <2> HIDE DEF I
  <2> QED BY <1>1, <1>2, Induction
<1> QED BY <1>3

\* What the first k of q make of the candidates s, all from the set P.
FillInv(P, t, s, q, k) ==
    /\ t \in Seq(P) /\ IsInjective(t) /\ Len(t) <= CANDS
    /\ Len(s) <= Len(t) /\ \A i \in 1 .. Len(s) : t[i] = s[i]
    /\ Len(t) < CANDS => \A i \in 1 .. k : \E j \in 1 .. Len(t) : t[j] = q[i]

\* One more of them keeps that.
LEMMA FillKept ==
    ASSUME NEW P, NEW s \in Seq(P), NEW q \in Seq(P), NEW k \in Nat, k + 1 <= Len(q),
           NEW t, FillInv(P, t, s, q, k), NEW u, u = AddCandidate(t, q[k + 1])
    PROVE  FillInv(P, u, s, q, k + 1)
<1>0. /\ t \in Seq(P) /\ q[k + 1] \in P /\ Len(t) \in Nat /\ Len(s) \in Nat
      /\ CANDS \in Nat /\ k + 1 \in 1 .. (k + 1)
      /\ \A i \in 1 .. (k + 1) : i \in 1 .. k \/ i = k + 1
  BY BoundAssumption DEF FillInv
<1>1. CASE Len(t) >= CANDS
  BY <1>0, <1>1 DEF FillInv, AddCandidate
<1>2. CASE ~ (Len(t) >= CANDS) /\ Contains(t, q[k + 1])
  <2>1. u = t
    BY <1>2 DEF AddCandidate
  <2>2. \E j \in 1 .. Len(t) : t[j] = q[k + 1]
    BY <1>2 DEF Contains
  <2> QED BY <1>0, <2>1, <2>2 DEF FillInv
<1>3. CASE ~ (Len(t) >= CANDS) /\ ~ Contains(t, q[k + 1])
  <2>1. u = Append(t, q[k + 1])
    BY <1>3 DEF AddCandidate
  <2>2. /\ u \in Seq(P) /\ Len(u) = Len(t) + 1 /\ u[Len(t) + 1] = q[k + 1]
        /\ \A i \in 1 .. Len(t) : u[i] = t[i]
    BY <1>0, <2>1
  <2>3. IsInjective(u)
    <3>1. \A i \in 1 .. Len(t) : t[i] # q[k + 1]
      BY <1>3 DEF Contains
    <3>2. \A i, j \in 1 .. Len(t) : t[i] = t[j] => i = j
      BY <1>0 DEF FillInv, IsInjective
    <3>3. DOMAIN u = 1 .. (Len(t) + 1) /\ \A i \in 1 .. (Len(t) + 1) : i \in 1 .. Len(t) \/ i = Len(t) + 1
      BY <1>0, <2>2
    <3> QED BY <2>2, <3>1, <3>2, <3>3 DEF IsInjective
  <2>4. Len(u) <= CANDS /\ Len(s) <= Len(u)
    BY <1>0, <1>3, <2>2 DEF FillInv
  <2>5. \A i \in 1 .. Len(s) : u[i] = s[i]
    BY <1>0, <2>2 DEF FillInv
  <2>6. ASSUME NEW i \in 1 .. (k + 1) PROVE \E j \in 1 .. Len(u) : u[j] = q[i]
    <3>1. CASE i = k + 1
      <4>1. Len(t) + 1 \in 1 .. Len(u)
        BY <1>0, <2>2
      <4> QED BY <2>2, <3>1, <4>1
    <3>2. CASE i \in 1 .. k
      <4>1. Len(t) < CANDS
        BY <1>0, <1>3
      <4>2. PICK j \in 1 .. Len(t) : t[j] = q[i]
        BY <3>2, <4>1 DEF FillInv
      <4>3. j \in 1 .. Len(u) /\ u[j] = q[i]
        BY <1>0, <2>2, <4>2
      <4> QED BY <4>3
    <3> QED BY <1>0, <3>1, <3>2
  <2> QED BY <2>2, <2>3, <2>4, <2>5, <2>6 DEF FillInv
<1> QED BY <1>1, <1>2, <1>3

\* What a list of candidates is, after any additions.
LEMMA AddedFacts ==
    ASSUME NEW P, NEW s \in Seq(P), IsInjective(s), Len(s) <= CANDS, NEW q \in Seq(P)
    PROVE  FillInv(P, Added(s, q), s, q, Len(q))
<1> DEFINE N == Len(q)
           f == CHOOSE g : FillOf(g, s, q, N)
           I == {k \in Nat : k <= N => FillInv(P, f[1 .. k], s, q, k)}
<1>1. N \in Nat
  OBVIOUS
<1>2. FillOf(f, s, q, N)
  BY <1>1, FillExists
<1>3. Added(s, q) = f[1 .. N]
  BY AddedIsFill
<1> HIDE DEF f, N
<1>4. \A S \in SUBSET (1 .. N) : f[S] = FillStep(f, s, q, S)
  BY <1>2 DEF FillOf
<1>5. 0 \in I
  <2>1. 1 .. 0 = {} /\ {} \in SUBSET (1 .. N)
    OBVIOUS
  <2>2. f[1 .. 0] = s
    BY <1>4, <2>1 DEF FillStep
  <2>3. FillInv(P, s, s, q, 0)
    BY BoundAssumption DEF FillInv
  <2> QED BY <2>2, <2>3
<1>6. ASSUME NEW k \in Nat, k \in I PROVE k + 1 \in I
  <2>1. SUFFICES ASSUME k + 1 <= N PROVE FillInv(P, f[1 .. (k + 1)], s, q, k + 1)
    OBVIOUS
  <2> DEFINE S == 1 .. (k + 1)
  <2>2. S \in SUBSET (1 .. N) /\ S # {} /\ k + 1 \in S /\ S \ {k + 1} = 1 .. k
    <3>1. 1 .. (k + 1) \subseteq 1 .. N /\ k + 1 \in 1 .. (k + 1)
      BY <1>1, <2>1
    <3>2. (1 .. (k + 1)) \ {k + 1} = 1 .. k
      OBVIOUS
    <3> QED BY <3>1, <3>2
  <2>3. Max(S) = k + 1
    BY <2>2, MaxIs
  <2>4. f[S] = AddCandidate(f[1 .. k], q[k + 1])
    <3> HIDE DEF S
    <3> QED BY <1>4, <2>2, <2>3 DEF FillStep
  <2>5. FillInv(P, f[1 .. k], s, q, k)
    BY <1>1, <1>6, <2>1
  <2> QED BY <2>1, <2>4, <2>5, FillKept DEF N
<1>7. N \in I
  <2> HIDE DEF I
  <2> QED BY <1>1, <1>5, <1>6, Induction
<1>8. FillInv(P, f[1 .. N], s, q, N)
  <2>1. N <= N
    BY <1>1
  <2> QED BY <1>7, <2>1
<1> QED BY <1>3, <1>8 DEF N

\* What is drawn: healthy proxies, none twice, at most CANDS.
LEMMA DrawnFacts ==
    ASSUME HealthInv, NEW s \in Drawn
    PROVE  /\ s \in Seq(Proxy) /\ IsInjective(s) /\ Len(s) <= CANDS
           /\ Healthy # {} => Len(s) >= 1 /\ s[1] \in Healthy
<1>1. Healthy \subseteq Proxy
  BY DEF Healthy, HealthInv
<1>2. CASE Healthy = {}
  <2>1. s = <<>>
    BY <1>2 DEF Drawn
  <2> QED BY <1>2, <2>1, BoundAssumption DEF IsInjective
<1>3. CASE Healthy # {}
  <2>1. PICK draws \in [1 .. CANDS -> Healthy] : s = Added(<<>>, draws)
    BY <1>3 DEF Drawn
  <2>2. draws \in Seq(Healthy) /\ Len(draws) = CANDS /\ CANDS \in Nat /\ CANDS >= 1
    BY <2>1, BoundAssumption
  <2>3. /\ <<>> \in Seq(Healthy) /\ IsInjective(<<>>) /\ Len(<<>>) <= CANDS
    BY <2>2 DEF IsInjective
  <2>4. FillInv(Healthy, s, <<>>, draws, CANDS)
    BY <2>1, <2>2, <2>3, AddedFacts
  <2>5. /\ s \in Seq(Healthy) /\ IsInjective(s) /\ Len(s) <= CANDS
        /\ Len(s) < CANDS => \E j \in 1 .. Len(s) : s[j] = draws[1]
    BY <2>2, <2>4 DEF FillInv
  <2>6. Len(s) >= 1
    BY <2>2, <2>5
  <2>7. s[1] \in Healthy
    BY <2>5, <2>6
  <2>8. s \in Seq(Proxy)
    BY <1>1, <2>5
  <2> QED BY <2>5, <2>6, <2>7, <2>8
<1> QED BY <1>2, <1>3

\* An offer is what FillInv says of some draw.
LEMMA OfferFacts ==
    ASSUME HealthInv, proxy_ips \in Configs, NEW out \in pick_proxy
    PROVE  /\ out \in Seq(Proxy) /\ IsInjective(out) /\ Len(out) <= CANDS
           /\ Len(out) < CANDS => Range(proxy_ips) \subseteq Range(out)
           /\ Healthy # {} => Head(out) \in Healthy
<1>1. PICK s \in Drawn : out = Added(s, proxy_ips)
  BY DEF pick_proxy
<1>2. proxy_ips \in Seq(Proxy)
  BY ConfigAssumption
<1>3. /\ s \in Seq(Proxy) /\ IsInjective(s) /\ Len(s) <= CANDS
      /\ Healthy # {} => Len(s) >= 1 /\ s[1] \in Healthy
  BY DrawnFacts
<1>4. FillInv(Proxy, out, s, proxy_ips, Len(proxy_ips))
  BY <1>1, <1>2, <1>3, AddedFacts
<1>5. /\ out \in Seq(Proxy) /\ IsInjective(out) /\ Len(out) <= CANDS
      /\ Len(s) <= Len(out) /\ \A i \in 1 .. Len(s) : out[i] = s[i]
      /\ Len(out) < CANDS => \A i \in 1 .. Len(proxy_ips) : \E j \in 1 .. Len(out) : out[j] = proxy_ips[i]
  BY <1>4 DEF FillInv
<1>6. Len(out) < CANDS => Range(proxy_ips) \subseteq Range(out)
  <2> SUFFICES ASSUME Len(out) < CANDS, NEW p \in Range(proxy_ips) PROVE p \in Range(out)
    OBVIOUS
  <2>1. PICK i \in DOMAIN proxy_ips : p = proxy_ips[i]
    BY DEF Range
  <2>2. DOMAIN proxy_ips = 1 .. Len(proxy_ips) /\ DOMAIN out = 1 .. Len(out)
    BY <1>2, <1>5
  <2>3. PICK j \in 1 .. Len(out) : out[j] = p
    BY <1>5, <2>1, <2>2
  <2> QED BY <2>2, <2>3 DEF Range
<1>7. ASSUME Healthy # {} PROVE Head(out) \in Healthy
  <2>1. Len(s) >= 1 /\ s[1] \in Healthy /\ Len(s) \in Nat /\ Len(out) \in Nat
    BY <1>3, <1>5, <1>7
  <2>2. out[1] = s[1] /\ Len(out) >= 1
    BY <1>5, <2>1
  <2>3. Head(out) = out[1]
    BY <1>5, <2>2
  <2> QED BY <2>1, <2>2, <2>3
<1> QED BY <1>5, <1>6, <1>7

-----------------------------------------------------------------------------
(* The rest of the state *)

RestInv ==
    /\ proxy_ips \in Configs
    /\ IsFiniteSet(DOMAIN hand) /\ BagCardinality(hand) <= Workers
    /\ status \in [Proxy -> {"open", "full", "dead"}]
    /\ asked \subseteq Proxy
    /\ request \in {"none", "sent", "answered", "dropped"}
    /\ relay \in [Clients -> Proxy \cup {None}]
    /\ connects \in 0 .. MaxConnects
    /\ events \in 0 .. MaxEvents

\* The pool never holds more packets than it has workers.
LEMMA StepWorkers ==
    ASSUME PacketsInv, RestInv, [Next]_vars
    PROVE  IsFiniteSet(DOMAIN hand') /\ BagCardinality(hand') <= Workers
<1>0. Workers \in Nat /\ IsABag(hand) /\ IsFiniteSet(DOMAIN hand) /\ BagCardinality(hand) <= Workers
  BY BoundAssumption DEF PacketsInv, RestInv
<1>1. CASE proc_pool_thread
  <2>1. hand' = hand (+) SetToBag({Head(mq)}) /\ BagCardinality(hand) < Workers
    BY <1>1 DEF proc_pool_thread, take
  <2>2. /\ IsFiniteSet(DOMAIN hand') /\ BagCardinality(hand) \in Nat
        /\ BagCardinality(hand') = BagCardinality(hand) + 1
    BY <1>0, <2>1, BagCardinalityStep
  <2> QED BY <1>0, <2>1, <2>2
<1>2. ASSUME NEW pkt, process(pkt)
      PROVE  IsFiniteSet(DOMAIN hand') /\ BagCardinality(hand') <= Workers
  <2> DEFINE b == hand (-) SetToBag({pkt})
  <2>0. BagIn(pkt, hand)
    BY <1>2 DEF process
  <2>1. /\ IsABag(b) /\ IsFiniteSet(DOMAIN b) /\ BagCardinality(hand) \in Nat
        /\ BagCardinality(b) = BagCardinality(hand) - 1
    BY <1>0, <2>0, BagRemove, BagCardinalityStep
  <2>2. hand' = b \/ hand' = b (+) SetToBag({Invite})
    BY <1>2 DEF process, sp_ask_extinfo_rsp, connect_refused, connect_ack, connect_invite
  <2> HIDE DEF b
  <2>3. CASE hand' = b
    BY <1>0, <2>1, <2>3
  <2>4. CASE hand' = b (+) SetToBag({Invite})
    <3>1. IsFiniteSet(DOMAIN hand') /\ BagCardinality(hand') = BagCardinality(b) + 1
      BY <2>1, <2>4, BagCardinalityStep
    <3> QED BY <1>0, <2>1, <3>1
  <2> QED BY <2>2, <2>3, <2>4
<1>3. CASE hand' = hand
  BY <1>0, <1>3
<1> QED
  BY <1>1, <1>2, <1>3
  DEF Next, connect, timer_thread, reload, ProxyAnswers, Lose, StatusChanges, recv_thread,
      vars, queue

\* A client takes its relay from an offer.
LEMMA OfferRelay ==
    ASSUME HealthInv, RestInv, NEW c \in Clients, Offer(c)
    PROVE  /\ relay' \in [Clients -> Proxy \cup {None}]
           /\ events' \in 0 .. MaxEvents
<1>1. CASE Event /\ UNCHANGED relay
  BY <1>1, BoundAssumption DEF Event, RestInv
<1>2. ASSUME NEW out \in pick_proxy, UNCHANGED events,
             relay' = IF relay[c] = None /\ out # <<>> THEN [relay EXCEPT ![c] = Head(out)] ELSE relay
      PROVE  relay' \in [Clients -> Proxy \cup {None}] /\ events' \in 0 .. MaxEvents
  <2>1. out \in Seq(Proxy)
    BY OfferFacts DEF RestInv
  <2>2. out # <<>> => Head(out) \in Proxy
    BY <2>1
  <2> QED BY <1>2, <2>2 DEF RestInv
<1> QED BY <1>1, <1>2 DEF Offer

\* Every step keeps the rest of the types.
LEMMA StepRest ==
    ASSUME PacketsInv, HealthInv, RestInv, [Next]_vars
    PROVE  RestInv'
<1>0. IsFiniteSet(DOMAIN hand') /\ BagCardinality(hand') <= Workers
  BY StepWorkers
<1>1. ASSUME NEW pkt, recv_thread(pkt)
      PROVE  request' \in {"none", "sent", "answered", "dropped"} /\ events' \in 0 .. MaxEvents
  BY <1>1, BoundAssumption DEF recv_thread, Event, RestInv
<1>2. CASE connect
  <2>1. connects' \in 0 .. MaxConnects
    BY <1>2, BoundAssumption DEF connect, RestInv
  <2>2. request' \in {"none", "sent", "answered", "dropped"} /\ events' \in 0 .. MaxEvents
    BY <1>1, <1>2 DEF connect
  <2> QED BY <1>0, <1>2, <2>1, <2>2 DEF connect, RestInv
<1>3. ASSUME NEW p \in Proxy, ProxyAnswers(p) PROVE RestInv'
  <2>1. request' \in {"none", "sent", "answered", "dropped"} /\ events' \in 0 .. MaxEvents
    BY <1>1, <1>3 DEF ProxyAnswers
  <2> QED BY <1>0, <1>3, <2>1 DEF ProxyAnswers, RestInv
<1>4. ASSUME NEW p \in Proxy, Lose(p) PROVE RestInv'
  <2>1. events' \in 0 .. MaxEvents
    BY <1>4, BoundAssumption DEF Lose, Event, RestInv
  <2> QED BY <1>0, <1>4, <2>1 DEF Lose, RestInv
<1>5. ASSUME NEW p \in Proxy, StatusChanges(p) PROVE RestInv'
  <2>1. events' \in 0 .. MaxEvents
    BY <1>5, BoundAssumption DEF StatusChanges, Event, RestInv
  <2>2. status' \in [Proxy -> {"open", "full", "dead"}] /\ asked' \subseteq Proxy
    BY <1>5 DEF StatusChanges, RestInv
  <2> QED BY <1>0, <1>5, <2>1, <2>2 DEF StatusChanges, RestInv
<1>6. CASE proc_pool_thread
  BY <1>0, <1>6 DEF proc_pool_thread, RestInv
<1>7. CASE timer_thread
  <2>1. proxy_ips \in Seq(Proxy)
    BY ConfigAssumption DEF RestInv
  <2>2. asked' \subseteq Proxy
    BY <1>7, <2>1 DEF timer_thread, send_proxy_avail_query, RestInv, Range
  <2> QED BY <1>0, <1>7, <2>2 DEF timer_thread, RestInv
<1>8. CASE reload
  <2>1. events' \in 0 .. MaxEvents
    BY <1>8, BoundAssumption DEF reload, Event, RestInv
  <2> QED BY <1>0, <1>8, <2>1 DEF reload, RestInv
<1>9. ASSUME NEW pkt, sp_ask_extinfo_rsp(pkt) \/ connect_refused(pkt) PROVE RestInv'
  BY <1>0, <1>9 DEF sp_ask_extinfo_rsp, connect_refused, RestInv
<1>10. ASSUME NEW pkt, connect_ack(pkt) \/ connect_invite(pkt) PROVE RestInv'
  <2>1. PICK c \in Clients : Offer(c)
    BY <1>10 DEF connect_ack, connect_invite, Clients
  <2>2. relay' \in [Clients -> Proxy \cup {None}] /\ events' \in 0 .. MaxEvents
    BY <2>1, OfferRelay
  <2> QED BY <1>0, <1>10, <2>2 DEF connect_ack, connect_invite, RestInv
<1>11. CASE UNCHANGED vars
  BY <1>0, <1>11 DEF vars, RestInv
<1> QED
  BY <1>2, <1>3, <1>4, <1>5, <1>6, <1>7, <1>8, <1>9, <1>10, <1>11 DEF Next, process

\* RestInv is invariant.
LEMMA RestInvariant == Spec => []RestInv
<1>1. Init => RestInv
  <2> SUFFICES ASSUME Init PROVE RestInv
    OBVIOUS
  <2>1. hand = EmptyBag
    BY DEF Init
  <2>2. DOMAIN hand = {}
    BY <2>1 DEF EmptyBag, SetToBag
  <2>3. IsABag(hand) /\ IsFiniteSet(DOMAIN hand)
    BY <2>1, <2>2, FS_EmptySet DEF EmptyBag, SetToBag, IsABag
  <2>4. BagCardinality(hand) = 0
    <3>1. PICK g \in [SUBSET DOMAIN hand -> Nat] : SumOf(g, hand) /\ BagCardinality(hand) = g[DOMAIN hand]
      BY <2>3, CardinalityFacts
    <3> QED BY <2>2, <3>1 DEF SumOf, SumStep
  <2> QED BY <2>3, <2>4, OwnAssumption, BoundAssumption DEF Init, RestInv
<1> QED
  BY <1>1, StepRest, PacketsInvariant, HealthInvariant, PTL DEF Spec

\* The state always has its type, for any number of workers and any limit of
\* the queue: mq_ stays within its limit, no more packets are in the hands of
\* the workers than there are workers, and what a client takes for its relay
\* is a proxy.
THEOREM NatServerTypeOK == Spec => []TypeOK
<1>1. PacketsInv /\ HealthInv /\ RestInv => TypeOK
  BY DEF PacketsInv, HealthInv, RestInv, TypeOK
<1> QED
  BY <1>1, PacketsInvariant, HealthInvariant, RestInvariant, PTL

\* For any list of configured proxies, any number of candidates and whatever
\* pick_proxy draws: an offer names no proxy twice, names all configured
\* proxies unless it is full, and begins with a healthy proxy if there is one.
THEOREM NatServerOfferSound == Spec => []OfferSound
<1>1. HealthInv /\ RestInv => OfferSound
  BY OfferFacts DEF RestInv, OfferSound
<1> QED
  BY <1>1, HealthInvariant, RestInvariant, PTL
=============================================================================
