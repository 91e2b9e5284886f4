-------------------------- MODULE AssemblerLemmas ---------------------------
(***************************************************************************)
(* What the proofs about the assembler rest on.  First, what its operators *)
(* make of any input: sums and folds, which are iterations over subsets;   *)
(* the symbol table; the value of an expression; the lines that the parser *)
(* makes of a text; and the sweep that looks for intersections.  Then what *)
(* each kind of line does to the walk of AssemblerInvariant when the first *)
(* pass visits it; a line that is replaced by a pool of literals moves the *)
(* pass by as many lines at once.                                          *)
(***************************************************************************)
EXTENDS AssemblerInvariant, FiniteSetTheorems, TLAPS

-----------------------------------------------------------------------------
(***************************************************************************)
(* Induction.                                                              *)
(***************************************************************************)
\* Over the naturals, with a set in place of a formula.
LEMMA Naturals ==
  ASSUME NEW S, 0 \in S, \A n \in Nat : n \in S => n + 1 \in S
  PROVE  Nat \subseteq S
<1> DEFINE R == OpToRel(<, Nat)
           T == Nat \ S
<1>1. IsWellFoundedOn(R, Nat)
  BY NatLessThanWellFounded
<1>2. SUFFICES ASSUME T # {} PROVE FALSE
  OBVIOUS
<1>3. T \subseteq Nat
  OBVIOUS
<1>4. \A x, y \in Nat : y < x => <<y, x>> \in R
  BY DEF OpToRel
<1>5. \E x \in T : \A y \in T : ~(<<y, x>> \in R)
  <2> HIDE DEF R, T
  <2> QED  BY <1>1, <1>2, <1>3, WFMin
<1>6. PICK x \in T : \A y \in T : ~(<<y, x>> \in R)
  BY <1>5
<1>7. x # 0 /\ x \in Nat
  OBVIOUS
<1>8. x - 1 \in Nat /\ x - 1 < x /\ x - 1 + 1 = x
  BY <1>7
<1>9. x - 1 \notin T
  BY <1>4, <1>6, <1>7, <1>8
<1> QED  BY <1>6, <1>8, <1>9

\* c chooses an element of every subset.
Chooses(c, D) == \A s \in SUBSET D : s # {} => c[s] \in s

\* h iterates G over the subsets, from the last element chosen to the first.
Iterates(h, D, c, seed, G) ==
  \A s \in SUBSET D : h[s] = IF s = {} THEN seed ELSE G[<<c[s], h[s \ {c[s]}]>>]

\* A subset of a finite set without one of its elements.
LEMMA Smaller ==
  ASSUME NEW D, IsFiniteSet(D), NEW s \in SUBSET D
  PROVE  /\ IsFiniteSet(s) /\ Cardinality(s) \in Nat /\ Cardinality(s) <= Cardinality(D)
         /\ Cardinality(s) = 0 <=> s = {}
         /\ \A x \in s : /\ s \ {x} \in SUBSET D
                         /\ Cardinality(s \ {x}) = Cardinality(s) - 1
<1>1. IsFiniteSet(s) /\ Cardinality(s) <= Cardinality(D)
  BY FS_Subset
<1>2. Cardinality(s) \in Nat /\ (Cardinality(s) = 0 <=> s = {})
  BY <1>1, FS_CardinalityType, FS_EmptySet
<1>3. \A x \in s : Cardinality(s \ {x}) = Cardinality(s) - 1
  BY <1>1, FS_RemoveElement
<1> QED  BY <1>1, <1>2, <1>3

\* Over the subsets of a finite set, which lose a chosen element one after the other.
LEMMA Subsets ==
  ASSUME NEW D, IsFiniteSet(D), NEW c, Chooses(c, D),
         NEW P, {} \in P, \A s \in SUBSET D : s # {} /\ s \ {c[s]} \in P => s \in P
  PROVE  SUBSET D \subseteq P
<1> USE DEF Chooses
<1> DEFINE Below(n) == \A s \in SUBSET D : Cardinality(s) <= n => s \in P
           S == {n \in Nat : Below(n)}
<1>3. Below(0)
  <2> SUFFICES ASSUME NEW s \in SUBSET D, Cardinality(s) <= 0 PROVE s \in P
    OBVIOUS
  <2>1. Cardinality(s) \in Nat /\ (Cardinality(s) = 0 <=> s = {})
    BY Smaller
  <2> QED  BY <2>1
<1>4. ASSUME NEW n \in Nat, Below(n) PROVE Below(n + 1)
  <2> SUFFICES ASSUME NEW s \in SUBSET D, Cardinality(s) <= n + 1, s # {} PROVE s \in P
    OBVIOUS
  <2>1. Cardinality(s) \in Nat /\ s \ {c[s]} \in SUBSET D
        /\ Cardinality(s \ {c[s]}) = Cardinality(s) - 1
    BY Smaller
  <2>2. Cardinality(s \ {c[s]}) <= n
    BY <2>1
  <2>3. s \ {c[s]} \in P
    BY <1>4, <2>1, <2>2
  <2> QED  BY <2>3
<1> HIDE DEF Below
<1>5. Nat \subseteq S
  <2>1. 0 \in S /\ \A n \in Nat : n \in S => n + 1 \in S
    BY <1>3, <1>4
  <2> HIDE DEF S
  <2> QED  BY <2>1, Naturals
<1>6. Below(Cardinality(D))
  <2>1. Cardinality(D) \in Nat
    BY FS_CardinalityType
  <2> QED  BY <1>5, <2>1
<1> QED
  <2> SUFFICES ASSUME NEW s \in SUBSET D PROVE s \in P
    OBVIOUS
  <2>1. Cardinality(s) <= Cardinality(D)
    BY Smaller
  <2> QED  BY <1>6, <2>1 DEF Below

\* What a fold iterates exists, and is in a set of values that each step keeps to.
LEMMA Iteration ==
  ASSUME NEW D, IsFiniteSet(D), NEW c, Chooses(c, D),
         NEW V, NEW seed \in V, NEW G \in [D \X V -> V]
  PROVE  \E h \in [SUBSET D -> V] : Iterates(h, D, c, seed, G)
<1> USE DEF Chooses
<1> DEFINE Step(h, s) == IF s = {} THEN seed ELSE G[<<c[s], h[s \ {c[s]}]>>]
           Is(h, n) == \A s \in SUBSET D : Cardinality(s) <= n => h[s] = Step(h, s)
           Good(n) == \E h \in [SUBSET D -> V] : Is(h, n)
           S == {n \in Nat : Good(n)}
<1>1. \E h \in [SUBSET D -> V] : Is(h, 0)
  <2> DEFINE h == [s \in SUBSET D |-> seed]
  <2>1. h \in [SUBSET D -> V]
    OBVIOUS
  <2>2. ASSUME NEW s \in SUBSET D, Cardinality(s) <= 0 PROVE h[s] = Step(h, s)
    <3>1. s = {}
      BY <2>2, Smaller
    <3> QED  BY <3>1
  <2> HIDE DEF h, Step
  <2> QED  BY <2>1, <2>2
<1>2. ASSUME NEW n \in Nat, NEW h \in [SUBSET D -> V], Is(h, n)
      PROVE  \E k \in [SUBSET D -> V] : Is(k, n + 1)
  <2> DEFINE k == [s \in SUBSET D |-> Step(h, s)]
  <2>1. ASSUME NEW s \in SUBSET D, s # {} PROVE c[s] \in D /\ s \ {c[s]} \in SUBSET D
    BY <2>1
  <2>2. ASSUME NEW s \in SUBSET D PROVE Step(h, s) \in V
    <3>1. CASE s # {}
      <4>1. h[s \ {c[s]}] \in V
        BY <2>1, <3>1
      <4> QED  BY <2>1, <3>1, <4>1
    <3> QED  BY <3>1
  <2>3. k \in [SUBSET D -> V]
    <3> HIDE DEF Step
    <3> QED  BY <2>2
  <2>4. ASSUME NEW s \in SUBSET D, Cardinality(s) <= n + 1 PROVE k[s] = Step(k, s)
    <3>1. CASE s # {}
      <4>1. Cardinality(s) \in Nat /\ s \ {c[s]} \in SUBSET D
            /\ Cardinality(s \ {c[s]}) = Cardinality(s) - 1
        BY <3>1, Smaller
      <4>2. Cardinality(s \ {c[s]}) <= n
        BY <2>4, <4>1
      <4>3. h[s \ {c[s]}] = Step(h, s \ {c[s]})
        BY <1>2, <4>1, <4>2
      <4>4. k[s \ {c[s]}] = h[s \ {c[s]}]
        BY <4>1, <4>3
      <4> HIDE DEF k
      <4>5. k[s] = Step(h, s)
        BY DEF k
      <4> QED  BY <3>1, <4>4, <4>5
    <3> QED  BY <3>1
  <2> HIDE DEF k, Step
  <2> QED  BY <2>3, <2>4
<1> HIDE DEF Is
<1>3. Nat \subseteq S
  <2>1. Good(0) /\ \A n \in Nat : Good(n) => Good(n + 1)
    BY <1>1, <1>2
  <2> HIDE DEF Good
  <2>2. 0 \in S /\ \A n \in Nat : n \in S => n + 1 \in S
    BY <2>1
  <2> HIDE DEF S
  <2> QED  BY <2>2, Naturals
<1>4. PICK h \in [SUBSET D -> V] : Is(h, Cardinality(D))
  <2>1. Cardinality(D) \in Nat
    BY FS_CardinalityType
  <2> QED  BY <1>3, <2>1
<1>5. ASSUME NEW s \in SUBSET D PROVE h[s] = Step(h, s)
  <2>1. Cardinality(s) <= Cardinality(D)
    BY Smaller
  <2> HIDE DEF Step
  <2> QED  BY <1>4, <2>1 DEF Is
<1> QED  BY <1>5 DEF Iterates

-----------------------------------------------------------------------------
(***************************************************************************)
(* Sums.                                                                   *)
(***************************************************************************)
\* What SumFunction iterates over the subsets of the domain.
SumOf(fun) ==
  CHOOSE iter : iter = [s \in SUBSET DOMAIN fun |->
    IF s = {} THEN 0
    ELSE fun[CHOOSE x \in s : TRUE] + iter[s \ {CHOOSE x \in s : TRUE}]]

\* The operator of FiniteSetsExt is such an iteration.
LEMMA SumFunctionIs == ASSUME NEW fun PROVE SumFunction(fun) = SumOf(fun)[DOMAIN fun]
  BY Zenon DEF SumFunction, SumFunctionOnSet, FoldFunctionOnSet, MapThenFoldSet, SumOf

\* The iteration exists, and its values are integers.
LEMMA SumIterates ==
  ASSUME NEW fun, IsFiniteSet(DOMAIN fun), \A x \in DOMAIN fun : fun[x] \in Int
  PROVE  /\ SumOf(fun) \in [SUBSET DOMAIN fun -> Int]
         /\ \A s \in SUBSET DOMAIN fun :
              SumOf(fun)[s] = IF s = {} THEN 0
                              ELSE fun[CHOOSE x \in s : TRUE] + SumOf(fun)[s \ {CHOOSE x \in s : TRUE}]
<1> DEFINE D == DOMAIN fun
           c == [s \in SUBSET D |-> CHOOSE x \in s : TRUE]
           G == [p \in D \X Int |-> fun[p[1]] + p[2]]
           Step(h, s) == IF s = {} THEN 0
                         ELSE fun[CHOOSE x \in s : TRUE] + h[s \ {CHOOSE x \in s : TRUE}]
<1>1. Chooses(c, D)
  BY DEF Chooses
<1>2. G \in [D \X Int -> Int]
  OBVIOUS
<1>3. PICK h \in [SUBSET D -> Int] : Iterates(h, D, c, 0, G)
  <2>1. IsFiniteSet(D) /\ 0 \in Int
    OBVIOUS
  <2> HIDE DEF c, G, D
  <2> QED  BY <1>1, <1>2, <2>1, Iteration
<1>4. ASSUME NEW s \in SUBSET D PROVE h[s] = Step(h, s)
  <2>1. CASE s # {}
    <3>1. c[s] \in D /\ s \ {c[s]} \in SUBSET D /\ c[s] = CHOOSE x \in s : TRUE
      BY <1>1, <2>1 DEF Chooses
    <3>2. h[s \ {c[s]}] \in Int
      BY <3>1
    <3>3. \A x \in D, v \in Int : G[<<x, v>>] = fun[x] + v
      OBVIOUS
    <3> HIDE DEF c, G
    <3> QED  BY <1>3, <2>1, <3>1, <3>2, <3>3 DEF Iterates
  <2> QED  BY <1>3, <2>1 DEF Iterates
<1>5. h = [s \in SUBSET D |-> Step(h, s)]
  <2> HIDE DEF Step
  <2> QED  BY <1>4
<1>6. SumOf(fun) = [s \in SUBSET D |-> Step(SumOf(fun), s)]
  BY <1>5, Zenon DEF SumOf
<1>7. \A s \in SUBSET D : SumOf(fun)[s] = Step(SumOf(fun), s)
  <2> HIDE DEF Step
  <2> QED  BY <1>6
<1>8. SUBSET D \subseteq {s \in SUBSET D : SumOf(fun)[s] = h[s]}
  <2> DEFINE P == {s \in SUBSET D : SumOf(fun)[s] = h[s]}
  <2>1. {} \in P
    BY <1>4, <1>7
  <2>2. ASSUME NEW s \in SUBSET D, s # {}, s \ {c[s]} \in P PROVE s \in P
    <3>1. c[s] = CHOOSE x \in s : TRUE
      OBVIOUS
    <3>2. SumOf(fun)[s \ {c[s]}] = h[s \ {c[s]}]
      BY <2>2
    <3>3. SumOf(fun)[s] = fun[c[s]] + SumOf(fun)[s \ {c[s]}]
      BY <1>7, <2>2, <3>1
    <3>4. h[s] = fun[c[s]] + h[s \ {c[s]}]
      BY <1>4, <2>2, <3>1
    <3> QED  BY <3>2, <3>3, <3>4
  <2>3. IsFiniteSet(D)
    OBVIOUS
  <2>4. SUBSET D \subseteq P
    <3> HIDE DEF P, c, D
    <3> QED  BY <1>1, <2>1, <2>2, <2>3, Subsets
  <2> QED  BY <2>4
<1>9. SumOf(fun) \in [SUBSET D -> Int]
  <2>1. \A s \in SUBSET D : SumOf(fun)[s] \in Int
    BY <1>8
  <2>2. SumOf(fun) = [s \in SUBSET D |-> SumOf(fun)[s]]
    BY <1>6
  <2> QED  BY <2>1, <2>2
<1> QED  BY <1>7, <1>9

\* A sum of integers is one.
LEMMA SumType ==
  ASSUME NEW fun, IsFiniteSet(DOMAIN fun), \A x \in DOMAIN fun : fun[x] \in Int
  PROVE  SumFunction(fun) \in Int
  BY SumFunctionIs, SumIterates

\* The empty sum.
LEMMA SumEmpty == ASSUME NEW fun, DOMAIN fun = {} PROVE SumFunction(fun) = 0
<1>1. IsFiniteSet(DOMAIN fun) /\ \A x \in DOMAIN fun : fun[x] \in Int
  BY FS_EmptySet
<1>2. SumOf(fun)[{}] = 0
  BY <1>1, SumIterates
<1> QED  BY <1>2, SumFunctionIs

\* The order does not matter.
LEMMA SumAny ==
  ASSUME NEW fun, IsFiniteSet(DOMAIN fun), \A x \in DOMAIN fun : fun[x] \in Int,
         NEW s \in SUBSET DOMAIN fun, NEW x \in s
  PROVE  SumOf(fun)[s] = fun[x] + SumOf(fun)[s \ {x}]
<1> DEFINE D == DOMAIN fun
           h == SumOf(fun)
           Below(n) == \A t \in SUBSET D : Cardinality(t) <= n =>
                         \A y \in t : h[t] = fun[y] + h[t \ {y}]
           S == {n \in Nat : Below(n)}
<1>1. \A t \in SUBSET D : /\ h[t] \in Int
                          /\ t # {} => h[t] = fun[CHOOSE y \in t : TRUE] + h[t \ {CHOOSE y \in t : TRUE}]
  BY SumIterates
<1>2. Below(0)
  <2> SUFFICES ASSUME NEW t \in SUBSET D, Cardinality(t) <= 0, NEW y \in t PROVE FALSE
    OBVIOUS
  <2>1. t = {}
    BY Smaller
  <2> QED  BY <2>1
<1>3. ASSUME NEW n \in Nat, Below(n) PROVE Below(n + 1)
  <2> SUFFICES ASSUME NEW t \in SUBSET D, Cardinality(t) <= n + 1, NEW y \in t
               PROVE  h[t] = fun[y] + h[t \ {y}]
    OBVIOUS
  <2>1. PICK z : z = CHOOSE e \in t : TRUE
    OBVIOUS
  <2>2. z \in t /\ h[t] = fun[z] + h[t \ {z}]
    BY <1>1, <2>1
  <2>3. CASE y = z
    BY <2>2, <2>3
  <2>4. CASE y # z
    <3>1. /\ t \ {z} \in SUBSET D /\ Cardinality(t \ {z}) = Cardinality(t) - 1
          /\ t \ {y} \in SUBSET D /\ Cardinality(t \ {y}) = Cardinality(t) - 1
          /\ Cardinality(t) \in Nat
      BY <2>2, Smaller
    <3>2. Cardinality(t \ {z}) <= n /\ Cardinality(t \ {y}) <= n
      BY <3>1
    <3>3. h[t \ {z}] = fun[y] + h[(t \ {z}) \ {y}]
      BY <1>3, <2>4, <3>1, <3>2
    <3>4. h[t \ {y}] = fun[z] + h[(t \ {y}) \ {z}]
      BY <1>3, <2>2, <2>4, <3>1, <3>2
    <3>5. (t \ {z}) \ {y} = (t \ {y}) \ {z} /\ (t \ {z}) \ {y} \in SUBSET D
      OBVIOUS
    <3>6. /\ fun[y] \in Int /\ fun[z] \in Int /\ h[(t \ {z}) \ {y}] \in Int
      BY <1>1, <2>2, <3>5
    <3>7. PICK a \in Int, b \in Int, r \in Int :
            a = fun[y] /\ b = fun[z] /\ r = h[(t \ {z}) \ {y}]
      BY <3>6
    <3>8. h[t \ {z}] = a + r /\ h[t \ {y}] = b + r
      BY <3>3, <3>4, <3>5, <3>7
    <3>9. h[t] = b + (a + r) /\ fun[y] + h[t \ {y}] = a + (b + r)
      BY <2>2, <3>7, <3>8
    <3>10. b + (a + r) = a + (b + r)
      BY <3>7
    <3> QED  BY <3>9, <3>10
  <2> QED  BY <2>3, <2>4
<1> HIDE DEF Below
<1>4. Nat \subseteq S
  <2>1. 0 \in S /\ \A n \in Nat : n \in S => n + 1 \in S
    BY <1>2, <1>3
  <2> HIDE DEF S
  <2> QED  BY <2>1, Naturals
<1>5. Below(Cardinality(s)) /\ Cardinality(s) <= Cardinality(s)
  <2>1. Cardinality(s) \in Nat
    BY Smaller
  <2> QED  BY <1>4, <2>1
<1> QED  BY <1>5 DEF Below

\* One more summand.
LEMMA SumNext ==
  ASSUME NEW E, IsFiniteSet(E), NEW x, x \notin E, NEW fun, DOMAIN fun = E \cup {x},
         \A y \in DOMAIN fun : fun[y] \in Int
  PROVE  SumFunction(fun) = SumFunction([y \in E |-> fun[y]]) + fun[x]
<1> DEFINE g == [y \in E |-> fun[y]]
           c == [s \in SUBSET E |-> CHOOSE y \in s : TRUE]
           P == {s \in SUBSET E : SumOf(g)[s] = SumOf(fun)[s]}
<1>1. IsFiniteSet(DOMAIN fun)
  BY FS_AddElement
<1>2. DOMAIN g = E /\ \A y \in DOMAIN g : g[y] \in Int
  OBVIOUS
<1>3. Chooses(c, E)
  BY DEF Chooses
<1>4. /\ \A s \in SUBSET DOMAIN fun :
           SumOf(fun)[s] = IF s = {} THEN 0
                           ELSE fun[CHOOSE y \in s : TRUE] + SumOf(fun)[s \ {CHOOSE y \in s : TRUE}]
      /\ SumOf(fun) \in [SUBSET DOMAIN fun -> Int]
  BY <1>1, SumIterates
<1>5. \A s \in SUBSET E :
        SumOf(g)[s] = IF s = {} THEN 0
                      ELSE g[CHOOSE y \in s : TRUE] + SumOf(g)[s \ {CHOOSE y \in s : TRUE}]
  <2> HIDE DEF g
  <2> QED  BY <1>2, SumIterates
<1>6. {} \in P
  BY <1>4, <1>5
<1>7. ASSUME NEW s \in SUBSET E, s # {}, s \ {c[s]} \in P PROVE s \in P
  <2>1. c[s] = (CHOOSE y \in s : TRUE) /\ c[s] \in E /\ s \in SUBSET DOMAIN fun
    BY <1>3, <1>7 DEF Chooses
  <2>2. SumOf(g)[s \ {c[s]}] = SumOf(fun)[s \ {c[s]}]
    BY <1>7
  <2>3. SumOf(fun)[s] = fun[c[s]] + SumOf(fun)[s \ {c[s]}]
    BY <1>4, <1>7, <2>1
  <2>4. SumOf(g)[s] = g[c[s]] + SumOf(g)[s \ {c[s]}]
    BY <1>5, <1>7, <2>1
  <2>5. g[c[s]] = fun[c[s]]
    BY <2>1
  <2> QED  BY <2>2, <2>3, <2>4, <2>5
<1>8. SUBSET E \subseteq P
  <2> HIDE DEF P, c
  <2> QED  BY <1>3, <1>6, <1>7, Subsets
<1>9. SumOf(g)[E] = SumOf(fun)[E]
  BY <1>8
<1>10. SumOf(fun)[E \cup {x}] = fun[x] + SumOf(fun)[(E \cup {x}) \ {x}]
  BY <1>1, SumAny
<1>11. (E \cup {x}) \ {x} = E /\ fun[x] \in Int /\ SumOf(fun)[E] \in Int
  BY <1>4
<1>12. SumFunction(fun) = SumOf(fun)[E \cup {x}] /\ SumFunction(g) = SumOf(g)[E]
  <2> HIDE DEF g
  <2> QED  BY <1>2, SumFunctionIs
<1> HIDE DEF g
<1>13. SumFunction(fun) = fun[x] + SumFunction(g) /\ SumFunction(g) \in Int
  BY <1>9, <1>10, <1>11, <1>12
<1>14. SumFunction(fun) = SumFunction(g) + fun[x]
  BY <1>11, <1>13
<1> QED  BY <1>14 DEF g

-----------------------------------------------------------------------------
(***************************************************************************)
(* Folds over a sequence from the left.  FoldLeft takes the last element   *)
(* of the sequence off first.                                              *)
(***************************************************************************)
\* A set of positions has a last one.
LEMMA MaxIn == ASSUME NEW n \in Nat, NEW s \in SUBSET (1 .. n), s # {} PROVE Max(s) \in s
<1> DEFINE HasMax(m) == \A t \in SUBSET (1 .. m) : t # {} => \E x \in t : \A y \in t : x >= y
           S == {m \in Nat : HasMax(m)}
<1>1. HasMax(0)
  <2>1. \A t \in SUBSET (1 .. 0) : t = {}
    BY SMT
  <2> QED  BY <2>1
<1>2. ASSUME NEW m \in Nat, HasMax(m) PROVE HasMax(m + 1)
  <2> SUFFICES ASSUME NEW t \in SUBSET (1 .. m + 1), t # {} PROVE \E x \in t : \A y \in t : x >= y
    OBVIOUS
  <2>1. CASE m + 1 \in t
    BY <2>1
  <2>2. CASE m + 1 \notin t
    <3>1. t \in SUBSET (1 .. m)
      BY <2>2
    <3> QED  BY <1>2, <3>1
  <2> QED  BY <2>1, <2>2
<1> HIDE DEF HasMax
<1>3. Nat \subseteq S
  <2>1. 0 \in S /\ \A m \in Nat : m \in S => m + 1 \in S
    BY <1>1, <1>2
  <2> HIDE DEF S
  <2> QED  BY <2>1, Naturals
<1>4. \E x \in s : \A y \in s : x >= y
  BY <1>3 DEF HasMax
<1> QED  BY <1>4 DEF Max

\* h iterates G from the left.
FromLeft(h, n, seed, G) ==
  /\ h[{}] = seed
  /\ \A s \in SUBSET (1 .. n) : s # {} => h[s] = G[<<Max(s), h[s \ {Max(s)}]>>]

\* What a fold from the left iterates exists.
LEMMA FromLeftExists ==
  ASSUME NEW n \in Nat, NEW V, NEW seed \in V, NEW G \in [(1 .. n) \X V -> V]
  PROVE  \E h \in [SUBSET (1 .. n) -> V] : FromLeft(h, n, seed, G)
<1> DEFINE D == 1 .. n
           c == [s \in SUBSET D |-> Max(s)]
<1>1. Chooses(c, D) /\ IsFiniteSet(D)
  <2>1. IsFiniteSet(D)
    BY 1 \in Int, n \in Int, FS_Interval
  <2>2. \A s \in SUBSET D : s # {} => Max(s) \in s
    BY MaxIn
  <2> HIDE DEF D
  <2> QED  BY <2>1, <2>2 DEF Chooses
<1>2. PICK h \in [SUBSET D -> V] : Iterates(h, D, c, seed, G)
  <2> HIDE DEF c, D
  <2>1. G \in [D \X V -> V]
    BY DEF D
  <2> QED  BY <1>1, <2>1, Iteration
<1>3. h[{}] = seed
  BY <1>2 DEF Iterates
<1>4. ASSUME NEW s \in SUBSET D, s # {} PROVE h[s] = G[<<Max(s), h[s \ {Max(s)}]>>]
  <2>1. c[s] = Max(s)
    OBVIOUS
  <2> HIDE DEF c
  <2> QED  BY <1>2, <1>4, <2>1 DEF Iterates
<1> QED  BY <1>2, <1>3, <1>4 DEF FromLeft

\* h iterates G from the left as long as the values are in V.
Within(h, n, V, seed, G) ==
  /\ h[{}] = seed
  /\ \A s \in SUBSET (1 .. n) : s # {} /\ h[s \ {Max(s)}] \in V
                                  => h[s] = G[<<Max(s), h[s \ {Max(s)}]>>]

\* A fold from the left keeps to a set of values that each step keeps to.
LEMMA FromLeftType ==
  ASSUME NEW n \in Nat, NEW V, NEW seed \in V, NEW G \in [(1 .. n) \X V -> V],
         NEW h, Within(h, n, V, seed, G)
  PROVE  h[1 .. n] \in V
<1> USE DEF Within
<1> DEFINE D == 1 .. n
           c == [s \in SUBSET D |-> Max(s)]
           P == {s \in SUBSET D : h[s] \in V}
<1>1. Chooses(c, D) /\ IsFiniteSet(D)
  <2>1. IsFiniteSet(D)
    BY 1 \in Int, n \in Int, FS_Interval
  <2>2. \A s \in SUBSET D : s # {} => Max(s) \in s
    BY MaxIn
  <2> HIDE DEF D
  <2> QED  BY <2>1, <2>2 DEF Chooses
<1>2. {} \in P
  OBVIOUS
<1>3. ASSUME NEW s \in SUBSET D, s # {}, s \ {c[s]} \in P PROVE s \in P
  <2>1. c[s] = Max(s) /\ Max(s) \in D
    BY <1>3, MaxIn
  <2>2. h[s \ {Max(s)}] \in V
    BY <1>3, <2>1
  <2>3. h[s] = G[<<Max(s), h[s \ {Max(s)}]>>]
    BY <1>3, <2>2
  <2>4. h[s] \in V
    BY <2>1, <2>2, <2>3
  <2> QED  BY <2>4
<1>4. SUBSET D \subseteq P
  <2> HIDE DEF P, c, D
  <2> QED  BY <1>1, <1>2, <1>3, Subsets
<1> QED  BY <1>4

-----------------------------------------------------------------------------
(***************************************************************************)
(* The symbol table.                                                       *)
(***************************************************************************)
\* A table is a function from names to entries.
LEMMA TableIs ==
  ASSUME NEW table
  PROVE  table \in Table <=>
           /\ DOMAIN table \subseteq STRING
           /\ table = [name \in DOMAIN table |-> table[name]]
           /\ \A name \in DOMAIN table : table[name] \in Entry
<1>1. ASSUME table \in Table
      PROVE  /\ DOMAIN table \subseteq STRING
             /\ table = [name \in DOMAIN table |-> table[name]]
             /\ \A name \in DOMAIN table : table[name] \in Entry
  <2>1. PICK names \in SUBSET STRING : table \in [names -> Entry]
    BY <1>1 DEF Table
  <2> QED  BY <2>1
<1>2. ASSUME /\ DOMAIN table \subseteq STRING
             /\ table = [name \in DOMAIN table |-> table[name]]
             /\ \A name \in DOMAIN table : table[name] \in Entry
      PROVE  table \in Table
  <2>1. table \in [DOMAIN table -> Entry]
    BY <1>2
  <2> QED  BY <1>2, <2>1 DEF Table
<1> QED  BY <1>1, <1>2

\* A new entry stands for nothing.
LEMMA NewEntryType == NewEntry \in Entry /\ IsSound(NewEntry) /\ ~NewEntry.defined
  BY DEF NewEntry, Entry, IsSound

\* What is looked up is an entry, a new one if the name is not there.
LEMMA FoundType ==
  ASSUME NEW table \in Table, NEW name
  PROVE  /\ FindOrCreateNew(table, name) \in Entry
         /\ IsTable(table) => IsSound(FindOrCreateNew(table, name))
  BY TableIs, NewEntryType DEF FindOrCreateNew, IsTable

\* One entry is put into a table.
LEMMA WithEntryType ==
  ASSUME NEW table \in Table, NEW name \in STRING, NEW entry \in Entry
  PROVE  /\ WithEntry(table, name, entry) \in Table
         /\ DOMAIN WithEntry(table, name, entry) = DOMAIN table \cup {name}
         /\ WithEntry(table, name, entry)[name] = entry
         /\ \A n \in DOMAIN table : n # name => WithEntry(table, name, entry)[n] = table[n]
<1> DEFINE w == WithEntry(table, name, entry)
<1>1. /\ DOMAIN w = DOMAIN table \cup {name} /\ w[name] = entry
      /\ \A n \in DOMAIN table : n # name => w[n] = table[n]
      /\ w = [n \in DOMAIN w |-> w[n]]
  BY DEF WithEntry
<1>2. /\ DOMAIN table \subseteq STRING
      /\ \A n \in DOMAIN table : table[n] \in Entry
  BY TableIs
<1>3. \A n \in DOMAIN w : w[n] \in Entry
  BY <1>1, <1>2
<1> HIDE DEF w
<1>4. w \in Table
  BY <1>1, <1>2, <1>3, TableIs
<1> QED  BY <1>1, <1>4 DEF w

\* A later table after one more that keeps it.
LEMMA KeepsOn ==
  ASSUME NEW table, NEW later, NEW last, Keeps(table, later), Keeps(later, last)
  PROVE  Keeps(table, last)
<1>1. DOMAIN table \subseteq DOMAIN last
  BY DEF Keeps
<1>2. ASSUME NEW name \in DOMAIN last PROVE Stays(FindOrCreateNew(table, name), last[name])
  <2>1. Stays(FindOrCreateNew(later, name), last[name])
    BY DEF Keeps
  <2>2. Stays(FindOrCreateNew(table, name), FindOrCreateNew(later, name))
    <3>1. CASE name \in DOMAIN later
      BY <3>1 DEF Keeps, FindOrCreateNew
    <3>2. CASE name \notin DOMAIN later
      BY <3>2 DEF Keeps, FindOrCreateNew, Stays
    <3> QED  BY <3>1, <3>2
  <2> QED  BY <2>1, <2>2 DEF Stays
<1> QED  BY <1>1, <1>2 DEF Keeps

LEMMA KeepsItself ==
  ASSUME NEW table PROVE Keeps(table, table)
  BY DEF Keeps, Stays, FindOrCreateNew

\* One entry that stays is replaced.
LEMMA KeepsWithEntry ==
  ASSUME NEW table, IsTable(table), NEW name \in STRING, NEW entry \in Entry, IsSound(entry),
         Stays(FindOrCreateNew(table, name), entry)
  PROVE  IsTable(WithEntry(table, name, entry)) /\ Keeps(table, WithEntry(table, name, entry))
<1> DEFINE w == WithEntry(table, name, entry)
<1>1. table \in Table /\ \A n \in DOMAIN table : IsSound(table[n])
  BY DEF IsTable
<1>2. /\ w \in Table /\ DOMAIN w = DOMAIN table \cup {name} /\ w[name] = entry
      /\ \A n \in DOMAIN table : n # name => w[n] = table[n]
  BY <1>1, WithEntryType
<1> HIDE DEF w
<1>3. IsTable(w)
  BY <1>1, <1>2 DEF IsTable
<1>4. Keeps(table, w)
  BY <1>2 DEF Keeps, FindOrCreateNew, Stays
<1> QED  BY <1>3, <1>4 DEF w

\* EXTREF of one symbol defines none.
LEMMA ImportKeeps ==
  ASSUME NEW table, IsTable(table), NEW name \in STRING, CanImport(table, name)
  PROVE  IsTable(ImportSymbol(table, name)) /\ Keeps(table, ImportSymbol(table, name))
<1> DEFINE found == FindOrCreateNew(table, name)
           entry == [found EXCEPT !.type = "EXTERNAL", !.relative = TRUE]
<1>1. found \in Entry /\ IsSound(found) /\ found.type # "INTERNAL"
  BY FoundType DEF IsTable, CanImport
<1>2. entry \in Entry /\ IsSound(entry) /\ Stays(found, entry)
  <2> HIDE DEF found
  <2> QED  BY <1>1 DEF Entry, IsSound, Stays
<1> HIDE DEF entry
<1>3. IsTable(WithEntry(table, name, entry)) /\ Keeps(table, WithEntry(table, name, entry))
  BY <1>2, KeepsWithEntry
<1> QED  BY <1>3 DEF ImportSymbol, entry

LEMMA ImportType ==
  ASSUME NEW table \in Table, NEW name \in STRING
  PROVE  ImportSymbol(table, name) \in Table
<1> DEFINE found == FindOrCreateNew(table, name)
           entry == [found EXCEPT !.type = "EXTERNAL", !.relative = TRUE]
<1>1. found \in Entry
  BY FoundType
<1>2. entry \in Entry
  <2> HIDE DEF found
  <2> QED  BY <1>1 DEF Entry
<1> HIDE DEF entry
<1> QED  BY <1>2, WithEntryType DEF ImportSymbol, entry

\* EXTDEF of one symbol defines none.
LEMMA ExportKeeps ==
  ASSUME NEW table, IsTable(table), NEW name \in STRING, CanExport(table, name)
  PROVE  IsTable(ExportSymbol(table, name)) /\ Keeps(table, ExportSymbol(table, name))
<1> DEFINE found == FindOrCreateNew(table, name)
           entry == [found EXCEPT !.type = "INTERNAL", !.relative = @ \/ found.type = "UNKNOWN",
                      !.exported = TRUE, !.referenced = @ \/ ~found.exported]
<1>1. found \in Entry /\ IsSound(found) /\ found.type # "EXTERNAL"
  BY FoundType DEF IsTable, CanExport
<1>2. entry \in Entry /\ IsSound(entry) /\ Stays(found, entry)
  <2> HIDE DEF found
  <2> QED  BY <1>1 DEF Entry, IsSound, Stays
<1> HIDE DEF entry
<1>3. IsTable(WithEntry(table, name, entry)) /\ Keeps(table, WithEntry(table, name, entry))
  BY <1>2, KeepsWithEntry
<1> QED  BY <1>3 DEF ExportSymbol, entry

LEMMA ExportType ==
  ASSUME NEW table \in Table, NEW name \in STRING
  PROVE  ExportSymbol(table, name) \in Table
<1> DEFINE found == FindOrCreateNew(table, name)
           entry == [found EXCEPT !.type = "INTERNAL", !.relative = @ \/ found.type = "UNKNOWN",
                      !.exported = TRUE, !.referenced = @ \/ ~found.exported]
<1>1. found \in Entry
  BY FoundType
<1>2. entry \in Entry
  <2> HIDE DEF found
  <2> QED  BY <1>1 DEF Entry
<1> HIDE DEF entry
<1> QED  BY <1>2, WithEntryType DEF ExportSymbol, entry

\* EXTREF and EXTDEF define no symbol, however many they name.
LEMMA ImportIs ==
  ASSUME NEW list \in Seq(STRING), IsTable(symbol_table)
  PROVE  /\ Import(list).ok \in BOOLEAN
         /\ Import(list).ok => IsTable(Import(list).table) /\ Keeps(symbol_table, Import(list).table)
<1> DEFINE n == Len(list)
           V == {v \in [ok : BOOLEAN, table : Table] :
                   v.ok => IsTable(v.table) /\ Keeps(symbol_table, v.table)}
           seed == [ok |-> TRUE, table |-> symbol_table]
           Next1(v, name) == [ok |-> v.ok /\ CanImport(v.table, name),
                              table |-> ImportSymbol(v.table, name)]
           G == [p \in (1 .. n) \X V |-> Next1(p[2], list[p[1]])]
           iter == CHOOSE iter : iter = [s \in SUBSET DOMAIN list |->
                     IF s = {} THEN seed
                     ELSE Next1(iter[s \ {Max(s)}], list[Max(s)])]
<1>1. Import(list) = iter[DOMAIN list]
  BY Zenon DEF Import, FoldLeft, MapThenFoldSet
<1>2. n \in Nat /\ DOMAIN list = 1 .. n /\ \A k \in 1 .. n : list[k] \in STRING
  OBVIOUS
<1>3. seed \in V
  BY KeepsItself DEF IsTable
<1>4. ASSUME NEW v \in V, NEW e \in STRING PROVE Next1(v, e) \in V
  <2>1. v.table \in Table /\ ImportSymbol(v.table, e) \in Table
    BY ImportType
  <2>2. ASSUME v.ok, CanImport(v.table, e)
        PROVE  IsTable(ImportSymbol(v.table, e)) /\ Keeps(symbol_table, ImportSymbol(v.table, e))
    BY <2>2, ImportKeeps, KeepsOn
  <2> QED  BY <2>1, <2>2
<1>5. G \in [(1 .. n) \X V -> V]
  <2> HIDE DEF V, Next1
  <2> QED  BY <1>2, <1>4
<1>6. iter = [s \in SUBSET DOMAIN list |-> IF s = {} THEN seed
                     ELSE Next1(iter[s \ {Max(s)}], list[Max(s)])]
  <2> HIDE DEF V, seed
  <2>1. PICK h \in [SUBSET (1 .. n) -> V] : FromLeft(h, n, seed, G)
    <3> HIDE DEF G, n
    <3> QED  BY <1>2, <1>3, <1>5, FromLeftExists
  <2>2. h = [s \in SUBSET DOMAIN list |-> IF s = {} THEN seed
                     ELSE Next1(h[s \ {Max(s)}], list[Max(s)])]
    <3>1. ASSUME NEW s \in SUBSET (1 .. n), s # {}
          PROVE  h[s] = Next1(h[s \ {Max(s)}], list[Max(s)])
      <4>1. Max(s) \in 1 .. n /\ h[s \ {Max(s)}] \in V
        BY <1>2, <3>1, MaxIn
      <4>2. h[s] = G[<<Max(s), h[s \ {Max(s)}]>>]
        BY <2>1, <3>1 DEF FromLeft
      <4> HIDE DEF Next1
      <4> QED  BY <4>1, <4>2
    <3>2. h[{}] = seed
      BY <2>1 DEF FromLeft
    <3> HIDE DEF Next1
    <3> QED  BY <1>2, <3>1, <3>2
  <2> HIDE DEF Next1
  <2> QED  BY <2>2, Zenon
<1>7. Within(iter, n, V, seed, G)
  <2> HIDE DEF V, seed, Next1, iter
  <2>1. iter[{}] = seed
    BY <1>6
  <2>2. ASSUME NEW s \in SUBSET (1 .. n), s # {}, iter[s \ {Max(s)}] \in V
        PROVE  iter[s] = G[<<Max(s), iter[s \ {Max(s)}]>>]
    <3>1. Max(s) \in 1 .. n
      BY <1>2, <2>2, MaxIn
    <3>2. iter[s] = Next1(iter[s \ {Max(s)}], list[Max(s)])
      BY <1>2, <1>6, <2>2
    <3> QED  BY <2>2, <3>1, <3>2
  <2> HIDE DEF G, n
  <2> QED  BY <2>1, <2>2 DEF Within
<1>8. iter[1 .. n] \in V
  <2> HIDE DEF V, seed, Next1, iter, G, n
  <2> QED  BY <1>2, <1>3, <1>5, <1>7, FromLeftType
<1> HIDE DEF iter
<1> QED  BY <1>1, <1>2, <1>8

LEMMA ExportIs ==
  ASSUME NEW list \in Seq(STRING), IsTable(symbol_table)
  PROVE  /\ Export(list).ok \in BOOLEAN
         /\ Export(list).ok => IsTable(Export(list).table) /\ Keeps(symbol_table, Export(list).table)
<1> DEFINE n == Len(list)
           V == {v \in [ok : BOOLEAN, table : Table] :
                   v.ok => IsTable(v.table) /\ Keeps(symbol_table, v.table)}
           seed == [ok |-> TRUE, table |-> symbol_table]
           Next1(v, name) == [ok |-> v.ok /\ CanExport(v.table, name),
                              table |-> ExportSymbol(v.table, name)]
           G == [p \in (1 .. n) \X V |-> Next1(p[2], list[p[1]])]
           iter == CHOOSE iter : iter = [s \in SUBSET DOMAIN list |->
                     IF s = {} THEN seed
                     ELSE Next1(iter[s \ {Max(s)}], list[Max(s)])]
<1>1. Export(list) = iter[DOMAIN list]
  BY Zenon DEF Export, FoldLeft, MapThenFoldSet
<1>2. n \in Nat /\ DOMAIN list = 1 .. n /\ \A k \in 1 .. n : list[k] \in STRING
  OBVIOUS
<1>3. seed \in V
  BY KeepsItself DEF IsTable
<1>4. ASSUME NEW v \in V, NEW e \in STRING PROVE Next1(v, e) \in V
  <2>1. v.table \in Table /\ ExportSymbol(v.table, e) \in Table
    BY ExportType
  <2>2. ASSUME v.ok, CanExport(v.table, e)
        PROVE  IsTable(ExportSymbol(v.table, e)) /\ Keeps(symbol_table, ExportSymbol(v.table, e))
    BY <2>2, ExportKeeps, KeepsOn
  <2> QED  BY <2>1, <2>2
<1>5. G \in [(1 .. n) \X V -> V]
  <2> HIDE DEF V, Next1
  <2> QED  BY <1>2, <1>4
<1>6. iter = [s \in SUBSET DOMAIN list |-> IF s = {} THEN seed
                     ELSE Next1(iter[s \ {Max(s)}], list[Max(s)])]
  <2> HIDE DEF V, seed
  <2>1. PICK h \in [SUBSET (1 .. n) -> V] : FromLeft(h, n, seed, G)
    <3> HIDE DEF G, n
    <3> QED  BY <1>2, <1>3, <1>5, FromLeftExists
  <2>2. h = [s \in SUBSET DOMAIN list |-> IF s = {} THEN seed
                     ELSE Next1(h[s \ {Max(s)}], list[Max(s)])]
    <3>1. ASSUME NEW s \in SUBSET (1 .. n), s # {}
          PROVE  h[s] = Next1(h[s \ {Max(s)}], list[Max(s)])
      <4>1. Max(s) \in 1 .. n /\ h[s \ {Max(s)}] \in V
        BY <1>2, <3>1, MaxIn
      <4>2. h[s] = G[<<Max(s), h[s \ {Max(s)}]>>]
        BY <2>1, <3>1 DEF FromLeft
      <4> HIDE DEF Next1
      <4> QED  BY <4>1, <4>2
    <3>2. h[{}] = seed
      BY <2>1 DEF FromLeft
    <3> HIDE DEF Next1
    <3> QED  BY <1>2, <3>1, <3>2
  <2> HIDE DEF Next1
  <2> QED  BY <2>2, Zenon
<1>7. Within(iter, n, V, seed, G)
  <2> HIDE DEF V, seed, Next1, iter
  <2>1. iter[{}] = seed
    BY <1>6
  <2>2. ASSUME NEW s \in SUBSET (1 .. n), s # {}, iter[s \ {Max(s)}] \in V
        PROVE  iter[s] = G[<<Max(s), iter[s \ {Max(s)}]>>]
    <3>1. Max(s) \in 1 .. n
      BY <1>2, <2>2, MaxIn
    <3>2. iter[s] = Next1(iter[s \ {Max(s)}], list[Max(s)])
      BY <1>2, <1>6, <2>2
    <3> QED  BY <2>2, <3>1, <3>2
  <2> HIDE DEF G, n
  <2> QED  BY <2>1, <2>2 DEF Within
<1>8. iter[1 .. n] \in V
  <2> HIDE DEF V, seed, Next1, iter, G, n
  <2> QED  BY <1>2, <1>3, <1>5, <1>7, FromLeftType
<1> HIDE DEF iter
<1> QED  BY <1>1, <1>2, <1>8

\* What an expression, or a part of one, is evaluated to.
Solved == [ok : BOOLEAN, value : Int, relative : BOOLEAN, external : STRING \cup {NoTerm.external}]

LEMMA NoTermIs ==
  NoTerm = [ok |-> FALSE, value |-> 0, relative |-> FALSE, external |-> NoTerm.external]
  BY Zenon DEF NoTerm

LEMMA NoTermType == NoTerm \in Solved
<1> DEFINE e == NoTerm.external
<1>1. NoTerm = [ok |-> FALSE, value |-> 0, relative |-> FALSE, external |-> e]
  BY NoTermIs
<1>2. e \in {NoTerm.external}
  OBVIOUS
<1> HIDE DEF e
<1> QED  BY <1>1, <1>2 DEF Solved

LEMMA SolvedWith ==
  ASSUME NEW s \in Solved, NEW ok \in BOOLEAN, NEW value \in Int
  PROVE  [s EXCEPT !.ok = ok, !.value = value] \in Solved
  BY DEF Solved

LEMMA SolvedAlsoWith ==
  ASSUME NEW s \in Solved, NEW ok \in BOOLEAN, NEW value \in Int, NEW relative \in BOOLEAN,
         NEW external \in STRING
  PROVE  /\ [s EXCEPT !.ok = ok, !.value = value, !.relative = relative] \in Solved
         /\ [s EXCEPT !.ok = ok, !.relative = relative, !.external = external] \in Solved
  BY DEF Solved

\* The operands that name symbols of a table.
Known(operand, table) == operand.type = "NAME" => operand.name \in DOMAIN table

\* A factor of a term has an address for value.
LEMMA FactorIs ==
  ASSUME NEW table, IsTable(table), NEW operand \in Operand, Known(operand, table)
  PROVE  FactorValue(operand, table) \in Nat /\ IsFactor(operand, table) \in BOOLEAN
<1>1. CASE operand.type = "INTEGER"
  BY <1>1 DEF FactorValue, IsFactor, Operand
<1>2. CASE operand.type = "NAME"
  <2>1. table[operand.name] \in Entry
    BY <1>2, TableIs DEF IsTable, Known
  <2>2. table[operand.name].address \in Nat
    BY <2>1 DEF Entry
  <2> QED  BY <1>2, <2>2 DEF FactorValue, IsFactor, Operand
<1> QED  BY <1>1, <1>2 DEF Operand

\* A term is evaluated to an integer, factor by factor.
LEMMA ApplyFactorIs ==
  ASSUME NEW table, IsTable(table), NEW solved \in Solved, NEW factor \in Factor,
         Known(factor.operand, table)
  PROVE  ApplyFactor(solved, factor, table) \in Solved
<1> DEFINE operand == FactorValue(factor.operand, table)
           value == CASE factor.op = "*" -> solved.value * operand
                      [] factor.op = "/" -> solved.value \div operand
           applies == /\ solved.ok
                      /\ IsFactor(factor.operand, table)
                      /\ factor.op = "/" => operand # 0
<1>1. operand \in Nat /\ factor.op \in {"*", "/"} /\ solved.value \in Int
  BY FactorIs DEF Factor, Solved
<1>2. ASSUME applies PROVE value \in Int
  <2>1. CASE factor.op = "*"
    <3> HIDE DEF operand
    <3> QED  BY <1>1, <2>1
  <2>2. CASE factor.op = "/"
    <3>1. operand # 0
      BY <1>2, <2>2
    <3> HIDE DEF operand
    <3>2. solved.value \div operand \in Int
      BY <1>1, <3>1
    <3> QED  BY <2>2, <3>2
  <2> QED  BY <1>1, <2>1, <2>2
<1>3. NoTerm \in Solved
  BY NoTermType
<1>4. ASSUME applies
      PROVE  [solved EXCEPT !.ok = InRange(operand) /\ InRange(value), !.value = value] \in Solved
  <2> HIDE DEF operand, value
  <2>1. (InRange(operand) /\ InRange(value)) \in BOOLEAN
    BY DEF InRange
  <2> QED  BY <1>2, <1>4, <2>1 DEF Solved
<1>5. ApplyFactor(solved, factor, table)
        = IF applies THEN [solved EXCEPT !.ok = InRange(operand) /\ InRange(value), !.value = value]
          ELSE NoTerm
  BY DEF ApplyFactor
<1> HIDE DEF operand, value, applies
<1> QED  BY <1>3, <1>4, <1>5

LEMMA SolveTermIs ==
  ASSUME NEW table, IsTable(table), NEW term \in TermRecord, Known(term.operand, table),
         \A k \in DOMAIN term.factors : Known(term.factors[k].operand, table)
  PROVE  SolveTerm(term, table) \in Solved
<1> DEFINE n == Len(term.factors)
           V == Solved
           first == FactorValue(term.operand, table)
           seed == [NoTerm EXCEPT !.ok = InRange(first), !.value = first]
           Next1(v, e) == ApplyFactor(v, e, table)
           K == {factor \in Factor : Known(factor.operand, table)}
           folded == FoldLeft(LAMBDA solved, factor : ApplyFactor(solved, factor, table), seed,
                              term.factors)
           G == [p \in (1 .. n) \X V |-> Next1(p[2], term.factors[p[1]])]
           iter == CHOOSE iter : iter = [s \in SUBSET DOMAIN term.factors |->
                     IF s = {} THEN seed
                     ELSE Next1(iter[s \ {Max(s)}], term.factors[Max(s)])]
<1>0. SUFFICES folded \in Solved
  <2>1. NoTerm \in Solved
    BY NoTermType
  <2> HIDE DEF folded
  <2> QED  BY <2>1 DEF SolveTerm, folded
<1>1. folded = iter[DOMAIN term.factors]
  BY Zenon DEF folded, FoldLeft, MapThenFoldSet
<1>2. n \in Nat /\ DOMAIN term.factors = 1 .. n /\ \A k \in 1 .. n : term.factors[k] \in K
  BY DEF TermRecord
<1>3. seed \in V
  <2>1. first \in Nat
    BY FactorIs DEF TermRecord
  <2> DEFINE ok == InRange(first)
  <2>2. ok \in BOOLEAN
    BY DEF InRange
  <2> HIDE DEF first, ok
  <2>3. [NoTerm EXCEPT !.ok = ok, !.value = first] \in Solved
    <3>1. first \in Int
      BY <2>1
    <3> QED  BY <2>2, <3>1, NoTermType, SolvedWith, Zenon
  <2> QED  BY <2>3, Zenon DEF ok

<1>4. ASSUME NEW v \in V, NEW e \in K PROVE Next1(v, e) \in V
  BY ApplyFactorIs
<1>5. G \in [(1 .. n) \X V -> V]
  <2> HIDE DEF V, Next1
  <2> QED  BY <1>2, <1>4
<1>6. iter = [s \in SUBSET DOMAIN term.factors |-> IF s = {} THEN seed
                     ELSE Next1(iter[s \ {Max(s)}], term.factors[Max(s)])]
  <2> HIDE DEF V, seed
  <2>1. PICK h \in [SUBSET (1 .. n) -> V] : FromLeft(h, n, seed, G)
    <3> HIDE DEF G, n
    <3> QED  BY <1>2, <1>3, <1>5, FromLeftExists
  <2>2. h = [s \in SUBSET DOMAIN term.factors |-> IF s = {} THEN seed
                     ELSE Next1(h[s \ {Max(s)}], term.factors[Max(s)])]
    <3>1. ASSUME NEW s \in SUBSET (1 .. n), s # {}
          PROVE  h[s] = Next1(h[s \ {Max(s)}], term.factors[Max(s)])
      <4>1. Max(s) \in 1 .. n /\ h[s \ {Max(s)}] \in V
        BY <1>2, <3>1, MaxIn
      <4>2. h[s] = G[<<Max(s), h[s \ {Max(s)}]>>]
        BY <2>1, <3>1 DEF FromLeft
      <4> HIDE DEF Next1
      <4> QED  BY <4>1, <4>2
    <3>2. h[{}] = seed
      BY <2>1 DEF FromLeft
    <3> HIDE DEF Next1
    <3> QED  BY <1>2, <3>1, <3>2
  <2> HIDE DEF Next1
  <2> QED  BY <2>2, Zenon
<1>7. Within(iter, n, V, seed, G)
  <2> HIDE DEF V, seed, Next1, iter
  <2>1. iter[{}] = seed
    BY <1>6
  <2>2. ASSUME NEW s \in SUBSET (1 .. n), s # {}, iter[s \ {Max(s)}] \in V
        PROVE  iter[s] = G[<<Max(s), iter[s \ {Max(s)}]>>]
    <3>1. Max(s) \in 1 .. n
      BY <1>2, <2>2, MaxIn
    <3>2. iter[s] = Next1(iter[s \ {Max(s)}], term.factors[Max(s)])
      BY <1>2, <1>6, <2>2
    <3> QED  BY <2>2, <3>1, <3>2
  <2> HIDE DEF G, n
  <2> QED  BY <2>1, <2>2 DEF Within
<1>8. iter[1 .. n] \in V
  <2> HIDE DEF V, seed, Next1, iter, G, n
  <2> QED  BY <1>2, <1>3, <1>5, <1>7, FromLeftType
<1> HIDE DEF iter
<1> QED  BY <1>1, <1>2, <1>8

\* The sum of the terms so far.
Sums(names) == [ok : BOOLEAN, value : Int, relative_count : Int, externals : [names -> Int]]

\* So is an expression of one operand,
LEMMA SolveSingleIs ==
  ASSUME NEW table, IsTable(table), NEW operand \in Operand, Known(operand, table),
         NEW has_external \in BOOLEAN
  PROVE  SolveSingle(operand, table, has_external) \in Solved
<1>1. CASE operand.type = "INTEGER"
  <2>1. operand.integer \in Int
    BY <1>1 DEF Operand
  <2>2. SolveSingle(operand, table, has_external)
          = [NoTerm EXCEPT !.ok = TRUE, !.value = operand.integer]
    BY <1>1, Zenon DEF SolveSingle
  <2>3. TRUE \in BOOLEAN
    OBVIOUS
  <2>4. [NoTerm EXCEPT !.ok = TRUE, !.value = operand.integer] \in Solved
    BY <2>1, <2>3, NoTermType, SolvedWith, Zenon
  <2> QED  BY <2>2, <2>4, Zenon
<1>2. CASE operand.type = "NAME"
  <2>1. table[operand.name] \in Entry /\ operand.name \in STRING
    BY <1>2, TableIs DEF IsTable, Known, Operand
  <2> DEFINE entry == table[operand.name]
  <2>2. entry.address \in Nat /\ entry.relative \in BOOLEAN
    BY <2>1 DEF Entry
  <2>3. SolveSingle(operand, table, has_external)
          = IF has_external /\ (entry.type = "EXTERNAL" \/ entry.exported)
            THEN [NoTerm EXCEPT !.ok = TRUE, !.relative = TRUE, !.external = operand.name]
            ELSE [NoTerm EXCEPT !.ok = ~(has_external /\ entry.relative),
                               !.value = entry.address, !.relative = entry.relative]
    BY <1>2 DEF SolveSingle
  <2> DEFINE ok == ~(has_external /\ entry.relative)
  <2>4. ok \in BOOLEAN /\ TRUE \in BOOLEAN
    OBVIOUS
  <2> HIDE DEF entry
  <2>5. [NoTerm EXCEPT !.ok = TRUE, !.relative = TRUE, !.external = operand.name] \in Solved
    <3>1. 0 \in Int
      OBVIOUS
    <3> QED  BY <2>1, <2>4, <3>1, NoTermType, SolvedAlsoWith, Zenon
  <2> HIDE DEF ok
  <2>6. [NoTerm EXCEPT !.ok = ok, !.value = entry.address, !.relative = entry.relative] \in Solved
    <3>1. entry.address \in Int
      BY <2>2
    <3> QED  BY <2>1, <2>2, <2>4, <3>1, NoTermType, SolvedAlsoWith, Zenon
  <2> QED  BY <2>3, <2>5, <2>6, Zenon DEF ok
<1> QED  BY <1>1, <1>2 DEF Operand

\* and one of many, term by term.
LEMMA AddTermIs ==
  ASSUME NEW table, IsTable(table), NEW term \in TermRecord, Known(term.operand, table),
         \A k \in DOMAIN term.factors : Known(term.factors[k].operand, table),
         NEW has_external \in BOOLEAN, NEW names, NEW sum \in Sums(names)
  PROVE  AddTerm(sum, term, table, has_external) \in Sums(names)
<1> DEFINE solved == IF term.factors = <<>>
                     THEN SolveSingle(term.operand, table, has_external)
                     ELSE SolveTerm(term, table)
           value == sum.value + (term.sign * solved.value)
<1>1. solved \in Solved
  BY SolveTermIs, SolveSingleIs DEF TermRecord
<1>2. AddTerm(sum, term, table, has_external) =
  [ok |-> sum.ok /\ solved.ok /\ InRange(value),
       value |-> value,
       relative_count |-> sum.relative_count + (IF solved.relative THEN term.sign ELSE 0),
       externals |-> [name \in DOMAIN sum.externals |->
         sum.externals[name] + (IF name = solved.external THEN term.sign ELSE 0)]]
  BY DEF AddTerm
<1> HIDE DEF solved
<1>3. term.sign \in {1, -1}
  BY DEF TermRecord
<1>4. value \in Int
  BY <1>1, <1>3 DEF Solved, Sums
<1>5. InRange(value) \in BOOLEAN
  BY DEF InRange
<1> HIDE DEF value
<1> QED  BY <1>1, <1>2, <1>3, <1>4, <1>5 DEF Solved, Sums

LEMMA UnsolvedIs ==
  Unsolved.ok \in BOOLEAN /\ Unsolved.value \in Int /\ Unsolved.relative \in BOOLEAN
<1>1. Unsolved.ok = FALSE /\ Unsolved.value = 0 /\ Unsolved.relative = FALSE
  BY Zenon DEF Unsolved
<1>2. FALSE \in BOOLEAN
  BY Zenon
<1>3. 0 \in Int
  OBVIOUS
<1> QED  BY <1>1, <1>2, <1>3, Zenon

\* Whatever an expression is evaluated to has a value.
LEMMA SolveIs ==
  ASSUME NEW table, IsTable(table), NEW expression \in Expression, NEW allow_external \in BOOLEAN
  PROVE  /\ Solve(expression, table, allow_external).ok \in BOOLEAN
         /\ Solve(expression, table, allow_external).value \in Int
         /\ Solve(expression, table, allow_external).relative \in BOOLEAN
<1> DEFINE n == Len(expression)
           names == NamesOf(expression)
           V == Sums(names)
           seed == [ok |-> TRUE, value |-> 0, relative_count |-> 0,
                    externals |-> [name \in names |-> 0]]
           has_external == HasExternal(expression, table)
           Next1(v, e) == AddTerm(v, e, table, has_external)
           K == {term \in TermRecord :
                   /\ Known(term.operand, table)
                   /\ \A k \in DOMAIN term.factors : Known(term.factors[k].operand, table)}
           folded == FoldLeft(LAMBDA s, term : AddTerm(s, term, table, has_external), seed,
                              expression)
           result == IF folded.ok /\ folded.relative_count \in {0, 1}
                     THEN [ok |-> TRUE, value |-> folded.value,
                           relative |-> folded.relative_count = 1, externals |-> folded.externals]
                     ELSE Unsolved
           G == [p \in (1 .. n) \X V |-> Next1(p[2], expression[p[1]])]
           iter == CHOOSE iter : iter = [s \in SUBSET DOMAIN expression |->
                     IF s = {} THEN seed
                     ELSE Next1(iter[s \ {Max(s)}], expression[Max(s)])]
<1>0. Solve(expression, table, allow_external)
        = IF ~ValidateExpressionSymbols(expression, table, allow_external) THEN Unsolved ELSE result
  BY DEF Solve
<1>1. SUFFICES ASSUME ValidateExpressionSymbols(expression, table, allow_external)
               PROVE  folded \in V
  <2>1. folded \in V => /\ result.ok \in BOOLEAN /\ result.value \in Int
                         /\ result.relative \in BOOLEAN
    <3>1. ASSUME folded \in V, folded.ok /\ folded.relative_count \in {0, 1}
          PROVE  /\ result.ok = TRUE /\ result.value \in Int
                 /\ result.relative = (folded.relative_count = 1)
      <4> HIDE DEF folded, names
      <4> QED  BY <3>1 DEF Sums
    <3>2. ASSUME ~(folded.ok /\ folded.relative_count \in {0, 1})
          PROVE  result = Unsolved
      BY <3>2, Zenon
    <3>3. TRUE \in BOOLEAN /\ (folded.relative_count = 1) \in BOOLEAN
      OBVIOUS
    <3> HIDE DEF folded, names, result, V
    <3> QED  BY UnsolvedIs, <3>1, <3>2, <3>3, Zenon
  <2> HIDE DEF result, folded, V
  <2> QED  BY <1>0, UnsolvedIs, <2>1
<1>2. \A term \in ToSet(expression) : term \in K
  <2> SUFFICES ASSUME NEW term \in ToSet(expression) PROVE term \in K
    OBVIOUS
  <2>1. term \in TermRecord
    BY DEF ToSet, Expression
  <2>2. ASSUME NEW operand \in Operands(expression) PROVE Known(operand, table)
    BY <1>1 DEF Known, ValidateExpressionSymbols, NamesOf
  <2>3. term.operand \in Operands(expression)
    BY DEF Operands
  <2>4. ASSUME NEW k \in DOMAIN term.factors
        PROVE  term.factors[k].operand \in Operands(expression)
    BY DEF Operands, ToSet
  <2> QED  BY <2>1, <2>2, <2>3, <2>4
<1>3. has_external \in BOOLEAN
  BY DEF HasExternal
<1>4. folded = iter[DOMAIN expression]
  BY Zenon DEF folded, FoldLeft, MapThenFoldSet
<1>5. n \in Nat /\ DOMAIN expression = 1 .. n /\ \A k \in 1 .. n : expression[k] \in K
  <2>1. n \in Nat /\ DOMAIN expression = 1 .. n
    BY DEF Expression
  <2> QED  BY <1>2, <2>1 DEF ToSet
<1>6. seed \in V
  BY DEF Sums
<1>7. ASSUME NEW v \in V, NEW e \in K PROVE Next1(v, e) \in V
  <2> HIDE DEF names, has_external
  <2> QED  BY <1>3, AddTermIs
<1>8. G \in [(1 .. n) \X V -> V]
  <2> HIDE DEF V, Next1
  <2> QED  BY <1>5, <1>7
<1>9. iter = [s \in SUBSET DOMAIN expression |-> IF s = {} THEN seed
                     ELSE Next1(iter[s \ {Max(s)}], expression[Max(s)])]
  <2> HIDE DEF V, seed
  <2>1. PICK h \in [SUBSET (1 .. n) -> V] : FromLeft(h, n, seed, G)
    <3> HIDE DEF G, n
    <3> QED  BY <1>5, <1>6, <1>8, FromLeftExists
  <2>2. h = [s \in SUBSET DOMAIN expression |-> IF s = {} THEN seed
                     ELSE Next1(h[s \ {Max(s)}], expression[Max(s)])]
    <3>1. ASSUME NEW s \in SUBSET (1 .. n), s # {}
          PROVE  h[s] = Next1(h[s \ {Max(s)}], expression[Max(s)])
      <4>1. Max(s) \in 1 .. n /\ h[s \ {Max(s)}] \in V
        BY <1>5, <3>1, MaxIn
      <4>2. h[s] = G[<<Max(s), h[s \ {Max(s)}]>>]
        BY <2>1, <3>1 DEF FromLeft
      <4> HIDE DEF Next1
      <4> QED  BY <4>1, <4>2
    <3>2. h[{}] = seed
      BY <2>1 DEF FromLeft
    <3> HIDE DEF Next1
    <3> QED  BY <1>5, <3>1, <3>2
  <2> HIDE DEF Next1
  <2> QED  BY <2>2, Zenon
<1>10. Within(iter, n, V, seed, G)
  <2> HIDE DEF V, seed, Next1, iter
  <2>1. iter[{}] = seed
    BY <1>9
  <2>2. ASSUME NEW s \in SUBSET (1 .. n), s # {}, iter[s \ {Max(s)}] \in V
        PROVE  iter[s] = G[<<Max(s), iter[s \ {Max(s)}]>>]
    <3>1. Max(s) \in 1 .. n
      BY <1>5, <2>2, MaxIn
    <3>2. iter[s] = Next1(iter[s \ {Max(s)}], expression[Max(s)])
      BY <1>5, <1>9, <2>2
    <3> QED  BY <2>2, <3>1, <3>2
  <2> HIDE DEF G, n
  <2> QED  BY <2>1, <2>2 DEF Within
<1>11. iter[1 .. n] \in V
  <2> HIDE DEF V, seed, Next1, iter, G, n
  <2> QED  BY <1>5, <1>6, <1>8, <1>10, FromLeftType
<1> HIDE DEF iter
<1> QED  BY <1>4, <1>5, <1>11

-----------------------------------------------------------------------------
(***************************************************************************)
(* What the parser makes of the tokens of an expression.                   *)
(***************************************************************************)
\* A set of positions has a first one.
LEMMA MinIn == ASSUME NEW n \in Nat, NEW s \in SUBSET (1 .. n), s # {}
               PROVE  Min(s) \in s /\ \A x \in s : Min(s) <= x
<1> DEFINE HasMin(m) == \A t \in SUBSET (1 .. n) :
                          (\E x \in t : x <= m) => \E x \in t : \A y \in t : x <= y
           S == {m \in Nat : HasMin(m)}
<1>1. HasMin(0)
  BY SMT
<1>2. ASSUME NEW m \in Nat, HasMin(m) PROVE HasMin(m + 1)
  <2> SUFFICES ASSUME NEW t \in SUBSET (1 .. n), \E x \in t : x <= m + 1
               PROVE  \E x \in t : \A y \in t : x <= y
    OBVIOUS
  <2>1. CASE \E x \in t : x <= m
    BY <1>2, <2>1
  <2>2. CASE \A x \in t : ~(x <= m)
    <3>1. PICK x \in t : x <= m + 1
      OBVIOUS
    <3>2. \A y \in t : y \in Int /\ x \in Int
      OBVIOUS
    <3>3. \A y \in t : x <= y
      BY <2>2, <3>1, <3>2
    <3> QED  BY <3>3
  <2> QED  BY <2>1, <2>2
<1> HIDE DEF HasMin
<1>3. Nat \subseteq S
  <2>1. 0 \in S /\ \A m \in Nat : m \in S => m + 1 \in S
    BY <1>1, <1>2
  <2> HIDE DEF S
  <2> QED  BY <2>1, Naturals
<1>4. \E x \in s : \A y \in s : x <= y
  <2>1. \A x \in s : x <= n /\ x \in Int
    OBVIOUS
  <2> QED  BY <1>3, <2>1 DEF HasMin
<1> QED  BY <1>4 DEF Min

\* One more factor of the last term.
LEMMA AddFactor ==
  ASSUME NEW v \in Seq(TermRecord), NEW new \in Factor
  PROVE  [v EXCEPT ![Len(v)].factors = Append(@, new)] \in Seq(TermRecord)
<1> DEFINE m == Len(v)
           w == [v EXCEPT ![m].factors = Append(@, new)]
<1>1. m \in Nat /\ DOMAIN v = 1 .. m /\ \A k \in 1 .. m : v[k] \in TermRecord
  OBVIOUS
<1>2. DOMAIN w = 1 .. m /\ w = [k \in 1 .. m |-> w[k]]
  <2> HIDE DEF m
  <2> QED  BY <1>1
<1>3. ASSUME NEW k \in 1 .. m PROVE w[k] \in TermRecord
  <2>1. CASE k # m
    <3>1. w[k] = v[k]
      <4> HIDE DEF m
      <4> QED  BY <1>1, <2>1
    <3> HIDE DEF w
    <3> QED  BY <1>1, <3>1
  <2>2. CASE k = m
    <3>1. w[k] = [v[m] EXCEPT !.factors = Append(@, new)]
      <4> HIDE DEF m
      <4> QED  BY <1>1, <2>2
    <3> DEFINE t == v[m]
    <3>2. t \in TermRecord
      BY <1>1, <2>2
    <3> HIDE DEF t, w, m
    <3>3. t.factors \in Seq(Factor)
      BY <3>2 DEF TermRecord
    <3> DEFINE f == Append(t.factors, new)
    <3>4. f \in Seq(Factor)
      BY <3>3
    <3> HIDE DEF f
    <3>5. [t EXCEPT !.factors = f] \in TermRecord
      BY <3>2, <3>4 DEF TermRecord
    <3> QED  BY <3>1, <3>5 DEF t, f
  <2> QED  BY <2>1, <2>2
<1> HIDE DEF w
<1>4. w \in Seq(TermRecord)
  BY <1>1, <1>2, <1>3
<1> QED  BY <1>4 DEF w

\* Tokens that are an expression have terms.
LEMMA TermsIs ==
  ASSUME NEW tokens \in Seq(Token), IsExpression(tokens)
  PROVE  Terms(tokens) \in Expression
<1> DEFINE body == Unsigned(tokens)
           OperatorAt(k) == IF k > 1 THEN body[k - 1].operator
                            ELSE IF body = tokens THEN "+" ELSE "-"
           values == [i \in 1 .. (Len(body) + 1) \div 2 |-> 2 * i - 1]
           n == (Len(body) + 1) \div 2
           V == Expression
           seed == <<>>
           Next1(v, k) ==
             IF OperatorAt(k) \in {"*", "/"}
             THEN [v EXCEPT ![Len(v)].factors =
                Append(@, [op |-> OperatorAt(k), operand |-> body[k]])]
             ELSE Append(v, Term(IF OperatorAt(k) = "-" THEN -1 ELSE 1, body[k], <<>>))
           K == {k \in DOMAIN body : k % 2 = 1}
           G == [p \in (1 .. n) \X V |-> Next1(p[2], values[p[1]])]
           iter == CHOOSE iter : iter = [s \in SUBSET DOMAIN values |->
                     IF s = {} THEN seed
                     ELSE Next1(iter[s \ {Max(s)}], values[Max(s)])]
<1>1. body \in Seq(Token) /\ Len(body) \in Nat /\ Len(body) % 2 = 1
  <2>1. tokens # <<>> => Tail(tokens) \in Seq(Token)
    OBVIOUS
  <2>2. body \in Seq(Token)
    BY <2>1 DEF Unsigned, StartsWith
  <2> QED  BY <2>2 DEF IsExpression
<1>2. Terms(tokens) = iter[DOMAIN values]
  BY Zenon DEF Terms, FoldLeft, MapThenFoldSet
<1>3. n \in Nat /\ DOMAIN values = 1 .. n /\ \A k \in 1 .. n : values[k] \in K
  <2>1. n \in Nat /\ 2 * n = Len(body) + 1
    <3> HIDE DEF body
    <3> QED  BY <1>1
  <2>2. DOMAIN values = 1 .. n
    OBVIOUS
  <2>3. ASSUME NEW k \in 1 .. n PROVE values[k] = 2 * k - 1
    OBVIOUS
  <2>4. DOMAIN body = 1 .. Len(body)
    BY <1>1
  <2>5. ASSUME NEW k \in 1 .. n PROVE 2 * k - 1 \in 1 .. Len(body) /\ (2 * k - 1) % 2 = 1
    <3> HIDE DEF body, n, values
    <3> QED  BY <1>1, <2>1
  <2> HIDE DEF body, n, values
  <2> QED  BY <2>1, <2>2, <2>3, <2>4, <2>5
<1>4. seed \in V
  BY DEF Expression
<1>5. ASSUME NEW v \in V, NEW e \in K PROVE Next1(v, e) \in V
  <2>1. e \in 1 .. Len(body) /\ e % 2 = 1
    BY <1>1
  <2>2. body[e] \in Token /\ IsValue(body[e])
    BY <1>1, <2>1 DEF IsExpression
  <2>3. body[e] \in Operand
    BY <2>2, TextsAssumption DEF IsValue, Token, Operand
  <2>4. CASE OperatorAt(e) \in {"*", "/"}
    <3> DEFINE new == [op |-> OperatorAt(e), operand |-> body[e]]
               m == Len(v)
    <3>1. new \in Factor
      BY <2>3, <2>4 DEF Factor
    <3>2. v \in Seq(TermRecord)
      BY DEF Expression
    <3> HIDE DEF new
    <3>3. [v EXCEPT ![m].factors = Append(@, new)] \in Seq(TermRecord)
      BY <3>1, <3>2, AddFactor
    <3>4. Next1(v, e) = [v EXCEPT ![m].factors = Append(@, new)]
      BY <2>4 DEF new
    <3> HIDE DEF Next1
    <3> QED  BY <3>3, <3>4 DEF Expression
  <2>5. CASE ~(OperatorAt(e) \in {"*", "/"})
    <3> DEFINE term == Term(IF OperatorAt(e) = "-" THEN -1 ELSE 1, body[e], <<>>)
    <3>1. <<>> \in Seq(Factor)
      OBVIOUS
    <3>2. term \in TermRecord
      BY <2>3, <3>1 DEF Term, TermRecord
    <3>3. Append(v, term) \in Seq(TermRecord)
      <4> HIDE DEF term
      <4> QED  BY <3>2 DEF Expression
    <3>4. Next1(v, e) = Append(v, term)
      BY <2>5
    <3> HIDE DEF Next1, term
    <3> QED  BY <3>3, <3>4 DEF Expression
  <2> QED  BY <2>4, <2>5
<1>6. G \in [(1 .. n) \X V -> V]
  <2> HIDE DEF V, Next1
  <2> QED  BY <1>3, <1>5
<1>7. iter = [s \in SUBSET DOMAIN values |-> IF s = {} THEN seed
                     ELSE Next1(iter[s \ {Max(s)}], values[Max(s)])]
  <2> HIDE DEF V, seed
  <2>1. PICK h \in [SUBSET (1 .. n) -> V] : FromLeft(h, n, seed, G)
    <3> HIDE DEF G, n
    <3> QED  BY <1>3, <1>4, <1>6, FromLeftExists
  <2>2. h = [s \in SUBSET DOMAIN values |-> IF s = {} THEN seed
                     ELSE Next1(h[s \ {Max(s)}], values[Max(s)])]
    <3>1. ASSUME NEW s \in SUBSET (1 .. n), s # {}
          PROVE  h[s] = Next1(h[s \ {Max(s)}], values[Max(s)])
      <4>1. Max(s) \in 1 .. n /\ h[s \ {Max(s)}] \in V
        BY <1>3, <3>1, MaxIn
      <4>2. h[s] = G[<<Max(s), h[s \ {Max(s)}]>>]
        BY <2>1, <3>1 DEF FromLeft
      <4> HIDE DEF Next1
      <4> QED  BY <4>1, <4>2
    <3>2. h[{}] = seed
      BY <2>1 DEF FromLeft
    <3> HIDE DEF Next1
    <3> QED  BY <1>3, <3>1, <3>2
  <2> HIDE DEF Next1
  <2> QED  BY <2>2, Zenon
<1>8. Within(iter, n, V, seed, G)
  <2> HIDE DEF V, seed, Next1, iter
  <2>1. iter[{}] = seed
    BY <1>7
  <2>2. ASSUME NEW s \in SUBSET (1 .. n), s # {}, iter[s \ {Max(s)}] \in V
        PROVE  iter[s] = G[<<Max(s), iter[s \ {Max(s)}]>>]
    <3>1. Max(s) \in 1 .. n
      BY <1>3, <2>2, MaxIn
    <3>2. iter[s] = Next1(iter[s \ {Max(s)}], values[Max(s)])
      BY <1>3, <1>7, <2>2
    <3> QED  BY <2>2, <3>1, <3>2
  <2> HIDE DEF G, n
  <2> QED  BY <2>1, <2>2 DEF Within
<1>9. iter[1 .. n] \in V
  <2> HIDE DEF V, seed, Next1, iter, G, n
  <2> QED  BY <1>3, <1>4, <1>6, <1>8, FromLeftType
<1> HIDE DEF iter
<1> QED  BY <1>2, <1>3, <1>9

\* An expression ends where its line ends, or before.
LEMMA LengthIs ==
  ASSUME NEW tokens \in Seq(Token)
  PROVE  ExpressionLength(tokens) \in Int /\ ExpressionLength(tokens) <= Len(tokens)
<1> DEFINE long == Append(tokens, Operator("end"))
           Ends(token) == token.type = "OPERATOR" /\ token.operator \notin Arithmetic
           I == {i \in 1 .. Len(long) : Ends(long[i])}
<1>1. Len(long) = Len(tokens) + 1 /\ Len(tokens) \in Nat
  <2> DEFINE e == Operator("end")
             S == Token \cup {e}
  <2> HIDE DEF e
  <2>1. tokens \in Seq(S) /\ e \in S
    OBVIOUS
  <2> HIDE DEF S
  <2>2. Len(Append(tokens, e)) = Len(tokens) + 1 /\ Len(tokens) \in Nat
    BY <2>1
  <2> QED  BY <2>2 DEF e
<1>2. ExpressionLength(tokens) = (IF I # {} THEN Min(I) ELSE 0) - 1
  BY DEF ExpressionLength, SelectInSeq
<1>3. I # {} => Min(I) \in 1 .. Len(long)
  <2>1. I \in SUBSET (1 .. Len(long)) /\ Len(long) \in Nat
    BY <1>1
  <2> HIDE DEF I, long
  <2> QED  BY <2>1, MinIn
<1> HIDE DEF I, long
<1> QED  BY <1>1, <1>2, <1>3

\* The parser makes an expression of it,
LEMMA ParseExpressionIs ==
  ASSUME NEW tokens \in Seq(Token), NEW brackets, NEW parsed \in ParseExpression(brackets, tokens)
  PROVE  parsed.expression \in Expression
<1> DEFINE bracketed == brackets /\ StartsWith(tokens, {"["})
           inner == IF bracketed THEN Tail(tokens) ELSE tokens
           size  == ExpressionLength(inner)
           taken == SubSeq(inner, 1, size)
           after == SubSeq(inner, size + 1, Len(inner))
<1>1. inner \in Seq(Token)
  <2>1. tokens # <<>> => Tail(tokens) \in Seq(Token)
    OBVIOUS
  <2> QED  BY <2>1 DEF StartsWith
<1>2. size \in Int /\ size <= Len(inner) /\ Len(inner) \in Nat
  <2> HIDE DEF inner
  <2>1. Len(inner) \in Nat
    BY <1>1
  <2> QED  BY <1>1, <2>1, LengthIs
<1>3. taken \in Seq(Token)
  <2>1. \A i \in 1 .. size : inner[i] \in Token
    <3> HIDE DEF inner, size
    <3> QED  BY <1>1, <1>2
  <2> HIDE DEF inner, size
  <2> QED  BY <1>1, <1>2, <2>1
<1>4. IsExpression(taken) /\ parsed.expression = Terms(taken)
  BY DEF ParseExpression, When
<1> HIDE DEF taken
<1> QED  BY <1>3, <1>4, TermsIs

LEMMA WholeExpressionIs ==
  ASSUME NEW tokens \in Seq(Token), NEW expression \in WholeExpression(tokens)
  PROVE  expression \in Expression
  BY ParseExpressionIs DEF WholeExpression

\* No tokens make an expression too.
LEMMA NothingIsExpression == <<>> \in Expression
  BY DEF Expression

\* The lines of every kind have the fields that the first pass relies on.
LEMMA PlainIs ==
  ASSUME NEW kind \in {"LTORG", "NOBASE", "EMPTY"}
  PROVE  IsLine(Plain(kind))
  BY NothingIsExpression DEF IsLine, Plain, Line, LineKinds, Unlabelled, UsesLiteral

LEMMA UseIs == ASSUME NEW name PROVE IsLine(Use(name))
  BY NothingIsExpression DEF Use, Plain, Line, With, IsLine, LineKinds, Unlabelled, UsesLiteral

LEMMA SymbolsIs ==
  ASSUME NEW kind \in {"EXTDEF", "EXTREF"}, NEW list \in Seq(STRING)
  PROVE  IsLine(Symbols(kind, list))
  BY NothingIsExpression DEF Symbols, Plain, Line, With, IsLine, LineKinds, Unlabelled, UsesLiteral

LEMMA EquIs ==
  ASSUME NEW label \in Names, label # NoLabel, NEW expression \in Expression
  PROVE  IsLine(EquHere(label)) /\ IsLine(Equ(label, expression))
<1>1. IsLine(EquHere(label))
  BY NothingIsExpression DEF EquHere, Line, With, IsLine, LineKinds, Unlabelled, UsesLiteral
<1>2. IsLine(Equ(label, expression))
  BY DEF Equ, Line, With, IsLine, LineKinds, Unlabelled, UsesLiteral
<1> QED  BY <1>1, <1>2

LEMMA InitIs ==
  ASSUME NEW label \in Names \cup {NoLabel}, NEW width, NEW expression \in Expression,
         NEW data \in Seq(Int)
  PROVE  IsLine(InitData(label, width, data)) /\ IsLine(InitValue(label, width, expression))
<1>1. IsLine(InitData(label, width, data))
  BY NothingIsExpression DEF InitData, Line, With, IsLine, LineKinds, Unlabelled, UsesLiteral
<1>2. NoData \in Seq(Int)
  BY DEF NoData
<1>3. IsLine(InitValue(label, width, expression))
  BY <1>2 DEF InitValue, Line, With, IsLine, LineKinds, Unlabelled, UsesLiteral
<1> QED  BY <1>1, <1>3

LEMMA ReserveIs ==
  ASSUME NEW label \in Names \cup {NoLabel}, NEW width, NEW expression \in Expression
  PROVE  IsLine(Reserve(label, width, expression))
  BY DEF Reserve, Line, With, IsLine, LineKinds, Unlabelled, UsesLiteral

LEMMA F1Is ==
  ASSUME NEW label \in Names \cup {NoLabel}, NEW mnemonic
  PROVE  IsLine(InstructionF1(label, mnemonic))
  BY NothingIsExpression DEF InstructionF1, Line, With, IsLine, LineKinds, Unlabelled, UsesLiteral

LEMMA F2Is ==
  ASSUME NEW label \in Names \cup {NoLabel}, NEW mnemonic, NEW r1, NEW r2
  PROVE  IsLine(InstructionF2(label, mnemonic, r1, r2))
  BY NothingIsExpression DEF InstructionF2, Line, With, IsLine, LineKinds, Unlabelled, UsesLiteral

LEMMA FS34Is ==
  ASSUME NEW label \in Names \cup {NoLabel}, NEW mnemonic, NEW syntax, NEW addressing,
         NEW extended, NEW indexed, NEW expression \in Expression, NEW data \in Seq(Int),
         NEW line, line = InstructionFS34(label, mnemonic, syntax, addressing, extended, indexed,
                                          expression),
         addressing = "LITERAL_POOL" => syntax \in {"LOAD_B", "LOAD_W", "LOAD_F"}
  PROVE  IsLine(line) /\ IsLine(LiteralData(line, data))
<1>1. NoData \in Seq(Int)
  BY DEF NoData
<1>2. /\ DOMAIN line = {"kind", "label", "expression", "mnemonic", "syntax", "addressing", "extended",
                        "indexed", "data"}
      /\ line.kind = "FS34" /\ line.label = label /\ line.expression = expression
      /\ line.syntax = syntax /\ line.addressing = addressing /\ line.data = NoData
  BY DEF InstructionFS34, Line, With
<1>3. IsLine(line)
  BY <1>1, <1>2 DEF IsLine, LineKinds, Unlabelled, UsesLiteral
<1>4. PICK other : other = LiteralData(line, data)
  OBVIOUS
<1>5. /\ DOMAIN other = DOMAIN line
      /\ other.kind = "FS34" /\ other.label = label /\ other.expression = expression
      /\ other.syntax = syntax /\ other.addressing = addressing /\ other.data = data
  BY <1>2, <1>4 DEF LiteralData
<1>6. IsLine(other)
  BY <1>2, <1>5 DEF IsLine, LineKinds, Unlabelled, UsesLiteral
<1> QED  BY <1>3, <1>4, <1>6

LEMMA ExpressionLineIs ==
  ASSUME NEW kind \in {"START", "END", "ORG", "BASE"}, NEW label \in Names \cup {NoLabel},
         NEW expression \in Expression, kind = "START" <=> label # NoLabel
  PROVE  IsLine(Line(kind, label, expression))
  BY DEF Line, IsLine, LineKinds, Unlabelled, UsesLiteral

-----------------------------------------------------------------------------
(***************************************************************************)
(* What the parser makes of a line.                                        *)
(***************************************************************************)
\* Instructions.
LEMMA ParseF2Is ==
  ASSUME NEW label \in Names \cup {NoLabel}, NEW mnemonic, NEW operands,
         NEW line \in ParseF2(label, mnemonic, operands)
  PROVE  IsLine(line)
<1>1. PICK r1, r2 : line = InstructionF2(label, mnemonic, r1, r2)
  BY Zenon DEF ParseF2, When
<1> QED  BY <1>1, F2Is

\* Only what loads may have a literal.
LEMMA SyntaxOfLiteral ==
  ASSUME NEW mnemonic, Syntax(mnemonic) # "NONE",
         IsAddressingAllowed(Syntax(mnemonic), "LITERAL_POOL"), mnemonic \notin F2Mnemonic
  PROVE  Syntax(mnemonic) \in {"LOAD_B", "LOAD_W", "LOAD_F"}
<1>1. Syntax(mnemonic) \notin {"STORE_B", "STORE_W", "STORE_F"}
  BY DEF IsAddressingAllowed, IsStore
<1>2. mnemonic \notin {"CLEAR", "TIXR", "NOT", "SHIFTL", "SHIFTR"}
  BY DEF F2Mnemonic
<1> QED  BY <1>1, <1>2 DEF Syntax

LEMMA ParseFS34Is ==
  ASSUME NEW file, NEW label \in Names \cup {NoLabel}, NEW mnemonic, NEW extended,
         NEW operands \in Seq(Token), mnemonic \notin F2Mnemonic,
         NEW line \in ParseFS34(file, label, mnemonic, extended, operands)
  PROVE  IsLine(line)
<1> DEFINE syntax     == Syntax(mnemonic)
           addressing == Addressing(operands)
           tokens     == IF addressing = "SIMPLE" THEN operands ELSE Tail(operands)
           literal    == addressing = "LITERAL_POOL"
           Instruction(indexed, expression) ==
             InstructionFS34(label, mnemonic, syntax, addressing, extended, indexed, expression)
<1>1. CASE syntax = "NONE"
  <2>1. line = InstructionFS34(label, mnemonic, syntax, "SIMPLE", FALSE, FALSE, <<>>)
    BY <1>1, Zenon DEF ParseFS34, When
  <2>2. <<>> \in Seq(Int) /\ <<>> \in Expression
    BY NothingIsExpression
  <2>3. PICK empty : empty = <<>>
    OBVIOUS
  <2>4. PICK simple : simple = "SIMPLE"
    OBVIOUS
  <2>5. empty \in Seq(Int) /\ empty \in Expression /\ simple # "LITERAL_POOL"
    BY <2>2, <2>3, <2>4
  <2>6. line = InstructionFS34(label, mnemonic, syntax, simple, FALSE, FALSE, empty)
    BY <2>1, <2>3, <2>4
  <2> HIDE DEF syntax
  <2> QED  BY <2>5, <2>6, FS34Is, Zenon
<1>2. CASE syntax # "NONE"
  <2>1. tokens # <<>> /\ IsAddressingAllowed(syntax, addressing)
    BY <1>2, Zenon DEF ParseFS34
  <2>2. literal => syntax \in {"LOAD_B", "LOAD_W", "LOAD_F"}
    BY <1>2, <2>1, SyntaxOfLiteral
  <2>3. addressing # "SIMPLE" => operands # <<>>
    BY DEF Addressing, StartsWith
  <2>4. tokens \in Seq(Token)
    <3> HIDE DEF addressing
    <3> QED  BY <2>3
  <2>5. CASE literal /\ (syntax = "LOAD_F" \/ IsData(Head(tokens)))
    <3>1. /\ IsLiteralData(syntax, Head(tokens))
          /\ line = LiteralData(Instruction(FALSE, <<>>), Head(tokens).data)
      BY <1>2, <2>1, <2>5, Zenon DEF ParseFS34, When
    <3>2. Head(tokens) \in Token
      <4> HIDE DEF tokens
      <4> QED  BY <2>1, <2>4
    <3>3. Head(tokens).type \in {"DATA_BIN", "DATA_FLOAT"}
      <4> HIDE DEF tokens, syntax
      <4> QED  BY <2>2, <2>5, <3>1 DEF IsLiteralData, IsData
    <3>4. Head(tokens).data \in Seq(Int)
      <4> HIDE DEF tokens
      <4> QED  BY <3>2, <3>3 DEF Token
    <3> HIDE DEF tokens, syntax, addressing
    <3> QED  BY <2>2, <3>1, <3>4, FS34Is, NothingIsExpression
  <2>6. CASE ~(literal /\ (syntax = "LOAD_F" \/ IsData(Head(tokens))))
    <3>1. PICK parsed \in ParseExpression(file.allow_brackets /\ addressing # "SIMPLE", tokens) :
            line = Instruction(parsed.rest # <<>>, parsed.expression)
      BY <1>2, <2>1, <2>6, Zenon DEF ParseFS34
    <3>2. parsed.expression \in Expression
      <4> HIDE DEF tokens
      <4> QED  BY <2>4, <3>1, ParseExpressionIs
    <3>3. <<>> \in Seq(Int)
      OBVIOUS
    <3> HIDE DEF tokens, syntax, addressing
    <3> QED  BY <2>2, <3>1, <3>2, <3>3, FS34Is
  <2> QED  BY <2>5, <2>6
<1> QED  BY <1>1, <1>2

\* A list of names with commas between them.
LEMMA SymbolListIs ==
  ASSUME NEW tokens \in Seq(Token), IsSymbolList(tokens)
  PROVE  SymbolList(tokens) \in Seq(STRING)
<1> DEFINE m == (Len(tokens) + 1) \div 2
<1>1. Len(tokens) \in Nat /\ Len(tokens) % 2 = 1
  <2>1. Len(tokens) % 2 = 1
    BY Zenon DEF IsSymbolList
  <2> QED  BY <2>1
<1>2. m \in Nat /\ \A n \in 1 .. m : 2 * n - 1 \in 1 .. Len(tokens) /\ (2 * n - 1) % 2 # 0
  BY <1>1
<1>3. \A n \in 1 .. m : tokens[2 * n - 1].name \in STRING
  <2>1. ASSUME NEW k \in 1 .. Len(tokens), k % 2 # 0 PROVE tokens[k].name \in STRING
    <3>1. tokens[k] \in Token /\ k \in DOMAIN tokens
      OBVIOUS
    <3>2. tokens[k].type = "NAME"
      BY <2>1, <3>1 DEF IsSymbolList, IsName
    <3> QED  BY <3>1, <3>2, TextsAssumption DEF Token
  <2> HIDE DEF m
  <2> QED  BY <1>2, <2>1
<1>4. [n \in 1 .. m |-> tokens[2 * n - 1].name] \in Seq(STRING)
  <2> HIDE DEF m
  <2> QED  BY <1>2, <1>3
<1> QED  BY <1>4 DEF SymbolList

LEMMA HeadIsToken ==
  ASSUME NEW tokens \in Seq(Token), tokens # <<>>
  PROVE  Head(tokens) \in Token /\ Tail(tokens) \in Seq(Token)
  OBVIOUS

\* Directives.
LEMMA ParseUseIs ==
  ASSUME NEW operands, NEW line \in ParseUse(operands)
  PROVE  IsLine(line)
<1>1. PICK name : line = Use(name)
  BY Zenon DEF ParseUse, When
<1> QED  BY <1>1, UseIs

LEMMA ParseEquIs ==
  ASSUME NEW label \in Names, label # NoLabel, NEW operands \in Seq(Token),
         NEW line \in ParseEqu(label, operands)
  PROVE  IsLine(line)
<1>1. CASE StartsWith(operands, {"*"})
  <2>1. line = EquHere(label)
    BY <1>1, Zenon DEF ParseEqu, When
  <2> QED  BY <2>1, EquIs, NothingIsExpression
<1>2. CASE ~StartsWith(operands, {"*"})
  <2>1. PICK expression \in WholeExpression(operands) : line = Equ(label, expression)
    BY <1>2, Zenon DEF ParseEqu
  <2> QED  BY <2>1, WholeExpressionIs, EquIs
<1> QED  BY <1>1, <1>2

LEMMA ParseMemInitIs ==
  ASSUME NEW label \in Names \cup {NoLabel}, NEW width, NEW operands \in Seq(Token),
         NEW line \in ParseMemInit(label, width, operands)
  PROVE  IsLine(line)
<1> DEFINE isdata == operands # <<>> /\ IsData(Head(operands))
<1>1. CASE isdata
  <2>1. line = InitData(label, width, Head(operands).data)
    BY <1>1, Zenon DEF ParseMemInit, When
  <2>2. Head(operands) \in Token /\ Head(operands).type \in {"DATA_BIN", "DATA_FLOAT"}
    BY <1>1, HeadIsToken DEF IsData
  <2>3. Head(operands).data \in Seq(Int)
    BY <2>2 DEF Token
  <2> QED  BY <2>1, <2>3, InitIs, NothingIsExpression
<1>2. CASE ~isdata
  <2>1. PICK expression \in WholeExpression(operands) : line = InitValue(label, width, expression)
    BY <1>2, Zenon DEF ParseMemInit
  <2>2. <<>> \in Seq(Int)
    OBVIOUS
  <2> QED  BY <2>1, <2>2, WholeExpressionIs, InitIs
<1> QED  BY <1>1, <1>2

LEMMA ParseMemReserveIs ==
  ASSUME NEW label \in Names \cup {NoLabel}, NEW width, NEW operands \in Seq(Token),
         NEW line \in ParseMemReserve(label, width, operands)
  PROVE  IsLine(line)
<1>1. PICK expression \in WholeExpression(operands) : line = Reserve(label, width, expression)
  BY Zenon DEF ParseMemReserve
<1> QED  BY <1>1, WholeExpressionIs, ReserveIs

LEMMA ParseDirectiveIs ==
  ASSUME NEW label \in Names \cup {NoLabel}, NEW directive \in Directive,
         NEW operands \in Seq(Token), NEW line \in ParseDirective(label, directive, operands)
  PROVE  IsLine(line)
<1>1. /\ IsLabelAllowed(directive, label)
      /\ line \in CASE directive \in {"LTORG", "NOBASE"} -> When(operands = <<>>, Plain(directive))
         [] directive \in {"EXTDEF", "EXTREF"} ->
              When(IsSymbolList(operands), Symbols(directive, SymbolList(operands)))
         [] directive = "USE"  -> ParseUse(operands)
         [] directive = "EQU"  -> ParseEqu(label, operands)
         [] directive = "BYTE" -> ParseMemInit(label, "BYTE", operands)
         [] directive = "WORD" -> ParseMemInit(label, "WORD", operands)
         [] directive = "RESB" -> ParseMemReserve(label, "BYTE", operands)
         [] directive = "RESW" -> ParseMemReserve(label, "WORD", operands)
         [] OTHER -> {Line(directive, label, expression) :
                        expression \in WholeExpression(operands)}
  BY Zenon DEF ParseDirective
<1>2. CASE directive \in {"LTORG", "NOBASE"}
  BY <1>1, <1>2, PlainIs DEF When
<1>3. CASE directive \in {"EXTDEF", "EXTREF"}
  <2>1. IsSymbolList(operands) /\ line = Symbols(directive, SymbolList(operands))
    BY <1>1, <1>3 DEF When
  <2> QED  BY <1>3, <2>1, SymbolListIs, SymbolsIs
<1>4. CASE directive = "USE"
  BY <1>1, <1>4, ParseUseIs
<1>5. CASE directive = "EQU"
  <2>1. line \in ParseEqu(label, operands) /\ label \in Names /\ label # NoLabel
    BY <1>1, <1>5 DEF IsLabelAllowed
  <2> QED  BY <2>1, ParseEquIs
<1>6. CASE directive \in {"BYTE", "WORD"}
  BY <1>1, <1>6, ParseMemInitIs
<1>7. CASE directive \in {"RESB", "RESW"}
  BY <1>1, <1>7, ParseMemReserveIs
<1>8. CASE directive \in {"START", "END", "ORG", "BASE"}
  <2>1. PICK expression \in WholeExpression(operands) : line = Line(directive, label, expression)
    BY <1>1, <1>8
  <2>2. expression \in Expression
    BY WholeExpressionIs
  <2>3. directive = "START" <=> label # NoLabel
    BY <1>1, <1>8 DEF IsLabelAllowed, Unlabelled
  <2> QED  BY <1>8, <2>1, <2>2, <2>3, ExpressionLineIs
<1> QED  BY <1>2, <1>3, <1>4, <1>5, <1>6, <1>7, <1>8 DEF Directive

\* A mnemonic or a directive, with what follows it.
LEMMA ParseMnemonicIs ==
  ASSUME NEW file, NEW label \in Names \cup {NoLabel}, NEW extended, NEW name,
         NEW operands \in Seq(Token), NEW line \in ParseMnemonic(file, label, extended, name, operands)
  PROVE  IsLine(line)
<1> DEFINE mnemonic == IF ~file.case_sensitive /\ name \in DOMAIN Uppercase
                       THEN Uppercase[name] ELSE name
<1>1. CASE mnemonic \in Directive
  <2>1. line \in ParseDirective(label, mnemonic, operands)
    BY <1>1, Zenon DEF ParseMnemonic
  <2> HIDE DEF mnemonic
  <2> QED  BY <1>1, <2>1, ParseDirectiveIs
<1>2. CASE mnemonic \notin Directive
  <2>1. line \in CASE FormatOf(mnemonic) = "F1"   -> When(operands = <<>>, InstructionF1(label, mnemonic))
             [] FormatOf(mnemonic) = "F2"   -> ParseF2(label, mnemonic, operands)
             [] FormatOf(mnemonic) = "FS34" ->
                  ParseFS34(file, label, mnemonic, extended, operands)
    BY <1>2, Zenon DEF ParseMnemonic
  <2> HIDE DEF mnemonic
  <2>2. FormatOf(mnemonic) \in {"F1", "F2", "FS34"}
    BY DEF FormatOf
  <2>3. CASE FormatOf(mnemonic) = "F1"
    BY <2>1, <2>3, F1Is DEF When
  <2>4. CASE FormatOf(mnemonic) = "F2"
    BY <2>1, <2>4, ParseF2Is
  <2>5. CASE FormatOf(mnemonic) = "FS34"
    <3>1. mnemonic \notin F2Mnemonic
      BY <2>5 DEF FormatOf, F1Mnemonic, F2Mnemonic
    <3> QED  BY <2>1, <2>5, <3>1, ParseFS34Is
  <2> QED  BY <2>2, <2>3, <2>4, <2>5
<1> QED  BY <1>1, <1>2

LEMMA WithoutCommentIs ==
  ASSUME NEW tokens \in Seq(Token)
  PROVE  WithoutComment(tokens) \in Seq(Token)
<1>1. ASSUME tokens # <<>> PROVE Front(tokens) \in Seq(Token)
  BY <1>1 DEF Front
<1> QED  BY <1>1 DEF WithoutComment

\* Every line that is accepted is a line.
LEMMA ParseLineIs ==
  ASSUME NEW file, NEW text_line, text_line.tokens \in Seq(Token),
         NEW line \in ParseLine(file, text_line)
  PROVE  IsLine(line)
<1> DEFINE tokens   == WithoutComment(text_line.tokens)
           labelled == HasLabel(text_line, tokens)
           body     == IF labelled THEN Tail(tokens) ELSE tokens
           extended == StartsWith(body, {"+"})
           code     == IF extended THEN Tail(body) ELSE body
           label    == IF labelled THEN Head(tokens).name ELSE NoLabel
<1>1. CASE tokens = <<>>
  <2>1. line = Plain("EMPTY")
    BY <1>1, Zenon DEF ParseLine
  <2> QED  BY <2>1, PlainIs
<1>2. CASE tokens # <<>>
  <2>1. code # <<>> /\ line \in ParseMnemonic(file, label, extended, Head(code).name, Tail(code))
    BY <1>2, Zenon DEF ParseLine
  <2>2. tokens \in Seq(Token)
    BY WithoutCommentIs
  <2>3. Head(tokens) \in Token /\ Tail(tokens) \in Seq(Token)
    <3> HIDE DEF tokens
    <3> QED  BY <1>2, <2>2, HeadIsToken
  <2>4. label \in Names \cup {NoLabel}
    <3>1. labelled => Head(tokens).type = "NAME"
      BY DEF HasLabel, IsName
    <3> HIDE DEF tokens, labelled
    <3> QED  BY <2>3, <3>1 DEF Token
  <2>5. body \in Seq(Token)
    <3> HIDE DEF tokens, labelled
    <3> QED  BY <2>2, <2>3
  <2>6. code \in Seq(Token)
    <3>1. extended => body # <<>>
      BY DEF StartsWith
    <3> HIDE DEF body, extended
    <3> QED  BY <2>5, <3>1, HeadIsToken
  <2>7. Tail(code) \in Seq(Token)
    <3> HIDE DEF code
    <3> QED  BY <2>1, <2>6, HeadIsToken
  <2> HIDE DEF label, extended, code
  <2> QED  BY <2>1, <2>4, <2>7, ParseMnemonicIs
<1> QED  BY <1>1, <1>2

-----------------------------------------------------------------------------
(***************************************************************************)
(* Lists.                                                                  *)
(***************************************************************************)
\* A list has a length.
LEMMA ListIs ==
  ASSUME NEW s, IsList(s)
  PROVE  Len(s) \in Nat /\ DOMAIN s = 1 .. Len(s)
  BY DEF IsList

\* Sequences are lists, and so is what is defined on the first numbers.
LEMMA SequenceIsList ==
  ASSUME NEW S, NEW s \in Seq(S)
  PROVE  IsList(s)
<1>1. \A k \in 1 .. Len(s) : s[k] \in {s[i] : i \in DOMAIN s}
  OBVIOUS
<1> QED  BY <1>1 DEF IsList

LEMMA ListedIs ==
  ASSUME NEW n \in Nat, NEW f, DOMAIN f = 1 .. n, f = [k \in 1 .. n |-> f[k]]
  PROVE  IsList(f) /\ Len(f) = n
<1>1. f \in [1 .. n -> {f[i] : i \in DOMAIN f}]
  OBVIOUS
<1> QED  BY <1>1 DEF IsList

\* What is appended, taken and joined.
LEMMA AppendIs ==
  ASSUME NEW s, IsList(s), NEW e
  PROVE  /\ IsList(Append(s, e)) /\ Len(Append(s, e)) = Len(s) + 1
         /\ \A k \in 1 .. Len(s) : Append(s, e)[k] = s[k]
         /\ Append(s, e)[Len(s) + 1] = e
<1>1. PICK S : S = {s[k] : k \in DOMAIN s} \cup {e}
  OBVIOUS
<1>2. s \in Seq(S) /\ e \in S
  <2>1. s \in Seq({s[k] : k \in DOMAIN s})
    BY DEF IsList
  <2> QED  BY <1>1, <2>1
<1>3. Append(s, e) \in Seq(S) /\ Len(Append(s, e)) = Len(s) + 1
  BY <1>2
<1>4. IsList(Append(s, e))
  BY <1>3, SequenceIsList
<1> QED  BY <1>2, <1>3, <1>4

LEMMA TakenIs ==
  ASSUME NEW s, IsList(s), NEW m \in Nat, NEW n \in Nat, 1 <= m, n <= Len(s)
  PROVE  /\ IsList(SubSeq(s, m, n))
         /\ Len(SubSeq(s, m, n)) = IF m <= n THEN n - m + 1 ELSE 0
         /\ \A k \in 1 .. n - m + 1 : SubSeq(s, m, n)[k] = s[m + k - 1]
<1>1. PICK S : s \in Seq(S)
  BY DEF IsList
<1>2. \A i \in m .. n : s[i] \in S
  BY <1>1
<1>3. SubSeq(s, m, n) \in Seq(S)
  BY <1>1, <1>2
<1>4. IsList(SubSeq(s, m, n))
  BY <1>3, SequenceIsList
<1> QED  BY <1>1, <1>3, <1>4

LEMMA JoinedIs ==
  ASSUME NEW s, NEW t, IsList(s), IsList(t)
  PROVE  /\ IsList(s \o t) /\ Len(s \o t) = Len(s) + Len(t)
         /\ \A k \in 1 .. Len(s) : (s \o t)[k] = s[k]
         /\ \A k \in 1 .. Len(t) : (s \o t)[Len(s) + k] = t[k]
<1>1. PICK S : S = {s[k] : k \in DOMAIN s} \cup {t[k] : k \in DOMAIN t}
  OBVIOUS
<1>2. s \in Seq(S) /\ t \in Seq(S)
  <2>1. s \in Seq({s[k] : k \in DOMAIN s}) /\ t \in Seq({t[k] : k \in DOMAIN t})
    BY DEF IsList
  <2> QED  BY <1>1, <2>1
<1>3. s \o t \in Seq(S)
  BY <1>2
<1>4. IsList(s \o t)
  BY <1>3, SequenceIsList
<1> QED  BY <1>2, <1>3, <1>4

\* A file that is framed has START once and first.
LEMMA FramedIs ==
  ASSUME NEW lines, IsList(lines), IsFramed(lines)
  PROVE  Framed(lines, 1, FALSE)
<1> DEFINE code == {k \in DOMAIN lines : lines[k].kind # "EMPTY"}
<1>1. Len(lines) \in Nat /\ DOMAIN lines = 1 .. Len(lines)
  BY ListIs
<1>2. /\ code # {} /\ lines[Min(code)].kind = "START" /\ lines[Max(code)].kind = "END"
      /\ \A k \in code \ {Min(code), Max(code)} : lines[k].kind \notin {"START", "END"}
  BY DEF IsFramed
<1>3. code \in SUBSET (1 .. Len(lines))
  BY <1>1
<1>4. Min(code) \in code /\ \A x \in code : Min(code) <= x
  <2> HIDE DEF code
  <2> QED  BY <1>1, <1>2, <1>3, MinIn
<1>5. ASSUME NEW k \in 1 .. Len(lines), lines[k].kind # "EMPTY"
      PROVE  k \in code
  BY <1>1, <1>5
<1> HIDE DEF code
<1>6. ASSUME NEW k \in 1 .. Len(lines), lines[k].kind = "START"
      PROVE  k = Min(code)
  <2>1. k \in code
    BY <1>5, <1>6
  <2> QED  BY <1>2, <1>6, <2>1
<1>7. ASSUME NEW k \in 1 .. Len(lines), lines[k].kind # "EMPTY"
      PROVE  \E i \in 1 .. k : lines[i].kind = "START"
  <2>1. Min(code) <= k /\ Min(code) \in 1 .. Len(lines)
    BY <1>3, <1>4, <1>5, <1>7
  <2> QED  BY <1>2, <2>1
<1> QED  BY <1>6, <1>7 DEF Framed

\* It has END.
LEMMA FramedEnds ==
  ASSUME NEW lines, IsList(lines), IsFramed(lines)
  PROVE  \E k \in 1 .. Len(lines) : lines[k].kind = "END"
<1> DEFINE code == {k \in DOMAIN lines : lines[k].kind # "EMPTY"}
<1>1. Len(lines) \in Nat /\ DOMAIN lines = 1 .. Len(lines)
  BY ListIs
<1>2. code # {} /\ lines[Max(code)].kind = "END"
  BY DEF IsFramed
<1>3. code \in SUBSET (1 .. Len(lines))
  BY <1>1
<1>4. Max(code) \in code
  <2> HIDE DEF code
  <2> QED  BY <1>1, <1>2, <1>3, MaxIn
<1> QED  BY <1>2, <1>3, <1>4

\* The lines that the parser leaves to the first pass.
LEMMA ParseFileIs ==
  ASSUME NEW file, IsText(file), NEW lines \in ParseFile(file)
  PROVE  /\ IsList(lines)
         /\ \A k \in DOMAIN lines : IsLine(lines[k])
         /\ Framed(lines, 1, FALSE)
         /\ \E k \in 1 .. Len(lines) : lines[k].kind = "END"
<1> DEFINE parsed == [k \in DOMAIN file.lines |-> ParseLine(file, file.lines[k])]
           chosen == [k \in DOMAIN parsed |-> CHOOSE line \in parsed[k] : TRUE]
<1>1. (\A k \in DOMAIN parsed : parsed[k] # {}) /\ IsFramed(chosen) /\ lines = chosen
  BY Zenon DEF ParseFile, When
<1>2. IsList(file.lines) /\ \A k \in DOMAIN file.lines : file.lines[k].tokens \in Seq(Token)
  BY DEF IsText, IsList
<1>3. PICK n \in Nat : DOMAIN file.lines = 1 .. n
  BY <1>2, ListIs
<1>4. DOMAIN lines = 1 .. n /\ lines = [k \in 1 .. n |-> lines[k]]
  BY <1>1, <1>3
<1>5. ASSUME NEW k \in DOMAIN lines PROVE IsLine(lines[k])
  <2>1. k \in DOMAIN file.lines /\ lines[k] = CHOOSE line \in parsed[k] : TRUE
    BY <1>1
  <2>2. lines[k] \in ParseLine(file, file.lines[k])
    BY <1>1, <2>1
  <2> QED  BY <1>2, <2>1, <2>2, ParseLineIs
<1>6. IsList(lines)
  BY <1>3, <1>4, ListedIs
<1> QED  BY <1>1, <1>5, <1>6, FramedIs, FramedEnds

-----------------------------------------------------------------------------
(*****************************************************************************)
(* The sweep that looks for intersections.  The marks are passed in their  *)
(* order; a segment is open while its begin has been passed and its end    *)
(* has not.  Where two segments overlap, the second of them opens while    *)
(* another one is open, and the sweep has that address, or an earlier one, *)
(* as the start of an intersection until only one is left.                 *)
(*****************************************************************************)
\* A strict total order on the numbers up to n.
IsOrder(less, n) ==
  /\ \A k \in 1 .. n : <<k, k>> \notin less
  /\ \A j, k, m \in 1 .. n : <<j, k>> \in less /\ <<k, m>> \in less => <<j, m>> \in less
  /\ \A j, k \in 1 .. n : j # k => <<j, k>> \in less \/ <<k, j>> \in less

\* What precedes a number, and how much that is.
Preceding(less, n, k) == {m \in 1 .. n : <<m, k>> \in less}

\* A rank counts what precedes.
IsRank(rank, less, n) == \A k \in 1 .. n : rank[k] = Cardinality(Preceding(less, n, k))

\* The ranks are the places in the order.
LEMMA RankIs ==
  ASSUME NEW n \in Nat, NEW less, IsOrder(less, n), NEW rank, IsRank(rank, less, n)
  PROVE  /\ \A k \in 1 .. n : rank[k] \in 0 .. n - 1
         /\ \A j, k \in 1 .. n : <<j, k>> \in less <=> rank[j] < rank[k]
         /\ \A place \in 0 .. n - 1 : \E k \in 1 .. n : rank[k] = place
<1> DEFINE D == 1 .. n
           P(k) == Preceding(less, n, k)
<1>1. IsFiniteSet(D) /\ Cardinality(D) = n
  BY 1 \in Int, n \in Int, FS_Interval
<1>2. \A k \in D : IsFiniteSet(P(k)) /\ Cardinality(P(k)) \in Nat
  <2>1. ASSUME NEW k \in D PROVE IsFiniteSet(P(k)) /\ Cardinality(P(k)) \in Nat
    <3>1. P(k) \in SUBSET D
      BY DEF Preceding
    <3> QED  BY <1>1, <3>1, FS_Subset, FS_CardinalityType
  <2> QED  BY <2>1
<1>3. ASSUME NEW k \in D PROVE rank[k] \in 0 .. n - 1
  <2>1. P(k) \in SUBSET D /\ P(k) # D
    BY DEF Preceding, IsOrder
  <2>2. Cardinality(P(k)) <= n /\ Cardinality(P(k)) # n
    <3>1. Cardinality(P(k)) <= Cardinality(D) /\ (Cardinality(D) = Cardinality(P(k)) => D = P(k))
      BY <1>1, <2>1, FS_Subset
    <3> QED  BY <1>1, <2>1, <3>1
  <2>3. rank[k] = Cardinality(P(k))
    BY DEF IsRank
  <2> QED  BY <1>2, <2>2, <2>3
<1>4. ASSUME NEW j \in D, NEW k \in D, <<j, k>> \in less PROVE rank[j] < rank[k]
  <2>1. P(j) \in SUBSET P(k) /\ j \in P(k) /\ j \notin P(j)
    BY <1>4 DEF Preceding, IsOrder
  <2>2. Cardinality(P(j)) <= Cardinality(P(k)) /\ Cardinality(P(k)) # Cardinality(P(j))
    BY <1>2, <2>1, FS_Subset
  <2>3. rank[j] = Cardinality(P(j)) /\ rank[k] = Cardinality(P(k))
    BY DEF IsRank
  <2> QED  BY <1>2, <2>2, <2>3
<1>5. ASSUME NEW j \in D, NEW k \in D, rank[j] < rank[k] PROVE <<j, k>> \in less
  <2>1. rank[j] \in 0 .. n - 1 /\ rank[k] \in 0 .. n - 1
    BY <1>3
  <2>2. j # k
    BY <1>5, <2>1
  <2>3. <<k, j>> \notin less
    <3>1. ~(rank[k] < rank[j])
      BY <1>5, <2>1
    <3> QED  BY <1>4, <3>1
  <2> QED  BY <2>2, <2>3 DEF IsOrder
<1>6. ASSUME NEW place \in 0 .. n - 1 PROVE \E k \in D : rank[k] = place
  <2> SUFFICES ASSUME \A k \in D : rank[k] # place PROVE FALSE
    OBVIOUS
  <2> DEFINE T == (0 .. n - 1) \ {place}
             f == [k \in D |-> rank[k]]
  <2>1. f \in [D -> T]
    BY <1>3
  <2>2. IsFiniteSet(T) /\ Cardinality(T) < Cardinality(D)
    <3>1. IsFiniteSet(0 .. n - 1) /\ Cardinality(0 .. n - 1) = n
      <4>1. 0 \in Int /\ n - 1 \in Int /\ n > 0
        OBVIOUS
      <4>2. IsFiniteSet(0 .. n - 1)
            /\ Cardinality(0 .. n - 1) = IF 0 > n - 1 THEN 0 ELSE n - 1 - 0 + 1
        BY <4>1, FS_Interval
      <4> QED  BY <4>1, <4>2
    <3>2. IsFiniteSet(T) /\ Cardinality(T) = n - 1
      BY <3>1, FS_RemoveElement
    <3> QED  BY <1>1, <3>2
  <2>3. \E x, y \in D : x # y /\ f[x] = f[y]
    <3> HIDE DEF D, T, f
    <3> QED  BY <1>1, <2>1, <2>2, FS_PigeonHole
  <2>4. PICK x, y \in D : x # y /\ rank[x] = rank[y]
    BY <2>3
  <2>5. rank[x] < rank[y] \/ rank[y] < rank[x]
    BY <1>4, <2>4 DEF IsOrder
  <2> QED  BY <1>3, <2>4, <2>5
<1> QED  BY <1>3, <1>4, <1>5, <1>6

\* Marks at the begins and ends of segments.
MarksOf(seg, n) ==
  [k \in 1 .. 2 * n |-> IF k <= n THEN <<seg[k][1], 0>> ELSE <<seg[k - n][2], 1>>]

\* Marks are sorted by address, and at the same address begins come first.
IsBefore(marks, j, k) ==
  \/ marks[j][1] < marks[k][1]
  \/ /\ marks[j][1] = marks[k][1]
     /\ marks[j][2] < marks[k][2] \/ (marks[j][2] = marks[k][2] /\ j < k)

\* Numbers of the marks from 0 in that order.
RanksMarks(rank, marks, n) ==
  /\ \A k \in 1 .. n : rank[k] \in 0 .. n - 1
  /\ \A j, k \in 1 .. n : IsBefore(marks, j, k) <=> rank[j] < rank[k]
  /\ \A place \in 0 .. n - 1 : \E k \in 1 .. n : rank[k] = place

\* What a segment is: from an address to the next one behind it.
IsSegments(seg, n) ==
  \A k \in 1 .. n : seg[k][1] \in Nat /\ seg[k][2] \in Nat /\ seg[k][1] <= seg[k][2]

\* What the sweep does at a mark.
SweepState == [count : Int, start : Nat, found : BOOLEAN]

\* A mark is passed.
Swept(v, mark) ==
  IF mark[2] = 1
  THEN [v EXCEPT !.count = @ - 1, !.found = @ \/ (v.count = 2 /\ v.start # mark[1])]
  ELSE [v EXCEPT !.count = @ + 1, !.start = IF v.count = 1 THEN mark[1] ELSE @]

\* The segments that are open when the first p marks have been passed.
OpenAt(rank, n, p) == {i \in 1 .. n : rank[i] < p /\ p <= rank[n + i]}

\* Two segments overlap, and the later one of them begins at an address.
Overlap(seg, i, j, x) ==
  /\ seg[i][1] <= x /\ seg[j][1] <= x /\ x \in {seg[i][1], seg[j][1]}
  /\ x < seg[i][2] /\ x < seg[j][2]

\* The sweep after p marks, with regard to two segments that overlap.
IsSwept(v, seg, n, rank, i, j, x, p) ==
  /\ v \in SweepState
  /\ v.count = Cardinality(OpenAt(rank, n, p))
  /\ v.count >= 2 => \A k \in 1 .. 2 * n : p <= rank[k] => v.start <= MarksOf(seg, n)[k][1]
  /\ rank[i] < p /\ rank[j] < p => v.found \/ (v.count >= 2 /\ v.start <= x)

\* What the marks are, one for one.
AreMarks(marks, seg, n) ==
  /\ \A k \in 1 .. 2 * n : marks[k][1] \in Nat /\ marks[k][2] \in {0, 1}
  /\ \A k \in 1 .. n : marks[k] = <<seg[k][1], 0>> /\ marks[n + k] = <<seg[k][2], 1>>

\* The marks of segments are such marks.
LEMMA MarksAre ==
  ASSUME NEW n \in Nat, NEW seg, IsSegments(seg, n), NEW marks, marks = MarksOf(seg, n)
  PROVE  AreMarks(marks, seg, n)
<1>1. ASSUME NEW k \in 1 .. n
      PROVE  marks[k] = <<seg[k][1], 0>> /\ marks[n + k] = <<seg[k][2], 1>>
  BY DEF MarksOf
<1>2. ASSUME NEW k \in 1 .. 2 * n
      PROVE  marks[k][1] \in Nat /\ marks[k][2] \in {0, 1}
  <2>1. CASE k <= n
    <3>1. k \in 1 .. n
      BY <2>1
    <3> QED  BY <1>1, <3>1 DEF IsSegments
  <2>2. CASE k > n
    <3>1. k - n \in 1 .. n /\ n + (k - n) = k
      BY <2>2
    <3>2. marks[k] = <<seg[k - n][2], 1>>
      BY <1>1, <3>1
    <3> QED  BY <3>1, <3>2 DEF IsSegments
  <2> QED  BY <2>1, <2>2
<1> QED  BY <1>1, <1>2 DEF AreMarks

\* A segment begins before it ends, and no mark is passed with another.
LEMMA SortedMarks ==
  ASSUME NEW n \in Nat, NEW seg, IsSegments(seg, n), NEW marks, marks = MarksOf(seg, n),
         NEW rank, RanksMarks(rank, marks, 2 * n)
  PROVE  /\ \A i \in 1 .. n : rank[i] < rank[n + i]
         /\ \A j, k \in 1 .. 2 * n : rank[j] = rank[k] => j = k
         /\ \A j, k \in 1 .. 2 * n : rank[j] <= rank[k] => marks[j][1] <= marks[k][1]
         /\ \A j, k \in 1 .. 2 * n : marks[j][1] < marks[k][1] => rank[j] < rank[k]
<1>1. /\ \A k \in 1 .. 2 * n : marks[k][1] \in Nat /\ marks[k][2] \in {0, 1}
      /\ \A k \in 1 .. n : marks[k] = <<seg[k][1], 0>> /\ marks[n + k] = <<seg[k][2], 1>>
  <2>1. AreMarks(marks, seg, n)
    BY MarksAre
  <2> QED  BY <2>1 DEF AreMarks
<1>2. \A k \in 1 .. 2 * n : rank[k] \in Nat
  BY DEF RanksMarks
<1>3. ASSUME NEW i \in 1 .. n PROVE rank[i] < rank[n + i]
  <2>1. i \in 1 .. 2 * n /\ n + i \in 1 .. 2 * n
    OBVIOUS
  <2>2. IsBefore(marks, i, n + i)
    BY <1>1 DEF IsBefore, IsSegments
  <2> QED  BY <2>1, <2>2 DEF RanksMarks
<1>4. ASSUME NEW j \in 1 .. 2 * n, NEW k \in 1 .. 2 * n, j # k
      PROVE  IsBefore(marks, j, k) \/ IsBefore(marks, k, j)
  <2>1. /\ marks[j][1] \in Nat /\ marks[j][2] \in {0, 1}
        /\ marks[k][1] \in Nat /\ marks[k][2] \in {0, 1}
    BY <1>1
  <2>2. PICK a, b, c, d : a = marks[j][1] /\ b = marks[j][2] /\ c = marks[k][1] /\ d = marks[k][2]
    OBVIOUS
  <2>3. a \in Nat /\ c \in Nat /\ b \in {0, 1} /\ d \in {0, 1}
    BY <2>1, <2>2
  <2>4. \/ (a < c \/ (a = c /\ (b < d \/ (b = d /\ j < k))))
        \/ (c < a \/ (c = a /\ (d < b \/ (d = b /\ k < j))))
    BY <1>4, <2>3
  <2> QED  BY <2>2, <2>4 DEF IsBefore
<1>5. ASSUME NEW j \in 1 .. 2 * n, NEW k \in 1 .. 2 * n, rank[j] = rank[k] PROVE j = k
  <2>1. ~(rank[j] < rank[k]) /\ ~(rank[k] < rank[j])
    BY <1>2, <1>5
  <2> QED  BY <1>4, <2>1 DEF RanksMarks
<1>6. ASSUME NEW j \in 1 .. 2 * n, NEW k \in 1 .. 2 * n, marks[j][1] < marks[k][1]
      PROVE  rank[j] < rank[k]
  BY <1>6 DEF IsBefore, RanksMarks
<1>7. ASSUME NEW j \in 1 .. 2 * n, NEW k \in 1 .. 2 * n, rank[j] <= rank[k]
      PROVE  marks[j][1] <= marks[k][1]
  <2>1. ~(marks[k][1] < marks[j][1])
    BY <1>2, <1>6, <1>7
  <2> QED  BY <1>1, <2>1
<1> QED  BY <1>3, <1>5, <1>6, <1>7

\* Before the first mark no segment is open, and after the last one.
LEMMA OpenAtEnds ==
  ASSUME NEW n \in Nat, NEW seg, NEW rank, RanksMarks(rank, MarksOf(seg, n), 2 * n)
  PROVE  OpenAt(rank, n, 0) = {} /\ OpenAt(rank, n, 2 * n) = {}
<1>1. \A k \in 1 .. 2 * n : rank[k] \in 0 .. 2 * n - 1
  BY DEF RanksMarks
<1>2. \A i \in 1 .. n : i \in 1 .. 2 * n /\ n + i \in 1 .. 2 * n
  OBVIOUS
<1>3. \A i \in 1 .. n : ~(rank[i] < 0) /\ ~(2 * n <= rank[n + i])
  BY <1>1, <1>2
<1> QED  BY <1>3 DEF OpenAt

\* A segment that is not among two differs from each of them.
LEMMA OfTwo ==
  ASSUME NEW s, IsFiniteSet(s), Cardinality(s) = 2, NEW i \in s, NEW j \in s, i # j
  PROVE  \A c \in s : c \in {i, j}
<1>1. IsFiniteSet({i}) /\ Cardinality({i}) = 1
  BY FS_Singleton
<1>2. IsFiniteSet({i} \cup {j}) /\ Cardinality({i} \cup {j}) = 2
  <2>1. /\ IsFiniteSet({i} \cup {j})
        /\ Cardinality({i} \cup {j})
             = IF j \in {i} THEN Cardinality({i}) ELSE Cardinality({i}) + 1
    BY <1>1, FS_AddElement
  <2> QED  BY <1>1, <2>1
<1>3. {i} \cup {j} \in SUBSET s
  OBVIOUS
<1>4. s = {i} \cup {j}
  BY <1>2, <1>3, FS_Subset
<1> QED  BY <1>4

\* There are finitely many open segments.
LEMMA OpenFinite ==
  ASSUME NEW n \in Nat, NEW rank, NEW p
  PROVE  IsFiniteSet(OpenAt(rank, n, p)) /\ Cardinality(OpenAt(rank, n, p)) \in Nat
         /\ (Cardinality(OpenAt(rank, n, p)) = 0 <=> OpenAt(rank, n, p) = {})
<1>1. IsFiniteSet(1 .. n)
  BY 1 \in Int, n \in Int, FS_Interval
<1>2. OpenAt(rank, n, p) \in SUBSET (1 .. n)
  BY DEF OpenAt
<1> QED  BY <1>1, <1>2, Smaller

\* A mark at the begin of a segment.
LEMMA SweepBegin ==
  ASSUME NEW n \in Nat, NEW seg, IsSegments(seg, n), NEW marks, marks = MarksOf(seg, n),
         NEW rank, RanksMarks(rank, marks, 2 * n),
         NEW i \in 1 .. n, NEW j \in 1 .. n, i # j, NEW x \in Nat, Overlap(seg, i, j, x),
         NEW p \in 0 .. 2 * n - 1, NEW v, IsSwept(v, seg, n, rank, i, j, x, p),
         NEW k \in 1 .. n, rank[k] = p
  PROVE  IsSwept(Swept(v, marks[k]), seg, n, rank, i, j, x, p + 1)
<1>1. /\ \A m \in 1 .. 2 * n : marks[m][1] \in Nat /\ marks[m][2] \in {0, 1}
      /\ \A m \in 1 .. n : marks[m] = <<seg[m][1], 0>> /\ marks[n + m] = <<seg[m][2], 1>>
  <2>1. AreMarks(marks, seg, n)
    BY MarksAre
  <2> QED  BY <2>1 DEF AreMarks
<1>2. /\ \A m \in 1 .. n : rank[m] < rank[n + m]
      /\ \A l, m \in 1 .. 2 * n : rank[l] = rank[m] => l = m
      /\ \A l, m \in 1 .. 2 * n : rank[l] <= rank[m] => marks[l][1] <= marks[m][1]
      /\ \A l, m \in 1 .. 2 * n : marks[l][1] < marks[m][1] => rank[l] < rank[m]
  BY SortedMarks
<1>3. \A m \in 1 .. 2 * n : rank[m] \in Nat
  BY DEF RanksMarks
<1>4. \A m \in 1 .. n : m \in 1 .. 2 * n /\ n + m \in 1 .. 2 * n
  OBVIOUS
<1>5. /\ v \in SweepState /\ v.count = Cardinality(OpenAt(rank, n, p))
      /\ v.count >= 2 => \A m \in 1 .. 2 * n : p <= rank[m] => v.start <= marks[m][1]
      /\ rank[i] < p /\ rank[j] < p => v.found \/ (v.count >= 2 /\ v.start <= x)
  BY DEF IsSwept
<1>6. PICK count, start, found :
        count = v.count /\ start = v.start /\ found = v.found /\ count \in Int /\ start \in Nat
        /\ found \in BOOLEAN
  BY <1>5 DEF SweepState
<1>7. PICK w : w = Swept(v, marks[k])
  OBVIOUS
<1>8. w.count = count + 1 /\ w.start = (IF count = 1 THEN seg[k][1] ELSE start) /\ w.found = found
      /\ w \in SweepState
  <2>1. marks[k][2] = 0 /\ marks[k][1] = seg[k][1] /\ seg[k][1] \in Nat
    BY <1>1 DEF IsSegments
  <2>2. w = [v EXCEPT !.count = @ + 1, !.start = IF v.count = 1 THEN marks[k][1] ELSE @]
    BY <1>7, <2>1 DEF Swept
  <2>3. v = [count |-> count, start |-> start, found |-> found]
    BY <1>5, <1>6, Zenon DEF SweepState
  <2>4. PICK first \in Nat : first = IF count = 1 THEN seg[k][1] ELSE start
    BY <1>6, <2>1
  <2>5. w = [count |-> count + 1, start |-> first, found |-> found]
    <3>1. w = [v EXCEPT !.count = count + 1, !.start = first]
      BY <1>6, <2>1, <2>2, <2>4
    <3> QED  BY <2>3, <3>1
  <2> QED  BY <1>6, <2>4, <2>5 DEF SweepState
<1>9. OpenAt(rank, n, p + 1) = OpenAt(rank, n, p) \cup {k} /\ k \notin OpenAt(rank, n, p)
  <2>1. k \notin OpenAt(rank, n, p)
    BY <1>3, <1>4 DEF OpenAt
  <2>2. ASSUME NEW m \in 1 .. n
        PROVE  m \in OpenAt(rank, n, p + 1) <=> m \in OpenAt(rank, n, p) \/ m = k
    <3>1. rank[m] \in Nat /\ rank[n + m] \in Nat /\ rank[m] < rank[n + m] /\ p \in Nat
          /\ m \in 1 .. 2 * n /\ n + m \in 1 .. 2 * n /\ k \in 1 .. 2 * n
      BY <1>2, <1>3, <1>4
    <3>2. CASE m = k
      BY <3>1, <3>2 DEF OpenAt
    <3>3. CASE m # k
      <4>1. rank[m] # p /\ rank[n + m] # p
        <5>1. n + m # k
          OBVIOUS
        <5> QED  BY <1>2, <3>1, <3>3, <5>1
      <4> QED  BY <3>1, <3>3, <4>1 DEF OpenAt
    <3> QED  BY <3>2, <3>3
  <2> QED  BY <2>1, <2>2 DEF OpenAt
<1>10. w.count = Cardinality(OpenAt(rank, n, p + 1))
  <2>1. Cardinality(OpenAt(rank, n, p + 1)) = Cardinality(OpenAt(rank, n, p)) + 1
    BY <1>9, OpenFinite, FS_AddElement
  <2> QED  BY <1>5, <1>6, <1>8, <2>1
<1>11. ASSUME w.count >= 2, NEW m \in 1 .. 2 * n, p + 1 <= rank[m]
       PROVE  w.start <= marks[m][1]
  <2>1. rank[k] <= rank[m] /\ k \in 1 .. 2 * n /\ p <= rank[m] /\ rank[m] \in Nat
    BY <1>3, <1>11
  <2>2. CASE count = 1
    <3>1. marks[k][1] <= marks[m][1]
      BY <1>2, <2>1
    <3> QED  BY <1>1, <1>8, <2>2, <3>1
  <2>3. CASE count # 1
    <3>1. count >= 2
      BY <1>6, <1>8, <1>11, <2>3
    <3> QED  BY <1>5, <1>6, <1>8, <2>1, <2>3, <3>1
  <2> QED  BY <2>2, <2>3
<1>12. ASSUME NEW a \in 1 .. n, rank[a] < p, NEW b \in 1 .. n, b = k, a \in {i, j}, b \in {i, j}
       PROVE  w.count >= 2 /\ w.start <= x
  <2>1. seg[a][1] <= x /\ seg[b][1] <= x /\ x < seg[a][2]
        /\ seg[a][2] \in Nat /\ seg[b][1] \in Nat
    BY <1>12 DEF Overlap, IsSegments
  <2>2. marks[b][1] < marks[n + a][1]
    BY <1>1, <2>1
  <2>3. rank[b] < rank[n + a]
    BY <1>2, <1>4, <2>2
  <2>4. a \in OpenAt(rank, n, p)
    BY <1>3, <1>4, <1>12, <2>3 DEF OpenAt
  <2>5. count >= 1
    BY <1>5, <1>6, <2>4, OpenFinite
  <2>6. CASE count = 1
    BY <1>8, <1>12, <2>1, <2>6
  <2>7. CASE count # 1
    <3>1. count >= 2 /\ b \in 1 .. 2 * n /\ p <= rank[b]
      BY <1>3, <1>6, <1>12, <2>5, <2>7
    <3>2. start <= marks[b][1]
      BY <1>5, <1>6, <3>1
    <3>3. start <= seg[b][1]
      BY <1>1, <3>2
    <3> QED  BY <1>6, <1>8, <2>1, <2>7, <3>1, <3>3
  <2> QED  BY <2>6, <2>7
<1>13. ASSUME rank[i] < p + 1, rank[j] < p + 1
       PROVE  w.found \/ (w.count >= 2 /\ w.start <= x)
  <2>1. i \in 1 .. 2 * n /\ j \in 1 .. 2 * n /\ k \in 1 .. 2 * n
    OBVIOUS
  <2>2. rank[i] \in Nat /\ rank[j] \in Nat
    BY <1>3, <2>1
  <2>3. CASE rank[i] < p /\ rank[j] < p
    <3>1. found \/ (count >= 2 /\ start <= x)
      BY <1>5, <1>6, <2>3
    <3>2. CASE count >= 2
      <4>1. w.start = start /\ w.count >= 2
        BY <1>6, <1>8, <3>2
      <4> QED  BY <1>8, <3>1, <4>1
    <3> QED  BY <1>8, <3>1, <3>2
  <2>4. CASE ~(rank[i] < p)
    <3>1. rank[i] = p
      BY <1>13, <2>2, <2>4
    <3>2. i = k
      BY <1>2, <2>1, <3>1
    <3>3. rank[j] # p
      BY <1>2, <2>1, <3>2
    <3>4. rank[j] < p
      BY <1>13, <2>2, <3>3
    <3> QED  BY <1>12, <3>2, <3>4
  <2>5. CASE ~(rank[j] < p)
    <3>1. rank[j] = p
      BY <1>13, <2>2, <2>5
    <3>2. j = k
      BY <1>2, <2>1, <3>1
    <3>3. rank[i] # p
      BY <1>2, <2>1, <3>2
    <3>4. rank[i] < p
      BY <1>13, <2>2, <3>3
    <3> QED  BY <1>12, <3>2, <3>4
  <2> QED  BY <2>3, <2>4, <2>5
<1> QED  BY <1>7, <1>8, <1>10, <1>11, <1>13 DEF IsSwept

\* A mark at the end of one.
LEMMA SweepEnd ==
  ASSUME NEW n \in Nat, NEW seg, IsSegments(seg, n), NEW marks, marks = MarksOf(seg, n),
         NEW rank, RanksMarks(rank, marks, 2 * n),
         NEW i \in 1 .. n, NEW j \in 1 .. n, i # j, NEW x \in Nat, Overlap(seg, i, j, x),
         NEW p \in 0 .. 2 * n - 1, NEW v, IsSwept(v, seg, n, rank, i, j, x, p),
         NEW c \in 1 .. n, rank[n + c] = p
  PROVE  IsSwept(Swept(v, marks[n + c]), seg, n, rank, i, j, x, p + 1)
<1>0. AreMarks(marks, seg, n)
  BY MarksAre
<1>1. /\ \A m \in 1 .. 2 * n : marks[m][1] \in Nat /\ marks[m][2] \in {0, 1}
      /\ \A m \in 1 .. n : marks[m] = <<seg[m][1], 0>> /\ marks[n + m] = <<seg[m][2], 1>>
  BY <1>0 DEF AreMarks
<1>2. /\ \A m \in 1 .. n : rank[m] < rank[n + m]
      /\ \A l, m \in 1 .. 2 * n : rank[l] = rank[m] => l = m
      /\ \A l, m \in 1 .. 2 * n : rank[l] <= rank[m] => marks[l][1] <= marks[m][1]
  BY SortedMarks
<1>3. \A m \in 1 .. 2 * n : rank[m] \in Nat
  BY DEF RanksMarks
<1>4. \A m \in 1 .. n : m \in 1 .. 2 * n /\ n + m \in 1 .. 2 * n
  OBVIOUS
<1>5. /\ v \in SweepState /\ v.count = Cardinality(OpenAt(rank, n, p))
      /\ v.count >= 2 => \A m \in 1 .. 2 * n : p <= rank[m] => v.start <= marks[m][1]
      /\ rank[i] < p /\ rank[j] < p => v.found \/ (v.count >= 2 /\ v.start <= x)
  BY DEF IsSwept
<1>6. PICK count, start, found :
        count = v.count /\ start = v.start /\ found = v.found /\ count \in Int /\ start \in Nat
        /\ found \in BOOLEAN
  BY <1>5 DEF SweepState
<1>7. PICK w : w = Swept(v, marks[n + c])
  OBVIOUS
<1>8. /\ w.count = count - 1 /\ w.start = start
      /\ w.found = (found \/ (count = 2 /\ start # seg[c][2])) /\ w \in SweepState
  <2>1. marks[n + c][2] = 1 /\ marks[n + c][1] = seg[c][2]
    BY <1>1
  <2>2. w = [v EXCEPT !.count = @ - 1, !.found = @ \/ (v.count = 2 /\ v.start # marks[n + c][1])]
    BY <1>7, <2>1 DEF Swept
  <2>3. v = [count |-> count, start |-> start, found |-> found]
    BY <1>5, <1>6, Zenon DEF SweepState
  <2>4. PICK hit \in BOOLEAN : hit = (found \/ (count = 2 /\ start # seg[c][2]))
    OBVIOUS
  <2>5. w = [count |-> count - 1, start |-> start, found |-> hit]
    <3>1. w = [v EXCEPT !.count = count - 1, !.found = hit]
      BY <1>6, <2>1, <2>2, <2>4, Zenon
    <3> QED  BY <2>3, <3>1
  <2> QED  BY <1>6, <2>4, <2>5 DEF SweepState
<1>9. c \in OpenAt(rank, n, p)
  BY <1>2, <1>3, <1>4 DEF OpenAt
<1>10. OpenAt(rank, n, p + 1) = OpenAt(rank, n, p) \ {c}
  <2>1. ASSUME NEW m \in 1 .. n
        PROVE  m \in OpenAt(rank, n, p + 1) <=> m \in OpenAt(rank, n, p) /\ m # c
    <3>1. rank[m] \in Nat /\ rank[n + m] \in Nat /\ p \in Nat
          /\ m \in 1 .. 2 * n /\ n + m \in 1 .. 2 * n /\ n + c \in 1 .. 2 * n
      BY <1>3, <1>4
    <3>2. CASE m = c
      BY <3>1, <3>2 DEF OpenAt
    <3>3. CASE m # c
      <4>1. rank[m] # p /\ rank[n + m] # p
        <5>1. m # n + c /\ n + m # n + c
          BY <3>3
        <5> QED  BY <1>2, <3>1, <5>1
      <4> QED  BY <3>1, <3>3, <4>1 DEF OpenAt
    <3> QED  BY <3>2, <3>3
  <2> QED  BY <2>1 DEF OpenAt
<1>11. w.count = Cardinality(OpenAt(rank, n, p + 1))
  <2>1. Cardinality(OpenAt(rank, n, p + 1)) = Cardinality(OpenAt(rank, n, p)) - 1
    BY <1>9, <1>10, OpenFinite, FS_RemoveElement
  <2> QED  BY <1>5, <1>6, <1>8, <2>1
<1>12. ASSUME w.count >= 2, NEW m \in 1 .. 2 * n, p + 1 <= rank[m]
       PROVE  w.start <= marks[m][1]
  <2>1. p <= rank[m] /\ count >= 2
    BY <1>3, <1>6, <1>8, <1>12
  <2> QED  BY <1>5, <1>6, <1>8, <2>1
<1>13. ASSUME rank[i] < p + 1, rank[j] < p + 1
       PROVE  w.found \/ (w.count >= 2 /\ w.start <= x)
  <2>1. i \in 1 .. 2 * n /\ j \in 1 .. 2 * n /\ n + c \in 1 .. 2 * n /\ n + i \in 1 .. 2 * n
        /\ n + j \in 1 .. 2 * n
    OBVIOUS
  <2>2. rank[i] \in Nat /\ rank[j] \in Nat /\ rank[n + i] \in Nat /\ rank[n + j] \in Nat
    BY <1>3, <2>1
  <2>3. rank[i] # p /\ rank[j] # p
    <3>1. i # n + c /\ j # n + c
      OBVIOUS
    <3> QED  BY <1>2, <2>1, <3>1
  <2>4. rank[i] < p /\ rank[j] < p
    BY <1>13, <2>2, <2>3
  <2>5. found \/ (count >= 2 /\ start <= x)
    BY <1>5, <1>6, <2>4
  <2>6. CASE ~found /\ count = 2
    <3>1. seg[c][2] \in Nat /\ seg[i][2] \in Nat /\ seg[j][2] \in Nat
          /\ x < seg[i][2] /\ x < seg[j][2]
      BY DEF IsSegments, Overlap
    <3>2. ASSUME NEW a \in {i, j}, a \notin OpenAt(rank, n, p)
          PROVE  seg[a][2] <= seg[c][2]
      <4>1. rank[a] < p /\ a \in 1 .. n /\ n + a \in 1 .. 2 * n
        BY <2>4
      <4>2. ~(p <= rank[n + a])
        BY <3>2, <4>1 DEF OpenAt
      <4>3. rank[n + a] <= rank[n + c]
        BY <1>3, <2>1, <4>1, <4>2
      <4>4. marks[n + a][1] <= marks[n + c][1]
        BY <1>2, <2>1, <4>1, <4>3
      <4> QED  BY <1>1, <4>1, <4>4
    <3>3. x < seg[c][2]
      <4>1. CASE i \in OpenAt(rank, n, p) /\ j \in OpenAt(rank, n, p)
        <5>1. IsFiniteSet(OpenAt(rank, n, p)) /\ Cardinality(OpenAt(rank, n, p)) = 2
          BY <1>5, <1>6, <2>6, OpenFinite
        <5>2. c \in {i, j}
          BY <1>9, <4>1, <5>1, OfTwo
        <5> QED  BY <3>1, <5>2
      <4>2. CASE i \notin OpenAt(rank, n, p)
        <5>1. seg[i][2] <= seg[c][2]
          BY <3>2, <4>2
        <5> QED  BY <3>1, <5>1
      <4>3. CASE j \notin OpenAt(rank, n, p)
        <5>1. seg[j][2] <= seg[c][2]
          BY <3>2, <4>3
        <5> QED  BY <3>1, <5>1
      <4> QED  BY <4>1, <4>2, <4>3
    <3>4. start # seg[c][2]
      BY <1>6, <2>5, <2>6, <3>1, <3>3
    <3> QED  BY <1>8, <2>6, <3>4
  <2>7. CASE found
    BY <1>8, <2>7
  <2>8. CASE ~found /\ count # 2
    <3>1. count - 1 >= 2
      BY <1>6, <2>5, <2>8
    <3> QED  BY <1>8, <2>5, <2>8, <3>1
  <2> QED  BY <2>6, <2>7, <2>8
<1> QED  BY <1>7, <1>8, <1>11, <1>12, <1>13 DEF IsSwept

\* Each mark is of one kind or the other.
LEMMA SweepStep ==
  ASSUME NEW n \in Nat, NEW seg, IsSegments(seg, n), NEW marks, marks = MarksOf(seg, n),
         NEW rank, RanksMarks(rank, marks, 2 * n),
         NEW i \in 1 .. n, NEW j \in 1 .. n, i # j, NEW x \in Nat, Overlap(seg, i, j, x),
         NEW p \in 0 .. 2 * n - 1, NEW v, IsSwept(v, seg, n, rank, i, j, x, p),
         NEW m \in 1 .. 2 * n, rank[m] = p
  PROVE  IsSwept(Swept(v, marks[m]), seg, n, rank, i, j, x, p + 1)
<1>1. CASE m <= n
  <2>1. m \in 1 .. n
    BY <1>1
  <2> QED  BY <2>1, SweepBegin
<1>2. CASE m > n
  <2>1. m - n \in 1 .. n /\ n + (m - n) = m
    BY <1>2
  <2>2. PICK c \in 1 .. n : n + c = m
    BY <2>1
  <2>3. IsSwept(Swept(v, marks[n + c]), seg, n, rank, i, j, x, p + 1)
    BY <2>2, SweepEnd
  <2> QED  BY <2>2, <2>3
<1> QED  BY <1>1, <1>2

\* A sweep goes over the marks in their order.
IsSweep(states, marks, rank, n) ==
  /\ states[0] = [count |-> 0, start |-> 0, found |-> FALSE]
  /\ \A p \in 0 .. n - 1 : \A m \in 1 .. n : rank[m] = p => states[p + 1] = Swept(states[p], marks[m])

\* It finds two segments that overlap.
LEMMA SweepFinds ==
  ASSUME NEW n \in Nat, NEW seg, IsSegments(seg, n), NEW marks, marks = MarksOf(seg, n),
         NEW rank, RanksMarks(rank, marks, 2 * n),
         NEW i \in 1 .. n, NEW j \in 1 .. n, i # j, NEW x \in Nat, Overlap(seg, i, j, x),
         NEW states, IsSweep(states, marks, rank, 2 * n)
  PROVE  states[2 * n].found
<1>1. IsSwept(states[0], seg, n, rank, i, j, x, 0)
  <2>1. PICK v : v = [count |-> 0, start |-> 0, found |-> FALSE] /\ v = states[0]
    BY DEF IsSweep
  <2>2. v \in SweepState /\ v.count = 0
    BY <2>1 DEF SweepState
  <2>3. OpenAt(rank, n, 0) = {}
    BY OpenAtEnds
  <2>4. v.count = Cardinality(OpenAt(rank, n, 0))
    BY <2>2, <2>3, OpenFinite
  <2>5. rank[i] \in Nat /\ ~(rank[i] < 0)
    <3>1. i \in 1 .. 2 * n
      OBVIOUS
    <3>2. rank[i] \in 0 .. 2 * n - 1
      BY <3>1 DEF RanksMarks
    <3> QED  BY <3>2
  <2>6. IsSwept(v, seg, n, rank, i, j, x, 0)
    BY <2>2, <2>4, <2>5 DEF IsSwept
  <2> QED  BY <2>1, <2>6
<1> DEFINE Q == {p \in Nat : p <= 2 * n => IsSwept(states[p], seg, n, rank, i, j, x, p)}
<1>2. 0 \in Q
  BY <1>1
<1>3. ASSUME NEW p \in Nat, p \in Q PROVE p + 1 \in Q
  <2> SUFFICES ASSUME p + 1 <= 2 * n PROVE IsSwept(states[p + 1], seg, n, rank, i, j, x, p + 1)
    OBVIOUS
  <2>1. p \in 0 .. 2 * n - 1 /\ IsSwept(states[p], seg, n, rank, i, j, x, p)
    BY <1>3
  <2>2. PICK m \in 1 .. 2 * n : rank[m] = p
    BY <2>1 DEF RanksMarks
  <2>3. states[p + 1] = Swept(states[p], marks[m])
    BY <2>1, <2>2 DEF IsSweep
  <2>4. IsSwept(Swept(states[p], marks[m]), seg, n, rank, i, j, x, p + 1)
    BY <2>1, <2>2, SweepStep
  <2> QED  BY <2>3, <2>4
<1>4. Nat \subseteq Q
  <2> HIDE DEF Q
  <2> QED  BY <1>2, <1>3, Naturals
<1>5. IsSwept(states[2 * n], seg, n, rank, i, j, x, 2 * n)
  <2>1. 2 * n \in Q
    BY <1>4
  <2> QED  BY <2>1
<1>6. states[2 * n].count = 0
  <2>1. OpenAt(rank, n, 2 * n) = {}
    BY OpenAtEnds
  <2>2. states[2 * n].count = Cardinality(OpenAt(rank, n, 2 * n))
    BY <1>5 DEF IsSwept
  <2> QED  BY <2>1, <2>2, OpenFinite
<1>7. rank[i] < 2 * n /\ rank[j] < 2 * n
  <2>1. i \in 1 .. 2 * n /\ j \in 1 .. 2 * n
    OBVIOUS
  <2>2. rank[i] \in 0 .. 2 * n - 1 /\ rank[j] \in 0 .. 2 * n - 1
    BY <2>1 DEF RanksMarks
  <2> QED  BY <2>2
<1>8. states[2 * n].found \/ states[2 * n].count >= 2
  BY <1>5, <1>7 DEF IsSwept
<1> QED  BY <1>6, <1>8

\* The marks in their order, as the code sorts them.
LEMMA MarksSorted ==
  ASSUME NEW n \in Nat, NEW marks, \A k \in 1 .. n : marks[k][1] \in Nat /\ marks[k][2] \in {0, 1},
         NEW rank, NEW less, less = {e \in (1 .. n) \X (1 .. n) : IsBefore(marks, e[1], e[2])},
         IsRank(rank, less, n)
  PROVE  RanksMarks(rank, marks, n)
<1>1. \A j, k \in 1 .. n : <<j, k>> \in less <=> IsBefore(marks, j, k)
  OBVIOUS
<1>2. IsOrder(less, n)
  <2>1. ASSUME NEW k \in 1 .. n PROVE ~IsBefore(marks, k, k)
    BY DEF IsBefore
  <2>2. ASSUME NEW j \in 1 .. n, NEW k \in 1 .. n, NEW m \in 1 .. n,
               IsBefore(marks, j, k), IsBefore(marks, k, m)
        PROVE  IsBefore(marks, j, m)
    BY <2>2 DEF IsBefore
  <2>3. ASSUME NEW j \in 1 .. n, NEW k \in 1 .. n, j # k
        PROVE  IsBefore(marks, j, k) \/ IsBefore(marks, k, j)
    <3>1. PICK a, b, c, d : a = marks[j][1] /\ b = marks[j][2] /\ c = marks[k][1] /\ d = marks[k][2]
      OBVIOUS
    <3>2. a \in Nat /\ c \in Nat /\ b \in {0, 1} /\ d \in {0, 1}
      BY <3>1
    <3>3. \/ (a < c \/ (a = c /\ (b < d \/ (b = d /\ j < k))))
          \/ (c < a \/ (c = a /\ (d < b \/ (d = b /\ k < j))))
      BY <2>3, <3>2
    <3> QED  BY <3>1, <3>3 DEF IsBefore
  <2> QED  BY <1>1, <2>1, <2>2, <2>3 DEF IsOrder
<1>3. /\ \A k \in 1 .. n : rank[k] \in 0 .. n - 1
      /\ \A j, k \in 1 .. n : <<j, k>> \in less <=> rank[j] < rank[k]
      /\ \A place \in 0 .. n - 1 : \E k \in 1 .. n : rank[k] = place
  BY <1>2, RankIs
<1> QED  BY <1>1, <1>3 DEF RanksMarks

\* The marks of the model are such marks.
LEMMA SegmentMarksAre ==
  ASSUME NEW n \in Nat, n = Len(AllSegments)
  PROVE  SegmentMarks = MarksOf(AllSegments, n)
BY DEF SegmentMarks, MarksOf

\* The ranks of the model are places in an order.
LEMMA RanksAre ==
  ASSUME NEW n \in Nat, NEW marks, marks = SegmentMarks, DOMAIN marks = 1 .. n,
         NEW less, less = {e \in (1 .. n) \X (1 .. n) : IsBefore(marks, e[1], e[2])}
  PROVE  IsRank([k \in 1 .. n |-> Rank(k)], less, n)
<1>1. ASSUME NEW k \in 1 .. n PROVE Rank(k) = Cardinality(Preceding(less, n, k))
  <2>1. Rank(k) = Cardinality({m \in 1 .. n : IsBefore(marks, m, k)})
    BY DEF Rank, IsBefore
  <2>2. {m \in 1 .. n : IsBefore(marks, m, k)} = Preceding(less, n, k)
    BY DEF Preceding
  <2> QED  BY <2>1, <2>2
<1> QED  BY <1>1 DEF IsRank

\* The last of the places, and what is left without it.
LEMMA MaxUpTo == ASSUME NEW p \in Nat, NEW q, q = p + 1 PROVE Max(1 .. q) = q /\ (1 .. q) \ {q} = 1 .. p
<1>1. \A y \in 1 .. q : q >= y
  OBVIOUS
<1>2. q \in 1 .. q
  OBVIOUS
<1>3. Max(1 .. q) = CHOOSE x \in 1 .. q : \A y \in 1 .. q : x >= y
  BY DEF Max
<1>4. \A x \in 1 .. q : (\A y \in 1 .. q : x >= y) => x = q
  BY <1>1, <1>2
<1> QED  BY <1>1, <1>2, <1>3, <1>4

\* What a mark makes of a state is one.
LEMMA SweptIs ==
  ASSUME NEW v \in SweepState, NEW mark, mark[1] \in Nat
  PROVE  Swept(v, mark) \in SweepState
<1>1. PICK count, start, found :
        count = v.count /\ start = v.start /\ found = v.found /\ count \in Int /\ start \in Nat
        /\ found \in BOOLEAN
  BY DEF SweepState
<1>2. v = [count |-> count, start |-> start, found |-> found]
  BY <1>1, Zenon DEF SweepState
<1>3. CASE mark[2] = 1
  <2>1. PICK hit \in BOOLEAN : hit = (found \/ (count = 2 /\ start # mark[1]))
    OBVIOUS
  <2>2. Swept(v, mark) = [v EXCEPT !.count = count - 1, !.found = hit]
    BY <1>1, <1>3, <2>1, Zenon DEF Swept
  <2>3. Swept(v, mark) = [count |-> count - 1, start |-> start, found |-> hit]
    BY <1>2, <2>2
  <2> QED  BY <1>1, <2>3 DEF SweepState
<1>4. CASE mark[2] # 1
  <2>1. PICK first \in Nat : first = IF count = 1 THEN mark[1] ELSE start
    BY <1>1
  <2>2. Swept(v, mark) = [v EXCEPT !.count = count + 1, !.start = first]
    BY <1>1, <1>4, <2>1, Zenon DEF Swept
  <2>3. Swept(v, mark) = [count |-> count + 1, start |-> first, found |-> found]
    BY <1>2, <2>2
  <2> QED  BY <1>1, <2>3 DEF SweepState
<1> QED  BY <1>3, <1>4

\* The fold goes over the marks in their order.
LEMMA IntersectsIs ==
  ASSUME NEW n \in Nat, DOMAIN SegmentEvents = 1 .. n,
         \A k \in 1 .. n : SegmentEvents[k][1] \in Nat
  PROVE  \E states : /\ Intersects = states[n].found
                     /\ states[0] = [count |-> 0, start |-> 0, found |-> FALSE]
                     /\ \A p \in 0 .. n - 1 : states[p + 1] = Swept(states[p], SegmentEvents[p + 1])
<1> DEFINE V == SweepState
           seed == [count |-> 0, start |-> 0, found |-> FALSE]
           Next1(v, mark) ==
             IF mark[2] = 1
             THEN [v EXCEPT !.count = @ - 1, !.found = @ \/ (v.count = 2 /\ v.start # mark[1])]
             ELSE [v EXCEPT !.count = @ + 1, !.start = IF v.count = 1 THEN mark[1] ELSE @]
           G == [p \in (1 .. n) \X V |-> Next1(p[2], SegmentEvents[p[1]])]
           iter == CHOOSE iter : iter = [s \in SUBSET DOMAIN SegmentEvents |->
                     IF s = {} THEN seed
                     ELSE Next1(iter[s \ {Max(s)}], SegmentEvents[Max(s)])]
<1>1. Intersects = iter[DOMAIN SegmentEvents].found
  BY Zenon DEF Intersects, FoldLeft, MapThenFoldSet
<1>2. \A v, mark : Next1(v, mark) = Swept(v, mark)
  BY DEF Swept
<1>3. seed \in V
  BY DEF SweepState
<1>4. ASSUME NEW v \in V, NEW k \in 1 .. n PROVE Next1(v, SegmentEvents[k]) \in V
  <2> HIDE DEF V, Next1
  <2>1. Swept(v, SegmentEvents[k]) \in V
    BY SweptIs DEF V
  <2> QED  BY <1>2, <2>1
<1>5. G \in [(1 .. n) \X V -> V]
  <2> HIDE DEF V, Next1
  <2> QED  BY <1>4
<1>6. iter = [s \in SUBSET DOMAIN SegmentEvents |-> IF s = {} THEN seed
                     ELSE Next1(iter[s \ {Max(s)}], SegmentEvents[Max(s)])]
  <2> HIDE DEF V, seed
  <2>1. PICK h \in [SUBSET (1 .. n) -> V] : FromLeft(h, n, seed, G)
    <3> HIDE DEF G
    <3> QED  BY <1>3, <1>5, FromLeftExists
  <2>2. h = [s \in SUBSET DOMAIN SegmentEvents |-> IF s = {} THEN seed
                     ELSE Next1(h[s \ {Max(s)}], SegmentEvents[Max(s)])]
    <3>1. ASSUME NEW s \in SUBSET (1 .. n), s # {}
          PROVE  h[s] = Next1(h[s \ {Max(s)}], SegmentEvents[Max(s)])
      <4>1. Max(s) \in 1 .. n /\ h[s \ {Max(s)}] \in V
        BY <3>1, MaxIn
      <4>2. h[s] = G[<<Max(s), h[s \ {Max(s)}]>>]
        BY <2>1, <3>1 DEF FromLeft
      <4> HIDE DEF Next1
      <4> QED  BY <4>1, <4>2
    <3>2. h[{}] = seed
      BY <2>1 DEF FromLeft
    <3> HIDE DEF Next1
    <3> QED  BY <3>1, <3>2
  <2> HIDE DEF Next1
  <2> QED  BY <2>2, Zenon
<1> HIDE DEF V, seed, Next1, iter, G
<1>7. PICK states : states = [p \in Nat |-> iter[1 .. p]]
  OBVIOUS
<1>8. states[0] = seed
  <2>1. 1 .. 0 = {}
    OBVIOUS
  <2>2. iter[{}] = seed
    BY <1>6
  <2> QED  BY <1>7, <2>1, <2>2
<1>9. ASSUME NEW p \in 0 .. n - 1 PROVE states[p + 1] = Swept(states[p], SegmentEvents[p + 1])
  <2>1. PICK q \in 1 .. n : q = p + 1
    OBVIOUS
  <2>2. Max(1 .. q) = q /\ (1 .. q) \ {q} = 1 .. p
    <3>1. p \in Nat
      OBVIOUS
    <3> QED  BY <2>1, <3>1, MaxUpTo
  <2>3. 1 .. q \in SUBSET DOMAIN SegmentEvents /\ 1 .. q # {}
    OBVIOUS
  <2>4. iter[1 .. q] = Next1(iter[1 .. p], SegmentEvents[q])
    BY <1>6, <2>2, <2>3
  <2>5. iter[1 .. q] = Swept(iter[1 .. p], SegmentEvents[q])
    BY <1>2, <2>4
  <2>6. p \in Nat /\ q \in Nat
    OBVIOUS
  <2>7. states[q] = iter[1 .. q] /\ states[p] = iter[1 .. p]
    BY <1>7, <2>6
  <2> QED  BY <2>1, <2>5, <2>7
<1>10. Intersects = states[n].found
  BY <1>1, <1>7
<1> QED  BY <1>8, <1>9, <1>10 DEF seed

\* Segments in which the sweep finds no intersection have no address in common.
LEMMA SegmentsApart ==
  ASSUME NEW n \in Nat, NEW seg, seg = AllSegments, n = Len(seg), IsSegments(seg, n), ~Intersects,
         NEW i \in 1 .. n, NEW j \in 1 .. n, i # j, seg[i][1] < seg[i][2], seg[j][1] < seg[j][2]
  PROVE  seg[i][2] <= seg[j][1] \/ seg[j][2] <= seg[i][1]
<1> SUFFICES ASSUME ~(seg[i][2] <= seg[j][1]), ~(seg[j][2] <= seg[i][1]) PROVE FALSE
  OBVIOUS
<1>1. PICK x \in Nat : Overlap(seg, i, j, x)
  <2>1. seg[i][1] \in Nat /\ seg[j][1] \in Nat /\ seg[i][2] \in Nat /\ seg[j][2] \in Nat
    BY DEF IsSegments
  <2>2. CASE seg[i][1] <= seg[j][1]
    BY <2>1, <2>2 DEF Overlap
  <2>3. CASE seg[j][1] <= seg[i][1]
    BY <2>1, <2>3 DEF Overlap
  <2> QED  BY <2>1, <2>2, <2>3
<1>2. PICK marks : marks = SegmentMarks
  OBVIOUS
<1>3. marks = MarksOf(seg, n)
  BY <1>2, SegmentMarksAre
<1>4. AreMarks(marks, seg, n)
  BY <1>3, MarksAre
<1>5. DOMAIN marks = 1 .. 2 * n /\ 2 * n \in Nat
  BY <1>3 DEF MarksOf
<1>6. \A k \in 1 .. 2 * n : marks[k][1] \in Nat /\ marks[k][2] \in {0, 1}
  BY <1>4 DEF AreMarks
<1>7. PICK rank : rank = [k \in 1 .. 2 * n |-> Rank(k)]
  OBVIOUS
<1>8. PICK less : less = {e \in (1 .. 2 * n) \X (1 .. 2 * n) : IsBefore(marks, e[1], e[2])}
  OBVIOUS
<1>9. IsRank(rank, less, 2 * n)
  BY <1>2, <1>5, <1>7, <1>8, RanksAre
<1>10. RanksMarks(rank, marks, 2 * n)
  BY <1>5, <1>6, <1>8, <1>9, MarksSorted
<1>11. PICK events : events = SegmentEvents
  OBVIOUS
<1>12. DOMAIN events = 1 .. 2 * n
  BY <1>2, <1>5, <1>11 DEF SegmentEvents
<1>13. /\ \A l, m \in 1 .. 2 * n : rank[l] = rank[m] => l = m
  BY <1>3, <1>10, SortedMarks
<1>14. ASSUME NEW m \in 1 .. 2 * n PROVE rank[m] + 1 \in 1 .. 2 * n /\ events[rank[m] + 1] = marks[m]
  <2>1. rank[m] \in 0 .. 2 * n - 1
    BY <1>10 DEF RanksMarks
  <2>2. PICK place \in 1 .. 2 * n : place = rank[m] + 1
    BY <2>1
  <2>3. events[place] = marks[CHOOSE k \in 1 .. 2 * n : Rank(k) = place - 1]
    BY <1>2, <1>5, <1>11 DEF SegmentEvents
  <2>4. Rank(m) = place - 1
    BY <1>7, <2>1, <2>2
  <2>5. \A k \in 1 .. 2 * n : Rank(k) = place - 1 => k = m
    BY <1>7, <1>13, <2>4
  <2>6. (CHOOSE k \in 1 .. 2 * n : Rank(k) = place - 1) = m
    BY <2>4, <2>5
  <2> QED  BY <2>2, <2>3, <2>6
<1>15. ASSUME NEW k \in 1 .. 2 * n PROVE events[k][1] \in Nat
  <2>1. k - 1 \in 0 .. 2 * n - 1
    OBVIOUS
  <2>2. PICK m \in 1 .. 2 * n : rank[m] = k - 1
    BY <1>10, <2>1 DEF RanksMarks
  <2>3. rank[m] + 1 = k
    BY <2>2
  <2> QED  BY <1>6, <1>14, <2>3
<1>16. PICK states :
         /\ Intersects = states[2 * n].found
         /\ states[0] = [count |-> 0, start |-> 0, found |-> FALSE]
         /\ \A p \in 0 .. 2 * n - 1 : states[p + 1] = Swept(states[p], events[p + 1])
  <2>1. PICK l \in Nat : l = 2 * n
    BY <1>5
  <2>2. DOMAIN SegmentEvents = 1 .. l /\ \A k \in 1 .. l : SegmentEvents[k][1] \in Nat
    BY <1>11, <1>12, <1>15, <2>1
  <2>3. \E states : /\ Intersects = states[l].found
                    /\ states[0] = [count |-> 0, start |-> 0, found |-> FALSE]
                    /\ \A p \in 0 .. l - 1 : states[p + 1] = Swept(states[p], SegmentEvents[p + 1])
    BY <2>2, IntersectsIs
  <2> QED  BY <1>11, <2>1, <2>3
<1>17. IsSweep(states, marks, rank, 2 * n)
  <2>1. ASSUME NEW p \in 0 .. 2 * n - 1, NEW m \in 1 .. 2 * n, rank[m] = p
        PROVE  states[p + 1] = Swept(states[p], marks[m])
    <3>1. events[p + 1] = marks[m]
      BY <1>14, <2>1
    <3> QED  BY <1>16, <3>1
  <2> QED  BY <1>16, <2>1 DEF IsSweep
<1>18. states[2 * n].found
  BY <1>1, <1>3, <1>10, <1>17, SweepFinds
<1> QED  BY <1>16, <1>18

-----------------------------------------------------------------------------
(***************************************************************************)
(* Symbols are defined and referenced.                                     *)
(***************************************************************************)
\* A table that keeps another extends it by nothing.
LEMMA KeepsExtends ==
  ASSUME NEW table, NEW later, Keeps(table, later)
  PROVE  Extends(table, later, {})
  BY DEF Keeps, Extends

\* A symbol that is defined is also after a step from the table to a later one.
LEMMA ExtendsPlaced ==
  ASSUME NEW table, NEW later, NEW added, Extends(table, later, added), NEW name \in DOMAIN table,
         NEW block, NEW address, NEW start, IsPlaced(table[name], block, address, start)
  PROVE  name \in DOMAIN later /\ IsPlaced(later[name], block, address, start)
<1>1. FindOrCreateNew(table, name) = table[name]
  BY DEF FindOrCreateNew
<1>2. name \in DOMAIN later /\ name \notin added
  BY <1>1 DEF Extends, IsPlaced
<1>3. Stays(table[name], later[name])
  BY <1>1, <1>2 DEF Extends
<1> QED  BY <1>2, <1>3 DEF Stays, IsPlaced

\* A later table that keeps an extension.
LEMMA ExtendsThenKeeps ==
  ASSUME NEW table, NEW later, NEW last, NEW added, Extends(table, later, added), Keeps(later, last)
  PROVE  Extends(table, last, added)
<1>1. DOMAIN table \subseteq DOMAIN last
  BY DEF Keeps, Extends
<1>2. ASSUME NEW name \in DOMAIN last \ added
      PROVE Stays(FindOrCreateNew(table, name), last[name])
  <2>1. Stays(FindOrCreateNew(later, name), last[name])
    BY DEF Keeps
  <2>2. Stays(FindOrCreateNew(table, name), FindOrCreateNew(later, name))
    <3>1. CASE name \in DOMAIN later
      BY <3>1 DEF Extends, FindOrCreateNew
    <3>2. CASE name \notin DOMAIN later
      BY <3>2 DEF Extends, FindOrCreateNew, Stays
    <3> QED  BY <3>1, <3>2
  <2> QED  BY <2>1, <2>2 DEF Stays
<1> QED  BY <1>1, <1>2 DEF Extends

\* One entry that is not defined is replaced.
LEMMA ExtendsWithEntry ==
  ASSUME NEW table, IsTable(table), NEW name \in STRING, NEW entry \in Entry, IsSound(entry),
         ~FindOrCreateNew(table, name).defined
  PROVE  /\ IsTable(WithEntry(table, name, entry))
         /\ Extends(table, WithEntry(table, name, entry), {name})
         /\ name \in DOMAIN WithEntry(table, name, entry)
         /\ WithEntry(table, name, entry)[name] = entry
<1> DEFINE w == WithEntry(table, name, entry)
<1>1. table \in Table /\ \A n \in DOMAIN table : IsSound(table[n])
  BY DEF IsTable
<1>2. /\ w \in Table /\ DOMAIN w = DOMAIN table \cup {name} /\ w[name] = entry
      /\ \A n \in DOMAIN table : n # name => w[n] = table[n]
  BY <1>1, WithEntryType
<1> HIDE DEF w
<1>3. IsTable(w)
  BY <1>1, <1>2 DEF IsTable
<1>4. Extends(table, w, {name})
  BY <1>2 DEF Extends, FindOrCreateNew, Stays
<1> QED  BY <1>2, <1>3, <1>4 DEF w

\* A symbol is given the place where the pass is.
LEMMA PlacedIs ==
  ASSUME NEW entry \in Entry, IsSound(entry), ~entry.defined, NEW address \in Nat,
         current_block \in Int, start_address \in Nat
  PROVE  /\ Placed(entry, address) \in Entry /\ IsSound(Placed(entry, address))
         /\ IsPlaced(Placed(entry, address), current_block, address, start_address)
<1>1. PICK placed : placed = Placed(entry, address)
  OBVIOUS
<1>2. PICK resolved : resolved = (entry.resolved \/ current_block \in {-1, 0})
  OBVIOUS
<1>3. PICK at : at = CASE current_block = -1 -> address
                       [] current_block = 0  -> start_address + address
                       [] OTHER              -> entry.address
  OBVIOUS
<1>4. placed = [entry EXCEPT !.type = "INTERNAL", !.relative = TRUE, !.defined = TRUE,
                             !.block = current_block, !.block_address = address,
                             !.resolved = resolved, !.address = at]
  BY <1>1, <1>2, <1>3, Zenon DEF Placed
<1>5. entry.address \in Nat /\ entry.resolved \in BOOLEAN /\ ~entry.resolved
  BY DEF Entry, IsSound
<1>6. at \in Nat /\ (current_block = -1 => at = address)
      /\ (current_block = 0 => at = start_address + address)
  BY <1>3, <1>5
<1>7. resolved \in BOOLEAN /\ (resolved <=> current_block \in {-1, 0})
  BY <1>2, <1>5, Zenon
<1>8. address \in Int
  OBVIOUS
<1>9. /\ placed \in Entry /\ IsSound(placed) /\ placed.defined /\ placed.resolved = resolved
      /\ placed.block = current_block /\ placed.block_address = address
      /\ placed.address = at
  <2>1. PICK block : block = current_block
    OBVIOUS
  <2>2. at \in Nat /\ resolved \in BOOLEAN /\ address \in Int /\ block \in Int
    BY <1>6, <1>7, <1>8, <2>1
  <2>3. placed = [entry EXCEPT !.type = "INTERNAL", !.relative = TRUE, !.defined = TRUE,
                             !.block = block, !.block_address = address,
                             !.resolved = resolved, !.address = at]
    BY <1>4, <2>1, Zenon
  <2>4. /\ placed \in Entry /\ IsSound(placed) /\ placed.defined /\ placed.resolved = resolved
        /\ placed.block = block /\ placed.block_address = address
        /\ placed.address = at
    BY <2>2, <2>3 DEF Entry, IsSound
  <2> QED  BY <2>1, <2>4, Zenon
<1> QED  BY <1>1, <1>6, <1>7, <1>9 DEF IsPlaced

\* A label is defined, and nothing that was before it changes.
LEMMA DefineSymbolIs ==
  ASSUME IsTable(symbol_table), NEW name \in STRING, CanDefine(name), current_address \in Nat,
         current_block \in Int, start_address \in Nat
  PROVE  /\ IsTable(DefineSymbol(name)) /\ Extends(symbol_table, DefineSymbol(name), {name})
         /\ name \in DOMAIN DefineSymbol(name)
         /\ IsPlaced(DefineSymbol(name)[name], current_block, current_address, start_address)
<1>1. PICK found : found = FindOrCreateNew(symbol_table, name)
  OBVIOUS
<1>2. found \in Entry /\ IsSound(found) /\ ~found.defined
  BY <1>1, FoundType DEF IsTable, CanDefine
<1>3. PICK entry : entry = Placed(found, current_address)
  OBVIOUS
<1>4. entry \in Entry /\ IsSound(entry)
      /\ IsPlaced(entry, current_block, current_address, start_address)
  BY <1>2, <1>3, PlacedIs
<1>5. DefineSymbol(name) = WithEntry(symbol_table, name, entry)
  BY <1>1, <1>3 DEF DefineSymbol
<1> QED  BY <1>1, <1>2, <1>4, <1>5, ExtendsWithEntry

LEMMA NamesAreStrings ==
  ASSUME NEW expression \in Expression
  PROVE  NamesOf(expression) \subseteq STRING
<1>1. \A term \in ToSet(expression) : term \in TermRecord
  BY DEF ToSet, Expression
<1>2. \A term \in TermRecord : \A factor \in ToSet(term.factors) : factor \in Factor
  BY DEF ToSet, TermRecord
<1>3. \A operand \in Operands(expression) : operand \in Operand
  <2>1. ASSUME NEW term \in TermRecord PROVE term.operand \in Operand
    BY DEF TermRecord
  <2>2. ASSUME NEW factor \in Factor PROVE factor.operand \in Operand
    BY DEF Factor
  <2> QED  BY <1>1, <1>2, <2>1, <2>2 DEF Operands
<1>4. ASSUME NEW operand \in Operand, operand.type = "NAME" PROVE operand.name \in STRING
  BY <1>4 DEF Operand
<1> QED  BY <1>3, <1>4 DEF NamesOf

\* A reference leaves a symbol as it is.
LEMMA ReferencedIs ==
  ASSUME NEW e \in Entry, IsSound(e)
  PROVE  /\ [e EXCEPT !.referenced = TRUE] \in Entry /\ IsSound([e EXCEPT !.referenced = TRUE])
         /\ Stays(e, [e EXCEPT !.referenced = TRUE])
  BY DEF Entry, IsSound, Stays

LEMMA ReferenceKeeps ==
  ASSUME NEW table, IsTable(table), NEW names \in SUBSET STRING
  PROVE  /\ IsTable(ReferenceSymbols(table, names)) /\ Keeps(table, ReferenceSymbols(table, names))
         /\ names \subseteq DOMAIN ReferenceSymbols(table, names)
<1>1. PICK r : r = ReferenceSymbols(table, names)
  OBVIOUS
<1>2. /\ DOMAIN r = DOMAIN table \cup names /\ r = [name \in DOMAIN r |-> r[name]]
      /\ \A name \in DOMAIN r :
           r[name] = IF name \in names THEN [FindOrCreateNew(table, name) EXCEPT !.referenced = TRUE]
                     ELSE table[name]
  BY <1>1 DEF ReferenceSymbols
<1>3. table \in Table /\ DOMAIN table \subseteq STRING
  BY TableIs DEF IsTable
<1>4. ASSUME NEW name \in DOMAIN r
      PROVE  r[name] \in Entry /\ IsSound(r[name]) /\ Stays(FindOrCreateNew(table, name), r[name])
  <2>1. FindOrCreateNew(table, name) \in Entry /\ IsSound(FindOrCreateNew(table, name))
    BY <1>3, FoundType
  <2>2. CASE name \in names
    <3>1. PICK e : e = FindOrCreateNew(table, name)
      OBVIOUS
    <3>2. r[name] = [e EXCEPT !.referenced = TRUE]
      BY <1>2, <2>2, <3>1
    <3> QED  BY <2>1, <3>1, <3>2, ReferencedIs
  <2>3. CASE name \notin names
    <3>1. r[name] = FindOrCreateNew(table, name)
      BY <1>2, <2>3 DEF FindOrCreateNew
    <3> QED  BY <2>1, <3>1 DEF Stays
  <2> QED  BY <2>2, <2>3
<1>5. r \in Table
  BY <1>2, <1>3, <1>4, TableIs
<1>6. IsTable(r)
  BY <1>4, <1>5 DEF IsTable
<1>7. Keeps(table, r)
  BY <1>2, <1>4 DEF Keeps
<1> QED  BY <1>1, <1>2, <1>6, <1>7

\* The symbols that EQU and START define.
LEMMA EquEntryIs ==
  ASSUME NEW e \in Entry, NEW relative \in BOOLEAN, NEW value \in Nat
  PROVE  LET entry == [e EXCEPT !.type = "INTERNAL", !.relative = relative, !.defined = TRUE,
                                !.resolved = TRUE, !.address = value, !.block = -1,
                                !.block_address = value]
         IN  entry \in Entry /\ IsSound(entry)
<1>1. PICK below : below = -1
  OBVIOUS
<1>2. PICK entry : entry = [e EXCEPT !.type = "INTERNAL", !.relative = relative, !.defined = TRUE,
                                !.resolved = TRUE, !.address = value, !.block = below,
                                !.block_address = value]
  OBVIOUS
<1>3. below \in Int /\ value \in Int
  BY <1>1
<1>4. entry \in Entry /\ IsSound(entry)
  BY <1>2, <1>3 DEF Entry, IsSound
<1> QED  BY <1>1, <1>2, <1>4, Zenon

LEMMA StartEntryIs ==
  ASSUME NEW value \in Nat
  PROVE  LET entry == [NewEntry EXCEPT !.type = "INTERNAL", !.relative = TRUE, !.defined = TRUE,
                        !.resolved = TRUE, !.exported = TRUE, !.address = value,
                        !.block = 0]
         IN  entry \in Entry /\ IsSound(entry) /\ IsPlaced(entry, 0, 0, value)
<1>1. PICK e, block : e = NewEntry /\ block = 0
  OBVIOUS
<1>2. e \in Entry
  BY <1>1, NewEntryType
<1>3. PICK entry : entry = [e EXCEPT !.type = "INTERNAL", !.relative = TRUE, !.defined = TRUE,
                        !.resolved = TRUE, !.exported = TRUE, !.address = value,
                        !.block = block]
  OBVIOUS
<1>4. entry \in Entry /\ IsSound(entry) /\ entry.defined /\ entry.resolved
      /\ entry.address = value
  <2>1. block \in Int
    BY <1>1
  <2>2. entry \in Entry
    BY <1>2, <1>3, <2>1 DEF Entry
  <2>3. entry.type = "INTERNAL" /\ entry.defined = TRUE /\ entry.resolved = TRUE
        /\ entry.address = value
    BY <1>2, <1>3 DEF Entry
  <2> QED  BY <2>2, <2>3, Zenon DEF IsSound
<1>5. IsPlaced(entry, 0, 0, value)
  BY <1>4 DEF IsPlaced
<1> QED  BY <1>1, <1>3, <1>4, <1>5, Zenon

\* Where the literals that wait are in their pool.
LEMMA OffsetIs ==
  ASSUME NEW table, LiteralsAre(table)
  PROVE  /\ LiteralOffset(next_literal_id) = 0
         /\ \A id \in next_literal_id .. Len(literal_table) : LiteralOffset(id) \in Nat
         /\ \A id \in Waiting :
              LiteralOffset(id + 1) = LiteralOffset(id) + Len(literal_table[id + 1])
<1> DEFINE s == next_literal_id
           n == Len(literal_table)
           Size(k) == Len(literal_table[k])
           Lengths(id) == [k \in s + 1 .. id |-> Size(k)]
<1>1. s \in Nat /\ n \in Nat /\ s <= n /\ DOMAIN literal_table = 1 .. n
  BY ListIs DEF LiteralsAre
<1>2. \A k \in 1 .. n : Size(k) \in Nat
  BY <1>1 DEF LiteralsAre
<1>3. \A id : LiteralOffset(id) = SumFunction(Lengths(id))
  BY DEF LiteralOffset
<1> HIDE DEF Size, n, s
<1>4. SumFunction(Lengths(s)) = 0
  <2>1. DOMAIN Lengths(s) = {}
    BY <1>1
  <2> HIDE DEF Lengths
  <2> QED  BY <2>1, SumEmpty
<1>5. ASSUME NEW id \in s .. n - 1
      PROVE  SumFunction(Lengths(id + 1)) = SumFunction(Lengths(id)) + Size(id + 1)
  <2> DEFINE E == s + 1 .. id
             fun == Lengths(id + 1)
  <2>1. IsFiniteSet(E)
    BY <1>1, FS_Interval
  <2>2. id + 1 \notin E /\ DOMAIN fun = E \cup {id + 1}
    BY <1>1
  <2>3. \A y \in DOMAIN fun : fun[y] \in Int
    BY <1>1, <1>2
  <2>4. [y \in E |-> fun[y]] = Lengths(id) /\ fun[id + 1] = Size(id + 1)
    BY <1>1
  <2> HIDE DEF E, fun
  <2>5. SumFunction(fun) = SumFunction([y \in E |-> fun[y]]) + fun[id + 1]
    BY <2>1, <2>2, <2>3, SumNext
  <2> QED  BY <2>4, <2>5 DEF fun
<1>6. ASSUME NEW id \in s .. n PROVE SumFunction(Lengths(id)) \in Nat
  <2> DEFINE S == {m \in Nat : s + m <= n => SumFunction(Lengths(s + m)) \in Nat}
  <2>1. 0 \in S
    BY <1>1, <1>4
  <2>2. ASSUME NEW m \in Nat, m \in S PROVE m + 1 \in S
    <3>1. CASE s + (m + 1) <= n
      <4>1. s + m \in s .. n - 1 /\ s + (m + 1) = (s + m) + 1 /\ (s + m) + 1 \in 1 .. n
        BY <1>1, <3>1
      <4>2. SumFunction(Lengths((s + m) + 1)) = SumFunction(Lengths(s + m)) + Size((s + m) + 1)
        BY <1>5, <4>1
      <4>3. Size((s + m) + 1) \in Nat
        BY <1>2, <4>1
      <4>4. SumFunction(Lengths(s + m)) \in Nat
        BY <1>1, <2>2, <4>1
      <4>5. SumFunction(Lengths((s + m) + 1)) \in Nat
        <5> HIDE DEF Lengths
        <5> QED  BY <4>2, <4>3, <4>4
      <4>6. SumFunction(Lengths(s + (m + 1))) \in Nat
        <5> HIDE DEF Lengths
        <5> QED  BY <4>1, <4>5
      <4> QED  BY <4>6
    <3>2. CASE ~(s + (m + 1) <= n)
      BY <3>2
    <3> QED  BY <3>1, <3>2
  <2>3. Nat \subseteq S
    <3> HIDE DEF S
    <3> QED  BY <2>1, <2>2, Naturals
  <2>4. id - s \in Nat /\ s + (id - s) = id /\ id <= n
    BY <1>1
  <2> QED  BY <2>3, <2>4
<1>7. Waiting = s .. n - 1
  BY DEF Waiting, s, n
<1> QED  BY <1>3, <1>4, <1>5, <1>6, <1>7 DEF s, n, Size

\* A pool gives every literal that waits its place.
LEMMA PooledIs ==
  ASSUME LiteralNamesDiffer, IsTable(symbol_table), LiteralsAre(symbol_table),
         current_address \in Nat, current_block \in Int, start_address \in Nat
  PROVE  /\ IsTable(PooledSymbols)
         /\ Extends(symbol_table, PooledSymbols, {LiteralSymbolName(id) : id \in Waiting})
         /\ \A id \in Waiting :
              /\ LiteralSymbolName(id) \in DOMAIN PooledSymbols
              /\ IsPlaced(PooledSymbols[LiteralSymbolName(id)], current_block,
                          current_address + LiteralOffset(id), start_address)
<1>1. PICK pooled : pooled = PooledSymbols
  OBVIOUS
<1>2. DOMAIN pooled = DOMAIN symbol_table /\ pooled = [name \in DOMAIN pooled |-> pooled[name]]
  BY <1>1 DEF PooledSymbols
<1>3. ASSUME NEW name \in DOMAIN symbol_table, \A id \in Waiting : name # LiteralSymbolName(id)
      PROVE  pooled[name] = symbol_table[name]
  BY <1>1, <1>3 DEF PooledSymbols
<1>4. \A id \in Waiting : id \in Nat /\ id \in next_literal_id .. Len(literal_table)
                          /\ next_literal_id <= id
  <2>1. Len(literal_table) \in Nat /\ next_literal_id \in Nat
    BY ListIs DEF LiteralsAre
  <2> QED  BY <2>1 DEF Waiting
<1>5. ASSUME NEW id \in Waiting
      PROVE  /\ LiteralSymbolName(id) \in DOMAIN symbol_table
             /\ pooled[LiteralSymbolName(id)]
                  = Placed(symbol_table[LiteralSymbolName(id)], current_address + LiteralOffset(id))
  <2>1. LiteralSymbolName(id) \in DOMAIN symbol_table
    BY DEF LiteralsAre
  <2>2. \E other \in Waiting : LiteralSymbolName(id) = LiteralSymbolName(other)
    OBVIOUS
  <2>3. (CHOOSE other \in Waiting : LiteralSymbolName(id) = LiteralSymbolName(other)) = id
    <3>1. \A other \in Waiting : LiteralSymbolName(id) = LiteralSymbolName(other) => other = id
      BY <1>4 DEF LiteralNamesDiffer
    <3> QED  BY <2>2, <3>1
  <2> QED  BY <1>1, <2>1, <2>2, <2>3, Zenon DEF PooledSymbols
<1>6. ASSUME NEW id \in Waiting, NEW entry, entry = symbol_table[LiteralSymbolName(id)]
      PROVE  entry \in Entry /\ IsSound(entry) /\ ~entry.defined
  <2>1. LiteralSymbolName(id) \in DOMAIN symbol_table
    BY <1>5
  <2>2. entry = FindOrCreateNew(symbol_table, LiteralSymbolName(id))
    BY <1>6, <2>1 DEF FindOrCreateNew
  <2> QED  BY <1>4, <2>2, FoundType DEF IsTable, LiteralsAre
<1>7. ASSUME NEW id \in Waiting, NEW placed, placed = pooled[LiteralSymbolName(id)]
      PROVE  /\ placed \in Entry /\ IsSound(placed)
             /\ IsPlaced(placed, current_block, current_address + LiteralOffset(id), start_address)
  <2>1. PICK entry : entry = symbol_table[LiteralSymbolName(id)]
    OBVIOUS
  <2>2. PICK address : address = current_address + LiteralOffset(id)
    OBVIOUS
  <2>3. address \in Nat
    BY <1>4, <2>2, OffsetIs
  <2>4. entry \in Entry /\ IsSound(entry) /\ ~entry.defined
    BY <1>6, <2>1
  <2>5. placed = Placed(entry, address)
    BY <1>5, <1>7, <2>1, <2>2
  <2> QED  BY <2>2, <2>3, <2>4, <2>5, PlacedIs
<1>8. ASSUME NEW name \in DOMAIN pooled PROVE pooled[name] \in Entry /\ IsSound(pooled[name])
  <2>1. CASE \A id \in Waiting : name # LiteralSymbolName(id)
    BY <1>2, <1>3, <2>1, TableIs DEF IsTable
  <2>2. CASE \E id \in Waiting : name = LiteralSymbolName(id)
    BY <1>7, <2>2
  <2> QED  BY <2>1, <2>2
<1>9. DOMAIN symbol_table \subseteq STRING
  BY TableIs DEF IsTable
<1>10. IsTable(pooled)
  BY <1>2, <1>8, <1>9, TableIs DEF IsTable
<1>11. Extends(symbol_table, pooled, {LiteralSymbolName(id) : id \in Waiting})
  <2>1. ASSUME NEW name \in DOMAIN pooled, \A id \in Waiting : name # LiteralSymbolName(id)
        PROVE  Stays(FindOrCreateNew(symbol_table, name), pooled[name])
    BY <1>2, <1>3, <2>1 DEF FindOrCreateNew, Stays
  <2>2. \A id \in Waiting : ~FindOrCreateNew(symbol_table, LiteralSymbolName(id)).defined
    BY <1>4 DEF LiteralsAre
  <2> QED  BY <1>2, <2>1, <2>2 DEF Extends
<1> QED  BY <1>1, <1>2, <1>5, <1>7, <1>10, <1>11

-----------------------------------------------------------------------------
(***************************************************************************)
(* Spots, and what a line does to one.                                     *)
(***************************************************************************)
LEMMA SpotIs ==
  ASSUME NEW walk, NEW last \in Nat, Walked(walk, last), NEW k \in 1 .. last
  PROVE  /\ walk[k] \in Spot /\ walk[k].block \in Int /\ walk[k].address \in Nat
         /\ walk[k].sizes \in [Nat -> Nat]
<1>1. walk \in [Nat -> Spot]
  BY DEF Walked
<1>2. k \in Nat
  OBVIOUS
<1>3. walk[k] \in Spot
  BY <1>1, <1>2
<1> QED  BY <1>3 DEF Spot

\* The sizes and the bytes are natural numbers.
LEMMA LeftIs ==
  ASSUME NEW spot \in Spot
  PROVE  Left(spot) \in [Nat -> Nat]
  BY DEF Spot, Left

LEMMA NodeSizeIs ==
  ASSUME NEW node, node.kind \in {"F1", "F2", "FS34", "INIT"},
         node.kind = "INIT" => node.data \in Seq(Int)
  PROVE  NodeSize(node) \in Nat
<1>1. CASE node.kind = "INIT"
  <2>1. Len(node.data) \in Nat /\ RoundUp(Len(node.data)) \in Nat
    <3>1. Len(node.data) \in Nat
      BY <1>1
    <3>2. \A n \in Nat : RoundUp(n) \in Nat
      BY DEF RoundUp
    <3> QED  BY <3>1, <3>2
  <2> QED  BY <1>1, <2>1 DEF NodeSize, InitSize
<1>2. CASE node.kind \in {"F1", "F2", "FS34"}
  BY <1>2 DEF NodeSize
<1> QED  BY <1>1, <1>2

LEMMA BytesIs ==
  ASSUME NEW node, IsNoted(node), LiteralsAre(symbol_table)
  PROVE  Bytes(node) \in Nat
<1>1. CASE node.kind \in {"F1", "F2", "FS34", "INIT"}
  BY <1>1, NodeSizeIs DEF Bytes, IsNoted
<1>2. CASE node.kind = "LITERAL"
  <2>1. node.literal_id + 1 \in DOMAIN literal_table
    BY <1>2, ListIs DEF IsNoted, LiteralsAre
  <2> QED  BY <1>2, <2>1 DEF LiteralsAre, Bytes
<1>3. CASE node.kind = "RESERVE"
  BY <1>3 DEF Bytes, IsNoted
<1> QED  BY <1>1, <1>2, <1>3 DEF Bytes

\* Where a line leads depends on nothing that later lines change.
LEMMA AfterStays ==
  ASSUME NEW node, NEW spot,
         node.kind = "LITERAL" =>
           Len(literal_table[node.literal_id + 1])' = Len(literal_table[node.literal_id + 1])
  PROVE  After(node, spot)' = After(node, spot)
<1>1. Bytes(node)' = Bytes(node)
  BY Zenon DEF Bytes
<1> QED  BY <1>1, Zenon DEF After

\* The first lines of a walk while only later ones change.
LEMMA BehindStays ==
  ASSUME NEW walk \in [Nat -> Spot], FirstPass(walk), NEW later \in [Nat -> Spot],
         \A k \in 1 .. position : later[k] = walk[k],
         \A k \in 1 .. position - 1 : nodes'[k] = nodes[k],
         DOMAIN block_table \subseteq DOMAIN block_table',
         next_literal_id' \in Nat, next_literal_id <= next_literal_id',
         \A k \in 1 .. Len(literal_table) : literal_table'[k] = literal_table[k],
         NEW added, Extends(symbol_table, symbol_table', added),
         start_address' = start_address \/ ~IsStarted(walk[position])
  PROVE  /\ \A k \in 1 .. position :
              /\ later[k].block \in {-2, -1} \cup DOMAIN block_table'
              /\ ~IsStarted(later[k]) => later[k] = Nowhere
         /\ later[1] = Nowhere
         /\ \A k \in 1 .. position - 1 :
              /\ IsNoted(nodes[k])'
              /\ later[k + 1] = After(nodes[k], later[k])'
              /\ IsInOrder(nodes'[k].kind, later[k])
              /\ Places(nodes[k])' =>
                   /\ SymbolOf(nodes[k])' \in DOMAIN symbol_table'
                   /\ IsPlaced(symbol_table[SymbolOf(nodes[k])], PlaceOf(later, k).block,
                               PlaceOf(later, k).address, start_address)'
<1>1. position \in Nat /\ 1 <= position
  BY ListIs DEF FirstPass
<1>2. Walked(walk, position) /\ SymbolsPlaced(walk, position) /\ LiteralsAre(symbol_table)
      /\ NothingYet(walk[position])
  BY DEF FirstPass
<1>3. ASSUME NEW k \in 1 .. position
      PROVE  /\ later[k].block \in {-2, -1} \cup DOMAIN block_table'
             /\ ~IsStarted(later[k]) => later[k] = Nowhere
  <2>1. walk[k].block \in {-2, -1} \cup DOMAIN block_table
        /\ (~IsStarted(walk[k]) => walk[k] = Nowhere)
    BY <1>2, Zenon DEF Walked
  <2> QED  BY <2>1
<1>4. later[1] = Nowhere
  BY <1>1, <1>2 DEF Walked
<1>5. ASSUME NEW k \in 1 .. position - 1
      PROVE  /\ IsNoted(nodes[k])'
             /\ later[k + 1] = After(nodes[k], later[k])'
             /\ IsInOrder(nodes'[k].kind, later[k])
             /\ Places(nodes[k])' =>
                  /\ SymbolOf(nodes[k])' \in DOMAIN symbol_table'
                  /\ IsPlaced(symbol_table[SymbolOf(nodes[k])], PlaceOf(later, k).block,
                              PlaceOf(later, k).address, start_address)'
  <2>1. k \in 1 .. position /\ k + 1 \in 1 .. position
    BY <1>1
  <2>2. PICK node : node = nodes[k]
    OBVIOUS
  <2>3. nodes'[k] = node
    BY <2>2
  <2>4. IsNoted(node) /\ walk[k + 1] = After(node, walk[k])
        /\ IsInOrder(node.kind, walk[k])
    BY <1>2, <2>2, Zenon DEF Walked
  <2>5. later[k] = walk[k] /\ later[k + 1] = walk[k + 1]
    BY <2>1
  <2>6. next_literal_id \in Nat /\ Len(literal_table) \in Nat /\ next_literal_id <= Len(literal_table)
    BY <1>2, ListIs DEF LiteralsAre
  <2>7. IsNoted(node)'
    BY <2>4, <2>6 DEF IsNoted
  <2>8. After(node, walk[k])' = After(node, walk[k])
    <3>1. ASSUME node.kind = "LITERAL" PROVE literal_table'[node.literal_id + 1] = literal_table[node.literal_id + 1]
      <4>1. node.literal_id + 1 \in 1 .. Len(literal_table)
        BY <2>4, <2>6, <3>1 DEF IsNoted
      <4> QED  BY <4>1
    <3> QED  BY <3>1, AfterStays
  <2>9. ASSUME Places(node)
        PROVE  /\ SymbolOf(node) \in DOMAIN symbol_table'
               /\ IsPlaced(symbol_table'[SymbolOf(node)], PlaceOf(walk, k).block,
                              PlaceOf(walk, k).address, start_address')
    <3>1. /\ SymbolOf(node) \in DOMAIN symbol_table
          /\ IsPlaced(symbol_table[SymbolOf(node)], PlaceOf(walk, k).block,
                      PlaceOf(walk, k).address, start_address)
      BY <1>2, <2>2, <2>9, Zenon DEF SymbolsPlaced
    <3>2. IsStarted(walk[position])
      BY <1>2, <2>2, <2>4, <2>9 DEF NothingYet, Places, IsLabelled, IsNoted
    <3>3. start_address' = start_address
      BY <3>2
    <3> QED  BY <3>1, <3>3, ExtendsPlaced
  <2>10. PlaceOf(later, k)' = PlaceOf(walk, k)
    BY <2>2, <2>3, <2>5 DEF PlaceOf
  <2>11. SymbolOf(nodes[k])' = SymbolOf(node) /\ Places(nodes[k])' = Places(node)
    BY <2>3 DEF SymbolOf, Places, IsLabelled
  <2> QED  BY <2>3, <2>4, <2>5, <2>7, <2>8, <2>9, <2>10, <2>11
<1> QED  BY <1>3, <1>4, <1>5

-----------------------------------------------------------------------------
(***************************************************************************)
(* One line is visited, and the first pass goes on to the next.            *)
(***************************************************************************)
\* The lines from the next one on.
LEMMA FramedOn ==
  ASSUME IsList(nodes), position \in 1 .. Len(nodes), NEW started \in BOOLEAN,
         Framed(nodes, position, started)
  PROVE  /\ ~started => nodes[position].kind \in {"START", "EMPTY"}
         /\ started => nodes[position].kind # "START"
         /\ Framed(nodes, position + 1, started \/ nodes[position].kind = "START")
<1>1. Len(nodes) \in Nat /\ position \in Nat
  BY ListIs
<1>2. ASSUME ~started PROVE nodes[position].kind \in {"START", "EMPTY"}
  <2>1. ASSUME nodes[position].kind # "EMPTY" PROVE nodes[position].kind = "START"
    <3>1. \E i \in position .. position : nodes[i].kind = "START"
      BY <1>1, <1>2, <2>1 DEF Framed
    <3> QED  BY <1>1, <3>1
  <2> QED  BY <2>1
<1>3. ASSUME started PROVE nodes[position].kind # "START"
  BY <1>1, <1>3 DEF Framed
<1>4. CASE started
  BY <1>1, <1>4 DEF Framed
<1>5. CASE ~started /\ nodes[position].kind = "START"
  <2>1. ASSUME NEW k \in position + 1 .. Len(nodes) PROVE nodes[k].kind # "START"
    <3>1. position \in position .. Len(nodes) /\ k \in position .. Len(nodes) /\ k # position
      BY <1>1
    <3> QED  BY <1>5, <3>1 DEF Framed
  <2> QED  BY <1>5, <2>1 DEF Framed
<1>6. CASE ~started /\ nodes[position].kind = "EMPTY"
  <2>1. ASSUME NEW k \in position + 1 .. Len(nodes)
        PROVE  /\ nodes[k].kind # "EMPTY" => \E i \in position + 1 .. k : nodes[i].kind = "START"
               /\ nodes[k].kind = "START" =>
                    \A i \in position + 1 .. Len(nodes) : nodes[i].kind = "START" => i = k
    <3>1. k \in position .. Len(nodes)
      BY <1>1
    <3>2. ASSUME nodes[k].kind # "EMPTY" PROVE \E i \in position + 1 .. k : nodes[i].kind = "START"
      <4>1. PICK i \in position .. k : nodes[i].kind = "START"
        BY <1>6, <3>1, <3>2 DEF Framed
      <4>2. i # position
        BY <1>6, <4>1
      <4> QED  BY <1>1, <4>1, <4>2
    <3>3. ASSUME nodes[k].kind = "START", NEW i \in position + 1 .. Len(nodes),
                 nodes[i].kind = "START"
          PROVE  i = k
      <4>1. i \in position .. Len(nodes)
        BY <1>1
      <4> QED  BY <1>6, <3>1, <3>3, <4>1 DEF Framed
    <3> QED  BY <3>2, <3>3
  <2> QED  BY <1>6, <2>1 DEF Framed
<1> QED  BY <1>2, <1>3, <1>4, <1>5, <1>6

\* The lines from the next one on, when one line has been visited.
LEMMA FramedNext ==
  ASSUME IsList(nodes), position \in 1 .. Len(nodes), NEW started \in BOOLEAN,
         Framed(nodes, position, started), position' = position + 1, Len(nodes') = Len(nodes),
         \A k \in position + 1 .. Len(nodes) : nodes'[k] = nodes[k],
         NEW later \in BOOLEAN, later <=> started \/ nodes[position].kind = "START"
  PROVE  Framed(nodes, position, later)'
<1>1. Framed(nodes, position + 1, later)
  <2>1. later = (started \/ nodes[position].kind = "START")
    OBVIOUS
  <2> QED  BY <2>1, FramedOn, Zenon
<1>2. Len(nodes) \in Nat /\ position \in Nat
  BY ListIs
<1>3. CASE later
  BY <1>1, <1>2, <1>3 DEF Framed
<1>4. CASE ~later
  <2>1. ASSUME NEW k \in position' .. Len(nodes')
        PROVE  /\ nodes'[k].kind # "EMPTY" => \E i \in position' .. k : nodes'[i].kind = "START"
               /\ nodes'[k].kind = "START" =>
                    \A i \in position' .. Len(nodes') : nodes'[i].kind = "START" => i = k
    <3>1. k \in position + 1 .. Len(nodes) /\ nodes'[k] = nodes[k]
      BY <1>2
    <3>2. /\ nodes[k].kind # "EMPTY" => \E i \in position + 1 .. k : nodes[i].kind = "START"
          /\ nodes[k].kind = "START" =>
               \A i \in position + 1 .. Len(nodes) : nodes[i].kind = "START" => i = k
      BY <1>1, <1>4, <3>1 DEF Framed
    <3>3. \A i \in position + 1 .. k : i \in position + 1 .. Len(nodes)
      BY <1>2, <3>1
    <3> QED  BY <3>1, <3>2, <3>3
  <2> QED  BY <1>4, <2>1 DEF Framed
<1> QED  BY <1>3, <1>4

\* One line is visited.
LEMMA Forward ==
  ASSUME NEW walk \in [Nat -> Spot], FirstPass(walk), position <= Len(nodes),
         NEW node, IsNoted(node)', node.kind = nodes[position].kind,
         IsList(nodes'), Len(nodes') = Len(nodes), nodes'[position] = node,
         \A k \in 1 .. Len(nodes) : k # position => nodes'[k] = nodes[k],
         position' = position + 1,
         DOMAIN block_table \subseteq DOMAIN block_table', IsBlockTable(block_table'),
         next_literal_id' = next_literal_id,
         \A k \in 1 .. Len(literal_table) : literal_table'[k] = literal_table[k],
         LiteralsAre(symbol_table)',
         NEW added, Extends(symbol_table, symbol_table', added), IsTable(symbol_table'),
         start_address' \in Nat, start_address' = start_address \/ node.kind = "START",
         listing' = listing,
         NEW spot, spot = walk[position], NEW next, next = After(node, spot)', next \in Spot,
         next.block \in {-2, -1} \cup DOMAIN block_table',
         IsStarted(next) <=> IsStarted(walk[position]) \/ node.kind = "START",
         ~IsStarted(next) => next = Nowhere,
         NEW place, place = (IF node.kind = "START" THEN next ELSE walk[position]),
         Places(node) => /\ SymbolOf(node) \in DOMAIN symbol_table'
                         /\ IsPlaced(symbol_table'[SymbolOf(node)], place.block, place.address,
                                     start_address'),
         IsHere(next)',
         ~IsStarted(next) => \A name \in DOMAIN symbol_table' : ~symbol_table'[name].defined
  PROVE  \E later \in [Nat -> Spot] : FirstPass(later)'
<1>0. PICK later : later = [k \in Nat |-> IF k = position + 1 THEN next ELSE walk[k]]
  OBVIOUS
<1>1. position \in Nat /\ 1 <= position /\ Len(nodes) \in Nat /\ position \in 1 .. Len(nodes)
      /\ IsList(nodes)
  BY ListIs DEF FirstPass
<1>2. later \in [Nat -> Spot]
  BY <1>0
<1>3. (\A k \in 1 .. position : later[k] = walk[k]) /\ later[position + 1] = next
  BY <1>0, <1>1
<1>4. IsStarted(walk[position]) \in BOOLEAN /\ IsStarted(next) \in BOOLEAN
  BY DEF IsStarted
<1>5. Framed(nodes, position, IsStarted(walk[position]))
      /\ \A k \in position .. Len(nodes) : IsLine(nodes[k])
  BY DEF FirstPass, IsAhead
<1>6. ~IsStarted(walk[position]) => nodes[position].kind \in {"START", "EMPTY"}
  BY <1>1, <1>4, <1>5, FramedOn
<1>7. (\A k \in 1 .. position - 1 : nodes'[k] = nodes[k])
      /\ \A k \in position + 1 .. Len(nodes) : nodes'[k] = nodes[k]
  BY <1>1
<1>8. Framed(nodes, position, IsStarted(next))'
  BY <1>1, <1>4, <1>5, <1>7, FramedNext
<1>9. IsAhead(later[position])'
  <2>1. \A k \in position' .. Len(nodes') : IsLine(nodes'[k])
    BY <1>1, <1>5, <1>7
  <2> QED  BY <1>3, <1>8, <2>1 DEF IsAhead
<1>10. next_literal_id' \in Nat /\ next_literal_id <= next_literal_id'
  BY ListIs DEF FirstPass, LiteralsAre
<1>11. start_address' = start_address \/ ~IsStarted(walk[position])
  BY <1>1, <1>4, <1>5, FramedOn
<1>12. /\ \A k \in 1 .. position :
              /\ later[k].block \in {-2, -1} \cup DOMAIN block_table'
              /\ ~IsStarted(later[k]) => later[k] = Nowhere
       /\ later[1] = Nowhere
       /\ \A k \in 1 .. position - 1 :
              /\ IsNoted(nodes[k])'
              /\ later[k + 1] = After(nodes[k], later[k])'
              /\ IsInOrder(nodes'[k].kind, later[k])
              /\ Places(nodes[k])' =>
                   /\ SymbolOf(nodes[k])' \in DOMAIN symbol_table'
                   /\ IsPlaced(symbol_table[SymbolOf(nodes[k])], PlaceOf(later, k).block,
                               PlaceOf(later, k).address, start_address)'
  BY <1>2, <1>3, <1>7, <1>10, <1>11, BehindStays
<1>13. Walked(later, position)'
  <2>1. ASSUME NEW k \in 1 .. position + 1
        PROVE  /\ later[k].block \in {-2, -1} \cup DOMAIN block_table'
               /\ ~IsStarted(later[k]) => later[k] = Nowhere
    <3>1. CASE k = position + 1
      BY <1>3, <3>1
    <3>2. CASE k # position + 1
      BY <1>1, <1>12, <3>2
    <3> QED  BY <3>1, <3>2
  <2>2. ASSUME NEW k \in 1 .. position
        PROVE  /\ IsNoted(nodes[k])'
               /\ later[k + 1] = After(nodes[k], later[k])'
               /\ IsInOrder(nodes'[k].kind, later[k])
    <3>1. CASE k = position
      <4>1. nodes'[k] = node /\ later[k] = spot /\ later[k + 1] = next
        BY <1>1, <1>3, <3>1
      <4>2. IsInOrder(node.kind, spot)
        BY <1>1, <1>4, <1>5, FramedOn DEF IsInOrder
      <4> QED  BY <3>1, <4>1, <4>2
    <3>2. CASE k # position
      BY <1>1, <1>12, <3>2
    <3> QED  BY <3>1, <3>2
  <2> HIDE DEF IsStarted
  <2>3. position' - 1 = position
    BY <1>1
  <2> QED  BY <1>2, <1>12, <2>1, <2>2, <2>3 DEF Walked
<1>14. SymbolsPlaced(later, position)'
  <2>1. ASSUME NEW k \in 1 .. position, Places(nodes[k])'
        PROVE  /\ SymbolOf(nodes[k])' \in DOMAIN symbol_table'
               /\ IsPlaced(symbol_table[SymbolOf(nodes[k])], PlaceOf(later, k).block,
                           PlaceOf(later, k).address, start_address)'
    <3>1. CASE k = position
      <4>1. nodes'[k] = node
        BY <3>1
      <4>2. PlaceOf(later, k)' = place
        BY <1>1, <1>3, <3>1, <4>1 DEF PlaceOf
      <4>3. Places(node) /\ SymbolOf(nodes[k])' = SymbolOf(node)
        BY <2>1, <4>1 DEF Places, IsLabelled, SymbolOf
      <4> QED  BY <4>2, <4>3
    <3>2. CASE k # position
      BY <1>1, <1>12, <2>1, <3>2
    <3> QED  BY <3>1, <3>2
  <2>2. position' - 1 = position
    BY <1>1
  <2> QED  BY <2>1, <2>2 DEF SymbolsPlaced
<1>15. NothingYet(later[position])'
  <2>1. ASSUME ~IsStarted(next) PROVE \A k \in 1 .. position : nodes'[k].kind = "EMPTY"
    <3>1. ~IsStarted(walk[position]) /\ node.kind # "START"
      BY <2>1
    <3>2. \A k \in 1 .. position - 1 : nodes[k].kind = "EMPTY"
      BY <3>1 DEF FirstPass, NothingYet
    <3>3. node.kind = "EMPTY"
      BY <1>6, <3>1
    <3> QED  BY <1>1, <1>7, <3>2, <3>3
  <2>2. position' - 1 = position
    BY <1>1
  <2> QED  BY <1>3, <2>1, <2>2 DEF NothingYet
<1>16. position' \in 1 .. Len(nodes') + 1
  BY <1>1
<1>17. listing' = <<>>
  BY DEF FirstPass
<1>18. IsHere(later[position])'
  BY <1>3
<1>19. FirstPass(later)'
  BY <1>9, <1>13, <1>14, <1>15, <1>16, <1>17, <1>18 DEF FirstPass
<1> QED  BY <1>2, <1>19

LEMMA KeepsUndefined ==
  ASSUME NEW table, NEW later, Keeps(table, later),
         \A name \in DOMAIN table : ~table[name].defined
  PROVE  \A name \in DOMAIN later : ~later[name].defined
<1>1. ~NewEntry.defined
  BY NewEntryType
<1>2. ASSUME NEW name \in DOMAIN later PROVE ~later[name].defined
  <2>1. Stays(FindOrCreateNew(table, name), later[name])
    BY DEF Keeps
  <2>2. ~FindOrCreateNew(table, name).defined
    BY <1>1 DEF FindOrCreateNew
  <2> QED  BY <2>1, <2>2 DEF Stays
<1> QED  BY <1>2

\* The lines when one is given a field more.
LEMMA NodesReplaced ==
  ASSUME IsList(nodes), position \in 1 .. Len(nodes), NEW node,
         nodes' = [nodes EXCEPT ![position] = node]
  PROVE  /\ IsList(nodes') /\ Len(nodes') = Len(nodes) /\ nodes'[position] = node
         /\ \A k \in 1 .. Len(nodes) : k # position => nodes'[k] = nodes[k]
<1>1. Len(nodes) \in Nat /\ DOMAIN nodes = 1 .. Len(nodes)
  BY ListIs
<1>2. DOMAIN nodes' = 1 .. Len(nodes) /\ nodes' = [k \in 1 .. Len(nodes) |-> nodes'[k]]
      /\ nodes'[position] = node /\ \A k \in 1 .. Len(nodes) : k # position => nodes'[k] = nodes[k]
  BY <1>1
<1> QED  BY <1>1, <1>2, ListedIs

\* The lines that leave the pass in its block and are not replaced by others.
OnwardKinds == {"F1", "F2", "FS34", "INIT", "RESERVE", "EQU", "BASE", "NOBASE", "EMPTY", "EXTDEF",
                "EXTREF"}

\* One line is visited that leaves the pass in its block.
LEMMA Onward ==
  ASSUME NEW walk \in [Nat -> Spot], FirstPass(walk), position <= Len(nodes),
         NEW node, node.kind \in OnwardKinds, node.kind = nodes[position].kind, IsNoted(node),
         IsList(nodes'), Len(nodes') = Len(nodes), nodes'[position] = node,
         \A k \in 1 .. Len(nodes) : k # position => nodes'[k] = nodes[k],
         position' = position + 1,
         block_table' = block_table, next_literal_id' = next_literal_id,
         \A k \in 1 .. Len(literal_table) : literal_table'[k] = literal_table[k],
         LiteralsAre(symbol_table)',
         NEW added, Extends(symbol_table, symbol_table', added), IsTable(symbol_table'),
         start_address' = start_address, listing' = listing, current_block' = current_block,
         current_address' = current_address + Bytes(node),
         IsLabelled(node) => /\ node.label \in DOMAIN symbol_table'
                             /\ IsPlaced(symbol_table'[node.label], current_block, current_address,
                                         start_address),
         node.kind = "EMPTY" => Keeps(symbol_table, symbol_table')
  PROVE  \E later \in [Nat -> Spot] : FirstPass(later)'
<1>1. IsList(nodes) /\ Len(nodes) \in Nat /\ position \in 1 .. Len(nodes) /\ position \in Nat
  BY ListIs DEF FirstPass
<1>3. IsNoted(node)'
  BY DEF IsNoted
<1>4. PICK spot : spot = walk[position]
  OBVIOUS
<1>5. PICK next : next = [block |-> spot.block, address |-> spot.address + Bytes(node),
                          sizes |-> spot.sizes]
  OBVIOUS
<1>6. Walked(walk, position) /\ LiteralsAre(symbol_table) /\ IsHere(spot) /\ NothingYet(spot)
      /\ IsBlockTable(block_table) /\ start_address \in Nat
  BY <1>4 DEF FirstPass
<1>7. spot \in Spot
  BY <1>1, <1>4
<1>8. next = After(node, spot)
  BY <1>5, Zenon DEF After, OnwardKinds
<1>9. After(node, spot)' = After(node, spot)
  <2>1. node.kind # "LITERAL"
    BY DEF OnwardKinds
  <2> QED  BY <2>1, AfterStays
<1>10. Bytes(node) \in Nat
  BY <1>6, BytesIs
<1>11. next \in Spot /\ next.block = spot.block /\ next.sizes = spot.sizes
       /\ next.address = spot.address + Bytes(node)
  <2>0. PICK bytes : bytes = Bytes(node)
    OBVIOUS
  <2>1. PICK address : address = spot.address + bytes
    OBVIOUS
  <2>2. spot.address \in Nat /\ spot.block \in Int /\ spot.sizes \in [Nat -> Nat]
    BY <1>7 DEF Spot
  <2>3. address \in Nat
    <3>1. PICK a : a = spot.address
      OBVIOUS
    <3>2. a \in Nat /\ bytes \in Nat /\ address = a + bytes
      BY <1>10, <2>0, <2>1, <2>2, <3>1, Zenon
    <3> QED  BY <3>2
  <2>4. next = [block |-> spot.block, address |-> address, sizes |-> spot.sizes]
    BY <1>5, <2>0, <2>1
  <2>5. next \in Spot
    BY <2>2, <2>3, <2>4 DEF Spot
  <2> QED  BY <2>0, <2>1, <2>4, <2>5
<1>12. node.kind # "START"
  BY DEF OnwardKinds
<1>13. spot.block \in {-2, -1} \cup DOMAIN block_table /\ (~IsStarted(spot) => spot = Nowhere)
  <2>1. position \in 1 .. position
    BY <1>1
  <2> QED  BY <1>4, <1>6, <2>1, Zenon DEF Walked
<1>14. ASSUME ~IsStarted(spot) PROVE node.kind = "EMPTY"
  <2>1. Framed(nodes, position, IsStarted(spot)) /\ IsStarted(spot) \in BOOLEAN
    BY <1>4 DEF FirstPass, IsAhead, IsStarted
  <2> QED  BY <1>1, <1>12, <1>14, <2>1, FramedOn
<1>15. ASSUME ~IsStarted(next)
       PROVE  next = Nowhere /\ \A name \in DOMAIN symbol_table' : ~symbol_table'[name].defined
  <2>1. ~IsStarted(spot)
    BY <1>11, <1>15 DEF IsStarted
  <2>2. Bytes(node) = 0
    BY <1>14, <2>1 DEF Bytes
  <2>3. next = Nowhere
    <3>1. spot = Nowhere
      BY <1>13, <2>1
    <3>2. spot.block = -2 /\ spot.address = 0 /\ spot.address + Bytes(node) = 0
          /\ spot.sizes = Nowhere.sizes
      BY <2>2, <3>1 DEF Nowhere
    <3> QED  BY <1>5, <3>2 DEF Nowhere
  <2>4. \A name \in DOMAIN symbol_table : ~symbol_table[name].defined
    BY <1>6, <2>1 DEF NothingYet
  <2> QED  BY <1>14, <2>1, <2>3, <2>4, KeepsUndefined
<1>16. IsStarted(next) <=> IsStarted(spot)
  BY <1>11 DEF IsStarted
<1>17. IsHere(next)'
  BY <1>1, <1>6, <1>11 DEF IsHere, IsStarted
<1>18. ASSUME Places(node)
       PROVE  /\ SymbolOf(node) \in DOMAIN symbol_table'
              /\ IsPlaced(symbol_table'[SymbolOf(node)], spot.block, spot.address, start_address')
  <2>1. IsLabelled(node) /\ SymbolOf(node) = node.label
    BY <1>18 DEF Places, OnwardKinds, SymbolOf
  <2>2. node.kind # "EMPTY"
    BY <2>1 DEF IsNoted, IsLabelled
  <2>3. IsStarted(spot)
    BY <1>14, <2>2
  <2>4. current_block = spot.block /\ current_address = spot.address
    BY <1>6, <2>3 DEF IsHere
  <2> QED  BY <2>1, <2>4
<1>19. DOMAIN block_table \subseteq DOMAIN block_table' /\ IsBlockTable(block_table')
       /\ start_address' \in Nat
  BY <1>6
<1>20. next.block \in {-2, -1} \cup DOMAIN block_table'
  BY <1>11, <1>13
<1>21. spot = (IF node.kind = "START" THEN next ELSE spot)
  BY <1>12
<1>22. IsStarted(next) <=> IsStarted(walk[position]) \/ node.kind = "START"
  BY <1>4, <1>12, <1>16
<1>23. next = After(node, spot)'
  BY <1>8, <1>9
<1> HIDE DEF FirstPass, IsStarted, Places
<1> QED  BY <1>1, <1>3, <1>4, <1>11, <1>15, <1>17, <1>18, <1>19, <1>20, <1>21, <1>22, <1>23, Forward

\* A symbol table that is extended keeps what is defined.
LEMMA ExtendsStand ==
  ASSUME NEW added, Extends(symbol_table, symbol_table', added)
  PROVE  Stand
<1>1. ASSUME NEW name \in DOMAIN symbol_table, symbol_table[name].defined
      PROVE  name \in DOMAIN symbol_table' /\ Stays(symbol_table[name], symbol_table'[name])
  <2>1. FindOrCreateNew(symbol_table, name) = symbol_table[name]
    BY DEF FindOrCreateNew
  <2> QED  BY <1>1, <2>1 DEF Extends
<1> QED  BY <1>1 DEF Stand

\* The literals, when labels are defined.
LEMMA LiteralsStay ==
  ASSUME LiteralsAre(symbol_table), UNCHANGED <<literal_table, literal_lookup, next_literal_id>>,
         NEW added, Extends(symbol_table, symbol_table', added),
         \A id \in Nat : LiteralSymbolName(id) \notin added
  PROVE  LiteralsAre(symbol_table)'
<1>1. ASSUME NEW name, name \notin added, ~FindOrCreateNew(symbol_table, name).defined
      PROVE  ~FindOrCreateNew(symbol_table', name).defined
  <2>1. CASE name \in DOMAIN symbol_table'
    <3>1. Stays(FindOrCreateNew(symbol_table, name), symbol_table'[name])
      BY <1>1, <2>1 DEF Extends
    <3> QED  BY <1>1, <2>1, <3>1 DEF Stays, FindOrCreateNew
  <2>2. CASE name \notin DOMAIN symbol_table'
    BY <2>2, NewEntryType DEF FindOrCreateNew
  <2> QED  BY <2>1, <2>2
<1>2. DOMAIN symbol_table \subseteq DOMAIN symbol_table'
  BY DEF Extends
<1>3. Waiting' = Waiting
  BY DEF Waiting
<1> QED  BY <1>1, <1>2, <1>3 DEF LiteralsAre

LEMMA NodesStay ==
  ASSUME IsList(nodes), position \in 1 .. Len(nodes), nodes' = nodes
  PROVE  /\ IsList(nodes') /\ Len(nodes') = Len(nodes) /\ nodes'[position] = nodes[position]
         /\ \A k \in 1 .. Len(nodes) : k # position => nodes'[k] = nodes[k]
  OBVIOUS

\* What the pass finds at its line.
LEMMA VisitedIs ==
  ASSUME NEW walk \in [Nat -> Spot], FirstPass(walk), position <= Len(nodes)
  PROVE  /\ IsLine(Node) /\ Node = nodes[position]
         /\ IsTable(symbol_table) /\ LiteralsAre(symbol_table) /\ IsBlockTable(block_table)
         /\ position \in 1 .. Len(nodes) /\ IsList(nodes) /\ Len(nodes) \in Nat
         /\ current_address \in Nat /\ current_block \in Int /\ start_address \in Nat
<1>1. Len(nodes) \in Nat /\ position \in 1 .. Len(nodes) /\ IsList(nodes) /\ position \in Nat
  BY ListIs DEF FirstPass
<1>2. IsLine(nodes[position])
  <2>1. position \in position .. Len(nodes)
    BY <1>1
  <2> QED  BY <2>1 DEF FirstPass, IsAhead
<1>3. walk[position] \in Spot
  BY <1>1
<1>4. current_address \in Nat /\ current_block \in Int
  <2>1. PICK spot : spot = walk[position]
    OBVIOUS
  <2>2. IsHere(spot)
    BY <2>1 DEF FirstPass
  <2>3. spot.block \in Int /\ spot.address \in Nat
    BY <1>3, <2>1 DEF Spot
  <2>4. PICK started : started = IsStarted(spot)
    OBVIOUS
  <2>5. current_block = (IF started THEN spot.block ELSE -1) /\ current_address = spot.address
    BY <2>2, <2>4 DEF IsHere
  <2> QED  BY <2>3, <2>5
<1> QED  BY <1>1, <1>2, <1>4 DEF FirstPass, Node

\* The label of a line gets the place of the line.
LEMMA WithLabelIs ==
  ASSUME NEW walk \in [Nat -> Spot], FirstPass(walk), position <= Len(nodes), LabelFits(Node)
  PROVE  \E added \in SUBSET Names :
           /\ IsTable(WithLabel(Node)) /\ Extends(symbol_table, WithLabel(Node), added)
           /\ Node.label # NoLabel =>
                /\ Node.label \in DOMAIN WithLabel(Node)
                /\ IsPlaced(WithLabel(Node)[Node.label], current_block, current_address,
                            start_address)
<1>1. /\ IsLine(Node) /\ IsTable(symbol_table) /\ current_address \in Nat
      /\ current_block \in Int /\ start_address \in Nat
  BY VisitedIs
<1>2. CASE Node.label = NoLabel
  <2>1. WithLabel(Node) = symbol_table
    BY <1>2 DEF WithLabel
  <2>2. Extends(symbol_table, symbol_table, {})
    BY KeepsItself, KeepsExtends
  <2>3. {} \in SUBSET Names
    OBVIOUS
  <2> QED  BY <1>1, <1>2, <2>1, <2>2, <2>3
<1>3. CASE Node.label # NoLabel
  <2>1. WithLabel(Node) = DefineSymbol(Node.label) /\ CanDefine(Node.label)
    BY <1>3 DEF WithLabel, LabelFits
  <2>2. Node.label \in Names /\ Node.label \in STRING
    BY <1>1, <1>3, TextsAssumption DEF IsLine
  <2>3. {Node.label} \in SUBSET Names
    BY <2>2
  <2> QED  BY <1>1, <2>1, <2>2, <2>3, DefineSymbolIs
<1> QED  BY <1>2, <1>3

\* A label is not the symbol of a literal.
LEMMA AddedIsNoLiteral ==
  ASSUME LiteralNamesDiffer, NEW added \in SUBSET Names
  PROVE  \A id \in Nat : LiteralSymbolName(id) \notin added
  BY DEF LiteralNamesDiffer

-----------------------------------------------------------------------------
(***************************************************************************)
(* The lines that the first pass visits, one kind after the other.         *)
(***************************************************************************)
\* The parser has made all of a line that the walk needs, but for three kinds.
LEMMA LineIsNoted ==
  ASSUME NEW node, IsLine(node), node.kind \notin {"RESERVE", "ORG", "USE"}
  PROVE  IsNoted(node)
  BY DEF IsLine, IsNoted, LineKinds, Unlabelled

\* Instructions and data.
LEMMA BuildCodeIs ==
  ASSUME LiteralNamesDiffer, NEW walk \in [Nat -> Spot], FirstPass(walk), position <= Len(nodes),
         LabelFits(Node), BuildCode(WithLabel(Node)), listing' = listing
  PROVE  Stand /\ \E later \in [Nat -> Spot] : FirstPass(later)'
<1>1. /\ IsLine(Node) /\ Node = nodes[position] /\ IsTable(symbol_table)
      /\ LiteralsAre(symbol_table) /\ position \in 1 .. Len(nodes) /\ IsList(nodes)
      /\ position \in Nat
  BY VisitedIs
<1>2. PICK node : node = Node
  OBVIOUS
<1>3. /\ node.kind \in {"F1", "F2", "FS34", "INIT"}
      /\ symbol_table' = ReferenceSymbols(WithLabel(Node), NamesOf(node.expression))
      /\ current_address' = current_address + NodeSize(node) /\ position' = position + 0 + 1
      /\ UNCHANGED <<nodes, block_table, literal_table, literal_lookup, next_literal_id,
                     start_address, current_block>>
  BY <1>2 DEF BuildCode, Advance
<1>4. PICK added \in SUBSET Names :
           /\ IsTable(WithLabel(Node)) /\ Extends(symbol_table, WithLabel(Node), added)
           /\ node.label # NoLabel =>
                /\ node.label \in DOMAIN WithLabel(Node)
                /\ IsPlaced(WithLabel(Node)[node.label], current_block, current_address,
                            start_address)
  BY <1>2, WithLabelIs
<1>5. NamesOf(node.expression) \subseteq STRING
  BY <1>1, <1>2, NamesAreStrings DEF IsLine
<1>6. IsTable(symbol_table') /\ Keeps(WithLabel(Node), symbol_table')
  BY <1>3, <1>4, <1>5, ReferenceKeeps
<1>7. Extends(symbol_table, symbol_table', added)
  BY <1>4, <1>6, ExtendsThenKeeps
<1>8. LiteralsAre(symbol_table)'
  BY <1>1, <1>3, <1>7, AddedIsNoLiteral, LiteralsStay
<1>9. Stand
  BY <1>7, ExtendsStand
<1>10. ASSUME node.label # NoLabel
       PROVE  /\ node.label \in DOMAIN symbol_table'
              /\ IsPlaced(symbol_table'[node.label], current_block, current_address, start_address)
  BY <1>4, <1>6, <1>10, KeepsExtends, ExtendsPlaced
<1>11. Bytes(node) = NodeSize(node) /\ node.kind \in OnwardKinds /\ node.kind # "EMPTY"
  BY <1>3 DEF Bytes, OnwardKinds
<1>12. IsNoted(node)
  BY <1>1, <1>2, <1>3, LineIsNoted
<1>13. /\ IsList(nodes') /\ Len(nodes') = Len(nodes) /\ nodes'[position] = node
       /\ \A k \in 1 .. Len(nodes) : k # position => nodes'[k] = nodes[k]
  BY <1>1, <1>2, <1>3, NodesStay
<1>14. position' = position + 1 /\ current_address' = current_address + Bytes(node)
  BY <1>1, <1>3, <1>11
<1>15. \E later \in [Nat -> Spot] : FirstPass(later)'
  <2> HIDE DEF FirstPass
  <2>1. IsLabelled(node) => node.label # NoLabel
    BY DEF IsLabelled
  <2>2. node.kind = nodes[position].kind
    BY <1>1, <1>2
  <2> QED  BY <1>3, <1>6, <1>7, <1>8, <1>10, <1>11, <1>12, <1>13, <1>14, <2>1, <2>2, Onward
<1> QED  BY <1>9, <1>15

\* RESB and RESW.
LEMMA BuildReserveIs ==
  ASSUME LiteralNamesDiffer, NEW walk \in [Nat -> Spot], FirstPass(walk), position <= Len(nodes),
         LabelFits(Node), NEW size \in Nat, BuildReserve(WithLabel(Node), size), listing' = listing
  PROVE  Stand /\ \E later \in [Nat -> Spot] : FirstPass(later)'
<1>1. /\ IsLine(Node) /\ Node = nodes[position] /\ IsTable(symbol_table)
      /\ LiteralsAre(symbol_table) /\ position \in 1 .. Len(nodes) /\ IsList(nodes)
      /\ position \in Nat
  BY VisitedIs
<1>2. PICK line, node : line = Node /\ node = With(line, [reservation_size |-> size])
  OBVIOUS
<1>3. /\ line.kind = "RESERVE" /\ symbol_table' = WithLabel(Node)
      /\ nodes' = [nodes EXCEPT ![position] = node]
      /\ current_address' = current_address + (IF line.width = "WORD" THEN 3 * size ELSE size)
      /\ position' = position + 0 + 1
      /\ UNCHANGED <<block_table, literal_table, literal_lookup, next_literal_id,
                     start_address, current_block>>
  BY <1>1, <1>2 DEF BuildReserve, Advance
<1>4. /\ "reservation_size" \notin DOMAIN line /\ {"kind", "label", "expression"} \subseteq DOMAIN line
      /\ line.label \in Names \cup {NoLabel}
  BY <1>1, <1>2, <1>3 DEF IsLine
<1>5. /\ node.kind = "RESERVE" /\ node.label = line.label /\ node.reservation_size = size
  BY <1>2, <1>3, <1>4 DEF With
<1>6. node.width = line.width
  BY <1>1, <1>2, <1>3 DEF With, IsLine
<1>7. PICK added \in SUBSET Names :
           /\ IsTable(WithLabel(Node)) /\ Extends(symbol_table, WithLabel(Node), added)
           /\ line.label # NoLabel =>
                /\ line.label \in DOMAIN WithLabel(Node)
                /\ IsPlaced(WithLabel(Node)[line.label], current_block, current_address,
                            start_address)
  BY <1>2, WithLabelIs
<1>8. LiteralsAre(symbol_table)'
  BY <1>1, <1>3, <1>7, AddedIsNoLiteral, LiteralsStay
<1>9. Stand
  BY <1>3, <1>7, ExtendsStand
<1>11. node.kind \in OnwardKinds /\ node.kind # "EMPTY"
  BY <1>5 DEF OnwardKinds
<1>12. IsNoted(node)
  BY <1>5 DEF IsNoted, LineKinds
<1>13. /\ IsList(nodes') /\ Len(nodes') = Len(nodes) /\ nodes'[position] = node
       /\ \A k \in 1 .. Len(nodes) : k # position => nodes'[k] = nodes[k]
  BY <1>1, <1>3, NodesReplaced
<1>14. position' = position + 1 /\ current_address' = current_address + Bytes(node)
  <2>1. Bytes(node) = (IF line.width = "WORD" THEN 3 * size ELSE size)
    BY <1>5, <1>6, Zenon DEF Bytes
  <2>2. position' = position + 1
    BY <1>1, <1>3
  <2> QED  BY <1>3, <2>1, <2>2, Zenon
<1>15. \E later \in [Nat -> Spot] : FirstPass(later)'
  <2> HIDE DEF FirstPass
  <2>1. IsLabelled(node) => node.label # NoLabel
    BY DEF IsLabelled
  <2>2. node.kind = nodes[position].kind
    BY <1>1, <1>2, <1>3, <1>5
  <2> QED  BY <1>3, <1>5, <1>7, <1>8, <1>11, <1>12, <1>13, <1>14, <2>1, <2>2, Onward
<1> QED  BY <1>9, <1>15

LEMMA StillUndefined ==
  ASSUME NEW table, NEW later, NEW added, Extends(table, later, added), NEW name, name \notin added,
         ~FindOrCreateNew(table, name).defined
  PROVE  ~FindOrCreateNew(later, name).defined
<1>1. CASE name \in DOMAIN later
  <2>1. Stays(FindOrCreateNew(table, name), later[name])
    BY <1>1 DEF Extends
  <2> QED  BY <1>1, <2>1 DEF Stays, FindOrCreateNew
<1>2. CASE name \notin DOMAIN later
  BY <1>2, NewEntryType DEF FindOrCreateNew
<1> QED  BY <1>1, <1>2

\* The bytes of a literal are a sequence.
LEMMA LiteralBytesIs ==
  ASSUME NEW node, NEW solved, node.data \in Seq(Int), node.syntax \in {"LOAD_B", "LOAD_W", "LOAD_F"}
  PROVE  Len(LiteralBytes(node, solved)) \in Nat
<1>1. PICK size : size = LiteralSize(node.syntax)
  OBVIOUS
<1>2. size \in Nat
  BY <1>1 DEF LiteralSize
<1>3. CASE node.data = NoData
  <2>1. PICK bytes : bytes = BytesOf(solved.value % ByteSize ^ size, size)
    OBVIOUS
  <2>2. DOMAIN bytes = 1 .. size /\ bytes = [k \in 1 .. size |-> bytes[k]]
    BY <2>1 DEF BytesOf
  <2>3. IsList(bytes)
    BY <1>2, <2>2, ListedIs
  <2>4. LiteralBytes(node, solved) = bytes
    BY <1>1, <1>3, <2>1 DEF LiteralBytes
  <2> QED  BY <2>3, <2>4, ListIs
<1>4. CASE node.data # NoData
  <2>1. PICK zeros : zeros = [k \in 1 .. size - Len(node.data) |-> 0]
    OBVIOUS
  <2>2. Len(node.data) \in Nat /\ IsList(node.data)
    BY SequenceIsList
  <2>3. PICK n \in Nat : 1 .. size - Len(node.data) = 1 .. n
    <3>1. CASE size - Len(node.data) \in Nat
      BY <3>1
    <3>2. CASE size - Len(node.data) \notin Nat
      <4>1. 1 .. size - Len(node.data) = 1 .. 0
        BY <1>2, <2>2, <3>2
      <4> QED  BY <4>1
    <3> QED  BY <3>1, <3>2
  <2>4. DOMAIN zeros = 1 .. n /\ zeros = [k \in 1 .. n |-> zeros[k]]
    BY <2>1, <2>3
  <2>5. IsList(zeros)
    BY <2>4, ListedIs
  <2>6. LiteralBytes(node, solved) = zeros \o node.data
    BY <1>1, <1>4, <2>1 DEF LiteralBytes, Padded
  <2> QED  BY <2>2, <2>5, <2>6, JoinedIs, ListIs
<1> QED  BY <1>3, <1>4

\* A literal gets the number of one that waits, or a new one.
LEMMA LiteralIdIs ==
  ASSUME NEW table, LiteralsAre(table), NEW bytes
  PROVE  LiteralId(bytes) \in next_literal_id .. Len(literal_table)
<1>1. Len(literal_table) \in Nat /\ next_literal_id \in Nat /\ next_literal_id <= Len(literal_table)
  BY ListIs DEF LiteralsAre
<1>2. PICK found : found = {k \in literal_lookup : literal_table[k] = bytes}
  OBVIOUS
<1>3. LiteralId(bytes) = IF found = {} THEN Len(literal_table) ELSE (CHOOSE k \in found : TRUE) - 1
  BY <1>2 DEF LiteralId
<1>4. CASE found = {}
  BY <1>1, <1>3, <1>4
<1>5. CASE found # {}
  <2>1. PICK k : k = CHOOSE i \in found : TRUE
    OBVIOUS
  <2>2. k \in found
    BY <1>5, <2>1
  <2>3. k \in next_literal_id + 1 .. Len(literal_table)
    BY <1>2, <2>2 DEF LiteralsAre
  <2>4. LiteralId(bytes) = k - 1
    BY <1>3, <1>5, <2>1
  <2> QED  BY <1>1, <2>3, <2>4
<1> QED  BY <1>4, <1>5

\* The literals with one more, if it is new.
LEMMA LiteralAdded ==
  ASSUME LiteralsAre(symbol_table), NEW bytes, Len(bytes) \in Nat,
         NEW id, id = LiteralId(bytes),
         literal_table' = IF id < Len(literal_table) THEN literal_table
                          ELSE Append(literal_table, bytes),
         literal_lookup' = literal_lookup \cup {id + 1}, next_literal_id' = next_literal_id,
         NEW added, Extends(symbol_table, symbol_table', added),
         \A other \in Nat : LiteralSymbolName(other) \notin added,
         LiteralSymbolName(id) \in DOMAIN symbol_table'
  PROVE  /\ LiteralsAre(symbol_table)'
         /\ \A k \in 1 .. Len(literal_table) : literal_table'[k] = literal_table[k]
<1>1. /\ Len(literal_table) \in Nat /\ next_literal_id \in Nat /\ next_literal_id <= Len(literal_table)
      /\ IsList(literal_table) /\ DOMAIN literal_table = 1 .. Len(literal_table)
      /\ literal_lookup \subseteq next_literal_id + 1 .. Len(literal_table)
      /\ \A k \in DOMAIN literal_table : Len(literal_table[k]) \in Nat
      /\ \A other \in Waiting : LiteralSymbolName(other) \in DOMAIN symbol_table
      /\ \A other \in Nat : next_literal_id <= other =>
           ~FindOrCreateNew(symbol_table, LiteralSymbolName(other)).defined
  BY ListIs DEF LiteralsAre
<1>2. id \in next_literal_id .. Len(literal_table)
  BY LiteralIdIs
<1>3. /\ IsList(literal_table') /\ \A k \in 1 .. Len(literal_table) : literal_table'[k] = literal_table[k]
      /\ \A k \in DOMAIN literal_table' : Len(literal_table'[k]) \in Nat
      /\ Len(literal_table') = (IF id < Len(literal_table) THEN Len(literal_table)
                                ELSE Len(literal_table) + 1)
  <2>1. CASE id < Len(literal_table)
    BY <1>1, <2>1
  <2>2. CASE ~(id < Len(literal_table))
    <3>1. literal_table' = Append(literal_table, bytes)
      BY <2>2
    <3>2. /\ IsList(literal_table') /\ Len(literal_table') = Len(literal_table) + 1
          /\ \A k \in 1 .. Len(literal_table) : literal_table'[k] = literal_table[k]
          /\ literal_table'[Len(literal_table) + 1] = bytes
      BY <1>1, <3>1, AppendIs
    <3>3. DOMAIN literal_table' = 1 .. Len(literal_table) + 1
      BY <3>2, ListIs
    <3>4. ASSUME NEW k \in DOMAIN literal_table' PROVE Len(literal_table'[k]) \in Nat
      <4>1. CASE k = Len(literal_table) + 1
        BY <3>2, <4>1
      <4>2. CASE k # Len(literal_table) + 1
        <5>1. k \in 1 .. Len(literal_table)
          BY <1>1, <3>3, <4>2
        <5> QED  BY <1>1, <3>2, <5>1
      <4> QED  BY <4>1, <4>2
    <3> QED  BY <2>2, <3>2, <3>4
  <2> QED  BY <2>1, <2>2
<1>4. DOMAIN symbol_table \subseteq DOMAIN symbol_table'
  BY DEF Extends
<1>5. ASSUME NEW other \in Waiting' PROVE LiteralSymbolName(other) \in DOMAIN symbol_table'
  <2>1. other \in Waiting \/ other = id
    BY <1>1, <1>2, <1>3 DEF Waiting
  <2> QED  BY <1>1, <1>4, <2>1
<1>6. ASSUME NEW other \in Nat, next_literal_id <= other
      PROVE  ~FindOrCreateNew(symbol_table', LiteralSymbolName(other)).defined
  BY <1>1, <1>6, StillUndefined
<1>7. next_literal_id' \in 0 .. Len(literal_table')
      /\ literal_lookup' \subseteq next_literal_id' + 1 .. Len(literal_table')
  <2>1. PICK old, new, next : old = Len(literal_table) /\ new = Len(literal_table')
                              /\ next = next_literal_id
    OBVIOUS
  <2>2. old \in Nat /\ new \in Nat /\ next \in Nat /\ next <= old /\ id \in next .. old /\ old <= new
        /\ id < new
    BY <1>1, <1>2, <1>3, <2>1
  <2>3. ASSUME NEW k \in literal_lookup' PROVE k \in next + 1 .. new
    <3>1. k \in next + 1 .. old \/ k = id + 1
      BY <1>1, <2>1
    <3> QED  BY <2>2, <3>1
  <2>4. next \in 0 .. new
    BY <2>2
  <2> QED  BY <2>1, <2>3, <2>4
<1> QED  BY <1>3, <1>5, <1>6, <1>7 DEF LiteralsAre

\* Instructions with a literal.
LEMMA BuildLiteralUserIs ==
  ASSUME LiteralNamesDiffer, NEW walk \in [Nat -> Spot], FirstPass(walk), position <= Len(nodes),
         LabelFits(Node), NEW bytes, Len(bytes) \in Nat, BuildLiteralUser(WithLabel(Node), bytes),
         listing' = listing
  PROVE  Stand /\ \E later \in [Nat -> Spot] : FirstPass(later)'
<1>1. /\ IsLine(Node) /\ Node = nodes[position] /\ IsTable(symbol_table)
      /\ LiteralsAre(symbol_table) /\ position \in 1 .. Len(nodes) /\ IsList(nodes)
      /\ position \in Nat
  BY VisitedIs
<1>2. PICK line, id, node : line = Node /\ id = LiteralId(bytes)
                            /\ node = With(line, [literal_id |-> id])
  OBVIOUS
<1>3. /\ line.kind = "FS34" /\ symbol_table' = ReferenceSymbols(WithLabel(Node), {LiteralSymbolName(id)})
      /\ literal_table' = IF id < Len(literal_table) THEN literal_table
                          ELSE Append(literal_table, bytes)
      /\ literal_lookup' = literal_lookup \cup {id + 1}
      /\ nodes' = [nodes EXCEPT ![position] = node]
      /\ current_address' = current_address + NodeSize(line)
      /\ position' = position + 0 + 1
      /\ UNCHANGED <<block_table, next_literal_id, start_address, current_block>>
  BY <1>1, <1>2 DEF BuildLiteralUser, Advance, UsesLiteral
<1>4. {"kind", "label", "expression", "extended"} \subseteq DOMAIN line
      /\ line.label \in Names \cup {NoLabel}
  BY <1>1, <1>2, <1>3 DEF IsLine
<1>5. /\ node.kind = "FS34" /\ node.label = line.label /\ node.extended = line.extended
  BY <1>2, <1>3, <1>4 DEF With
<1>6. PICK added \in SUBSET Names :
           /\ IsTable(WithLabel(Node)) /\ Extends(symbol_table, WithLabel(Node), added)
           /\ line.label # NoLabel =>
                /\ line.label \in DOMAIN WithLabel(Node)
                /\ IsPlaced(WithLabel(Node)[line.label], current_block, current_address,
                            start_address)
  BY <1>2, WithLabelIs
<1>7. id \in Nat
  <2>1. Len(literal_table) \in Nat /\ next_literal_id \in Nat
    BY <1>1, ListIs DEF LiteralsAre
  <2> QED  BY <1>1, <1>2, <2>1, LiteralIdIs
<1>8. LiteralSymbolName(id) \in STRING
  BY <1>7 DEF LiteralNamesDiffer
<1>9. IsTable(symbol_table') /\ Keeps(WithLabel(Node), symbol_table')
      /\ LiteralSymbolName(id) \in DOMAIN symbol_table'
  BY <1>3, <1>6, <1>8, ReferenceKeeps
<1>10. Extends(symbol_table, symbol_table', added)
  BY <1>6, <1>9, ExtendsThenKeeps
<1>11. LiteralsAre(symbol_table)'
       /\ \A k \in 1 .. Len(literal_table) : literal_table'[k] = literal_table[k]
  BY <1>1, <1>2, <1>3, <1>9, <1>10, AddedIsNoLiteral, LiteralAdded
<1>12. Stand
  BY <1>10, ExtendsStand
<1>13. ASSUME node.label # NoLabel
       PROVE  /\ node.label \in DOMAIN symbol_table'
              /\ IsPlaced(symbol_table'[node.label], current_block, current_address, start_address)
  BY <1>5, <1>6, <1>9, <1>13, KeepsExtends, ExtendsPlaced
<1>14. node.kind \in OnwardKinds /\ node.kind # "EMPTY" /\ IsNoted(node)
  BY <1>5 DEF OnwardKinds, IsNoted, LineKinds
<1>15. /\ IsList(nodes') /\ Len(nodes') = Len(nodes) /\ nodes'[position] = node
       /\ \A k \in 1 .. Len(nodes) : k # position => nodes'[k] = nodes[k]
  BY <1>1, <1>3, NodesReplaced
<1>16. position' = position + 1 /\ current_address' = current_address + Bytes(node)
  <2>1. Bytes(node) = NodeSize(node)
    BY <1>5, Zenon DEF Bytes
  <2>2. NodeSize(node) = NodeSize(line)
    BY <1>3, <1>5 DEF NodeSize
  <2>3. position' = position + 1
    BY <1>1, <1>3
  <2> QED  BY <1>3, <2>1, <2>2, <2>3, Zenon
<1>17. \E later \in [Nat -> Spot] : FirstPass(later)'
  <2> HIDE DEF FirstPass
  <2>1. IsLabelled(node) => node.label # NoLabel
    BY DEF IsLabelled
  <2>2. node.kind = nodes[position].kind
    BY <1>1, <1>2, <1>3, <1>5
  <2> QED  BY <1>3, <1>9, <1>10, <1>11, <1>13, <1>14, <1>15, <1>16, <2>1, <2>2, Onward
<1> QED  BY <1>12, <1>17

\* A line without code that only adds to the symbols.
LEMMA NoCode ==
  ASSUME LiteralNamesDiffer, NEW walk \in [Nat -> Spot], FirstPass(walk), position <= Len(nodes),
         Node.kind \in {"EQU", "BASE", "NOBASE", "EMPTY", "EXTDEF", "EXTREF"},
         Advance(0, current_address), listing' = listing,
         UNCHANGED <<nodes, block_table, literal_table, literal_lookup, next_literal_id,
                     start_address, current_block>>,
         NEW added \in SUBSET Names, Extends(symbol_table, symbol_table', added),
         IsTable(symbol_table'),
         IsLabelled(Node) => /\ Node.label \in DOMAIN symbol_table'
                             /\ IsPlaced(symbol_table'[Node.label], current_block, current_address,
                                         start_address),
         Node.kind = "EMPTY" => Keeps(symbol_table, symbol_table')
  PROVE  Stand /\ \E later \in [Nat -> Spot] : FirstPass(later)'
<1>1. /\ IsLine(Node) /\ Node = nodes[position]
      /\ LiteralsAre(symbol_table) /\ position \in 1 .. Len(nodes) /\ IsList(nodes)
      /\ position \in Nat /\ current_address \in Nat
  BY VisitedIs
<1>2. PICK node : node = Node
  OBVIOUS
<1>3. LiteralsAre(symbol_table)'
  BY <1>1, AddedIsNoLiteral, LiteralsStay
<1>4. Stand
  BY ExtendsStand
<1>5. Bytes(node) = 0 /\ node.kind \in OnwardKinds
  BY <1>2 DEF Bytes, OnwardKinds
<1>6. IsNoted(node)
  BY <1>1, <1>2, LineIsNoted
<1>7. /\ IsList(nodes') /\ Len(nodes') = Len(nodes) /\ nodes'[position] = node
      /\ \A k \in 1 .. Len(nodes) : k # position => nodes'[k] = nodes[k]
  BY <1>1, <1>2, NodesStay
<1>8. position' = position + 1 /\ current_address' = current_address + Bytes(node)
  <2>1. position' = position + 1 /\ current_address' = current_address + 0
    BY <1>1 DEF Advance
  <2> QED  BY <1>5, <2>1
<1>9. node.kind = nodes[position].kind
  BY <1>1, <1>2
<1>10. IsLabelled(node) => /\ node.label \in DOMAIN symbol_table'
                           /\ IsPlaced(symbol_table'[node.label], current_block, current_address,
                                       start_address)
  BY <1>2
<1>11. \E later \in [Nat -> Spot] : FirstPass(later)'
  <2> HIDE DEF FirstPass
  <2> QED  BY <1>2, <1>3, <1>5, <1>6, <1>7, <1>8, <1>9, <1>10, Onward
<1> QED  BY <1>4, <1>11

\* EQU.
LEMMA BuildEquIs ==
  ASSUME LiteralNamesDiffer, NEW walk \in [Nat -> Spot], FirstPass(walk), position <= Len(nodes),
         NEW solved, solved.value \in Int, solved.relative \in BOOLEAN, EquFits(Node, solved),
         BuildEqu(solved), listing' = listing
  PROVE  Stand /\ \E later \in [Nat -> Spot] : FirstPass(later)'
<1>1. /\ IsLine(Node) /\ Node = nodes[position] /\ IsTable(symbol_table)
      /\ current_address \in Nat /\ current_block \in Int /\ start_address \in Nat
  BY VisitedIs
<1>2. /\ Node.kind = "EQU" /\ Advance(0, current_address)
      /\ UNCHANGED <<nodes, block_table, literal_table, literal_lookup, next_literal_id,
                     start_address, current_block>>
  BY DEF BuildEqu
<1>3. Node.label \in Names /\ Node.label \in STRING /\ Node.label # NoLabel
      /\ {Node.label} \in SUBSET Names
  BY <1>1, <1>2, TextsAssumption DEF IsLine
<1>4. CanDefine(Node.label)
  BY DEF EquFits
<1>5. CASE Node.assign_current_address
  <2>1. symbol_table' = DefineSymbol(Node.label)
    BY <1>5 DEF BuildEqu
  <2>2. /\ IsTable(symbol_table') /\ Extends(symbol_table, symbol_table', {Node.label})
        /\ Node.label \in DOMAIN symbol_table'
        /\ IsPlaced(symbol_table'[Node.label], current_block, current_address, start_address)
    BY <1>1, <1>3, <1>4, <2>1, DefineSymbolIs
  <2> HIDE DEF FirstPass
  <2> QED  BY <1>2, <1>3, <2>2, NoCode
<1>6. CASE ~Node.assign_current_address
  <2>1. solved.value \in Nat
    BY <1>6 DEF EquFits, InLimits
  <2>2. PICK found : found = FindOrCreateNew(symbol_table, Node.label)
    OBVIOUS
  <2>3. found \in Entry /\ ~found.defined
    BY <1>1, <1>4, <2>2, FoundType DEF IsTable, CanDefine
  <2>4. PICK entry : entry = [found EXCEPT
                 !.type = "INTERNAL", !.relative = solved.relative, !.defined = TRUE,
                 !.resolved = TRUE, !.address = solved.value, !.block = -1,
                 !.block_address = solved.value]
    OBVIOUS
  <2>5. entry \in Entry /\ IsSound(entry)
    BY <2>1, <2>3, <2>4, EquEntryIs, Zenon
  <2>6. symbol_table' = WithEntry(symbol_table, Node.label, entry)
    BY <1>6, <2>2, <2>4, Zenon DEF BuildEqu
  <2>7. IsTable(symbol_table') /\ Extends(symbol_table, symbol_table', {Node.label})
    BY <1>1, <1>3, <2>2, <2>3, <2>5, <2>6, ExtendsWithEntry
  <2>8. ~IsLabelled(Node)
    BY <1>2, <1>6 DEF IsLabelled
  <2>9. Node.kind # "EMPTY"
    BY <1>2
  <2> HIDE DEF FirstPass
  <2> QED  BY <1>2, <1>3, <2>7, <2>8, <2>9, NoCode
<1> QED  BY <1>5, <1>6

\* The directives that neither define a symbol nor move the pass.
LEMMA BuildDirectiveIs ==
  ASSUME LiteralNamesDiffer, NEW walk \in [Nat -> Spot], FirstPass(walk), position <= Len(nodes),
         Node.kind = "EXTDEF" => Export(Node.symbol_list).ok,
         Node.kind = "EXTREF" => Import(Node.symbol_list).ok,
         BuildDirective, listing' = listing
  PROVE  Stand /\ \E later \in [Nat -> Spot] : FirstPass(later)'
<1>1. /\ IsLine(Node) /\ Node = nodes[position] /\ IsTable(symbol_table)
  BY VisitedIs
<1>2. /\ Node.kind \in {"BASE", "NOBASE", "EMPTY", "EXTDEF", "EXTREF"}
      /\ Advance(0, current_address)
      /\ UNCHANGED <<nodes, block_table, literal_table, literal_lookup, next_literal_id,
                     start_address, current_block>>
  BY DEF BuildDirective
<1>3. IsTable(symbol_table') /\ Keeps(symbol_table, symbol_table')
  <2>1. CASE Node.kind = "EXTDEF"
    <3>1. Node.symbol_list \in Seq(STRING) /\ symbol_table' = Export(Node.symbol_list).table
      BY <1>1, <2>1 DEF IsLine, BuildDirective
    <3> QED  BY <1>1, <2>1, <3>1, ExportIs
  <2>2. CASE Node.kind = "EXTREF"
    <3>1. Node.symbol_list \in Seq(STRING) /\ symbol_table' = Import(Node.symbol_list).table
      BY <1>1, <2>2 DEF IsLine, BuildDirective
    <3> QED  BY <1>1, <2>2, <3>1, ImportIs
  <2>3. CASE Node.kind \in {"BASE", "NOBASE", "EMPTY"}
    <3>1. symbol_table' = ReferenceSymbols(symbol_table, NamesOf(Node.expression))
      BY <2>3 DEF BuildDirective
    <3>2. NamesOf(Node.expression) \subseteq STRING
      BY <1>1, NamesAreStrings DEF IsLine
    <3> QED  BY <1>1, <3>1, <3>2, ReferenceKeeps
  <2> QED  BY <1>2, <2>1, <2>2, <2>3
<1>4. Extends(symbol_table, symbol_table', {})
  BY <1>3, KeepsExtends
<1>5. ~IsLabelled(Node)
  BY <1>1, <1>2 DEF IsLine, IsLabelled, Unlabelled
<1>6. {} \in SUBSET Names
  OBVIOUS
<1> HIDE DEF FirstPass
<1> QED  BY <1>2, <1>3, <1>4, <1>5, <1>6, NoCode

LEMMA FirstSpot ==
  ASSUME NEW spot \in Spot, NEW next, next = [block |-> 0, address |-> 0, sizes |-> spot.sizes]
  PROVE  next \in Spot /\ next.block = 0 /\ next.address = 0 /\ next.sizes = spot.sizes
<1>1. next.block = 0 /\ next.address = 0 /\ next.sizes = spot.sizes
  OBVIOUS
<1>2. next \in Spot
  BY DEF Spot
<1> QED  BY <1>1, <1>2

\* The line that is visited, seen from where the pass is.
LEMMA HereIs ==
  ASSUME NEW walk \in [Nat -> Spot], FirstPass(walk), position <= Len(nodes),
         NEW spot, spot = walk[position]
  PROVE  /\ spot \in Spot /\ IsHere(spot) /\ NothingYet(spot)
         /\ spot.block \in Int /\ spot.address \in Nat /\ spot.sizes \in [Nat -> Nat]
         /\ spot.block \in {-2, -1} \cup DOMAIN block_table
         /\ ~IsStarted(spot) => spot = Nowhere /\ Node.kind \in {"START", "EMPTY"}
         /\ IsStarted(spot) => Node.kind # "START"
<1>1. position \in 1 .. Len(nodes) /\ position \in Nat /\ Node = nodes[position] /\ IsList(nodes)
  BY VisitedIs, ListIs DEF FirstPass
<1>2. spot \in Spot
  BY <1>1
<1>3. Walked(walk, position) /\ IsHere(spot) /\ NothingYet(spot) /\ Framed(nodes, position, IsStarted(spot))
  BY DEF FirstPass, IsAhead
<1>4. spot.block \in {-2, -1} \cup DOMAIN block_table /\ (~IsStarted(spot) => spot = Nowhere)
  <2>1. position \in 1 .. position
    BY <1>1
  <2> QED  BY <1>3, <2>1, Zenon DEF Walked
<1>5. /\ ~IsStarted(spot) => Node.kind \in {"START", "EMPTY"}
      /\ IsStarted(spot) => Node.kind # "START"
  <2>1. IsStarted(spot) \in BOOLEAN
    BY DEF IsStarted
  <2> QED  BY <1>1, <1>3, <2>1, FramedOn
<1> QED  BY <1>2, <1>3, <1>4, <1>5 DEF Spot

\* START.
LEMMA BuildStartIs ==
  ASSUME LiteralNamesDiffer, NEW walk \in [Nat -> Spot], FirstPass(walk), position <= Len(nodes),
         NEW solved, solved.value \in Int, Absolute(solved, 0, AddressSize - 1),
         BuildStart(solved), listing' = listing
  PROVE  Stand /\ \E later \in [Nat -> Spot] : FirstPass(later)'
<1>1. /\ IsLine(Node) /\ Node = nodes[position] /\ IsTable(symbol_table)
      /\ LiteralsAre(symbol_table) /\ IsBlockTable(block_table)
      /\ position \in 1 .. Len(nodes) /\ IsList(nodes) /\ position \in Nat
  BY VisitedIs
<1>2. PICK node, spot, value : node = Node /\ spot = walk[position] /\ value = solved.value
  OBVIOUS
<1>3. /\ node.kind = "START" /\ start_address' = value /\ current_block' = 0
      /\ current_address' = 0 /\ position' = position + 0 + 1
      /\ block_table' = [block_table EXCEPT ![0].start = value]
      /\ UNCHANGED <<nodes, literal_table, literal_lookup, next_literal_id>>
  BY <1>2 DEF BuildStart, Advance
<1>4. value \in Nat
  BY <1>2 DEF Absolute, InLimits
<1>5. spot \in Spot /\ IsHere(spot) /\ NothingYet(spot) /\ ~IsStarted(spot)
      /\ spot.sizes \in [Nat -> Nat]
  BY <1>2, <1>3, HereIs
<1>6. node.label \in Names /\ node.label \in STRING /\ node.label # NoLabel
      /\ {node.label} \in SUBSET Names
  BY <1>1, <1>2, <1>3, TextsAssumption DEF IsLine
<1>7. PICK entry : entry = [NewEntry EXCEPT !.type = "INTERNAL", !.relative = TRUE, !.defined = TRUE,
                        !.resolved = TRUE, !.exported = TRUE, !.address = value,
                        !.block = 0]
  OBVIOUS
<1>8. entry \in Entry /\ IsSound(entry) /\ IsPlaced(entry, 0, 0, value)
  BY <1>4, <1>7, StartEntryIs, Zenon
<1>9. symbol_table' = WithEntry(symbol_table, node.label, entry)
  BY <1>2, <1>7, Zenon DEF BuildStart
<1>10. ~FindOrCreateNew(symbol_table, node.label).defined
  BY <1>5, NewEntryType DEF NothingYet, FindOrCreateNew
<1>11. /\ IsTable(symbol_table') /\ Extends(symbol_table, symbol_table', {node.label})
       /\ node.label \in DOMAIN symbol_table' /\ symbol_table'[node.label] = entry
  BY <1>1, <1>6, <1>8, <1>9, <1>10, ExtendsWithEntry
<1>12. Stand
  BY <1>11, ExtendsStand
<1>13. LiteralsAre(symbol_table)'
  BY <1>1, <1>3, <1>6, <1>11, AddedIsNoLiteral, LiteralsStay
<1>14. /\ DOMAIN block_table' = DOMAIN block_table /\ 0 \in DOMAIN block_table
       /\ \A block \in DOMAIN block_table :
            /\ {"start", "size"} \subseteq DOMAIN block_table'[block]
            /\ block_table'[block].size = block_table[block].size
  <2>1. PICK n \in Nat \ {0} : DOMAIN block_table = 0 .. n - 1
    BY <1>1 DEF IsBlockTable
  <2>2. ASSUME NEW block \in DOMAIN block_table
        PROVE  /\ {"start", "size"} \subseteq DOMAIN block_table'[block]
               /\ block_table'[block].size = block_table[block].size
    BY <1>1, <1>3 DEF IsBlockTable
  <2> QED  BY <1>3, <2>1, <2>2
<1>15. IsBlockTable(block_table')
  BY <1>1, <1>14 DEF IsBlockTable
<1>16. PICK next : next = [block |-> 0, address |-> 0, sizes |-> spot.sizes]
  OBVIOUS
<1>17. next = After(node, spot)' /\ next \in Spot /\ IsStarted(next) /\ next.block = 0
       /\ next.address = 0 /\ next.sizes = spot.sizes
  <2>1. next \in Spot /\ next.block = 0 /\ next.address = 0 /\ next.sizes = spot.sizes
    BY <1>5, <1>16, FirstSpot, Zenon
  <2>2. After(node, spot)' = next
    BY <1>3, <1>16, Zenon DEF After
  <2> QED  BY <2>1, <2>2 DEF IsStarted
<1>18. IsHere(next)'
  <2>1. \A block \in Nat : spot.sizes[block] = IF block \in DOMAIN block_table
                                               THEN block_table[block].size ELSE 0
    BY <1>5 DEF IsHere
  <2> QED  BY <1>3, <1>14, <1>17, <2>1 DEF IsHere
<1>19. IsNoted(node)'
  BY <1>3 DEF IsNoted, LineKinds
<1>20. /\ IsList(nodes') /\ Len(nodes') = Len(nodes) /\ nodes'[position] = node
       /\ \A k \in 1 .. Len(nodes) : k # position => nodes'[k] = nodes[k]
  BY <1>1, <1>2, <1>3, NodesStay
<1>21. node.kind = nodes[position].kind /\ position' = position + 1
  BY <1>1, <1>2, <1>3
<1>22. SymbolOf(node) = node.label
  BY <1>3 DEF SymbolOf
<1>23. next = (IF node.kind = "START" THEN next ELSE walk[position])
  BY <1>3
<1>24. /\ SymbolOf(node) \in DOMAIN symbol_table'
       /\ IsPlaced(symbol_table'[SymbolOf(node)], next.block, next.address, start_address')
  BY <1>3, <1>8, <1>11, <1>17, <1>22
<1>25. DOMAIN block_table \subseteq DOMAIN block_table' /\ next.block \in {-2, -1} \cup DOMAIN block_table'
  BY <1>14, <1>17
<1>26. \E later \in [Nat -> Spot] : FirstPass(later)'
  <2> HIDE DEF FirstPass, IsStarted
  <2>1. start_address' \in Nat
    BY <1>3, <1>4
  <2>2. \A k \in 1 .. Len(literal_table) : literal_table'[k] = literal_table[k]
    BY <1>3
  <2> QED  BY <1>2, <1>3, <1>11, <1>13, <1>15, <1>17, <1>18, <1>19, <1>20, <1>21, <1>23, <1>24,
              <1>25, <2>1, <2>2, Forward
<1> QED  BY <1>12, <1>26

\* The blocks once the current one has ended at an address.
LEMMA EndedIs ==
  ASSUME IsBlockTable(block_table), current_block \in {-1} \cup DOMAIN block_table,
         NEW address \in Nat
  PROVE  /\ IsBlockTable(EndedBlocks(address)) /\ DOMAIN EndedBlocks(address) = DOMAIN block_table
         /\ \A block \in DOMAIN block_table :
              EndedBlocks(address)[block].size = IF block = current_block THEN address
                                                 ELSE block_table[block].size
<1>1. PICK ended : ended = EndedBlocks(address)
  OBVIOUS
<1>2. PICK n \in Nat \ {0} : DOMAIN block_table = 0 .. n - 1
  BY DEF IsBlockTable
<1>3. \A block \in DOMAIN block_table :
        {"start", "size"} \subseteq DOMAIN block_table[block] /\ block_table[block].size \in Nat
  BY DEF IsBlockTable
<1>4. CASE current_block = -1
  <2>1. ended = block_table
    BY <1>1, <1>4 DEF EndedBlocks
  <2>2. -1 \notin DOMAIN block_table
    BY <1>2
  <2> QED  BY <1>1, <1>4, <2>1, <2>2
<1>5. CASE current_block # -1
  <2>1. ended = [block_table EXCEPT ![current_block].size = address]
    BY <1>1, <1>5, Zenon DEF EndedBlocks
  <2>2. DOMAIN ended = DOMAIN block_table
    BY <2>1
  <2>3. ASSUME NEW block \in DOMAIN block_table
        PROVE  /\ {"start", "size"} \subseteq DOMAIN ended[block]
               /\ ended[block].size = IF block = current_block THEN address
                                      ELSE block_table[block].size
    BY <1>3, <2>1
  <2>4. IsBlockTable(ended)
    BY <1>2, <1>3, <2>2, <2>3 DEF IsBlockTable
  <2> QED  BY <1>1, <2>2, <2>3, <2>4
<1> QED  BY <1>4, <1>5

\* The sizes of the walk are those of the table when the block is left.
LEMMA LeftSizes ==
  ASSUME IsBlockTable(block_table), NEW spot \in Spot, IsHere(spot), IsStarted(spot),
         position <= Len(nodes), spot.block \in {-2, -1} \cup DOMAIN block_table
  PROVE  /\ current_block \in {-1} \cup DOMAIN block_table
         /\ Left(spot) \in [Nat -> Nat]
         /\ \A block \in Nat : Left(spot)[block] =
              IF block \in DOMAIN block_table THEN EndedBlocks(current_address)[block].size ELSE 0
<1>1. PICK n \in Nat \ {0} : DOMAIN block_table = 0 .. n - 1
  BY DEF IsBlockTable
<1>2. spot.block \in Int /\ spot.address \in Nat /\ spot.sizes \in [Nat -> Nat]
  BY DEF Spot
<1>3. current_block = spot.block /\ current_address = spot.address /\ spot.block # -2
  BY DEF IsHere, IsStarted
<1>4. current_block \in {-1} \cup DOMAIN block_table
  BY <1>3
<1>5. \A block \in DOMAIN block_table :
        EndedBlocks(current_address)[block].size = IF block = current_block THEN current_address
                                                   ELSE block_table[block].size
  BY <1>2, <1>3, <1>4, EndedIs
<1>6. \A block \in Nat : spot.sizes[block] = IF block \in DOMAIN block_table
                                             THEN block_table[block].size ELSE 0
  BY DEF IsHere
<1>7. ASSUME NEW block \in Nat
      PROVE  Left(spot)[block] =
              IF block \in DOMAIN block_table THEN EndedBlocks(current_address)[block].size ELSE 0
  <2>1. CASE spot.block >= 0
    <3>1. Left(spot) = [spot.sizes EXCEPT ![spot.block] = spot.address]
      BY <2>1, Zenon DEF Left
    <3>2. Left(spot)[block] = IF block = spot.block THEN spot.address ELSE spot.sizes[block]
      BY <1>2, <3>1
    <3>3. spot.block \in DOMAIN block_table
      BY <1>1, <2>1
    <3> QED  BY <1>3, <1>5, <1>6, <3>2, <3>3
  <2>2. CASE ~(spot.block >= 0)
    <3>1. Left(spot) = spot.sizes
      BY <2>2, Zenon DEF Left
    <3>2. block # current_block
      BY <1>2, <1>3, <2>2
    <3> QED  BY <1>5, <1>6, <3>1, <3>2
  <2> QED  BY <2>1, <2>2
<1> QED  BY <1>4, <1>7, LeftIs

\* A spot of three components.
At(block, address, sizes) == [block |-> block, address |-> address, sizes |-> sizes]

LEMMA SpotAt ==
  ASSUME NEW block \in Int, NEW address \in Nat, NEW sizes \in [Nat -> Nat]
  PROVE  At(block, address, sizes) \in Spot
  BY DEF Spot, At

\* ORG and USE: the pass leaves its block, and the symbols are as they were.
LEMMA Elsewhere ==
  ASSUME NEW walk \in [Nat -> Spot], FirstPass(walk), position <= Len(nodes),
         Node.kind \in {"ORG", "USE"}, NEW node, node.kind = Node.kind, node.label = Node.label,
         IsNoted(node)', nodes' = [nodes EXCEPT ![position] = node], position' = position + 1,
         UNCHANGED <<symbol_table, literal_table, literal_lookup, next_literal_id, start_address>>,
         listing' = listing,
         NEW spot, spot = walk[position], NEW next, next \in Spot, next = After(node, spot)',
         next.block \in {-1} \cup DOMAIN block_table',
         DOMAIN block_table \subseteq DOMAIN block_table', IsBlockTable(block_table'),
         IsHere(next)'
  PROVE  Stand /\ \E later \in [Nat -> Spot] : FirstPass(later)'
<1>1. /\ IsLine(Node) /\ Node = nodes[position] /\ IsTable(symbol_table)
      /\ LiteralsAre(symbol_table) /\ start_address \in Nat
      /\ position \in 1 .. Len(nodes) /\ IsList(nodes)
  BY VisitedIs
<1>2. Extends(symbol_table, symbol_table', {}) /\ IsTable(symbol_table')
  BY <1>1, KeepsItself, KeepsExtends
<1>3. LiteralsAre(symbol_table)'
  BY <1>1, <1>2, LiteralsStay
<1>4. Stand
  BY <1>2, ExtendsStand
<1>5. IsStarted(spot)
  BY HereIs
<1>6. IsStarted(next)
  <2>1. -2 \notin DOMAIN block_table'
    <3>1. PICK n \in Nat \ {0} : DOMAIN block_table' = 0 .. n - 1
      BY DEF IsBlockTable
    <3> QED  BY <3>1
  <2> QED  BY <2>1 DEF IsStarted
<1>7. ~Places(node)
  <2>1. node.label = NoLabel /\ node.kind # "LITERAL"
    BY <1>1 DEF IsLine, Unlabelled
  <2> QED  BY <2>1 DEF Places, IsLabelled
<1>8. /\ IsList(nodes') /\ Len(nodes') = Len(nodes) /\ nodes'[position] = node
      /\ \A k \in 1 .. Len(nodes) : k # position => nodes'[k] = nodes[k]
  BY <1>1, NodesReplaced
<1>9. node.kind = nodes[position].kind /\ node.kind # "START"
  BY <1>1
<1>10. PICK place : place = (IF node.kind = "START" THEN next ELSE walk[position])
  OBVIOUS
<1>11. next.block \in {-2, -1} \cup DOMAIN block_table'
  OBVIOUS
<1>12. \E later \in [Nat -> Spot] : FirstPass(later)'
  <2> HIDE DEF FirstPass, IsStarted
  <2>1. start_address' \in Nat /\ start_address' = start_address
    BY <1>1
  <2>2. \A k \in 1 .. Len(literal_table) : literal_table'[k] = literal_table[k]
    OBVIOUS
  <2> QED  BY <1>2, <1>3, <1>5, <1>6, <1>7, <1>8, <1>9, <1>10, <1>11, <2>1, <2>2, Forward
<1> QED  BY <1>4, <1>12

\* ORG.
LEMMA BuildOrgIs ==
  ASSUME NEW walk \in [Nat -> Spot], FirstPass(walk), position <= Len(nodes),
         NEW value \in Nat, BuildOrg(value), listing' = listing
  PROVE  Stand /\ \E later \in [Nat -> Spot] : FirstPass(later)'
<1>1. /\ IsLine(Node) /\ Node = nodes[position] /\ IsBlockTable(block_table)
      /\ current_address \in Nat /\ position \in Nat
  BY VisitedIs
<1>2. PICK line, node, spot : line = Node /\ node = With(line, [address |-> value])
                              /\ spot = walk[position]
  OBVIOUS
<1>3. /\ line.kind = "ORG" /\ nodes' = [nodes EXCEPT ![position] = node]
      /\ current_address' = value /\ position' = position + 0 + 1 /\ current_block' = -1
      /\ block_table' = EndedBlocks(current_address)
      /\ UNCHANGED <<symbol_table, literal_table, literal_lookup, next_literal_id, start_address>>
  BY <1>1, <1>2 DEF BuildOrg, Advance
<1>4. /\ {"kind", "label"} \subseteq DOMAIN line /\ "address" \notin DOMAIN line
      /\ line.label = NoLabel
  BY <1>1, <1>2, <1>3 DEF IsLine, Unlabelled
<1>5. node.kind = "ORG" /\ node.label = line.label /\ node.address = value
  BY <1>2, <1>3, <1>4 DEF With
<1>6. /\ spot \in Spot /\ IsHere(spot) /\ IsStarted(spot)
      /\ spot.block \in {-2, -1} \cup DOMAIN block_table
  BY <1>2, <1>3, HereIs
<1>7. /\ current_block \in {-1} \cup DOMAIN block_table /\ Left(spot) \in [Nat -> Nat]
      /\ \A block \in Nat : Left(spot)[block] =
           IF block \in DOMAIN block_table THEN EndedBlocks(current_address)[block].size ELSE 0
  BY <1>1, <1>6, LeftSizes
<1>8. IsBlockTable(block_table') /\ DOMAIN block_table' = DOMAIN block_table
  BY <1>1, <1>3, <1>7, EndedIs
<1>9. PICK out, sizes : out = -1 /\ sizes = Left(spot)
  OBVIOUS
<1>10. PICK next : next = [block |-> out, address |-> value, sizes |-> sizes]
  OBVIOUS
<1>11. out \in Int /\ sizes \in [Nat -> Nat]
  <2>1. -1 \in Int
    OBVIOUS
  <2> QED  BY <1>7, <1>9, <2>1, Zenon
<1>12. next \in Spot /\ next.block = out /\ next.address = value /\ next.sizes = sizes
  <2>1. next.block = out /\ next.address = value /\ next.sizes = sizes
    BY <1>10
  <2>2. next \in Spot
    <3>1. next = At(out, value, sizes)
      BY <1>10, Zenon DEF At
    <3> QED  BY <1>11, <3>1, SpotAt, Zenon
  <2> QED  BY <2>1, <2>2
<1>13. next = After(node, spot)'
  BY <1>5, <1>9, <1>10, Zenon DEF After
<1>14. IsNoted(node)'
  BY <1>4, <1>5 DEF IsNoted, LineKinds
<1>15. IsHere(next)'
  <2>1. next.block = -1 /\ IsStarted(next)
    BY <1>9, <1>12 DEF IsStarted
  <2>2. \A block \in Nat : next.sizes[block] = IF block \in DOMAIN block_table'
                                               THEN block_table'[block].size ELSE 0
    BY <1>3, <1>7, <1>8, <1>9, <1>12
  <2> QED  BY <1>3, <1>12, <2>1, <2>2 DEF IsHere
<1>16. position' = position + 1 /\ Node.kind \in {"ORG", "USE"} /\ node.kind = Node.kind
       /\ node.label = Node.label
  BY <1>1, <1>2, <1>3, <1>5
<1>17. next.block \in {-1} \cup DOMAIN block_table'
  BY <1>9, <1>12
<1> HIDE DEF FirstPass
<1> QED  BY <1>2, <1>3, <1>8, <1>12, <1>13, <1>14, <1>15, <1>16, <1>17, Elsewhere

\* The number of a block is one of those there are, or the next.
LEMMA BlockNumberIs ==
  ASSUME NEW n \in Nat, DOMAIN block_table = 0 .. n - 1, NEW name
  PROVE  BlockNumber(name) \in 0 .. n
<1>1. Cardinality(DOMAIN block_table) = n
  <2>1. Cardinality(0 .. n - 1) = IF 0 > n - 1 THEN 0 ELSE (n - 1) - 0 + 1
    BY 0 \in Int, n - 1 \in Int, FS_Interval
  <2> QED  BY <2>1
<1>2. PICK found : found = {block \in DOMAIN block_table : block_table[block].name = name}
  OBVIOUS
<1>3. BlockNumber(name) = IF found = {} THEN n ELSE CHOOSE block \in found : TRUE
  <2>1. BlockNumber(name) = IF found = {} THEN Cardinality(DOMAIN block_table)
                            ELSE CHOOSE block \in found : TRUE
    BY <1>2 DEF BlockNumber
  <2> QED  BY <1>1, <2>1
<1>4. CASE found = {}
  BY <1>3, <1>4
<1>5. CASE found # {}
  <2>1. PICK block : block = CHOOSE b \in found : TRUE
    OBVIOUS
  <2>2. block \in found
    BY <1>5, <2>1
  <2>3. block \in 0 .. n - 1
    BY <1>2, <2>2
  <2>4. BlockNumber(name) = block
    BY <1>3, <1>5, <2>1, Zenon
  <2> QED  BY <2>3, <2>4
<1> QED  BY <1>4, <1>5

LEMMA NewBlockIs ==
  ASSUME NEW name
  PROVE  {"start", "size"} \subseteq DOMAIN NewBlock(name) /\ NewBlock(name).size = 0
  BY DEF NewBlock

\* The blocks with one more, if it is new.
Grown(table, block, later) ==
  /\ IsBlockTable(later) /\ DOMAIN later = DOMAIN table \cup {block}
  /\ \A b \in DOMAIN later : later[b].size = IF b \in DOMAIN table THEN table[b].size ELSE 0

LEMMA BlockAdded ==
  ASSUME NEW table, IsBlockTable(table), NEW n \in Nat, DOMAIN table = 0 .. n - 1,
         NEW block \in 0 .. n, NEW name, NEW new, DOMAIN new = {block},
         new[block] = NewBlock(name), NEW later, later = With(table, new)
  PROVE  Grown(table, block, later)
<1>3. later = [b \in DOMAIN table \cup {block} |-> IF b \in DOMAIN table THEN table[b] ELSE new[b]]
  BY DEF With
<1>4. DOMAIN later = DOMAIN table \cup {block}
  BY <1>3
<1>5. ASSUME NEW b \in DOMAIN later
      PROVE  /\ {"start", "size"} \subseteq DOMAIN later[b] /\ later[b].size \in Nat
             /\ later[b].size = IF b \in DOMAIN table THEN table[b].size ELSE 0
  <2>1. CASE b \in DOMAIN table
    <3>1. later[b] = table[b]
      BY <1>3, <2>1
    <3> QED  BY <2>1, <3>1 DEF IsBlockTable
  <2>2. CASE b \notin DOMAIN table
    <3>1. later[b] = NewBlock(name)
      BY <1>3, <1>4, <2>2
    <3> QED  BY <2>2, <3>1, NewBlockIs
  <2> QED  BY <2>1, <2>2
<1>6. \E m \in Nat \ {0} : DOMAIN later = 0 .. m - 1
  <2>1. CASE block = n
    <3>1. DOMAIN later = 0 .. (n + 1) - 1
      <4>1. DOMAIN later = (0 .. n - 1) \cup {n}
        BY <1>4, <2>1
      <4>2. (0 .. n - 1) \cup {n} = 0 .. (n + 1) - 1
        OBVIOUS
      <4> QED  BY <4>1, <4>2
    <3>2. n + 1 \in Nat \ {0}
      OBVIOUS
    <3> QED  BY <3>1, <3>2
  <2>2. CASE block # n
    <3>1. DOMAIN later = DOMAIN table
      BY <1>4, <2>2
    <3> QED  BY <3>1 DEF IsBlockTable
  <2> QED  BY <2>1, <2>2
<1>7. IsBlockTable(later)
  BY <1>5, <1>6 DEF IsBlockTable
<1> QED  BY <1>4, <1>5, <1>7 DEF Grown

\* USE.
LEMMA BuildUseIs ==
  ASSUME NEW walk \in [Nat -> Spot], FirstPass(walk), position <= Len(nodes),
         BuildUse, listing' = listing
  PROVE  Stand /\ \E later \in [Nat -> Spot] : FirstPass(later)'
<1>1. /\ IsLine(Node) /\ Node = nodes[position] /\ IsBlockTable(block_table)
      /\ current_address \in Nat /\ position \in Nat
  BY VisitedIs
<1>2. PICK line, block, node, spot, ended :
        /\ line = Node /\ block = BlockNumber(Node.block_name)
        /\ node = With(line, [block_id |-> block])
        /\ spot = walk[position] /\ ended = EndedBlocks(current_address)
  OBVIOUS
<1>3. /\ line.kind = "USE" /\ nodes' = [nodes EXCEPT ![position] = node]
      /\ current_address' = block_table'[block].size /\ position' = position + 0 + 1
      /\ current_block' = block
      /\ block_table' = With(ended, [b \in {block} |-> NewBlock(Node.block_name)])
      /\ UNCHANGED <<symbol_table, literal_table, literal_lookup, next_literal_id, start_address>>
  BY <1>1, <1>2 DEF BuildUse, Advance
<1>4. /\ {"kind", "label"} \subseteq DOMAIN line /\ "block_id" \notin DOMAIN line
      /\ line.label = NoLabel
  BY <1>1, <1>2, <1>3 DEF IsLine, Unlabelled
<1>5. node.kind = "USE" /\ node.label = line.label /\ node.block_id = block
  BY <1>2, <1>3, <1>4 DEF With
<1>6. /\ spot \in Spot /\ IsHere(spot) /\ IsStarted(spot)
      /\ spot.block \in {-2, -1} \cup DOMAIN block_table
  BY <1>2, <1>3, HereIs
<1>7. /\ current_block \in {-1} \cup DOMAIN block_table /\ Left(spot) \in [Nat -> Nat]
      /\ \A b \in Nat : Left(spot)[b] = IF b \in DOMAIN block_table THEN ended[b].size ELSE 0
  BY <1>1, <1>2, <1>6, LeftSizes
<1>8. IsBlockTable(ended) /\ DOMAIN ended = DOMAIN block_table
  BY <1>1, <1>2, <1>7, EndedIs
<1>9. PICK n \in Nat \ {0} : DOMAIN block_table = 0 .. n - 1
  BY <1>1 DEF IsBlockTable
<1>10. block \in 0 .. n /\ block \in Nat /\ block \in Int
  BY <1>2, <1>9, BlockNumberIs
<1>11. /\ IsBlockTable(block_table') /\ DOMAIN block_table' = DOMAIN block_table \cup {block}
       /\ \A b \in DOMAIN block_table' :
            block_table'[b].size = IF b \in DOMAIN block_table THEN ended[b].size ELSE 0
  <2>1. PICK later, new : later = block_table' /\ new = [b \in {block} |-> NewBlock(Node.block_name)]
    OBVIOUS
  <2>2. later = With(ended, new) /\ DOMAIN new = {block} /\ new[block] = NewBlock(Node.block_name)
        /\ DOMAIN ended = 0 .. n - 1 /\ n \in Nat
    BY <1>3, <1>8, <1>9, <2>1
  <2>3. PICK name, m : name = Node.block_name /\ m = n
    OBVIOUS
  <2>4. /\ IsBlockTable(ended) /\ m \in Nat /\ DOMAIN ended = 0 .. m - 1 /\ block \in 0 .. m
        /\ DOMAIN new = {block} /\ new[block] = NewBlock(name) /\ later = With(ended, new)
    BY <1>8, <1>10, <2>2, <2>3
  <2>5. Grown(ended, block, later)
    BY <2>4, BlockAdded
  <2> QED  BY <1>8, <2>1, <2>5 DEF Grown
<1>12. PICK sizes, address : sizes = Left(spot) /\ address = sizes[block]
  OBVIOUS
<1>13. \A b \in Nat : sizes[b] = IF b \in DOMAIN block_table' THEN block_table'[b].size ELSE 0
  BY <1>7, <1>11, <1>12
<1>14. sizes \in [Nat -> Nat] /\ address \in Nat /\ current_address' = address
  <2>1. sizes \in [Nat -> Nat]
    BY <1>7, <1>12
  <2>2. block \in DOMAIN block_table'
    BY <1>11
  <2> QED  BY <1>3, <1>10, <1>12, <1>13, <2>1, <2>2
<1>15. PICK next : next = At(block, address, sizes)
  OBVIOUS
<1>16. next.block = block /\ next.address = address /\ next.sizes = sizes
  BY <1>15 DEF At
<1>17. next \in Spot
  BY <1>10, <1>14, <1>15, SpotAt
<1>18. next = After(node, spot)'
  BY <1>5, <1>12, <1>15, Zenon DEF After, At
<1>19. IsNoted(node)'
  BY <1>4, <1>5, <1>11 DEF IsNoted, LineKinds
<1>20. IsHere(next)'
  <2>1. IsStarted(next)
    BY <1>10, <1>16 DEF IsStarted
  <2> QED  BY <1>3, <1>13, <1>14, <1>16, <2>1 DEF IsHere
<1>21. position' = position + 1 /\ Node.kind \in {"ORG", "USE"} /\ node.kind = Node.kind
       /\ node.label = Node.label
  BY <1>1, <1>2, <1>3, <1>5
<1>22. next.block \in {-1} \cup DOMAIN block_table' /\ DOMAIN block_table \subseteq DOMAIN block_table'
  BY <1>11, <1>16
<1> HIDE DEF FirstPass
<1> QED  BY <1>2, <1>3, <1>11, <1>17, <1>18, <1>19, <1>20, <1>21, <1>22, Elsewhere

-----------------------------------------------------------------------------
(***************************************************************************)
(* A pool of literals: one line becomes many.                              *)
(***************************************************************************)
\* The line of a literal in a pool.
LEMMA InternalLiteralIs ==
  ASSUME NEW id, NEW node, node = InternalLiteral(id)
  PROVE  node.kind = "LITERAL" /\ node.label = NoLabel /\ node.literal_id = id
  BY DEF InternalLiteral, Plain, Line, With

\* The literals that wait are the last of all.
LEMMA WaitingIs ==
  ASSUME NEW table, LiteralsAre(table)
  PROVE  /\ Cardinality(Waiting) \in Nat
         /\ next_literal_id + Cardinality(Waiting) = Len(literal_table)
<1>1. next_literal_id \in Nat /\ Len(literal_table) \in Nat /\ next_literal_id <= Len(literal_table)
  BY ListIs DEF LiteralsAre
<1>2. PICK first, last : first = next_literal_id /\ last = Len(literal_table) - 1
  OBVIOUS
<1>3. first \in Int /\ last \in Int
  BY <1>1, <1>2
<1>4. Cardinality(first .. last) = IF first > last THEN 0 ELSE last - first + 1
  BY <1>3, FS_Interval
<1>5. Waiting = first .. last
  BY <1>2 DEF Waiting
<1> QED  BY <1>1, <1>2, <1>4, <1>5

\* No literal waits once the pool is written.
LEMMA NothingWaits ==
  ASSUME LiteralNamesDiffer, IsTable(symbol_table), LiteralsAre(symbol_table), InsertLiterals,
         literal_table' = literal_table,
         Extends(symbol_table, symbol_table', {LiteralSymbolName(id) : id \in Waiting})
  PROVE  LiteralsAre(symbol_table)'
<1>1. /\ IsList(literal_table) /\ Len(literal_table) \in Nat /\ next_literal_id \in Nat
      /\ next_literal_id <= Len(literal_table)
      /\ \A k \in DOMAIN literal_table : Len(literal_table[k]) \in Nat
      /\ \A id \in Nat : next_literal_id <= id =>
           ~FindOrCreateNew(symbol_table, LiteralSymbolName(id)).defined
  BY ListIs DEF LiteralsAre
<1>2. literal_lookup' = {} /\ next_literal_id' = Len(literal_table)
  BY DEF InsertLiterals
<1>3. Waiting' = {}
  BY <1>1, <1>2 DEF Waiting
<1>4. ASSUME NEW id \in Nat, Len(literal_table) <= id
      PROVE  ~FindOrCreateNew(symbol_table', LiteralSymbolName(id)).defined
  <2>1. next_literal_id <= id
    BY <1>1, <1>4
  <2>2. LiteralSymbolName(id) \notin {LiteralSymbolName(other) : other \in Waiting}
    <3>1. ASSUME NEW other \in Waiting, LiteralSymbolName(id) = LiteralSymbolName(other)
          PROVE  FALSE
      <4>1. other \in Nat /\ other # id
        BY <1>1, <1>4 DEF Waiting
      <4> QED  BY <3>1, <4>1 DEF LiteralNamesDiffer
    <3> QED  BY <3>1
  <2> QED  BY <1>1, <2>1, <2>2, StillUndefined
<1> QED  BY <1>1, <1>2, <1>3, <1>4 DEF LiteralsAre

\* The walk on a line that neither leaves a block nor enters one.
LEMMA AfterAt ==
  ASSUME NEW node, node.kind \in {"LITERAL", "LTORG", "END"}, NEW block, NEW address, NEW sizes
  PROVE  After(node, At(block, address, sizes))' = At(block, address + Bytes(node)', sizes)
<1>1. PICK spot : spot = At(block, address, sizes)
  OBVIOUS
<1>2. spot.block = block /\ spot.address = address /\ spot.sizes = sizes
  BY <1>1 DEF At
<1>3. After(node, spot)' = [block |-> spot.block, address |-> spot.address + Bytes(node)',
                            sizes |-> spot.sizes]
  BY Zenon DEF After
<1> QED  BY <1>1, <1>2, <1>3 DEF At

LEMMA AtItself ==
  ASSUME NEW spot \in Spot
  PROVE  spot = At(spot.block, spot.address, spot.sizes)
  BY DEF Spot, At

\* The places of the lines of a pool.
LEMMA OffsetsAre ==
  ASSUME LiteralsAre(symbol_table), NEW m, m = Cardinality(Waiting)
  PROVE  \E o \in [0 .. m -> Nat] :
           /\ o[0] = 0 /\ o[m] = LiteralOffset(Len(literal_table))
           /\ \A j \in 0 .. m - 1 :
                /\ o[j + 1] = o[j] + Len(literal_table[next_literal_id + j + 1])
                /\ Len(literal_table[next_literal_id + j + 1]) \in Nat
                /\ next_literal_id + j \in Waiting
                /\ o[j] = LiteralOffset(next_literal_id + j)
<1>0. PICK o : o = [j \in 0 .. m |-> LiteralOffset(next_literal_id + j)]
  OBVIOUS
<1>1. m \in Nat /\ next_literal_id + m = Len(literal_table)
  BY WaitingIs
<1>2. next_literal_id \in Nat
  BY ListIs DEF LiteralsAre
<1>3. /\ LiteralOffset(next_literal_id) = 0
      /\ \A id \in next_literal_id .. Len(literal_table) : LiteralOffset(id) \in Nat
      /\ \A id \in Waiting :
           LiteralOffset(id + 1) = LiteralOffset(id) + Len(literal_table[id + 1])
  BY OffsetIs
<1>4. ASSUME NEW j \in 0 .. m PROVE o[j] = LiteralOffset(next_literal_id + j) /\ o[j] \in Nat
  <2>1. next_literal_id + j \in next_literal_id .. Len(literal_table)
    BY <1>1, <1>2
  <2> QED  BY <1>0, <1>3, <2>1
<1>5. o \in [0 .. m -> Nat]
  BY <1>0, <1>4
<1>6. o[0] = 0 /\ o[m] = LiteralOffset(Len(literal_table))
  <2>1. next_literal_id + 0 = next_literal_id /\ 0 \in 0 .. m /\ m \in 0 .. m
    BY <1>1, <1>2
  <2> QED  BY <1>1, <1>3, <1>4, <2>1
<1>7. ASSUME NEW j \in 0 .. m - 1
      PROVE  /\ o[j + 1] = o[j] + Len(literal_table[next_literal_id + j + 1])
             /\ next_literal_id + j \in Waiting
             /\ Len(literal_table[next_literal_id + j + 1]) \in Nat
             /\ o[j] = LiteralOffset(next_literal_id + j)
  <2>1. /\ next_literal_id + j \in Waiting /\ j \in 0 .. m /\ j + 1 \in 0 .. m
        /\ next_literal_id + (j + 1) = (next_literal_id + j) + 1
    BY <1>1, <1>2 DEF Waiting
  <2>2. next_literal_id + j + 1 \in DOMAIN literal_table
    BY <1>1, <1>2, ListIs DEF LiteralsAre
  <2>3. Len(literal_table[next_literal_id + j + 1]) \in Nat
    BY <2>2 DEF LiteralsAre
  <2> QED  BY <1>3, <1>4, <2>1, <2>3
<1> QED  BY <1>5, <1>6, <1>7

\* The walk over the lines of a pool: "first" is where the pool begins.
IsPoolWalk(later, first, m, o, spot) ==
  \A k \in position .. position + m + 1 :
    later[k] = At(spot.block,
                  spot.address
                    + o[IF k < first THEN 0 ELSE IF k - first <= m THEN k - first ELSE m],
                  spot.sizes)

\* The line of the directive and the lines of its pool.
PoolLines(first, m) ==
  \A k \in position .. position + m :
    nodes'[k] = IF k \in first .. first + m - 1
                THEN InternalLiteral(next_literal_id + (k - first)) ELSE Node

\* Every line of the pool moves the walk as it says.
PoolMoves(later, m) ==
  \A k \in position .. position + m : later[k + 1] = After(nodes[k], later[k])'

\* The number of its literals, and where each of them is in it.
IsPool(first, m, o) ==
  /\ position \in Nat /\ next_literal_id \in Nat
  /\ m \in Nat /\ first \in {position, position + 1}
  /\ o \in [0 .. m -> Nat] /\ o[0] = 0 /\ o[m] = LiteralOffset(Len(literal_table))
  /\ \A j \in 0 .. m - 1 :
       /\ o[j + 1] = o[j] + Len(literal_table[next_literal_id + j + 1])
       /\ Len(literal_table[next_literal_id + j + 1]) \in Nat
       /\ next_literal_id + j \in Waiting
       /\ o[j] = LiteralOffset(next_literal_id + j)

\* The walk over a pool is one.
LEMMA PoolStep ==
  ASSUME NEW first, NEW m, NEW o, IsPool(first, m, o),
         Node.kind \in {"LTORG", "END"}, PoolLines(first, m), literal_table' = literal_table,
         NEW spot \in Spot, NEW later, IsPoolWalk(later, first, m, o, spot)
  PROVE  PoolMoves(later, m)
<1> SUFFICES \A k \in position .. position + m : later[k + 1] = After(nodes[k], later[k])'
  BY DEF PoolMoves
<1> TAKE k \in position .. position + m
<1>0. PICK p \in Nat :
        /\ p = position /\ m \in Nat /\ first \in {p, p + 1} /\ o \in [0 .. m -> Nat]
        /\ next_literal_id \in Nat /\ k \in p .. p + m
        /\ \A j \in 0 .. m - 1 :
             /\ o[j + 1] = o[j] + Len(literal_table[next_literal_id + j + 1])
             /\ Len(literal_table[next_literal_id + j + 1]) \in Nat
  BY DEF IsPool
<1>9. PICK block, address, sizes :
        block = spot.block /\ address = spot.address /\ sizes = spot.sizes /\ address \in Nat
  BY DEF Spot
<1>1. nodes'[k] = IF k \in first .. first + m - 1
                  THEN InternalLiteral(next_literal_id + (k - first)) ELSE Node
  BY DEF PoolLines
<1>2. PICK c, d : /\ c = IF k < first THEN 0 ELSE IF k - first <= m THEN k - first ELSE m
                  /\ d = IF k + 1 < first THEN 0 ELSE IF k + 1 - first <= m THEN k + 1 - first ELSE m
  OBVIOUS
<1>3. k \in p .. p + m + 1 /\ k + 1 \in p .. p + m + 1 /\ c \in 0 .. m /\ d \in 0 .. m
  BY <1>0, <1>2
<1>4. later[k] = At(block, address + o[c], sizes) /\ later[k + 1] = At(block, address + o[d], sizes)
  <2>1. later[k] = At(spot.block, spot.address + o[c], spot.sizes)
        /\ later[k + 1] = At(spot.block, spot.address + o[d], spot.sizes)
    BY <1>0, <1>2, <1>3 DEF IsPoolWalk
  <2> QED  BY <1>9, <2>1
<1>5. CASE k \in first .. first + m - 1
  <2>1. c = k - first /\ d = c + 1 /\ c \in 0 .. m - 1
    BY <1>0, <1>2, <1>5
  <2>2. PICK node : node = InternalLiteral(next_literal_id + c)
    OBVIOUS
  <2>3. node.kind = "LITERAL" /\ node.literal_id = next_literal_id + c
    BY <2>2, InternalLiteralIs
  <2>4. nodes'[k] = node
    BY <1>1, <1>5, <2>1, <2>2
  <2>5. Bytes(node)' = Len(literal_table[next_literal_id + c + 1])
    BY <2>3 DEF Bytes
  <2>6. PICK size : size = Len(literal_table[next_literal_id + c + 1])
    OBVIOUS
  <2>7. o[d] = o[c] + size /\ o[c] \in Nat /\ o[d] \in Nat /\ size \in Nat
    BY <1>0, <1>3, <2>1, <2>6
  <2>8. After(node, At(block, address + o[c], sizes))' = At(block, address + o[c] + size, sizes)
    BY <2>3, <2>5, <2>6, AfterAt
  <2>9. address + o[c] + size = address + o[d]
    <3>1. PICK a, b : a = o[c] /\ b = o[d]
      OBVIOUS
    <3>2. a \in Nat /\ b \in Nat /\ b = a + size /\ size \in Nat
      BY <2>7, <3>1
    <3>3. address + a + size = address + b
      BY <1>9, <3>2
    <3> QED  BY <3>1, <3>3
  <2> QED  BY <1>4, <2>4, <2>8, <2>9
<1>6. CASE k \notin first .. first + m - 1
  <2>1. c = d
    <3>1. p \in Nat /\ m \in Nat /\ first \in {p, p + 1} /\ k \in p .. p + m
      BY <1>0
    <3>2. k < first \/ k = first + m
      BY <1>6, <3>1
    <3>3. CASE k < first
      <4>1. k + 1 < first \/ k + 1 = first
        BY <3>1, <3>3
      <4>2. c = 0 /\ d = 0
        BY <1>2, <3>1, <3>3, <4>1
      <4> QED  BY <4>2
    <3>4. CASE k = first + m
      <4>1. c = m /\ d = m
        BY <1>2, <3>1, <3>4
      <4> QED  BY <4>1
    <3> QED  BY <3>2, <3>3, <3>4
  <2>2. nodes'[k] = Node
    BY <1>1, <1>6
  <2>3. PICK node : node = Node
    OBVIOUS
  <2>4. node.kind \in {"LTORG", "END"}
    BY <2>3
  <2>5. Bytes(node)' = 0
    BY <2>4 DEF Bytes
  <2>6. PICK a : a = address + o[c]
    OBVIOUS
  <2>7. a + 0 = a
    BY <1>0, <1>3, <1>9, <2>6
  <2>8. After(node, At(block, a, sizes))' = At(block, a + 0, sizes)
    BY <2>4, <2>5, AfterAt
  <2> QED  BY <1>4, <2>1, <2>2, <2>3, <2>6, <2>7, <2>8
<1> QED  BY <1>5, <1>6

\* There is such a walk, which goes on from any other.
LEMMA PoolWalkExists ==
  ASSUME NEW first, NEW m, NEW o, IsPool(first, m, o), NEW walk \in [Nat -> Spot]
  PROVE  \E later \in [Nat -> Spot] :
           /\ IsPoolWalk(later, first, m, o, walk[position])
           /\ \A k \in 1 .. position : later[k] = walk[k]
<1>0. PICK p \in Nat :
        /\ p = position /\ m \in Nat /\ first \in {p, p + 1} /\ o \in [0 .. m -> Nat] /\ o[0] = 0
  BY DEF IsPool
<1>7. PICK block \in Int, address \in Nat, sizes \in [Nat -> Nat] :
        /\ walk[p] = At(block, address, sizes) /\ block = walk[p].block
        /\ address = walk[p].address /\ sizes = walk[p].sizes
  <2>1. walk[p] \in Spot
    OBVIOUS
  <2>2. walk[p].block \in Int /\ walk[p].address \in Nat /\ walk[p].sizes \in [Nat -> Nat]
    BY <2>1 DEF Spot
  <2> QED  BY <2>1, <2>2, AtItself
<1> DEFINE c(k) == IF k < first THEN 0 ELSE IF k - first <= m THEN k - first ELSE m
<1>1. PICK later : later = [k \in Nat |-> IF k \in p .. p + m + 1
                                          THEN At(block, address + o[c(k)], sizes) ELSE walk[k]]
  OBVIOUS
<1>2. ASSUME NEW k \in p .. p + m + 1
      PROVE  later[k] = At(block, address + o[c(k)], sizes) /\ later[k] \in Spot
  <2>1. k \in Nat /\ c(k) \in 0 .. m
    BY <1>0
  <2>2. o[c(k)] \in Nat
    <3> HIDE DEF c
    <3> QED  BY <1>0, <2>1
  <2>3. address + o[c(k)] \in Nat
    <3> HIDE DEF c
    <3>1. PICK a : a = o[c(k)]
      OBVIOUS
    <3>2. a \in Nat
      BY <2>2, <3>1
    <3>3. address + a \in Nat
      BY <3>2
    <3> QED  BY <3>1, <3>3
  <2>4. later[k] = At(block, address + o[c(k)], sizes)
    BY <1>1, <2>1
  <2> HIDE DEF c
  <2>5. later[k] \in Spot
    BY <2>3, <2>4, SpotAt
  <2> QED  BY <2>4, <2>5
<1>3. ASSUME NEW k \in Nat \ (p .. p + m + 1) PROVE later[k] = walk[k]
  BY <1>1
<1>4. later \in [Nat -> Spot]
  <2>1. ASSUME NEW k \in Nat PROVE later[k] \in Spot
    <3>1. CASE k \in p .. p + m + 1
      BY <1>2, <3>1
    <3>2. CASE k \notin p .. p + m + 1
      BY <1>3, <3>2
    <3> QED  BY <3>1, <3>2
  <2> QED  BY <1>1, <2>1
<1>5. IsPoolWalk(later, first, m, o, walk[p])
  <2> HIDE DEF At
  <2>1. ASSUME NEW k \in p .. p + m + 1
        PROVE  later[k] = At(walk[p].block, walk[p].address + o[c(k)], walk[p].sizes)
    <3> HIDE DEF c
    <3>1. later[k] = At(block, address + o[c(k)], sizes)
      BY <1>2
    <3> QED  BY <1>7, <3>1
  <2> QED  BY <1>0, <2>1 DEF IsPoolWalk
<1>6. ASSUME NEW k \in 1 .. p PROVE later[k] = walk[k]
  <2>1. CASE k = p
    <3>1. c(p) = 0 /\ p \in p .. p + m + 1
      BY <1>0
    <3> HIDE DEF c
    <3>2. address + 0 = address /\ o[c(p)] = 0
      BY <1>0, <3>1
    <3>3. later[p] = At(block, address + o[c(p)], sizes)
      BY <1>2, <3>1
    <3> QED  BY <1>0, <1>7, <2>1, <3>2, <3>3
  <2>2. CASE k # p
    <3> HIDE DEF c
    <3>1. k \in Nat \ (p .. p + m + 1)
      BY <1>0, <2>2
    <3> QED  BY <1>3, <3>1
  <2> QED  BY <2>1, <2>2
<1> QED  BY <1>0, <1>4, <1>5, <1>6

\* What stands on the lines of a pool.
LEMMA PoolLineIs ==
  ASSUME NEW first, NEW m, NEW o, IsPool(first, m, o),
         Node.kind \in {"LTORG", "END"}, Node.label = NoLabel, PoolLines(first, m),
         next_literal_id' = next_literal_id + m, NEW k \in position .. position + m
  PROVE  /\ IsNoted(nodes[k])' /\ nodes'[k].kind # "START"
         /\ Places(nodes[k])' => /\ k - first \in 0 .. m - 1
                                 /\ SymbolOf(nodes[k])' = LiteralSymbolName(next_literal_id + (k - first))
<1>0. PICK p \in Nat :
        /\ p = position /\ m \in Nat /\ first \in {p, p + 1} /\ k \in p .. p + m
        /\ next_literal_id \in Nat
  BY DEF IsPool
<1>1. nodes'[k] = IF k \in first .. first + m - 1
                  THEN InternalLiteral(next_literal_id + (k - first)) ELSE Node
  BY DEF PoolLines
<1>2. CASE k \in first .. first + m - 1
  <2>1. PICK id, node : id = next_literal_id + (k - first) /\ node = InternalLiteral(id)
    OBVIOUS
  <2>2. node.kind = "LITERAL" /\ node.label = NoLabel /\ node.literal_id = id
    BY <2>1, InternalLiteralIs
  <2>3. nodes'[k] = node
    BY <1>1, <1>2, <2>1
  <2>4. k - first \in 0 .. m - 1
    BY <1>0, <1>2
  <2>5. id \in 0 .. next_literal_id' - 1
    BY <1>0, <2>1, <2>4
  <2>6. IsNoted(node)'
    BY <2>2, <2>5 DEF IsNoted
  <2> QED  BY <2>1, <2>2, <2>3, <2>4, <2>6 DEF SymbolOf
<1>3. CASE k \notin first .. first + m - 1
  <2>1. PICK node : node = Node
    OBVIOUS
  <2>2. nodes'[k] = node /\ node.kind \in {"LTORG", "END"} /\ node.label = NoLabel
    BY <1>1, <1>3, <2>1
  <2>3. IsNoted(node)'
    BY <2>2 DEF IsNoted, LineKinds
  <2>4. ~Places(node)
    BY <2>2 DEF Places, IsLabelled
  <2>5. Places(nodes[k])' <=> Places(node)
    BY <2>2 DEF Places, IsLabelled
  <2> QED  BY <2>2, <2>3, <2>4, <2>5
<1> QED  BY <1>2, <1>3

\* LTORG and END: the pool of literals is written.
LEMMA PoolIs ==
  ASSUME LiteralNamesDiffer, NEW walk \in [Nat -> Spot], FirstPass(walk), position <= Len(nodes),
         Node.kind \in {"LTORG", "END"}, InsertLiterals,
         UNCHANGED <<literal_table, start_address, current_block, listing>>,
         current_address' = AfterLiterals,
         NEW m, m = Cardinality(Waiting), NEW p, p = position, NEW first \in {p, p + 1},
         PoolLines(first, m), position' = p + m + 1,
         IsList(nodes'), position' <= Len(nodes') + 1, \A k \in 1 .. p - 1 : nodes'[k] = nodes[k],
         \A k \in position' .. Len(nodes') : IsLine(nodes'[k]),
         Framed(nodes', position', TRUE),
         IsBlockTable(block_table'), DOMAIN block_table' = DOMAIN block_table,
         position' <= Len(nodes') => block_table' = block_table
  PROVE  Stand /\ \E later \in [Nat -> Spot] : FirstPass(later)'
<1>1. /\ IsLine(Node) /\ IsTable(symbol_table) /\ LiteralsAre(symbol_table)
      /\ current_address \in Nat /\ current_block \in Int /\ start_address \in Nat
      /\ p \in 1 .. Len(nodes) /\ p \in Nat /\ Len(nodes) \in Nat /\ IsBlockTable(block_table)
  BY VisitedIs
<1>2. Node.label = NoLabel
  BY <1>1 DEF IsLine, Unlabelled
<1>3. PICK spot : spot = walk[p]
  OBVIOUS
<1>4. /\ spot \in Spot /\ IsHere(spot) /\ IsStarted(spot)
      /\ spot.block \in Int /\ spot.address \in Nat /\ spot.sizes \in [Nat -> Nat]
      /\ spot.block \in {-2, -1} \cup DOMAIN block_table
  BY <1>3, HereIs
<1>5. PICK block, address, sizes : block = spot.block /\ address = spot.address /\ sizes = spot.sizes
  OBVIOUS
<1>6. /\ block \in Int /\ address \in Nat /\ sizes \in [Nat -> Nat]
      /\ block \in {-2, -1} \cup DOMAIN block_table /\ block # -2
      /\ current_block = block /\ current_address = address
  BY <1>4, <1>5 DEF IsHere, IsStarted
<1>7. walk[p] = At(block, address, sizes)
  BY <1>3, <1>4, <1>5, AtItself
<1>8. m \in Nat /\ next_literal_id + m = Len(literal_table) /\ next_literal_id \in Nat
  <2>1. m \in Nat /\ next_literal_id + m = Len(literal_table)
    BY <1>1, WaitingIs
  <2> QED  BY <1>1, <2>1, ListIs DEF LiteralsAre
<1>10. PICK o \in [0 .. m -> Nat] :
         /\ o[0] = 0 /\ o[m] = LiteralOffset(Len(literal_table))
         /\ \A j \in 0 .. m - 1 :
                /\ o[j + 1] = o[j] + Len(literal_table[next_literal_id + j + 1])
                /\ Len(literal_table[next_literal_id + j + 1]) \in Nat
                /\ next_literal_id + j \in Waiting
                /\ o[j] = LiteralOffset(next_literal_id + j)
  BY <1>1, OffsetsAre
<1>9. IsPool(first, m, o)
  BY <1>1, <1>8, <1>10 DEF IsPool
<1>11. PICK later \in [Nat -> Spot] :
           /\ IsPoolWalk(later, first, m, o, spot)
           /\ \A k \in 1 .. p : later[k] = walk[k]
  <2>1. \E later \in [Nat -> Spot] :
           /\ IsPoolWalk(later, first, m, o, walk[position])
           /\ \A k \in 1 .. position : later[k] = walk[k]
    BY <1>9, PoolWalkExists
  <2> QED  BY <1>3, <2>1
<1>12. PICK added : added = {LiteralSymbolName(id) : id \in Waiting}
  OBVIOUS
<1>13. /\ IsTable(symbol_table') /\ Extends(symbol_table, symbol_table', added)
       /\ \A id \in Waiting :
              /\ LiteralSymbolName(id) \in DOMAIN symbol_table'
              /\ IsPlaced(symbol_table'[LiteralSymbolName(id)], block,
                          address + LiteralOffset(id), start_address)
  <2>1. symbol_table' = PooledSymbols
    BY DEF InsertLiterals
  <2> QED  BY <1>1, <1>6, <1>12, <2>1, PooledIs
<1>14. Stand
  BY <1>13, ExtendsStand
<1>15. LiteralsAre(symbol_table)'
  BY <1>1, <1>12, <1>13, NothingWaits
<1>16. next_literal_id' = next_literal_id + m
  BY <1>8 DEF InsertLiterals
<1>17. /\ \A k \in 1 .. p :
              /\ later[k].block \in {-2, -1} \cup DOMAIN block_table'
              /\ ~IsStarted(later[k]) => later[k] = Nowhere
       /\ later[1] = Nowhere
       /\ \A k \in 1 .. p - 1 :
              /\ IsNoted(nodes[k])'
              /\ later[k + 1] = After(nodes[k], later[k])'
              /\ IsInOrder(nodes'[k].kind, later[k])
              /\ Places(nodes[k])' =>
                   /\ SymbolOf(nodes[k])' \in DOMAIN symbol_table'
                   /\ IsPlaced(symbol_table[SymbolOf(nodes[k])], PlaceOf(later, k).block,
                               PlaceOf(later, k).address, start_address)'
  <2>1. next_literal_id' \in Nat /\ next_literal_id <= next_literal_id'
    BY <1>8, <1>16
  <2>2. \A k \in 1 .. Len(literal_table) : literal_table'[k] = literal_table[k]
    OBVIOUS
  <2>3. DOMAIN block_table \subseteq DOMAIN block_table'
    OBVIOUS
  <2>4. start_address' = start_address
    OBVIOUS
  <2> HIDE DEF FirstPass
  <2> QED  BY <1>11, <1>13, <2>1, <2>2, <2>3, <2>4, BehindStays
<1>18. ASSUME NEW k \in p .. p + m + 1
       PROVE  /\ IsStarted(later[k]) /\ later[k].block \in {-2, -1} \cup DOMAIN block_table'
              /\ later[k].block = block /\ later[k].sizes = sizes
  <2>1. PICK a : later[k] = At(block, a, sizes)
    BY <1>5, <1>11 DEF IsPoolWalk
  <2>2. later[k].block = block /\ later[k].sizes = sizes
    BY <2>1 DEF At
  <2> QED  BY <1>6, <2>2 DEF IsStarted
<1>19. ASSUME NEW k \in p .. p + m
       PROVE  /\ later[k + 1] = After(nodes[k], later[k])'
              /\ IsNoted(nodes[k])' /\ nodes'[k].kind # "START"
              /\ Places(nodes[k])' =>
                   /\ k - first \in 0 .. m - 1
                   /\ SymbolOf(nodes[k])' = LiteralSymbolName(next_literal_id + (k - first))
  <2>1. later[k + 1] = After(nodes[k], later[k])'
    <3>1. literal_table' = literal_table
      OBVIOUS
    <3>2. PoolMoves(later, m)
      BY <1>4, <1>9, <1>11, <3>1, PoolStep
    <3>3. k \in position .. position + m
      OBVIOUS
    <3> QED  BY <3>2, <3>3 DEF PoolMoves
  <2>2. /\ IsNoted(nodes[k])' /\ nodes'[k].kind # "START"
        /\ Places(nodes[k])' =>
                   /\ k - first \in 0 .. m - 1
                   /\ SymbolOf(nodes[k])' = LiteralSymbolName(next_literal_id + (k - first))
    BY <1>2, <1>9, <1>16, PoolLineIs
  <2> QED  BY <2>1, <2>2
<1>20. Walked(later, position)'
  <2>1. ASSUME NEW k \in 1 .. p + m + 1
        PROVE  /\ later[k].block \in {-2, -1} \cup DOMAIN block_table'
               /\ ~IsStarted(later[k]) => later[k] = Nowhere
    <3>1. CASE k \in 1 .. p
      BY <1>17, <3>1
    <3>2. CASE k \notin 1 .. p
      <4>1. k \in p .. p + m + 1
        BY <1>1, <3>2
      <4> QED  BY <1>18, <4>1
    <3> QED  BY <3>1, <3>2
  <2>2. ASSUME NEW k \in 1 .. p + m
        PROVE  /\ IsNoted(nodes[k])' /\ later[k + 1] = After(nodes[k], later[k])'
               /\ IsInOrder(nodes'[k].kind, later[k])
    <3>1. CASE k \in 1 .. p - 1
      BY <1>17, <3>1
    <3>2. CASE k \notin 1 .. p - 1
      <4>1. k \in p .. p + m /\ k \in p .. p + m + 1
        BY <1>1, <1>8, <3>2
      <4>2. IsInOrder(nodes'[k].kind, later[k])
        BY <1>18, <1>19, <4>1 DEF IsInOrder
      <4> QED  BY <1>19, <4>1, <4>2
    <3> QED  BY <3>1, <3>2
  <2> HIDE DEF IsStarted
  <2>3. position' - 1 = p + m /\ position' = p + m + 1
    BY <1>1, <1>8
  <2> QED  BY <1>11, <1>17, <2>1, <2>2, <2>3 DEF Walked
<1>21. SymbolsPlaced(later, position)'
  <2>1. ASSUME NEW k \in 1 .. p + m, Places(nodes[k])'
        PROVE  /\ SymbolOf(nodes[k])' \in DOMAIN symbol_table'
               /\ IsPlaced(symbol_table[SymbolOf(nodes[k])], PlaceOf(later, k).block,
                           PlaceOf(later, k).address, start_address)'
    <3>1. CASE k \in 1 .. p - 1
      BY <1>17, <2>1, <3>1
    <3>2. CASE k \notin 1 .. p - 1
      <4>1. k \in p .. p + m /\ k \in p .. p + m + 1
        BY <1>1, <1>8, <3>2
      <4>2. /\ k - first \in 0 .. m - 1 /\ nodes'[k].kind # "START"
            /\ SymbolOf(nodes[k])' = LiteralSymbolName(next_literal_id + (k - first))
        BY <1>19, <2>1, <4>1
      <4>3. PICK id : id = next_literal_id + (k - first)
        OBVIOUS
      <4>4. id \in Waiting /\ o[k - first] = LiteralOffset(id)
        BY <1>10, <4>2, <4>3
      <4>5. PlaceOf(later, k)' = later[k]
        BY <4>2 DEF PlaceOf
      <4>6. ~(k < first) /\ k - first <= m
        <5>1. first \in Nat /\ k \in Nat
          BY <1>1, <4>1
        <5> QED  BY <1>8, <4>2, <5>1
      <4>7. later[k] = At(block, address + o[k - first], sizes)
        <5>1. later[k] = At(spot.block, spot.address + o[k - first], spot.sizes)
          BY <1>11, <4>1, <4>6 DEF IsPoolWalk
        <5> QED  BY <1>5, <5>1
      <4>8. later[k].block = block /\ later[k].address = address + LiteralOffset(id)
        BY <4>4, <4>7 DEF At
      <4>9. PICK name : name = LiteralSymbolName(id)
        OBVIOUS
      <4>10. /\ name \in DOMAIN symbol_table'
             /\ IsPlaced(symbol_table'[name], block, address + LiteralOffset(id), start_address)
        BY <1>13, <4>4, <4>9
      <4> QED  BY <4>2, <4>3, <4>5, <4>8, <4>9, <4>10
    <3> QED  BY <3>1, <3>2
  <2>2. position' - 1 = p + m
    BY <1>1, <1>8
  <2> QED  BY <2>1, <2>2 DEF SymbolsPlaced
<1>22. p + m + 1 \in p .. p + m + 1
  BY <1>1, <1>8
<1>23. later[p + m + 1].address = address + o[m]
  <2>2. PICK q : q = p + m + 1
    OBVIOUS
  <2>1. PICK r : r = (IF q < first THEN 0 ELSE IF q - first <= m THEN q - first ELSE m)
    OBVIOUS
  <2>5. r = m
    BY <1>1, <1>8, <2>1, <2>2
  <2>3. later[q] = At(spot.block,
              spot.address
                + o[IF q < first THEN 0 ELSE IF q - first <= m THEN q - first ELSE m],
              spot.sizes)
    BY <1>11, <1>22, <2>2 DEF IsPoolWalk
  <2>4. later[q] = At(block, address + o[m], sizes)
    BY <1>5, <2>1, <2>3, <2>5, Zenon
  <2> QED  BY <2>2, <2>4 DEF At
<1>24. IsHere(later[position])'
  <2>1. current_address' = address + o[m]
    BY <1>6, <1>10 DEF AfterLiterals
  <2>2. \A b \in Nat : sizes[b] = IF b \in DOMAIN block_table THEN block_table[b].size ELSE 0
    BY <1>4, <1>5 DEF IsHere
  <2>3. PICK next : next = later[p + m + 1]
    OBVIOUS
  <2>4. IsStarted(next) /\ next.block = block /\ next.sizes = sizes /\ next.address = address + o[m]
    BY <1>18, <1>22, <1>23, <2>3
  <2>5. IsHere(next)'
    BY <1>6, <2>1, <2>2, <2>4 DEF IsHere
  <2> QED  BY <2>3, <2>5
<1>25. IsAhead(later[position])' /\ NothingYet(later[position])'
  <2>1. IsStarted(later[p + m + 1])
    BY <1>18, <1>22
  <2>2. IsStarted(later[p + m + 1]) = TRUE
    BY <2>1 DEF IsStarted
  <2> HIDE DEF IsStarted
  <2> QED  BY <2>1, <2>2 DEF IsAhead, NothingYet
<1>26. position' \in 1 .. Len(nodes') + 1
  <2>1. Len(nodes') \in Nat
    BY ListIs
  <2> QED  BY <1>1, <1>8, <2>1
<1>27. start_address' \in Nat /\ listing' = <<>>
  BY <1>1 DEF FirstPass
<1>28. FirstPass(later)'
  BY <1>13, <1>15, <1>20, <1>21, <1>24, <1>25, <1>26, <1>27 DEF FirstPass
<1> QED  BY <1>11, <1>14, <1>28

-----------------------------------------------------------------------------
(***************************************************************************)
(* Lines are inserted after one, or follow it in place of the rest.        *)
(***************************************************************************)
\* u is s and then t.
IsJoin(s, t, u) ==
  /\ IsList(u) /\ Len(u) = Len(s) + Len(t)
  /\ \A k \in 1 .. Len(s) : u[k] = s[k]
  /\ \A k \in 1 .. Len(t) : u[Len(s) + k] = t[k]

LEMMA JoinIs ==
  ASSUME NEW s, NEW t, IsList(s), IsList(t)
  PROVE  IsJoin(s, t, s \o t)
BY JoinedIs DEF IsJoin

\* new is s with t after its element p.
Inserted(s, t, p, new) ==
  /\ IsList(new) /\ Len(new) = Len(s) + Len(t)
  /\ \A k \in 1 .. p : new[k] = s[k]
  /\ \A k \in p + 1 .. p + Len(t) : new[k] = t[k - p]
  /\ \A k \in p + Len(t) + 1 .. Len(new) : k - Len(t) \in p + 1 .. Len(s) /\ new[k] = s[k - Len(t)]

LEMMA InsertedIs ==
  ASSUME NEW s, IsList(s), NEW t, IsList(t), NEW p \in 1 .. Len(s)
  PROVE  Inserted(s, t, p, SubSeq(s, 1, p) \o t \o SubSeq(s, p + 1, Len(s)))
<1>0. PICK m, new :
        m = Len(t) /\ new = SubSeq(s, 1, p) \o t \o SubSeq(s, p + 1, Len(s))
  OBVIOUS
<1>1. Len(s) \in Nat /\ m \in Nat /\ p \in Nat /\ 1 <= p /\ p <= Len(s)
  BY <1>0, ListIs
<1>2. PICK a, b : a = SubSeq(s, 1, p) /\ b = SubSeq(s, p + 1, Len(s))
  OBVIOUS
<1>3. IsList(a) /\ Len(a) = p /\ \A k \in 1 .. p : a[k] = s[k]
  <2>1. /\ IsList(a) /\ Len(a) = IF 1 <= p THEN p - 1 + 1 ELSE 0
        /\ \A k \in 1 .. p - 1 + 1 : a[k] = s[1 + k - 1]
    BY <1>1, <1>2, TakenIs
  <2> QED  BY <1>1, <2>1
<1>4. IsList(b) /\ Len(b) = Len(s) - p /\ \A k \in 1 .. Len(s) - p : b[k] = s[p + k]
  <2>1. /\ IsList(b) /\ Len(b) = IF p + 1 <= Len(s) THEN Len(s) - (p + 1) + 1 ELSE 0
        /\ \A k \in 1 .. Len(s) - (p + 1) + 1 : b[k] = s[p + 1 + k - 1]
    BY <1>1, <1>2, TakenIs
  <2> QED  BY <1>1, <2>1
<1>5. PICK c : c = a \o t
  OBVIOUS
<1>6. /\ IsList(c) /\ Len(c) = p + m
      /\ \A k \in 1 .. p : c[k] = a[k]
      /\ \A k \in 1 .. m : c[p + k] = t[k]
  <2>1. IsJoin(a, t, c)
    BY <1>3, <1>5, JoinIs
  <2> QED  BY <1>0, <1>3, <2>1 DEF IsJoin
<1>7. /\ IsList(new) /\ Len(new) = Len(c) + Len(b)
      /\ \A k \in 1 .. Len(c) : new[k] = c[k]
      /\ \A k \in 1 .. Len(b) : new[Len(c) + k] = b[k]
  <2>1. new = c \o b
    BY <1>0, <1>2, <1>5
  <2>2. IsJoin(c, b, new)
    BY <1>4, <1>6, <2>1, JoinIs
  <2> QED  BY <2>2 DEF IsJoin
<1>8. \A k \in 1 .. p : new[k] = s[k]
  BY <1>1, <1>3, <1>6, <1>7
<1>9. ASSUME NEW k \in p + 1 .. p + m
      PROVE  new[k] = t[k - p]
  <2>1. k - p \in 1 .. m /\ p + (k - p) = k /\ k \in 1 .. Len(c)
    BY <1>1, <1>6
  <2> QED  BY <1>6, <1>7, <2>1
<1>10. ASSUME NEW k \in p + m + 1 .. Len(new)
       PROVE  k - m \in p + 1 .. Len(s) /\ new[k] = s[k - m]
  <2>1. PICK i : i = k - (p + m)
    OBVIOUS
  <2>2. Len(c) = p + m /\ Len(b) = Len(s) - p /\ Len(new) = Len(c) + Len(b) /\ k \in Int
    BY <1>4, <1>6, <1>7
  <2>3. i \in 1 .. Len(s) - p /\ p + i = k - m /\ Len(c) + i = k /\ k - m \in p + 1 .. Len(s)
    BY <1>1, <2>1, <2>2
  <2>4. new[k] = b[i]
    BY <1>4, <1>7, <2>3
  <2>5. b[i] = s[k - m]
    BY <1>4, <2>3
  <2> QED  BY <2>3, <2>4, <2>5
<1>11. Len(new) = Len(s) + m
  BY <1>1, <1>4, <1>6, <1>7
<1> QED  BY <1>0, <1>7, <1>8, <1>9, <1>10, <1>11 DEF Inserted

\* new is s up to p, then t and one more element.
Closed(s, t, p, e, new) ==
  /\ IsList(new) /\ Len(new) = p + Len(t)
  /\ \A k \in 1 .. p - 1 : new[k] = s[k]
  /\ \A k \in p .. p + Len(t) - 1 : new[k] = t[k - p + 1]
  /\ new[p + Len(t)] = e

LEMMA ClosedIs ==
  ASSUME NEW s, IsList(s), NEW t, IsList(t), NEW p \in 1 .. Len(s), NEW e
  PROVE  Closed(s, t, p, e, SubSeq(s, 1, p - 1) \o t \o <<e>>)
<1>0. PICK m, new : m = Len(t) /\ new = SubSeq(s, 1, p - 1) \o t \o <<e>>
  OBVIOUS
<1>1. Len(s) \in Nat /\ m \in Nat /\ p \in Nat /\ 1 <= p /\ p <= Len(s) /\ p - 1 \in Nat
  BY <1>0, ListIs
<1>2. PICK a, b : a = SubSeq(s, 1, p - 1) /\ b = <<e>>
  OBVIOUS
<1>3. IsList(a) /\ Len(a) = p - 1 /\ \A k \in 1 .. p - 1 : a[k] = s[k]
  <2>1. /\ IsList(a) /\ Len(a) = IF 1 <= p - 1 THEN p - 1 - 1 + 1 ELSE 0
        /\ \A k \in 1 .. p - 1 - 1 + 1 : a[k] = s[1 + k - 1]
    BY <1>1, <1>2, TakenIs
  <2> QED  BY <1>1, <2>1
<1>4. IsList(b) /\ Len(b) = 1 /\ b[1] = e
  <2>1. b \in Seq({e})
    BY <1>2
  <2> QED  BY <1>2, <2>1, SequenceIsList
<1>5. PICK c : c = a \o t
  OBVIOUS
<1>6. /\ IsList(c) /\ Len(c) = p - 1 + m
      /\ \A k \in 1 .. p - 1 : c[k] = a[k]
      /\ \A k \in 1 .. m : c[p - 1 + k] = t[k]
  <2>1. IsJoin(a, t, c)
    BY <1>3, <1>5, JoinIs
  <2> QED  BY <1>0, <1>3, <2>1 DEF IsJoin
<1>7. /\ IsList(new) /\ Len(new) = Len(c) + Len(b)
      /\ \A k \in 1 .. Len(c) : new[k] = c[k]
      /\ \A k \in 1 .. Len(b) : new[Len(c) + k] = b[k]
  <2>1. new = c \o b
    BY <1>0, <1>2, <1>5
  <2>2. IsJoin(c, b, new)
    BY <1>4, <1>6, <2>1, JoinIs
  <2> QED  BY <2>2 DEF IsJoin
<1>8. \A k \in 1 .. p - 1 : new[k] = s[k]
  BY <1>1, <1>3, <1>6, <1>7
<1>9. ASSUME NEW k \in p .. p + m - 1
      PROVE  new[k] = t[k - p + 1]
  <2>1. k - p + 1 \in 1 .. m /\ p - 1 + (k - p + 1) = k /\ k \in 1 .. Len(c)
    BY <1>1, <1>6
  <2> QED  BY <1>6, <1>7, <2>1
<1>10. Len(c) + 1 = p + m
  BY <1>1, <1>6
<1>11. Len(new) = p + m
  BY <1>4, <1>7, <1>10
<1>12. new[p + m] = e
  BY <1>4, <1>7, <1>10
<1> QED  BY <1>0, <1>7, <1>8, <1>9, <1>11, <1>12 DEF Closed

\* The lines of the literals that wait.
LEMMA LiteralLinesAre ==
  ASSUME NEW table, LiteralsAre(table), NEW m, m = Cardinality(Waiting)
  PROVE  /\ IsList(LiteralLines) /\ Len(LiteralLines) = m
         /\ \A j \in 1 .. m : LiteralLines[j] = InternalLiteral(next_literal_id + j - 1)
<1>1. m \in Nat
  BY WaitingIs
<1>2. /\ DOMAIN LiteralLines = 1 .. m
      /\ \A j \in 1 .. m : LiteralLines[j] = InternalLiteral(next_literal_id + j - 1)
  BY DEF LiteralLines
<1>3. LiteralLines = [k \in 1 .. m |-> LiteralLines[k]]
  BY DEF LiteralLines
<1> QED  BY <1>1, <1>2, <1>3, ListedIs

\* LTORG inserts the lines of its pool after its own.
LEMMA BuildLtorgIs ==
  ASSUME LiteralNamesDiffer, NEW walk \in [Nat -> Spot], FirstPass(walk), position <= Len(nodes),
         BuildLtorg, listing' = listing
  PROVE  Stand /\ \E later \in [Nat -> Spot] : FirstPass(later)'
<1>1. /\ LiteralsAre(symbol_table) /\ IsBlockTable(block_table) /\ IsList(nodes)
      /\ position \in 1 .. Len(nodes) /\ Len(nodes) \in Nat /\ position \in Nat
  BY VisitedIs
<1>2. PICK m, p, lines : m = Cardinality(Waiting) /\ p = position /\ lines = LiteralLines
  OBVIOUS
<1>3. /\ m \in Nat /\ IsList(lines) /\ Len(lines) = m
      /\ \A j \in 1 .. m : lines[j] = InternalLiteral(next_literal_id + j - 1)
  BY <1>1, <1>2, WaitingIs, LiteralLinesAre
<1>4. /\ Node.kind = "LTORG" /\ InsertLiterals
      /\ position' = p + m + 1 /\ current_address' = AfterLiterals
      /\ nodes' = SubSeq(nodes, 1, p) \o lines \o SubSeq(nodes, p + 1, Len(nodes))
      /\ UNCHANGED <<block_table, literal_table, start_address, current_block, listing>>
  BY <1>2, <1>3 DEF BuildLtorg, Advance
<1>5. PICK new : new = nodes'
  OBVIOUS
<1>6. /\ IsList(new) /\ Len(new) = Len(nodes) + m
      /\ \A k \in 1 .. p : new[k] = nodes[k]
      /\ \A k \in p + 1 .. p + m : new[k] = lines[k - p]
      /\ \A k \in p + m + 1 .. Len(new) :
           k - m \in p + 1 .. Len(nodes) /\ new[k] = nodes[k - m]
  <2>1. new = SubSeq(nodes, 1, p) \o lines \o SubSeq(nodes, p + 1, Len(nodes))
    BY <1>4, <1>5
  <2>2. p \in 1 .. Len(nodes)
    BY <1>1, <1>2
  <2>3. Inserted(nodes, lines, p, new)
    BY <1>1, <1>3, <2>1, <2>2, InsertedIs
  <2> QED  BY <1>3, <2>3 DEF Inserted
<1>7. \A k \in p + 1 .. Len(nodes) : IsLine(nodes[k]) /\ nodes[k].kind # "START"
  <2>1. PICK spot : spot = walk[position]
    OBVIOUS
  <2>2. IsStarted(spot) /\ IsAhead(spot)
    BY <1>4, <2>1, HereIs DEF FirstPass
  <2>3. \A k \in position .. Len(nodes) : IsLine(nodes[k]) /\ nodes[k].kind # "START"
    BY <2>2 DEF IsAhead, Framed
  <2> QED  BY <1>1, <1>2, <2>3
<1>8. \A k \in position' .. Len(nodes') : IsLine(nodes'[k]) /\ nodes'[k].kind # "START"
  BY <1>4, <1>5, <1>6, <1>7
<1>9. PoolLines(p + 1, m)
  <2>1. ASSUME NEW k \in p .. p + m
        PROVE  new[k] = IF k \in p + 1 .. p + 1 + m - 1
                        THEN InternalLiteral(next_literal_id + (k - (p + 1))) ELSE Node
    <3>1. CASE k = p
      <4>1. new[k] = Node
        BY <1>1, <1>2, <1>6, <3>1 DEF Node
      <4> QED  BY <1>1, <1>2, <3>1, <4>1
    <3>2. CASE k # p
      <4>1. k \in p + 1 .. p + m /\ k \in p + 1 .. p + 1 + m - 1 /\ k - p \in 1 .. m
        BY <1>1, <1>2, <1>3, <3>2
      <4>2. new[k] = InternalLiteral(next_literal_id + (k - p) - 1)
        BY <1>3, <1>6, <4>1
      <4>3. next_literal_id + (k - p) - 1 = next_literal_id + (k - (p + 1))
        <5>1. next_literal_id \in Nat /\ p \in Nat /\ k \in Nat
          <6>1. next_literal_id \in 0 .. Len(literal_table) /\ IsList(literal_table)
            BY <1>1 DEF LiteralsAre
          <6> QED  BY <1>1, <1>2, <6>1, ListIs
        <5> QED  BY <5>1
      <4> QED  BY <4>1, <4>2, <4>3
    <3> QED  BY <3>1, <3>2
  <2> QED  BY <1>2, <1>5, <2>1 DEF PoolLines
<1>10. /\ IsList(nodes') /\ position' <= Len(nodes') + 1
       /\ \A k \in 1 .. p - 1 : nodes'[k] = nodes[k]
  <2>1. position' <= Len(new) + 1
    BY <1>1, <1>2, <1>3, <1>4, <1>6
  <2>2. \A k \in 1 .. p - 1 : new[k] = nodes[k]
    BY <1>1, <1>2, <1>6
  <2> QED  BY <1>5, <1>6, <2>1, <2>2
<1>11. Framed(nodes', position', TRUE)
  BY <1>8 DEF Framed
<1>12. \A k \in position' .. Len(nodes') : IsLine(nodes'[k])
  BY <1>8
<1>13. p + 1 \in {p, p + 1} /\ Node.kind \in {"LTORG", "END"}
  BY <1>4
<1> QED  BY <1>1, <1>2, <1>4, <1>9, <1>10, <1>11, <1>12, <1>13, PoolIs

\* END writes its pool before its own line, the last one.
LEMMA BuildEndIs ==
  ASSUME LiteralNamesDiffer, NEW walk \in [Nat -> Spot], FirstPass(walk), position <= Len(nodes),
         NEW value, BuildEnd(value), listing' = listing
  PROVE  Stand /\ \E later \in [Nat -> Spot] : FirstPass(later)'
<1>1. /\ LiteralsAre(symbol_table) /\ IsBlockTable(block_table) /\ IsList(nodes)
      /\ position \in 1 .. Len(nodes) /\ Len(nodes) \in Nat /\ position \in Nat
      /\ current_address \in Nat
  BY VisitedIs
<1>2. PICK m, p, lines : m = Cardinality(Waiting) /\ p = position /\ lines = LiteralLines
  OBVIOUS
<1>3. /\ m \in Nat /\ IsList(lines) /\ Len(lines) = m
      /\ \A j \in 1 .. m : lines[j] = InternalLiteral(next_literal_id + j - 1)
  BY <1>1, <1>2, WaitingIs, LiteralLinesAre
<1>4. /\ Node.kind = "END" /\ InsertLiterals
      /\ position' = p + m + 1 /\ current_address' = AfterLiterals
      /\ nodes' = SubSeq(nodes, 1, p - 1) \o lines \o <<Node>>
      /\ block_table' = EndedBlocks(AfterLiterals)
      /\ UNCHANGED <<literal_table, start_address, current_block, listing>>
  BY <1>2, <1>3 DEF BuildEnd, Advance
<1>5. PICK new : new = nodes'
  OBVIOUS
<1>6. /\ IsList(new) /\ Len(new) = p + m
      /\ \A k \in 1 .. p - 1 : new[k] = nodes[k]
      /\ \A k \in p .. p + m - 1 : new[k] = lines[k - p + 1]
      /\ new[p + m] = Node
  <2>1. new = SubSeq(nodes, 1, p - 1) \o lines \o <<Node>>
    BY <1>4, <1>5
  <2>2. p \in 1 .. Len(nodes)
    BY <1>1, <1>2
  <2>3. Closed(nodes, lines, p, Node, new)
    BY <1>1, <1>3, <2>1, <2>2, ClosedIs
  <2> QED  BY <1>3, <2>3 DEF Closed
<1>7. IsBlockTable(block_table') /\ DOMAIN block_table' = DOMAIN block_table
  <2>1. PICK spot : spot = walk[position]
    OBVIOUS
  <2>2. /\ spot \in Spot /\ IsHere(spot) /\ IsStarted(spot)
        /\ spot.block \in {-2, -1} \cup DOMAIN block_table
    BY <1>4, <2>1, HereIs
  <2>3. current_block \in {-1} \cup DOMAIN block_table
    BY <1>1, <2>2, LeftSizes
  <2>4. AfterLiterals \in Nat
    <3>1. next_literal_id \in 0 .. Len(literal_table) /\ IsList(literal_table)
      BY <1>1 DEF LiteralsAre
    <3>2. Len(literal_table) \in next_literal_id .. Len(literal_table)
      BY <3>1, ListIs
    <3>3. LiteralOffset(Len(literal_table)) \in Nat
      BY <1>1, <3>2, OffsetIs
    <3> QED  BY <1>1, <3>3 DEF AfterLiterals
  <2> QED  BY <1>1, <1>4, <2>3, <2>4, EndedIs
<1>8. ~(position' <= Len(nodes'))
  BY <1>1, <1>2, <1>3, <1>4, <1>5, <1>6
<1>9. PoolLines(p, m)
  <2>1. ASSUME NEW k \in p .. p + m
        PROVE  new[k] = IF k \in p .. p + m - 1
                        THEN InternalLiteral(next_literal_id + (k - p)) ELSE Node
    <3>1. CASE k = p + m
      <4>1. k \notin p .. p + m - 1
        BY <1>1, <1>2, <1>3, <3>1
      <4> QED  BY <1>6, <3>1, <4>1
    <3>2. CASE k # p + m
      <4>1. k \in p .. p + m - 1 /\ k - p + 1 \in 1 .. m
        BY <1>1, <1>2, <1>3, <3>2
      <4>2. new[k] = InternalLiteral(next_literal_id + (k - p + 1) - 1)
        BY <1>3, <1>6, <4>1
      <4>3. next_literal_id + (k - p + 1) - 1 = next_literal_id + (k - p)
        <5>1. next_literal_id \in Nat /\ p \in Nat /\ k \in Nat
          <6>1. next_literal_id \in 0 .. Len(literal_table) /\ IsList(literal_table)
            BY <1>1 DEF LiteralsAre
          <6> QED  BY <1>1, <1>2, <6>1, ListIs
        <5> QED  BY <5>1
      <4> QED  BY <4>1, <4>2, <4>3
    <3> QED  BY <3>1, <3>2
  <2> QED  BY <1>2, <1>5, <2>1 DEF PoolLines
<1>10. /\ IsList(nodes') /\ position' <= Len(nodes') + 1
       /\ \A k \in 1 .. p - 1 : nodes'[k] = nodes[k]
  BY <1>1, <1>2, <1>3, <1>4, <1>5, <1>6
<1>11. ~(\E k \in position' .. Len(nodes') : TRUE)
  <2>1. position' = Len(nodes') + 1 /\ Len(nodes') \in Int
    BY <1>1, <1>2, <1>3, <1>4, <1>5, <1>6
  <2> QED  BY <2>1
<1>12. Framed(nodes', position', TRUE)
  BY <1>11 DEF Framed
<1>13. \A k \in position' .. Len(nodes') : IsLine(nodes'[k])
  BY <1>11
<1>14. p \in {p, p + 1} /\ Node.kind \in {"LTORG", "END"}
  BY <1>4
<1> QED  BY <1>1, <1>2, <1>4, <1>7, <1>8, <1>9, <1>10, <1>12, <1>13, <1>14, PoolIs
=============================================================================
