---------------------------- MODULE SumTheorems ----------------------------
(***************************************************************************)
(* What the sums of the model do: SumOf(f, S) is MapThenSumSet over the    *)
(* values of a function; and what flattening a sequence of sequences does. *)
(***************************************************************************)
EXTENDS Integers, Sequences, FiniteSetsExt, FiniteSetTheorems, TLAPS

SumOf(f, S) == MapThenSumSet(LAMBDA x : f[x], S)

Chosen(s) == CHOOSE x \in s : TRUE

\* g adds f up over each subset of S, element by element as they are chosen.
Adds(g, f, S) ==
  g = [s \in SUBSET S |-> IF s = {} THEN 0 ELSE f[Chosen(s)] + g[s \ {Chosen(s)}]]

\* A set of subsets of a finite set that has each subset whose strict subsets it has, has
\* them all.
LEMMA SubsetInduction ==
  ASSUME NEW S, IsFiniteSet(S), NEW Good,
         \A s \in SUBSET S : (\A t \in SUBSET s : t # s => t \in Good) => s \in Good
  PROVE  SUBSET S \subseteq Good
<1> DEFINE T == {s \in SUBSET S : s \notin Good}
<1>1. T \subseteq FiniteSubsetsOf(S)
  BY FS_Subset DEF FiniteSubsetsOf
<1>2. T # {} => \E s \in T : \A t \in T : <<t, s>> \notin StrictSubsetOrdering(S)
  <2> HIDE DEF T
  <2> QED
    BY <1>1, FS_StrictSubsetOrderingWellFounded, WFMin
<1>3. QED
  BY <1>2 DEF StrictSubsetOrdering

\* One element less.
LEMMA OneLess ==
  ASSUME NEW s, s # {}
  PROVE  /\ Chosen(s) \in s /\ s \ {Chosen(s)} \subseteq s /\ s \ {Chosen(s)} # s
BY DEF Chosen

LEMMA AddsAlike ==
  ASSUME NEW S, IsFiniteSet(S), NEW A, A \subseteq S, NEW B, B \subseteq S,
         NEW f, NEW g, NEW h, Adds(g, f, A), Adds(h, f, B)
  PROVE  \A s \in SUBSET (A \cap B) : g[s] = h[s]
<1> DEFINE C == A \cap B
           Good == {s \in SUBSET C : g[s] = h[s]}
<1>1. ASSUME NEW s \in SUBSET C, \A t \in SUBSET s : t # s => t \in Good
      PROVE  s \in Good
  <2>1. CASE s = {}
    BY <2>1 DEF Adds
  <2>2. CASE s # {}
    <3> DEFINE t == s \ {Chosen(s)}
    <3>1. g[t] = h[t]
      BY <1>1, <2>2, OneLess
    <3>2. g[s] = f[Chosen(s)] + g[t] /\ h[s] = f[Chosen(s)] + h[t]
      BY <2>2 DEF Adds
    <3>3. QED
      BY <3>1, <3>2
  <2>3. QED
    BY <2>1, <2>2
<1>2. IsFiniteSet(C)
  BY FS_Subset
<1>3. SUBSET C \subseteq Good
  <2> HIDE DEF C, Good
  <2> QED
    BY <1>1, <1>2, SubsetInduction
<1>4. QED
  BY <1>3

LEMMA AddsExists ==
  ASSUME NEW S, IsFiniteSet(S), NEW f
  PROVE  \E g : Adds(g, f, S)
<1> DEFINE Good == {A \in SUBSET S : \E g : Adds(g, f, A)}
<1>1. ASSUME NEW A \in SUBSET S, \A B \in SUBSET A : B # A => B \in Good
      PROVE  A \in Good
  <2> DEFINE G(B) == CHOOSE g : Adds(g, f, B)
             less(s) == s \ {Chosen(s)}
             h == [s \in SUBSET A |-> IF s = {} THEN 0
                                      ELSE f[Chosen(s)] + G(less(s))[less(s)]]
  <2>1. ASSUME NEW s \in SUBSET A, s # {}
        PROVE  Adds(G(less(s)), f, less(s)) /\ less(s) \in SUBSET A
    <3>1. less(s) \in SUBSET A /\ less(s) # A
      BY <2>1, OneLess
    <3>2. less(s) \in Good
      BY <1>1, <3>1
    <3>3. QED
      BY <3>1, <3>2
  <2> HIDE DEF G, Good
  <2>2. ASSUME NEW s \in SUBSET A, s # {}
        PROVE  h[less(s)] = G(less(s))[less(s)]
    <3> DEFINE t == less(s)
    <3>1. t \in SUBSET A /\ Adds(G(t), f, t)
      BY <2>1, <2>2
    <3>2. CASE t = {}
      BY <3>1, <3>2 DEF Adds
    <3>3. CASE t # {}
      <4>1. Adds(G(less(t)), f, less(t)) /\ less(t) \subseteq t
        BY <2>1, <3>1, <3>3
      <4>2. G(t)[less(t)] = G(less(t))[less(t)]
        BY <3>1, <4>1, AddsAlike
      <4>3. G(t)[t] = f[Chosen(t)] + G(t)[less(t)]
        BY <3>1, <3>3 DEF Adds
      <4>4. h[t] = f[Chosen(t)] + G(less(t))[less(t)]
        BY <3>1, <3>3
      <4>5. QED
        BY <4>2, <4>3, <4>4
    <3>4. QED
      BY <3>2, <3>3
  <2>3. h = [s \in SUBSET A |-> IF s = {} THEN 0 ELSE f[Chosen(s)] + h[less(s)]]
    <3>1. \A s \in SUBSET A :
            h[s] = IF s = {} THEN 0 ELSE f[Chosen(s)] + h[less(s)]
      BY <2>2
    <3>2. h = [s \in SUBSET A |-> h[s]]
      OBVIOUS
    <3> HIDE DEF h
    <3>3. QED
      BY <3>1, <3>2
  <2>4. Adds(h, f, A)
    BY <2>3 DEF Adds
  <2>5. QED
    BY <2>4 DEF Good
<1>2. SUBSET S \subseteq Good
  <2> HIDE DEF Good
  <2> QED
    BY <1>1, SubsetInduction
<1>3. QED
  BY <1>2

LEMMA SumAdds ==
  ASSUME NEW f, NEW S, IsFiniteSet(S)
  PROVE  \E g : Adds(g, f, S) /\ SumOf(f, S) = g[S]
<1>1. PICK g : Adds(g, f, S)
  BY AddsExists
<1>2. QED
  BY <1>1 DEF Adds, SumOf, Chosen, MapThenSumSet, MapThenFoldSet

\* Any such addition has the sum at its end.
LEMMA SumIs ==
  ASSUME NEW S, IsFiniteSet(S), NEW f, NEW g, Adds(g, f, S)
  PROVE  SumOf(f, S) = g[S]
<1>1. PICK h : Adds(h, f, S) /\ SumOf(f, S) = h[S]
  BY SumAdds
<1>2. QED
  BY <1>1, AddsAlike

LEMMA SumOfNone == ASSUME NEW f PROVE SumOf(f, {}) = 0
<1>1. PICK g : Adds(g, f, {}) /\ SumOf(f, {}) = g[{}]
  BY SumAdds, FS_EmptySet
<1>2. QED
  BY <1>1 DEF Adds

\* The sum over a set is that of its parts, as they are chosen.
LEMMA SumChosen ==
  ASSUME NEW f, NEW S, IsFiniteSet(S), S # {}
  PROVE  SumOf(f, S) = f[Chosen(S)] + SumOf(f, S \ {Chosen(S)})
<1> DEFINE R == S \ {Chosen(S)}
<1>1. IsFiniteSet(R) /\ R \subseteq S
  BY FS_RemoveElement
<1>2. PICK g : Adds(g, f, S) /\ SumOf(f, S) = g[S]
  BY SumAdds
<1>3. PICK h : Adds(h, f, R) /\ SumOf(f, R) = h[R]
  BY <1>1, SumAdds
<1>4. R \in SUBSET (S \cap R)
  OBVIOUS
<1>5. g[R] = h[R]
  BY <1>1, <1>2, <1>3, <1>4, AddsAlike
<1>6. g[S] = f[Chosen(S)] + g[R]
  BY <1>2 DEF Adds
<1>7. QED
  BY <1>2, <1>3, <1>5, <1>6

LEMMA SumType ==
  ASSUME NEW S, IsFiniteSet(S), NEW f, \A x \in S : f[x] \in Int
  PROVE  SumOf(f, S) \in Int
<1> DEFINE Good == {s \in SUBSET S : SumOf(f, s) \in Int}
<1>1. ASSUME NEW s \in SUBSET S, \A t \in SUBSET s : t # s => t \in Good
      PROVE  s \in Good
  <2>1. CASE s = {}
    BY <2>1, SumOfNone
  <2>2. CASE s # {}
    <3>1. SumOf(f, s \ {Chosen(s)}) \in Int /\ f[Chosen(s)] \in Int
      BY <1>1, <2>2, OneLess
    <3>2. SumOf(f, s) = f[Chosen(s)] + SumOf(f, s \ {Chosen(s)})
      BY <2>2, FS_Subset, SumChosen
    <3>3. QED
      BY <3>1, <3>2
  <2>3. QED
    BY <2>1, <2>2
<1>2. SUBSET S \subseteq Good
  <2> HIDE DEF Good
  <2> QED
    BY <1>1, SubsetInduction
<1>3. QED
  BY <1>2

\* The sums of functions that agree on the set are the same.
LEMMA SumSame ==
  ASSUME NEW S, IsFiniteSet(S), NEW f, NEW g, \A x \in S : f[x] = g[x]
  PROVE  SumOf(f, S) = SumOf(g, S)
<1> DEFINE Good == {s \in SUBSET S : SumOf(f, s) = SumOf(g, s)}
<1>1. ASSUME NEW s \in SUBSET S, \A t \in SUBSET s : t # s => t \in Good
      PROVE  s \in Good
  <2>1. CASE s = {}
    BY <2>1, SumOfNone
  <2>2. CASE s # {}
    <3>1. /\ SumOf(f, s \ {Chosen(s)}) = SumOf(g, s \ {Chosen(s)})
          /\ f[Chosen(s)] = g[Chosen(s)]
      BY <1>1, <2>2, OneLess
    <3>2. /\ SumOf(f, s) = f[Chosen(s)] + SumOf(f, s \ {Chosen(s)})
          /\ SumOf(g, s) = g[Chosen(s)] + SumOf(g, s \ {Chosen(s)})
      BY <2>2, FS_Subset, SumChosen
    <3>3. QED
      BY <3>1, <3>2
  <2>3. QED
    BY <2>1, <2>2
<1>2. SUBSET S \subseteq Good
  <2> HIDE DEF Good
  <2> QED
    BY <1>1, SubsetInduction
<1>3. QED
  BY <1>2

LEMMA SumOfZeros ==
  ASSUME NEW S, IsFiniteSet(S), NEW f, \A x \in S : f[x] = 0
  PROVE  SumOf(f, S) = 0
<1> DEFINE Good == {s \in SUBSET S : SumOf(f, s) = 0}
<1>1. ASSUME NEW s \in SUBSET S, \A t \in SUBSET s : t # s => t \in Good
      PROVE  s \in Good
  <2>1. CASE s = {}
    BY <2>1, SumOfNone
  <2>2. CASE s # {}
    <3>1. SumOf(f, s \ {Chosen(s)}) = 0 /\ f[Chosen(s)] = 0
      BY <1>1, <2>2, OneLess
    <3>2. SumOf(f, s) = f[Chosen(s)] + SumOf(f, s \ {Chosen(s)})
      BY <2>2, FS_Subset, SumChosen
    <3>3. QED
      BY <3>1, <3>2
  <2>3. QED
    BY <2>1, <2>2
<1>2. SUBSET S \subseteq Good
  <2> HIDE DEF Good
  <2> QED
    BY <1>1, SubsetInduction
<1>3. QED
  BY <1>2

\* Whichever element is taken out.
LEMMA SumRemove ==
  ASSUME NEW S, IsFiniteSet(S), NEW f, \A x \in S : f[x] \in Int
  PROVE  \A x \in S : SumOf(f, S) = f[x] + SumOf(f, S \ {x})
<1> DEFINE Good == {s \in SUBSET S : \A x \in s : SumOf(f, s) = f[x] + SumOf(f, s \ {x})}
<1>1. ASSUME NEW s \in SUBSET S, \A t \in SUBSET s : t # s => t \in Good
      PROVE  s \in Good
  <2> SUFFICES ASSUME NEW x \in s PROVE SumOf(f, s) = f[x] + SumOf(f, s \ {x})
    OBVIOUS
  <2> DEFINE c == Chosen(s)
  <2>1. c \in s
    BY OneLess
  <2>2. \A t \in SUBSET S : IsFiniteSet(t) /\ SumOf(f, t) \in Int
    BY FS_Subset, SumType
  <2>3. SumOf(f, s) = f[c] + SumOf(f, s \ {c})
    BY <2>2, SumChosen
  <2>4. CASE c = x
    BY <2>3, <2>4
  <2>5. CASE c # x
    <3> DEFINE rest == s \ {c, x}
    <3>1. (s \ {c}) \ {x} = rest /\ (s \ {x}) \ {c} = rest
      OBVIOUS
    <3>2. s \ {c} \in Good /\ s \ {x} \in Good
      BY <1>1, <2>1
    <3>3. /\ SumOf(f, s \ {c}) = f[x] + SumOf(f, rest)
          /\ SumOf(f, s \ {x}) = f[c] + SumOf(f, rest)
      BY <2>1, <2>5, <3>1, <3>2
    <3>4. f[c] \in Int /\ f[x] \in Int /\ SumOf(f, rest) \in Int
      BY <2>1, <2>2
    <3>5. QED
      BY <2>3, <3>3, <3>4
  <2>6. QED
    BY <2>4, <2>5
<1>2. SUBSET S \subseteq Good
  <2> HIDE DEF Good
  <2> QED
    BY <1>1, SubsetInduction
<1>3. QED
  BY <1>2

\* One more.
LEMMA SumAdd ==
  ASSUME NEW S, IsFiniteSet(S), NEW x, x \notin S, NEW f, \A y \in S \cup {x} : f[y] \in Int
  PROVE  SumOf(f, S \cup {x}) = SumOf(f, S) + f[x]
<1>1. IsFiniteSet(S \cup {x}) /\ (S \cup {x}) \ {x} = S
  BY FS_AddElement
<1>2. SumOf(f, S \cup {x}) = f[x] + SumOf(f, S)
  BY <1>1, SumRemove
<1>3. SumOf(f, S) \in Int
  BY SumType
<1>4. QED
  BY <1>2, <1>3

\* A change at one element changes the sum by as much.
LEMMA SumChange ==
  ASSUME NEW S, IsFiniteSet(S), NEW x \in S, NEW f, NEW g,
         \A y \in S : f[y] \in Int /\ g[y] \in Int,
         \A y \in S \ {x} : f[y] = g[y]
  PROVE  SumOf(g, S) = SumOf(f, S) + g[x] - f[x]
<1>1. IsFiniteSet(S \ {x})
  BY FS_RemoveElement
<1>2. SumOf(g, S \ {x}) = SumOf(f, S \ {x})
  BY <1>1, SumSame
<1>3. SumOf(f, S) = f[x] + SumOf(f, S \ {x}) /\ SumOf(g, S) = g[x] + SumOf(g, S \ {x})
  BY SumRemove
<1>4. SumOf(f, S \ {x}) \in Int
  BY <1>1, SumType
<1>5. QED
  BY <1>2, <1>3, <1>4

\* A sum of naturals is one, and no less than that of some of them.
LEMMA SumNat ==
  ASSUME NEW S, IsFiniteSet(S), NEW f, \A x \in S : f[x] \in Nat
  PROVE  /\ SumOf(f, S) \in Nat
         /\ \A x \in S : f[x] <= SumOf(f, S)
<1> DEFINE Good == {s \in SUBSET S : SumOf(f, s) \in Nat}
<1>1. ASSUME NEW s \in SUBSET S, \A t \in SUBSET s : t # s => t \in Good
      PROVE  s \in Good
  <2>1. CASE s = {}
    BY <2>1, SumOfNone
  <2>2. CASE s # {}
    <3>1. SumOf(f, s \ {Chosen(s)}) \in Nat /\ f[Chosen(s)] \in Nat
      BY <1>1, <2>2, OneLess
    <3>2. SumOf(f, s) = f[Chosen(s)] + SumOf(f, s \ {Chosen(s)})
      BY <2>2, FS_Subset, SumChosen
    <3>3. QED
      BY <3>1, <3>2
  <2>3. QED
    BY <2>1, <2>2
<1>2. SUBSET S \subseteq Good
  <2> HIDE DEF Good
  <2> QED
    BY <1>1, SubsetInduction
<1>3. ASSUME NEW x \in S PROVE f[x] <= SumOf(f, S)
  <2>1. SumOf(f, S) = f[x] + SumOf(f, S \ {x})
    BY SumRemove
  <2>2. SumOf(f, S \ {x}) \in Nat
    BY <1>2
  <2>3. QED
    BY <2>1, <2>2
<1>4. QED
  BY <1>2, <1>3

\* f on T, and nothing elsewhere.
Within(f, T, S) == [x \in S |-> IF x \in T THEN f[x] ELSE 0]

\* The sum over a part is that over the whole, with nothing for the rest.
LEMMA SumPart ==
  ASSUME NEW S, IsFiniteSet(S), NEW f, NEW W \in SUBSET S, \A x \in W : f[x] \in Int
  PROVE  SumOf(f, W) = SumOf(Within(f, W, S), S)
<1> DEFINE Good == {s \in SUBSET W : SumOf(f, s) = SumOf(Within(f, s, S), S)}
<1>1. ASSUME NEW s \in SUBSET W, \A t \in SUBSET s : t # s => t \in Good
      PROVE  s \in Good
  <2>1. CASE s = {}
    <3>1. \A x \in S : Within(f, {}, S)[x] = 0
      BY DEF Within
    <3>2. QED
      BY <2>1, <3>1, SumOfNone, SumOfZeros
  <2>2. CASE s # {}
    <3> DEFINE c == Chosen(s)
               t == s \ {c}
               old == Within(f, t, S)
               new == Within(f, s, S)
    <3>1. c \in s /\ t \in SUBSET s /\ t # s
      BY <2>2, OneLess
    <3>2. SumOf(f, t) = SumOf(old, S)
      BY <1>1, <3>1
    <3>3. SumOf(f, s) = f[c] + SumOf(f, t)
      BY <2>2, FS_Subset, SumChosen
    <3>4. /\ \A y \in S : old[y] \in Int /\ new[y] \in Int
          /\ \A y \in S \ {c} : old[y] = new[y]
          /\ new[c] = f[c] /\ old[c] = 0 /\ c \in S
      BY <3>1 DEF Within
    <3> HIDE DEF old, new, c
    <3>5. SumOf(new, S) = SumOf(old, S) + new[c] - old[c]
      BY <3>4, SumChange
    <3>6. SumOf(old, S) \in Int
      BY <3>4, SumType
    <3>7. SumOf(f, s) = SumOf(new, S)
      BY <3>2, <3>3, <3>4, <3>5, <3>6
    <3>8. QED
      BY <3>7 DEF new
  <2>3. QED
    BY <2>1, <2>2
<1>2. SUBSET W \subseteq Good
  <2>1. IsFiniteSet(W)
    BY FS_Subset
  <2> HIDE DEF Good
  <2> QED
    BY <1>1, <2>1, SubsetInduction
<1>3. QED
  BY <1>2

\* A sum of no less is no less.
LEMMA SumMonotone ==
  ASSUME NEW S, IsFiniteSet(S), NEW f, NEW g,
         \A x \in S : f[x] \in Int /\ g[x] \in Int /\ f[x] <= g[x]
  PROVE  SumOf(f, S) <= SumOf(g, S)
<1> DEFINE Good == {s \in SUBSET S : SumOf(f, s) <= SumOf(g, s)}
<1>1. ASSUME NEW s \in SUBSET S, \A t \in SUBSET s : t # s => t \in Good
      PROVE  s \in Good
  <2>1. CASE s = {}
    <3>1. SumOf(f, s) = 0 /\ SumOf(g, s) = 0
      BY <2>1, SumOfNone
    <3>2. QED
      BY <3>1
  <2>2. CASE s # {}
    <3> DEFINE c == Chosen(s)
               t == s \ {c}
    <3>1. c \in s /\ t \in SUBSET s /\ t # s /\ IsFiniteSet(s) /\ IsFiniteSet(t)
      BY <2>2, OneLess, FS_Subset
    <3>2. SumOf(f, t) <= SumOf(g, t)
      BY <1>1, <3>1
    <3>3. SumOf(f, s) = f[c] + SumOf(f, t) /\ SumOf(g, s) = g[c] + SumOf(g, t)
      BY <2>2, <3>1, SumChosen
    <3>4. \A x \in t : f[x] \in Int /\ g[x] \in Int
      BY <3>1
    <3>5. SumOf(f, t) \in Int /\ SumOf(g, t) \in Int
      BY <3>1, <3>4, SumType
    <3>6. f[c] \in Int /\ g[c] \in Int /\ f[c] <= g[c]
      BY <3>1
    <3> HIDE DEF c, t
    <3>7. SumOf(f, s) <= SumOf(g, s)
      BY <3>2, <3>3, <3>5, <3>6
    <3>8. QED
      BY <3>7
  <2>3. QED
    BY <2>1, <2>2
<1>2. SUBSET S \subseteq Good
  <2> HIDE DEF Good
  <2> QED
    BY <1>1, SubsetInduction
<1>3. QED
  BY <1>2
\* Sums add up, term by term.
Plus(f, g, S)  == [x \in S |-> f[x] + g[x]]
Minus(f, g, S) == [x \in S |-> f[x] - g[x]]

LEMMA SumPlus ==
  ASSUME NEW S, IsFiniteSet(S), NEW f, NEW g, \A x \in S : f[x] \in Int /\ g[x] \in Int
  PROVE  SumOf(Plus(f, g, S), S) = SumOf(f, S) + SumOf(g, S)
<1> DEFINE h == Plus(f, g, S)
           Good == {s \in SUBSET S : SumOf(h, s) = SumOf(f, s) + SumOf(g, s)}
<1>1. ASSUME NEW s \in SUBSET S, \A t \in SUBSET s : t # s => t \in Good
      PROVE  s \in Good
  <2>1. CASE s = {}
    <3>1. SumOf(h, s) = 0 /\ SumOf(f, s) = 0 /\ SumOf(g, s) = 0
      BY <2>1, SumOfNone
    <3>2. QED
      BY <3>1
  <2>2. CASE s # {}
    <3> DEFINE c == Chosen(s)
               t == s \ {c}
    <3>1. c \in s /\ t \in SUBSET s /\ t # s /\ IsFiniteSet(s) /\ IsFiniteSet(t)
      BY <2>2, OneLess, FS_Subset
    <3>2. SumOf(h, t) = SumOf(f, t) + SumOf(g, t)
      BY <1>1, <3>1
    <3>3. /\ SumOf(f, s) = f[c] + SumOf(f, t) /\ SumOf(g, s) = g[c] + SumOf(g, t)
          /\ SumOf(h, s) = h[c] + SumOf(h, t)
      BY <2>2, <3>1, SumChosen
    <3>4. SumOf(f, t) \in Int /\ SumOf(g, t) \in Int
      BY <3>1, SumType
    <3>5. f[c] \in Int /\ g[c] \in Int /\ h[c] = f[c] + g[c]
      BY <3>1 DEF Plus
    <3> HIDE DEF c, t, h
    <3>6. SumOf(h, s) = SumOf(f, s) + SumOf(g, s)
      BY <3>2, <3>3, <3>4, <3>5
    <3>7. QED
      BY <3>6 DEF h
  <2>3. QED
    BY <2>1, <2>2
<1>2. SUBSET S \subseteq Good
  <2> HIDE DEF Good
  <2> QED
    BY <1>1, SubsetInduction
<1>3. QED
  BY <1>2

LEMMA SumMinus ==
  ASSUME NEW S, IsFiniteSet(S), NEW f, NEW g, \A x \in S : f[x] \in Int /\ g[x] \in Int
  PROVE  SumOf(Minus(f, g, S), S) = SumOf(f, S) - SumOf(g, S)
<1> DEFINE h == Minus(f, g, S)
<1>1. \A x \in S : h[x] \in Int /\ f[x] = Plus(g, h, S)[x]
  BY DEF Plus, Minus
<1>2. SumOf(f, S) = SumOf(Plus(g, h, S), S)
  BY <1>1, SumSame
<1>3. SumOf(f, S) = SumOf(g, S) + SumOf(h, S)
  BY <1>1, <1>2, SumPlus
<1>4. SumOf(g, S) \in Int /\ SumOf(h, S) \in Int
  BY <1>1, SumType
<1>5. QED
  BY <1>3, <1>4

\* A table adds up by rows as by columns.
LEMMA SumSwap ==
  ASSUME NEW S, IsFiniteSet(S), NEW T, IsFiniteSet(T), NEW f,
         \A x \in S, y \in T : f[x][y] \in Int
  PROVE  SumOf([x \in S |-> SumOf(f[x], T)], S)
            = SumOf([y \in T |-> SumOf([x \in S |-> f[x][y]], S)], T)
<1> DEFINE row == [x \in S |-> SumOf(f[x], T)]
           at(y) == [x \in S |-> f[x][y]]
           column(s) == [y \in T |-> SumOf(at(y), s)]
           Good == {s \in SUBSET S : SumOf(row, s) = SumOf(column(s), T)}
<1>1. ASSUME NEW s \in SUBSET S, \A t \in SUBSET s : t # s => t \in Good
      PROVE  s \in Good
  <2>1. CASE s = {}
    <3>1. \A y \in T : column(s)[y] = 0
      BY <2>1, SumOfNone
    <3>2. SumOf(column(s), T) = 0
      BY <3>1, SumOfZeros
    <3>3. SumOf(row, s) = 0
      BY <2>1, SumOfNone
    <3>4. QED
      BY <3>2, <3>3
  <2>2. CASE s # {}
    <3> DEFINE c == Chosen(s)
               t == s \ {c}
    <3>1. /\ c \in s /\ t \in SUBSET s /\ t # s /\ IsFiniteSet(s) /\ IsFiniteSet(t)
          /\ c \in S /\ t \in SUBSET S
      BY <2>2, OneLess, FS_Subset
    <3>2. SumOf(row, t) = SumOf(column(t), T)
      BY <1>1, <3>1
    <3>3. SumOf(row, s) = row[c] + SumOf(row, t)
      BY <2>2, <3>1, SumChosen
    <3>4. row[c] = SumOf(f[c], T) /\ \A y \in T : f[c][y] \in Int
      BY <3>1
    <3>5. \A y \in T : SumOf(at(y), s) = f[c][y] + SumOf(at(y), t)
      <4> SUFFICES ASSUME NEW y \in T PROVE SumOf(at(y), s) = f[c][y] + SumOf(at(y), t)
        OBVIOUS
      <4>1. SumOf(at(y), s) = at(y)[c] + SumOf(at(y), t)
        BY <2>2, <3>1, SumChosen
      <4>2. at(y)[c] = f[c][y]
        BY <3>1
      <4>3. QED
        BY <4>1, <4>2
    <3>6. \A y \in T : SumOf(at(y), t) \in Int
      <4> SUFFICES ASSUME NEW y \in T PROVE SumOf(at(y), t) \in Int
        OBVIOUS
      <4>1. \A x \in t : at(y)[x] \in Int
        BY <3>1
      <4> HIDE DEF at
      <4>2. QED
        BY <3>1, <4>1, SumType
    <3> DEFINE old == column(t)
    <3>7. /\ \A y \in T : old[y] \in Int /\ f[c][y] \in Int
          /\ \A y \in T : column(s)[y] = Plus(f[c], old, T)[y]
      BY <3>4, <3>5, <3>6 DEF Plus
    <3>8. SumOf(column(s), T) = SumOf(Plus(f[c], old, T), T)
      <4> HIDE DEF column, old, c, t
      <4>1. QED
        BY <3>7, SumSame
    <3>9. SumOf(Plus(f[c], old, T), T) = SumOf(f[c], T) + SumOf(old, T)
      <4> HIDE DEF old, c, t
      <4>1. QED
        BY <3>7, SumPlus
    <3>10. SumOf(row, s) = SumOf(column(s), T)
      BY <3>2, <3>3, <3>4, <3>8, <3>9
    <3>11. QED
      BY <3>10
  <2>3. QED
    BY <2>1, <2>2
<1>2. SUBSET S \subseteq Good
  <2> HIDE DEF Good
  <2> QED
    BY <1>1, SubsetInduction
<1>3. S \in Good
  BY <1>2
<1>4. QED
  BY <1>3

\* A sum of ones counts.
LEMMA SumOfOnes ==
  ASSUME NEW S, IsFiniteSet(S), NEW f, \A x \in S : f[x] = 1
  PROVE  SumOf(f, S) = Cardinality(S)
<1> DEFINE Good == {s \in SUBSET S : SumOf(f, s) = Cardinality(s)}
<1>1. ASSUME NEW s \in SUBSET S, \A t \in SUBSET s : t # s => t \in Good
      PROVE  s \in Good
  <2>1. CASE s = {}
    BY <2>1, SumOfNone, FS_EmptySet
  <2>2. CASE s # {}
    <3> DEFINE c == Chosen(s)
               t == s \ {c}
    <3>1. c \in s /\ t \in SUBSET s /\ t # s /\ IsFiniteSet(s)
      BY <2>2, OneLess, FS_Subset
    <3>2. SumOf(f, t) = Cardinality(t)
      BY <1>1, <3>1
    <3>3. SumOf(f, s) = f[c] + SumOf(f, t) /\ f[c] = 1
      BY <2>2, <3>1, SumChosen
    <3>4. Cardinality(t) = Cardinality(s) - 1 /\ Cardinality(s) \in Nat
      BY <3>1, FS_RemoveElement, FS_CardinalityType
    <3>5. QED
      BY <3>2, <3>3, <3>4
  <2>3. QED
    BY <2>1, <2>2
<1>2. SUBSET S \subseteq Good
  <2> HIDE DEF Good
  <2> QED
    BY <1>1, SubsetInduction
<1>3. QED
  BY <1>2

\* Sums agree when what they add up agrees element by element.
LEMMA SumsAgree ==
  ASSUME NEW S, IsFiniteSet(S), NEW a, NEW b, NEW c, NEW d, NEW e, NEW f, NEW g, NEW h,
         \A x \in S : /\ a[x] \in Int /\ b[x] \in Int /\ c[x] \in Int /\ d[x] \in Int
                     /\ e[x] \in Int /\ f[x] \in Int /\ g[x] \in Int /\ h[x] \in Int,
         \A x \in S : a[x] + b[x] + c[x] + d[x] = e[x] + f[x] + g[x] + h[x]
  PROVE  SumOf(a, S) + SumOf(b, S) + SumOf(c, S) + SumOf(d, S)
           = SumOf(e, S) + SumOf(f, S) + SumOf(g, S) + SumOf(h, S)
<1> DEFINE four(p, q, r, s) == Plus(Plus(Plus(p, q, S), r, S), s, S)
<1>1. ASSUME NEW p, NEW q, NEW r, NEW s,
             \A x \in S : p[x] \in Int /\ q[x] \in Int /\ r[x] \in Int /\ s[x] \in Int
      PROVE  /\ SumOf(four(p, q, r, s), S) = SumOf(p, S) + SumOf(q, S) + SumOf(r, S) + SumOf(s, S)
             /\ \A x \in S : four(p, q, r, s)[x] = p[x] + q[x] + r[x] + s[x]
  <2> DEFINE two   == Plus(p, q, S)
             three == Plus(two, r, S)
  <2>1. /\ \A x \in S : two[x] = p[x] + q[x] /\ two[x] \in Int
        /\ SumOf(two, S) = SumOf(p, S) + SumOf(q, S)
    BY <1>1, SumPlus DEF Plus
  <2> HIDE DEF two
  <2>2. /\ \A x \in S : three[x] = two[x] + r[x] /\ three[x] \in Int
        /\ SumOf(three, S) = SumOf(two, S) + SumOf(r, S)
    BY <1>1, <2>1, SumPlus DEF Plus
  <2> HIDE DEF three
  <2>3. /\ \A x \in S : Plus(three, s, S)[x] = three[x] + s[x]
        /\ SumOf(Plus(three, s, S), S) = SumOf(three, S) + SumOf(s, S)
    BY <1>1, <2>2, SumPlus DEF Plus
  <2>4. four(p, q, r, s) = Plus(three, s, S)
    BY DEF two, three
  <2> HIDE DEF four
  <2>5. QED
    BY <2>1, <2>2, <2>3, <2>4
<1> HIDE DEF four
<1>2. /\ SumOf(four(a, b, c, d), S) = SumOf(a, S) + SumOf(b, S) + SumOf(c, S) + SumOf(d, S)
      /\ \A x \in S : four(a, b, c, d)[x] = a[x] + b[x] + c[x] + d[x]
  BY <1>1
<1>3. /\ SumOf(four(e, f, g, h), S) = SumOf(e, S) + SumOf(f, S) + SumOf(g, S) + SumOf(h, S)
      /\ \A x \in S : four(e, f, g, h)[x] = e[x] + f[x] + g[x] + h[x]
  BY <1>1
<1>4. \A x \in S : four(a, b, c, d)[x] = four(e, f, g, h)[x]
  BY <1>2, <1>3
<1>5. SumOf(four(a, b, c, d), S) = SumOf(four(e, f, g, h), S)
  BY <1>4, SumSame
<1>6. QED
  BY <1>2, <1>3, <1>5

\* A multiple of each is a multiple of the sum.
Times(c, f, S) == [x \in S |-> c * f[x]]

LEMMA SumTimes ==
  ASSUME NEW S, IsFiniteSet(S), NEW c \in Int, NEW f, \A x \in S : f[x] \in Int
  PROVE  SumOf(Times(c, f, S), S) = c * SumOf(f, S)
<1> DEFINE h == Times(c, f, S)
           Good == {s \in SUBSET S : SumOf(h, s) = c * SumOf(f, s)}
<1>1. ASSUME NEW s \in SUBSET S, \A t \in SUBSET s : t # s => t \in Good
      PROVE  s \in Good
  <2>1. CASE s = {}
    <3>1. SumOf(h, s) = 0 /\ SumOf(f, s) = 0
      BY <2>1, SumOfNone
    <3>2. QED
      BY <3>1
  <2>2. CASE s # {}
    <3> DEFINE x == Chosen(s)
               t == s \ {x}
    <3>1. x \in s /\ t \in SUBSET s /\ t # s /\ IsFiniteSet(s) /\ IsFiniteSet(t)
      BY <2>2, OneLess, FS_Subset
    <3>2. SumOf(h, t) = c * SumOf(f, t)
      BY <1>1, <3>1
    <3>3. SumOf(f, s) = f[x] + SumOf(f, t) /\ SumOf(h, s) = h[x] + SumOf(h, t)
      BY <2>2, <3>1, SumChosen
    <3>4. SumOf(f, t) \in Int
      BY <3>1, SumType
    <3>5. f[x] \in Int /\ h[x] = c * f[x]
      BY <3>1 DEF Times
    <3> HIDE DEF x, t, h
    <3>6. SumOf(h, s) = c * SumOf(f, s)
      BY <3>2, <3>3, <3>4, <3>5
    <3>7. QED
      BY <3>6 DEF h
  <2>3. QED
    BY <2>1, <2>2
<1>2. SUBSET S \subseteq Good
  <2> HIDE DEF Good
  <2> QED
    BY <1>1, SubsetInduction
<1>3. QED
  BY <1>2

\* A sum of numbers between a and b is between as many a and as many b.
LEMMA SumBetween ==
  ASSUME NEW S, IsFiniteSet(S), NEW a \in Int, NEW b \in Int, NEW f,
         \A x \in S : f[x] \in Int /\ a <= f[x] /\ f[x] <= b
  PROVE  a * Cardinality(S) <= SumOf(f, S) /\ SumOf(f, S) <= b * Cardinality(S)
<1> DEFINE one == [x \in S |-> 1]
           low == Times(a, one, S)
           high == Times(b, one, S)
<1>1. SumOf(one, S) = Cardinality(S) /\ \A x \in S : one[x] \in Int
  BY SumOfOnes
<1>2. \A x \in S : low[x] = a /\ high[x] = b
  BY DEF Times
<1>3. SumOf(low, S) = a * Cardinality(S) /\ SumOf(high, S) = b * Cardinality(S)
  BY <1>1, SumTimes
<1> HIDE DEF low, high
<1>4. SumOf(low, S) <= SumOf(f, S) /\ SumOf(f, S) <= SumOf(high, S)
  BY <1>2, SumMonotone
<1>5. QED
  BY <1>3, <1>4

----------------------------------------------------------------------------
(* Sequences                                                               *)

\* What holds of 0 and goes on holding up to n holds of each number up to n.
LEMMA UpTo ==
  ASSUME NEW n \in Nat, NEW Good, 0 \in Good, \A k \in 0 .. n - 1 : k \in Good => k + 1 \in Good
  PROVE  0 .. n \subseteq Good
<1> DEFINE Fits == {s \in SUBSET (1 .. n) : \A k \in 0 .. n : s = 1 .. k => k \in Good}
<1>1. ASSUME NEW s \in SUBSET (1 .. n), \A t \in SUBSET s : t # s => t \in Fits
      PROVE  s \in Fits
  <2> SUFFICES ASSUME NEW k \in 0 .. n, s = 1 .. k PROVE k \in Good
    OBVIOUS
  <2>1. CASE k = 0
    BY <2>1
  <2>2. CASE k # 0
    <3>1. k - 1 \in 0 .. n - 1 /\ k - 1 \in 0 .. n /\ (k - 1) + 1 = k
      BY <2>2
    <3>2. 1 .. (k - 1) \in SUBSET s /\ k \in s /\ k \notin 1 .. (k - 1)
      BY <2>2
    <3>3. 1 .. (k - 1) \in Fits
      BY <1>1, <3>2
    <3>4. k - 1 \in Good
      BY <3>1, <3>3
    <3>5. QED
      BY <3>1, <3>4
  <2>3. QED
    BY <2>1, <2>2
<1>2. IsFiniteSet(1 .. n)
  BY FS_Interval
<1>3. SUBSET (1 .. n) \subseteq Fits
  <2> DEFINE S == 1 .. n
  <2> HIDE DEF Fits, S
  <2>1. IsFiniteSet(S) /\ \A s \in SUBSET S :
          (\A t \in SUBSET s : t # s => t \in Fits) => s \in Fits
    BY <1>1, <1>2 DEF S
  <2>2. SUBSET S \subseteq Fits
    BY <2>1, SubsetInduction, Zenon
  <2> QED
    BY <2>2 DEF S
<1>4. ASSUME NEW k \in 0 .. n PROVE k \in Good
  <2>1. 1 .. k \in SUBSET (1 .. n)
    OBVIOUS
  <2>2. QED
    BY <1>3, <2>1
<1>5. QED
  BY <1>4

LEMMA IndexesAreFew == ASSUME NEW T, NEW q \in Seq(T) PROVE IsFiniteSet(DOMAIN q)
BY FS_Interval

LEMMA Joined ==
  ASSUME NEW T, NEW u \in Seq(T), NEW v \in Seq(T)
  PROVE  /\ u \o v \in Seq(T) /\ <<>> \o v = v /\ <<>> \in Seq(T)
         /\ Len(u) \in Nat /\ Len(v) \in Nat /\ Len(u \o v) = Len(u) + Len(v)
         /\ DOMAIN u = 1 .. Len(u) /\ DOMAIN (u \o v) = 1 .. Len(u) + Len(v)
         /\ \A i \in 1 .. Len(u) : (u \o v)[i] = u[i]
         /\ \A i \in 1 .. Len(v) : (u \o v)[Len(u) + i] = v[i]
<1>1. /\ u \o v \in Seq(T) /\ <<>> \in Seq(T)
      /\ Len(u) \in Nat /\ Len(v) \in Nat /\ Len(u \o v) = Len(u) + Len(v)
      /\ DOMAIN u = 1 .. Len(u) /\ DOMAIN (u \o v) = 1 .. Len(u) + Len(v)
  OBVIOUS
<1>2. \A i \in 1 .. Len(u) : (u \o v)[i] = u[i]
  OBVIOUS
<1>3. \A i \in 1 .. Len(v) : (u \o v)[Len(u) + i] = v[i]
  OBVIOUS
<1>4. <<>> \o v = v
  OBVIOUS
<1>5. QED
  BY <1>1, <1>2, <1>3, <1>4

\* What FlattenSeq does.
Flat(q) ==
  IF Len(q) = 0 THEN q ELSE
    LET flatten[i \in 1 .. Len(q)] == IF i = 1 THEN q[i] ELSE flatten[i - 1] \o q[i]
    IN flatten[Len(q)]

LEMMA FlatSteps ==
  ASSUME NEW T, NEW q \in Seq(Seq(T))
  PROVE  \E f : /\ f[0] = <<>>
                /\ \A i \in 1 .. Len(q) : f[i] = f[i - 1] \o q[i]
                /\ \A i \in 0 .. Len(q) : f[i] \in Seq(T)
                /\ Flat(q) = f[Len(q)]
<1> DEFINE n == Len(q)
           Q == Seq(T)
           empty == <<>>
           Next1(u, i) == u \o q[i]
           body(g) == [i \in 1 .. n |-> IF i = 1 THEN q[i] ELSE Next1(g[i - 1], i)]
<1>1. n \in Nat /\ DOMAIN q = 1 .. n
  OBVIOUS
<1>2. empty \in Q /\ \A i \in 1 .. n : q[i] \in Q
  OBVIOUS
<1>3. \A i \in 1 .. n : Next1(empty, i) = q[i] /\ \A u \in Q : Next1(u, i) \in Q
  BY <1>2, Joined
<1>4. n = 0 => Flat(q) = empty
  BY DEF Flat
<1>5. n # 0 => Flat(q) = (CHOOSE g : g = body(g))[n]
  BY DEF Flat
<1> HIDE DEF n, Q, empty, Next1
<1> DEFINE Steps(f, k) == /\ f \in [0 .. k -> Q] /\ f[0] = empty
                          /\ \A i \in 1 .. k : f[i] = Next1(f[i - 1], i)
           Good == {k \in 0 .. n : \E f : Steps(f, k)}
<1>6. 0 \in Good
  <2> DEFINE f == [i \in 0 .. 0 |-> empty]
  <2>1. f[0] = empty /\ f \in [0 .. 0 -> Q]
    BY <1>2
  <2> HIDE DEF f
  <2>2. Steps(f, 0)
    BY <2>1
  <2>3. QED
    BY <1>1, <2>2
<1>7. ASSUME NEW k \in 0 .. n - 1, k \in Good PROVE k + 1 \in Good
  <2>1. PICK f : Steps(f, k)
    BY <1>7
  <2> DEFINE new == Next1(f[k], k + 1)
             g == [i \in 0 .. k + 1 |-> IF i <= k THEN f[i] ELSE new]
  <2>2. k \in Nat /\ k + 1 \in 1 .. n /\ k + 1 \in 0 .. n /\ f[k] \in Q
    BY <1>1, <2>1
  <2>3. new \in Q
    BY <1>3, <2>2
  <2> HIDE DEF new
  <2>4. g \in [0 .. k + 1 -> Q]
    BY <2>1, <2>2, <2>3
  <2>5. (\A i \in 0 .. k : g[i] = f[i]) /\ g[k + 1] = new
    BY <2>2
  <2> HIDE DEF g
  <2>6. \A i \in 1 .. k + 1 : g[i] = Next1(g[i - 1], i)
    <3>1. \A i \in 1 .. k + 1 : i - 1 \in 0 .. k /\ ((i \in 1 .. k /\ i \in 0 .. k) \/ i = k + 1)
      BY <2>2
    <3>2. g[k + 1] = Next1(g[(k + 1) - 1], k + 1)
      BY <2>2, <2>5 DEF new
    <3>3. QED
      BY <2>1, <2>5, <3>1, <3>2
  <2>7. Steps(g, k + 1)
    BY <2>1, <2>2, <2>4, <2>5, <2>6
  <2>8. QED
    BY <2>2, <2>7
<1>8. PICK f : Steps(f, n)
  <2> HIDE DEF Good
  <2>1. 0 .. n \subseteq Good
    BY <1>1, <1>6, <1>7, UpTo, Zenon
  <2>2. QED
    BY <1>1, <2>1 DEF Good
<1>9. n # 0 => Flat(q) = f[n]
  <2> SUFFICES ASSUME n # 0 PROVE Flat(q) = f[n]
    OBVIOUS
  <2> DEFINE h == [i \in 1 .. n |-> f[i]]
  <2>1. h = body(h)
    <3>1. f[1] = q[1] /\ 1 \in 1 .. n
      <4>1. f[1] = Next1(f[1 - 1], 1) /\ 1 \in 1 .. n
        BY <1>1, <1>8
      <4>2. QED
        BY <1>3, <1>8, <4>1
    <3>2. \A i \in 1 .. n : i # 1 => i - 1 \in 1 .. n
      BY <1>1
    <3>3. \A i \in 1 .. n : h[i] = IF i = 1 THEN q[i] ELSE Next1(h[i - 1], i)
      BY <1>8, <3>1, <3>2
    <3>4. h = [i \in 1 .. n |-> h[i]]
      OBVIOUS
    <3> HIDE DEF h
    <3>5. QED
      BY <3>3, <3>4
  <2> HIDE DEF h
  <2>2. PICK g : g = body(g) /\ Flat(q) = g[n]
    <3> HIDE DEF body
    <3>1. QED
      BY <1>5, <2>1
  <2> DEFINE Same == {i \in 0 .. n : i # 0 => g[i] = f[i]}
  <2>3. ASSUME NEW i \in 0 .. n - 1, i \in Same PROVE i + 1 \in Same
    <3>1. i + 1 \in 1 .. n /\ i + 1 \in 0 .. n /\ (i + 1) - 1 = i /\ (i + 1 = 1 => i = 0)
      BY <1>1
    <3>2. g[i + 1] = IF i + 1 = 1 THEN q[i + 1] ELSE Next1(g[i], i + 1)
      <4>1. \A j \in 1 .. n : g[j] = IF j = 1 THEN q[j] ELSE Next1(g[j - 1], j)
        BY <2>2
      <4>2. QED
        BY <3>1, <4>1
    <3>3. f[i + 1] = Next1(f[i], i + 1)
      BY <1>8, <3>1
    <3>4. CASE i = 0
      BY <1>3, <1>8, <3>1, <3>2, <3>3, <3>4
    <3>5. CASE i # 0
      BY <2>3, <3>1, <3>2, <3>3, <3>5
    <3>6. QED
      BY <3>4, <3>5
  <2>4. 0 \in Same
    BY <1>1
  <2>5. 0 .. n \subseteq Same
    <3> HIDE DEF Same
    <3>1. QED
      BY <1>1, <2>3, <2>4, UpTo, Zenon
  <2>6. n \in Same
    <3> HIDE DEF Same
    <3> QED
      BY <1>1, <2>5
  <2>7. QED
    BY <2>2, <2>6
<1>10. /\ f[0] = empty /\ \A i \in 1 .. n : f[i] = Next1(f[i - 1], i)
       /\ \A i \in 0 .. n : f[i] \in Q
       /\ Flat(q) = f[n]
  BY <1>4, <1>8, <1>9
<1>11. QED
  BY <1>10 DEF n, Q, empty, Next1

\* One index more.
LEMMA SumNext ==
  ASSUME NEW n \in Nat, NEW f, \A i \in 1 .. n + 1 : f[i] \in Int
  PROVE  SumOf(f, 1 .. n + 1) = SumOf(f, 1 .. n) + f[n + 1]
<1>1. 1 .. n + 1 = (1 .. n) \cup {n + 1} /\ n + 1 \notin 1 .. n /\ IsFiniteSet(1 .. n)
  BY FS_Interval
<1>2. \A y \in (1 .. n) \cup {n + 1} : f[y] \in Int
  BY <1>1
<1> DEFINE S == 1 .. n
           x == n + 1
<1>3. SumOf(f, S \cup {x}) = SumOf(f, S) + f[x]
  <2> HIDE DEF S, x
  <2>1. QED
    BY <1>1, <1>2, SumAdd DEF S, x
<1>4. QED
  BY <1>1, <1>3
=============================================================================
