---------------------------- MODULE SumTheorems ----------------------------
(***************************************************************************)
(* What MapThenSumSet of the community modules computes on finite sets of  *)
(* any size.  It folds a set by a recursive function that takes elements   *)
(* out of it in the order CHOOSE picks them: such a function exists, there *)
(* is only one, and the order does not matter.                             *)
(***************************************************************************)
EXTENDS Integers, FiniteSetsExt, FiniteSetTheorems, TLAPS

Picked(s) == CHOOSE x \in s : TRUE

\* g maps the subsets of S to what f adds up to on them.
SumsUp(g, f, S) ==
    g = [s \in SUBSET S |->
            IF s = {} THEN 0 ELSE f[Picked(s)] + g[s \ {Picked(s)}]]

\* The sum of a function over its domain.
SumOf(f) == MapThenSumSet(LAMBDA x : f[x], DOMAIN f)

-----------------------------------------------------------------------------
(* The sums there are.                                                     *)

\* Subsets of a finite set that are all the same, if those smaller than any are.
LEMMA LeastSubset ==
    ASSUME NEW S, IsFiniteSet(S), NEW T, T \subseteq SUBSET S, T # {}
    PROVE  \E s \in T : \A t \in T : t \subseteq s => t = s
<1>1. IsWellFoundedOn(StrictSubsetOrdering(S), SUBSET S)
  BY FS_StrictSubsetOrderingWellFounded, FS_FiniteSubsetsOfFinite
<1>2. PICK s \in T : \A t \in T : ~(<<t, s>> \in StrictSubsetOrdering(S))
  BY <1>1, WFMin
<1> QED BY <1>2 DEF StrictSubsetOrdering

LEMMA PickedIsIn == ASSUME NEW s, s # {} PROVE Picked(s) \in s
  BY DEF Picked

LEMMA SumsRestrict ==
    ASSUME NEW f, NEW S, NEW g, SumsUp(g, f, S), NEW T \in SUBSET S
    PROVE  SumsUp([s \in SUBSET T |-> g[s]], f, T)
<1> DEFINE h == [s \in SUBSET T |-> g[s]]
<1>1. ASSUME NEW s \in SUBSET T
      PROVE  h[s] = IF s = {} THEN 0 ELSE f[Picked(s)] + h[s \ {Picked(s)}]
  <2>1. s \in SUBSET S /\ s \ {Picked(s)} \in SUBSET T
    OBVIOUS
  <2>2. g[s] = IF s = {} THEN 0 ELSE f[Picked(s)] + g[s \ {Picked(s)}]
    BY <2>1 DEF SumsUp
  <2> QED BY <2>1, <2>2
<1>2. h = [s \in SUBSET T |-> IF s = {} THEN 0 ELSE f[Picked(s)] + h[s \ {Picked(s)}]]
  BY <1>1
<1> QED BY <1>2 DEF SumsUp

LEMMA SumsUnique ==
    ASSUME NEW f, NEW S, IsFiniteSet(S), NEW g, SumsUp(g, f, S), NEW h, SumsUp(h, f, S)
    PROVE  g = h
<1>1. \A s \in SUBSET S :
          /\ g[s] = IF s = {} THEN 0 ELSE f[Picked(s)] + g[s \ {Picked(s)}]
          /\ h[s] = IF s = {} THEN 0 ELSE f[Picked(s)] + h[s \ {Picked(s)}]
  BY DEF SumsUp
<1> DEFINE T == {s \in SUBSET S : g[s] # h[s]}
<1>2. T = {}
  <2> SUFFICES ASSUME T # {} PROVE FALSE
    OBVIOUS
  <2>1. PICK s \in T : \A t \in T : t \subseteq s => t = s
    <3> HIDE DEF T
    <3>1. T \subseteq SUBSET S
      BY DEF T
    <3> QED BY <3>1, LeastSubset
  <2>2. s \in SUBSET S /\ g[s] # h[s] /\ s # {}
    BY <1>1, <2>1
  <2>3. Picked(s) \in s
    BY <2>2, PickedIsIn
  <2>4. s \ {Picked(s)} \in SUBSET S /\ s \ {Picked(s)} # s
    BY <2>2, <2>3
  <2>5. s \ {Picked(s)} \notin T
    BY <2>1, <2>4
  <2>6. g[s \ {Picked(s)}] = h[s \ {Picked(s)}]
    BY <2>4, <2>5
  <2> QED BY <1>1, <2>2, <2>6
<1>3. \A s \in SUBSET S : g[s] = h[s]
  BY <1>2
<1>4. g = [s \in SUBSET S |-> g[s]] /\ h = [s \in SUBSET S |-> h[s]]
  BY DEF SumsUp
<1> QED BY <1>3, <1>4

LEMMA SumsExist ==
    ASSUME NEW f, NEW S, IsFiniteSet(S)
    PROVE  \E g : SumsUp(g, f, S)
<1> DEFINE T == {s \in SUBSET S : ~ \E g : SumsUp(g, f, s)}
<1>1. T = {}
  <2> SUFFICES ASSUME T # {} PROVE FALSE
    OBVIOUS
  <2>1. PICK s \in T : \A t \in T : t \subseteq s => t = s
    <3> HIDE DEF T
    <3>1. T \subseteq SUBSET S
      BY DEF T
    <3> QED BY <3>1, LeastSubset
  <2>2. s \in SUBSET S /\ ~ \E g : SumsUp(g, f, s)
    BY <2>1
  <2> DEFINE Known(t) == CHOOSE g : SumsUp(g, f, t)
             G == [t \in SUBSET s |->
                      IF t = {} THEN 0
                      ELSE f[Picked(t)] + Known(t \ {Picked(t)})[t \ {Picked(t)}]]
  <2>3. ASSUME NEW t \in SUBSET s, t # s PROVE SumsUp(Known(t), f, t)
    <3>1. t \in SUBSET S /\ t \notin T
      BY <2>1, <2>2, <2>3
    <3>2. \E g : SumsUp(g, f, t)
      BY <3>1
    <3> QED BY <3>2
  <2> HIDE DEF Known
  <2>4. ASSUME NEW t \in SUBSET s, t # s PROVE G[t] = Known(t)[t]
    <3>1. SumsUp(Known(t), f, t)
      BY <2>3, <2>4
    <3>2. Known(t)[t] = IF t = {} THEN 0 ELSE f[Picked(t)] + Known(t)[t \ {Picked(t)}]
      BY <3>1 DEF SumsUp
    <3>3. CASE t = {}
      BY <3>2, <3>3
    <3>4. CASE t # {}
      <4> DEFINE u == t \ {Picked(t)}
      <4>1. u \in SUBSET t /\ u \in SUBSET s /\ u # s
        BY <2>4, <3>4, PickedIsIn
      <4>2. SumsUp(Known(u), f, u)
        BY <2>3, <4>1
      <4>3. SumsUp([w \in SUBSET u |-> Known(t)[w]], f, u)
        BY <3>1, <4>1, SumsRestrict
      <4>4. IsFiniteSet(u)
        BY <2>2, <4>1, FS_Subset
      <4>5. [w \in SUBSET u |-> Known(t)[w]] = Known(u)
        BY <4>2, <4>3, <4>4, SumsUnique
      <4>6. Known(t)[u] = Known(u)[u]
        BY <4>5
      <4>7. G[t] = f[Picked(t)] + Known(u)[u]
        BY <3>4
      <4> QED BY <3>2, <3>4, <4>6, <4>7
    <3> QED BY <3>3, <3>4
  <2>5. ASSUME NEW t \in SUBSET s
        PROVE  G[t] = IF t = {} THEN 0 ELSE f[Picked(t)] + G[t \ {Picked(t)}]
    <3>1. CASE t = {}
      BY <3>1
    <3>2. CASE t # {}
      <4>1. t \ {Picked(t)} \in SUBSET s /\ t \ {Picked(t)} # s
        BY <3>2, PickedIsIn
      <4>2. G[t \ {Picked(t)}] = Known(t \ {Picked(t)})[t \ {Picked(t)}]
        BY <2>4, <4>1
      <4>3. G[t] = f[Picked(t)] + Known(t \ {Picked(t)})[t \ {Picked(t)}]
        BY <3>2
      <4> QED BY <3>2, <4>2, <4>3
    <3> QED BY <3>1, <3>2
  <2>6. G = [t \in SUBSET s |-> G[t]]
    OBVIOUS
  <2> HIDE DEF G
  <2>7. G = [t \in SUBSET s |-> IF t = {} THEN 0 ELSE f[Picked(t)] + G[t \ {Picked(t)}]]
    BY <2>5, <2>6
  <2>8. SumsUp(G, f, s)
    BY <2>7 DEF SumsUp
  <2> QED BY <2>2, <2>8
<1>2. S \notin T
  BY <1>1
<1> QED BY <1>2

-----------------------------------------------------------------------------
(* SumOf is one of them, whatever expression MapThenSumSet is given.       *)

LEMMA SumOfSums ==
    ASSUME NEW f, NEW S, DOMAIN f = S, IsFiniteSet(S)
    PROVE  \E g : SumsUp(g, f, S) /\ SumOf(f) = g[S]
<1> DEFINE iter == CHOOSE g : SumsUp(g, f, S)
<1>1. SumsUp(iter, f, S)
  BY SumsExist
<1>2. SumOf(f) = iter[S]
  BY DEF SumOf, MapThenSumSet, MapThenFoldSet, SumsUp, Picked
<1> QED BY <1>1, <1>2

LEMMA SumIs ==
    ASSUME NEW f, NEW S, DOMAIN f = S, IsFiniteSet(S), NEW g, SumsUp(g, f, S)
    PROVE  SumOf(f) = g[S]
<1>1. PICK h : SumsUp(h, f, S) /\ SumOf(f) = h[S]
  BY SumOfSums
<1> QED BY <1>1, SumsUnique

\* Sums are numbers, and any element may be taken out first.
LEMMA SumsInAnyOrder ==
    ASSUME NEW S, IsFiniteSet(S), NEW f \in [S -> Int], NEW g, SumsUp(g, f, S)
    PROVE  \A s \in SUBSET S : g[s] \in Int /\ \A x \in s : g[s] = f[x] + g[s \ {x}]
<1>1. \A s \in SUBSET S : g[s] = IF s = {} THEN 0 ELSE f[Picked(s)] + g[s \ {Picked(s)}]
  BY DEF SumsUp
<1> DEFINE T == {s \in SUBSET S : ~(g[s] \in Int /\ \A x \in s : g[s] = f[x] + g[s \ {x}])}
<1>2. T = {}
  <2> SUFFICES ASSUME T # {} PROVE FALSE
    OBVIOUS
  <2>1. PICK s \in T : \A t \in T : t \subseteq s => t = s
    <3> HIDE DEF T
    <3>1. T \subseteq SUBSET S
      BY DEF T
    <3> QED BY <3>1, LeastSubset
  <2>2. /\ s \in SUBSET S
        /\ ~(g[s] \in Int /\ \A x \in s : g[s] = f[x] + g[s \ {x}])
    BY <2>1
  <2>3. ASSUME NEW t \in SUBSET s, t # s
        PROVE  g[t] \in Int /\ \A x \in t : g[t] = f[x] + g[t \ {x}]
    BY <2>1, <2>2, <2>3
  <2>4. s # {}
    <3>1. s = {} => g[s] = 0
      BY <1>1, <2>2
    <3> QED BY <2>2, <3>1
  <2> DEFINE c == Picked(s)
  <2>5. c \in s /\ f[c] \in Int /\ g[s] = f[c] + g[s \ {c}]
    BY <1>1, <2>2, <2>4, PickedIsIn
  <2>6. g[s \ {c}] \in Int
    BY <2>3, <2>5
  <2>7. ASSUME NEW x \in s, x # c PROVE g[s] = f[x] + g[s \ {x}]
    <3>1. /\ g[s \ {c}] = f[x] + g[(s \ {c}) \ {x}] /\ g[(s \ {c}) \ {x}] \in Int
      <4>1. s \ {c} \in SUBSET s /\ s \ {c} # s /\ x \in s \ {c}
        BY <2>5, <2>7
      <4>2. (s \ {c}) \ {x} \in SUBSET s /\ (s \ {c}) \ {x} # s
        BY <2>5
      <4> QED BY <2>3, <4>1, <4>2
    <3>2. g[s \ {x}] = f[c] + g[(s \ {x}) \ {c}]
      <4>1. s \ {x} \in SUBSET s /\ s \ {x} # s /\ c \in s \ {x}
        BY <2>5, <2>7
      <4> QED BY <2>3, <4>1
    <3>3. (s \ {x}) \ {c} = (s \ {c}) \ {x}
      OBVIOUS
    <3>4. f[x] \in Int
      BY <2>2
    <3> HIDE DEF c
    <3>5. PICK n \in Int : n = g[(s \ {c}) \ {x}]
      BY <3>1
    <3>6. g[s \ {c}] = f[x] + n /\ g[s \ {x}] = f[c] + n
      BY <3>1, <3>2, <3>3, <3>5
    <3>7. g[s] = f[c] + (f[x] + n) /\ f[c] \in Int
      BY <2>5, <3>6
    <3> QED BY <3>4, <3>6, <3>7
  <2>8. \A x \in s : g[s] = f[x] + g[s \ {x}]
    BY <2>5, <2>7
  <2>9. g[s] \in Int
    BY <2>5, <2>6
  <2> QED BY <2>2, <2>8, <2>9
<1> QED BY <1>2

-----------------------------------------------------------------------------
(* What follows about SumOf.                                               *)

LEMMA SumOfType ==
    ASSUME NEW S, IsFiniteSet(S), NEW f \in [S -> Int]
    PROVE  SumOf(f) \in Int
<1>1. PICK g : SumsUp(g, f, S) /\ SumOf(f) = g[S]
  BY SumOfSums
<1> QED BY <1>1, SumsInAnyOrder

LEMMA SumOfEmpty == ASSUME NEW f, DOMAIN f = {} PROVE SumOf(f) = 0
<1>1. PICK g : SumsUp(g, f, {}) /\ SumOf(f) = g[{}]
  BY FS_EmptySet, SumOfSums
<1> QED BY <1>1 DEF SumsUp

\* One element of the domain more.
LEMMA SumOfExtended ==
    ASSUME NEW S, IsFiniteSet(S), NEW x \in S, NEW f \in [S -> Int]
    PROVE  SumOf(f) = f[x] + SumOf([y \in S \ {x} |-> f[y]])
<1> DEFINE R == S \ {x}
           h == [y \in R |-> f[y]]
<1>1. PICK g : SumsUp(g, f, S) /\ SumOf(f) = g[S]
  BY SumOfSums
<1>2. R \in SUBSET S /\ IsFiniteSet(R)
  BY FS_Subset
<1>4. SumsUp([s \in SUBSET R |-> g[s]], f, R)
  BY <1>1, <1>2, SumsRestrict
<1> DEFINE q == [s \in SUBSET R |-> g[s]]
<1>5. SumsUp(q, h, R)
  <2>1. q = [s \in SUBSET R |-> IF s = {} THEN 0 ELSE f[Picked(s)] + q[s \ {Picked(s)}]]
    BY <1>4 DEF SumsUp
  <2>2. \A s \in SUBSET R : s # {} => f[Picked(s)] = h[Picked(s)]
    BY PickedIsIn
  <2> HIDE DEF q, h
  <2>3. q = [s \in SUBSET R |-> IF s = {} THEN 0 ELSE h[Picked(s)] + q[s \ {Picked(s)}]]
    BY <2>1, <2>2
  <2> QED BY <2>3 DEF SumsUp
<1>6. DOMAIN h = R /\ q[R] = g[R]
  OBVIOUS
<1>7. g[R] = SumOf(h)
  <2> HIDE DEF q, h
  <2> QED BY <1>2, <1>5, <1>6, SumIs
<1>8. g[S] = f[x] + g[R]
  <2>1. S \in SUBSET S
    OBVIOUS
  <2>2. \A y \in S : g[S] = f[y] + g[S \ {y}]
    BY <1>1, <2>1, SumsInAnyOrder
  <2> QED BY <2>2
<1> QED BY <1>1, <1>7, <1>8

\* The same for two functions that agree where both are defined.
LEMMA SumOfExtension ==
    ASSUME NEW S, IsFiniteSet(S), NEW x \in S, NEW f \in [S \ {x} -> Int], NEW g \in [S -> Int],
           \A y \in S \ {x} : g[y] = f[y]
    PROVE  SumOf(g) = g[x] + SumOf(f)
<1>1. SumOf(g) = g[x] + SumOf([y \in S \ {x} |-> g[y]])
  BY SumOfExtended
<1>2. [y \in S \ {x} |-> g[y]] = f
  OBVIOUS
<1> QED BY <1>1, <1>2

\* One term changes.
LEMMA SumOfUpdated ==
    ASSUME NEW S, IsFiniteSet(S), NEW x \in S, NEW f \in [S -> Int], NEW g \in [S -> Int],
           \A y \in S \ {x} : g[y] = f[y]
    PROVE  SumOf(g) = SumOf(f) + (g[x] - f[x])
<1> DEFINE R == S \ {x}
           fr == [y \in R |-> f[y]]
           gr == [y \in R |-> g[y]]
<1>1. fr = gr
  OBVIOUS
<1>2. SumOf(f) = f[x] + SumOf(fr) /\ SumOf(g) = g[x] + SumOf(gr)
  BY SumOfExtended
<1>3. IsFiniteSet(R) /\ fr \in [R -> Int]
  BY FS_Subset
<1>4. SumOf(fr) \in Int
  BY <1>3, SumOfType
<1>5. f[x] \in Int /\ g[x] \in Int
  OBVIOUS
<1> HIDE DEF fr, gr
<1> QED BY <1>1, <1>2, <1>4, <1>5

\* Sums add up term by term.
LEMMA SumOfSum ==
    ASSUME NEW S, IsFiniteSet(S), NEW f \in [S -> Int], NEW g \in [S -> Int], NEW h \in [S -> Int],
           \A y \in S : h[y] = f[y] + g[y]
    PROVE  SumOf(h) = SumOf(f) + SumOf(g)
<1>1. PICK a : SumsUp(a, f, S) /\ SumOf(f) = a[S]
  BY SumOfSums
<1>2. PICK b : SumsUp(b, g, S) /\ SumOf(g) = b[S]
  BY SumOfSums
<1> DEFINE d == [s \in SUBSET S |-> a[s] + b[s]]
<1>4. ASSUME NEW s \in SUBSET S
      PROVE  d[s] = IF s = {} THEN 0 ELSE h[Picked(s)] + d[s \ {Picked(s)}]
  <2>1. /\ a[s] = IF s = {} THEN 0 ELSE f[Picked(s)] + a[s \ {Picked(s)}]
        /\ b[s] = IF s = {} THEN 0 ELSE g[Picked(s)] + b[s \ {Picked(s)}]
    BY <1>1, <1>2 DEF SumsUp
  <2>2. CASE s = {}
    BY <2>1, <2>2
  <2>3. CASE s # {}
    <3>1. Picked(s) \in S /\ s \ {Picked(s)} \in SUBSET S
      BY <2>3, PickedIsIn
    <3>2. a[s \ {Picked(s)}] \in Int /\ b[s \ {Picked(s)}] \in Int
      BY <1>1, <1>2, <3>1, SumsInAnyOrder
    <3>3. f[Picked(s)] \in Int /\ g[Picked(s)] \in Int
          /\ h[Picked(s)] = f[Picked(s)] + g[Picked(s)]
      BY <3>1
    <3> QED BY <2>1, <2>3, <3>1, <3>2, <3>3
  <2> QED BY <2>2, <2>3
<1>5. SumsUp(d, h, S)
  <2>1. d = [s \in SUBSET S |-> d[s]]
    OBVIOUS
  <2> HIDE DEF d
  <2>2. d = [s \in SUBSET S |-> IF s = {} THEN 0 ELSE h[Picked(s)] + d[s \ {Picked(s)}]]
    BY <1>4, <2>1
  <2> QED BY <2>2 DEF SumsUp
<1>6. d[S] = a[S] + b[S]
  OBVIOUS
<1>7. SumOf(h) = d[S]
  <2> HIDE DEF d
  <2> QED BY <1>5, SumIs
<1> QED BY <1>1, <1>2, <1>6, <1>7

LEMMA SumOfZero ==
    ASSUME NEW S, IsFiniteSet(S), NEW f, f = [x \in S |-> 0]
    PROVE  SumOf(f) = 0
<1>1. f \in [S -> Int] /\ \A x \in S : f[x] = f[x] + f[x]
  OBVIOUS
<1>2. PICK n \in Int : n = SumOf(f)
  BY <1>1, SumOfType
<1>3. SumOf(f) = SumOf(f) + SumOf(f)
  BY <1>1, SumOfSum
<1>4. n = n + n
  BY <1>2, <1>3
<1>5. \A m \in Int : m = m + m => m = 0
  OBVIOUS
<1> QED BY <1>2, <1>4, <1>5

\* Terms that are zero may be left out.
LEMMA SumOfPart ==
    ASSUME NEW S, IsFiniteSet(S), NEW f \in [S -> Int], NEW T \in SUBSET S,
           \A x \in S \ T : f[x] = 0
    PROVE  SumOf(f) = SumOf([x \in T |-> f[x]])
<1>1. PICK g : SumsUp(g, f, S) /\ SumOf(f) = g[S]
  BY SumOfSums
<1>2. \A s \in SUBSET S : g[s] \in Int /\ \A x \in s : g[s] = f[x] + g[s \ {x}]
  BY <1>1, SumsInAnyOrder
<1> DEFINE B == {s \in SUBSET S : g[s] # g[s \cap T]}
<1>3. B = {}
  <2> SUFFICES ASSUME B # {} PROVE FALSE
    OBVIOUS
  <2>1. PICK s \in B : \A t \in B : t \subseteq s => t = s
    <3> HIDE DEF B
    <3>1. B \subseteq SUBSET S
      BY DEF B
    <3> QED BY <3>1, LeastSubset
  <2>2. s \in SUBSET S /\ g[s] # g[s \cap T]
    BY <2>1
  <2>3. PICK x \in s : x \notin T
    <3>1. s \cap T # s
      BY <2>2
    <3> QED BY <3>1
  <2>4. s \ {x} \in SUBSET S /\ s \ {x} # s /\ (s \ {x}) \cap T = s \cap T
    BY <2>2, <2>3
  <2>5. g[s \ {x}] = g[s \cap T]
    BY <2>1, <2>4
  <2>6. f[x] = 0 /\ g[s] = f[x] + g[s \ {x}] /\ g[s \ {x}] \in Int
    BY <1>2, <2>2, <2>3, <2>4
  <2>7. g[s] = g[s \ {x}]
    <3>1. PICK n \in Int : n = g[s \ {x}]
      BY <2>6
    <3>2. g[s] = 0 + n
      BY <2>6, <3>1
    <3> QED BY <3>1, <3>2
  <2> QED BY <2>2, <2>5, <2>7
<1>4. g[S] = g[T]
  <2>1. S \in SUBSET S /\ S \cap T = T /\ S \notin B
    BY <1>3
  <2> QED BY <2>1
<1> DEFINE h == [x \in T |-> f[x]]
           q == [s \in SUBSET T |-> g[s]]
<1>5. SumsUp(q, h, T)
  <2>1. SumsUp(q, f, T)
    BY <1>1, SumsRestrict
  <2>2. q = [s \in SUBSET T |-> IF s = {} THEN 0 ELSE f[Picked(s)] + q[s \ {Picked(s)}]]
    BY <2>1 DEF SumsUp
  <2>3. \A s \in SUBSET T : s # {} => f[Picked(s)] = h[Picked(s)]
    BY PickedIsIn
  <2> HIDE DEF q, h
  <2>4. q = [s \in SUBSET T |-> IF s = {} THEN 0 ELSE h[Picked(s)] + q[s \ {Picked(s)}]]
    BY <2>2, <2>3
  <2> QED BY <2>4 DEF SumsUp
<1>6. q[T] = g[T] /\ IsFiniteSet(T) /\ DOMAIN h = T
  BY FS_Subset
<1> HIDE DEF q, h
<1>7. SumOf(h) = q[T]
  BY <1>5, <1>6, SumIs
<1> QED BY <1>1, <1>4, <1>6, <1>7 DEF h

\* A factor may be taken out.
LEMMA SumOfScaled ==
    ASSUME NEW S, IsFiniteSet(S), NEW f \in [S -> Int], NEW c \in Int, NEW h \in [S -> Int],
           \A y \in S : h[y] = c * f[y]
    PROVE  SumOf(h) = c * SumOf(f)
<1>1. PICK a : SumsUp(a, f, S) /\ SumOf(f) = a[S]
  BY SumOfSums
<1>2. \A s \in SUBSET S : a[s] \in Int /\ a[s] = IF s = {} THEN 0 ELSE f[Picked(s)] + a[s \ {Picked(s)}]
  BY <1>1, SumsInAnyOrder DEF SumsUp
<1> DEFINE d == [s \in SUBSET S |-> c * a[s]]
<1>3. ASSUME NEW s \in SUBSET S
      PROVE  d[s] = IF s = {} THEN 0 ELSE h[Picked(s)] + d[s \ {Picked(s)}]
  <2>1. CASE s = {}
    <3>1. a[s] = 0
      BY <1>2, <2>1
    <3> QED BY <2>1, <3>1
  <2>2. CASE s # {}
    <3>1. PICK x \in S : x = Picked(s)
      BY <2>2, PickedIsIn
    <3>2. s \ {x} \in SUBSET S
      OBVIOUS
    <3>3. PICK m \in Int, n \in Int, k \in Int : m = f[x] /\ n = a[s \ {x}] /\ k = a[s]
      BY <1>2, <3>2
    <3>4. k = m + n
      BY <1>2, <2>2, <3>1, <3>3
    <3>5. c * k = c * m + c * n
      BY <3>4
    <3>6. d[s] = c * k /\ d[s \ {x}] = c * n /\ h[x] = c * m
      BY <3>2, <3>3
    <3> QED BY <2>2, <3>1, <3>5, <3>6
  <2> QED BY <2>1, <2>2
<1>4. SumsUp(d, h, S)
  BY <1>3 DEF SumsUp
<1> HIDE DEF d
<1>5. SumOf(h) = d[S]
  BY <1>4, SumIs
<1> QED BY <1>1, <1>5 DEF d

\* Terms that are small add up to no more than as many times the largest.
LEMMA SumOfBounded ==
    ASSUME NEW S, IsFiniteSet(S), NEW f \in [S -> Int], NEW e \in Nat,
           \A y \in S : -e <= f[y] /\ f[y] <= e
    PROVE  -(e * Cardinality(S)) <= SumOf(f) /\ SumOf(f) <= e * Cardinality(S)
<1>1. PICK g : SumsUp(g, f, S) /\ SumOf(f) = g[S]
  BY SumOfSums
<1>2. \A s \in SUBSET S : g[s] \in Int /\ g[s] = IF s = {} THEN 0 ELSE f[Picked(s)] + g[s \ {Picked(s)}]
  BY <1>1, SumsInAnyOrder DEF SumsUp
<1> DEFINE Small(s) == -(e * Cardinality(s)) <= g[s] /\ g[s] <= e * Cardinality(s)
           T == {s \in SUBSET S : ~Small(s)}
<1>3. T = {}
  <2> SUFFICES ASSUME T # {} PROVE FALSE
    OBVIOUS
  <2>1. PICK s \in T : \A t \in T : t \subseteq s => t = s
    <3> HIDE DEF T
    <3>1. T \subseteq SUBSET S
      BY DEF T
    <3> QED BY <3>1, LeastSubset
  <2>2. s \in SUBSET S /\ IsFiniteSet(s)
    BY FS_Subset
  <2>3. CASE s = {}
    <3>1. g[s] = 0 /\ Cardinality(s) = 0
      BY <1>2, <2>3, FS_EmptySet
    <3> QED BY <3>1
  <2>4. CASE s # {}
    <3>1. PICK x \in s : x = Picked(s)
      BY <2>4, PickedIsIn
    <3>2. s \ {x} \in SUBSET S /\ s \ {x} # s
      BY <2>2
    <3>3. Small(s \ {x})
      BY <2>1, <3>2
    <3>4. PICK n \in Nat : n = Cardinality(s \ {x}) /\ Cardinality(s) = n + 1
      <4>1. IsFiniteSet(s \ {x}) /\ Cardinality(s \ {x}) = Cardinality(s) - 1
        BY <2>2, FS_RemoveElement
      <4>2. Cardinality(s) \in Nat /\ Cardinality(s \ {x}) \in Nat
        BY <2>2, <4>1, FS_CardinalityType
      <4> QED BY <4>1, <4>2
    <3>5. PICK m \in Int, k \in Int, j \in Int : m = f[x] /\ k = g[s \ {x}] /\ j = g[s]
      BY <1>2, <2>2, <3>2
    <3>6. j = m + k /\ -e <= m /\ m <= e
      BY <1>2, <2>2, <2>4, <3>1, <3>5
    <3>7. -(e * n) <= k /\ k <= e * n
      BY <3>3, <3>4, <3>5
    <3>8. e * (n + 1) = e * n + e /\ e * n \in Nat
      OBVIOUS
    <3>9. -(e * (n + 1)) <= j /\ j <= e * (n + 1)
      BY <3>6, <3>7, <3>8
    <3> QED BY <3>4, <3>5, <3>9
  <2> QED BY <2>3, <2>4
<1>4. Small(S)
  BY <1>3
<1> QED BY <1>1, <1>4

LEMMA SumOfNats ==
    ASSUME NEW S, IsFiniteSet(S), NEW f \in [S -> Nat]
    PROVE  SumOf(f) \in Nat
<1>1. PICK g : SumsUp(g, f, S) /\ SumOf(f) = g[S]
  BY SumOfSums
<1>2. \A s \in SUBSET S : g[s] = IF s = {} THEN 0 ELSE f[Picked(s)] + g[s \ {Picked(s)}]
  BY <1>1 DEF SumsUp
<1> DEFINE T == {s \in SUBSET S : g[s] \notin Nat}
<1>3. T = {}
  <2> SUFFICES ASSUME T # {} PROVE FALSE
    OBVIOUS
  <2>1. PICK s \in T : \A t \in T : t \subseteq s => t = s
    <3> HIDE DEF T
    <3>1. T \subseteq SUBSET S
      BY DEF T
    <3> QED BY <3>1, LeastSubset
  <2>2. s \in SUBSET S /\ g[s] \notin Nat
    OBVIOUS
  <2>3. s # {}
    <3>1. s = {} => g[s] = 0
      BY <1>2, <2>2
    <3> QED BY <2>2, <3>1
  <2>4. PICK x \in s : x = Picked(s)
    BY <2>3, PickedIsIn
  <2>5. g[s \ {x}] \in Nat
    BY <2>1, <2>2
  <2>6. g[s] = f[x] + g[s \ {x}] /\ f[x] \in Nat
    BY <1>2, <2>2, <2>3, <2>4
  <2> QED BY <2>2, <2>5, <2>6
<1> QED BY <1>1, <1>3

\* Terms that are rounded add up to what the terms add up to, but for what each of
\* them may be off.
LEMMA SumOfRounded ==
    ASSUME NEW S, IsFiniteSet(S), NEW f \in [S -> Int], NEW g \in [S -> Int],
           NEW w \in Int, NEW e \in Nat,
           \A y \in S : -e <= w * g[y] - f[y] /\ w * g[y] - f[y] <= e
    PROVE  /\ -(e * Cardinality(S)) <= w * SumOf(g) - SumOf(f)
           /\ w * SumOf(g) - SumOf(f) <= e * Cardinality(S)
<1>1. PICK minus \in Int : minus = -1
  OBVIOUS
<1>2. PICK large, less : /\ large = [y \in S |-> w * g[y]]
                         /\ less = [y \in S |-> minus * f[y]]
  OBVIOUS
<1>3. PICK off : off = [y \in S |-> large[y] + less[y]]
  OBVIOUS
<1>4. /\ large \in [S -> Int] /\ less \in [S -> Int]
      /\ \A y \in S : large[y] = w * g[y] /\ less[y] = minus * f[y]
  BY <1>1, <1>2
<1>5. off \in [S -> Int] /\ \A y \in S : off[y] = large[y] + less[y]
  BY <1>3, <1>4
<1>6. ASSUME NEW y \in S PROVE -e <= off[y] /\ off[y] <= e
  <2>1. PICK m \in Int, n \in Int : m = w * g[y] /\ n = f[y]
    OBVIOUS
  <2>2. minus * n = -n
    BY <1>1
  <2>3. off[y] = m - n /\ -e <= m - n /\ m - n <= e
    BY <1>4, <1>5, <2>1, <2>2
  <2> QED BY <2>3
<1>7. -(e * Cardinality(S)) <= SumOf(off) /\ SumOf(off) <= e * Cardinality(S)
  BY <1>5, <1>6, SumOfBounded
<1>8. SumOf(large) = w * SumOf(g)
  BY <1>4, SumOfScaled
<1>9. SumOf(less) = minus * SumOf(f)
  BY <1>1, <1>4, SumOfScaled
<1>10. SumOf(off) = SumOf(large) + SumOf(less)
  <2>1. large \in [S -> Int] /\ less \in [S -> Int]
    BY <1>4
  <2> QED BY <1>5, <2>1, SumOfSum
<1>11. PICK a \in Int, b \in Int : a = SumOf(f) /\ b = w * SumOf(g)
  BY SumOfType
<1>12. minus * a = -a
  BY <1>1
<1>13. SumOf(off) = b - a
  BY <1>8, <1>9, <1>10, <1>11, <1>12
<1> QED BY <1>7, <1>11, <1>13

-----------------------------------------------------------------------------
(* Sums over one element.                                                  *)

\* What the sum of n over one batch is computed by.
OneSum(b, n) ==
    CHOOSE g : g = [s \in SUBSET {b} |-> IF s = {} THEN 0 ELSE n + g[s \ {Picked(s)}]]

LEMMA SumOverOne == ASSUME NEW b, NEW n \in Int PROVE OneSum(b, n)[{b}] = n
<1> DEFINE f == [k \in {b} |-> n]
           Sums(g) == g = [s \in SUBSET {b} |->
                              IF s = {} THEN 0 ELSE n + g[s \ {Picked(s)}]]
           iter == CHOOSE g : Sums(g)
<1>1. \A g : SumsUp(g, f, {b}) <=> Sums(g)
  <2>1. \A s \in SUBSET {b} : s # {} => f[Picked(s)] = n
    BY PickedIsIn
  <2> HIDE DEF f
  <2> QED BY <2>1 DEF SumsUp
<1>2. f[b] = n /\ OneSum(b, n) = iter
  BY DEF OneSum
<1> HIDE DEF f, Sums
<1>3. SumsUp(iter, f, {b})
  BY <1>1, SumsExist, FS_Singleton
<1> HIDE DEF iter
<1>4. {b} \in SUBSET {b} /\ {} \in SUBSET {b} /\ {b} \ {Picked({b})} = {} /\ Picked({b}) = b
  BY PickedIsIn
<1>5. iter[{b}] = f[b] + iter[{}] /\ iter[{}] = 0
  BY <1>3, <1>4 DEF SumsUp
<1> QED BY <1>2, <1>5
=============================================================================
