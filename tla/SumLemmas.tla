------------------------------ MODULE SumLemmas ------------------------------
(***************************************************************************)
(* Facts about the sum of a function over a finite set of indices          *)
(* (SumFunctionOnSet and SumFunction of module Functions), which the       *)
(* proofs about amounts rest on: what an order's invoices were paid, what  *)
(* the batches of an ingredient hold, what receipts brought.               *)
(***************************************************************************)
EXTENDS Integers, FiniteSets, Functions, FiniteSetTheorems, WellFoundedInduction, TLAPS

(* The element that the sum takes first. *)
Pick(S) == CHOOSE x \in S : TRUE

(* g gives the sum of f over each subset of S, one element at a time. *)
SumsUp(f, S, g) ==
  g = [s \in SUBSET S |-> IF s = {} THEN 0 ELSE f[Pick(s)] + g[s \ {Pick(s)}]]

(* The finite sets of n elements. *)
OfSize(S, n) == IsFiniteSet(S) /\ Cardinality(S) = n

(* What a sum takes first is an element. *)
LEMMA PickIn == ASSUME NEW S, S # {} PROVE Pick(S) \in S
BY DEF Pick

(* A set of numbers that holds 0 and the successor of each of its members is Nat. *)
LEMMA NatSets ==
  ASSUME NEW T \in SUBSET Nat, 0 \in T, \A n \in T : n + 1 \in T
  PROVE  T = Nat
<1> SUFFICES ASSUME Nat \ T # {} PROVE FALSE
  OBVIOUS
<1>1. PICK m \in Nat \ T : \A n \in Nat \ T : ~(<<n, m>> \in OpToRel(<, Nat))
  BY WFMin, NatLessThanWellFounded
<1>2. m # 0 /\ m - 1 \in Nat
  OBVIOUS
<1>3. <<m - 1, m>> \in OpToRel(<, Nat)
  BY <1>2 DEF OpToRel
<1>4. m - 1 \in T
  BY <1>1, <1>2, <1>3
<1>5. (m - 1) + 1 \in T
  BY <1>4
<1> QED BY <1>2, <1>5

(* Every non-empty finite set is one element more than a smaller one. *)
LEMMA OneLess ==
  ASSUME NEW S, NEW n \in Nat, OfSize(S, n + 1), NEW x \in S
  PROVE  OfSize(S \ {x}, n) /\ S # {}
<1>1. IsFiniteSet(S \ {x}) /\ Cardinality(S \ {x}) = Cardinality(S) - 1
  BY FS_RemoveElement DEF OfSize
<1> QED BY <1>1 DEF OfSize

(* Only the empty set has no elements. *)
LEMMA SizeZero == \A S : OfSize(S, 0) <=> S = {}
BY FS_EmptySet DEF OfSize

(* Two ways of summing up agree where both are defined. *)
LEMMA SumsAgree ==
  ASSUME NEW f, NEW S, NEW g, SumsUp(f, S, g), NEW U, NEW h, SumsUp(f, U, h),
         NEW s, s \in SUBSET S, s \in SUBSET U, IsFiniteSet(s)
  PROVE  g[s] = h[s]
<1> DEFINE T == {n \in Nat : \A t : (t \in SUBSET S /\ t \in SUBSET U /\ OfSize(t, n)) => g[t] = h[t]}
<1>1. 0 \in T
  BY SizeZero DEF SumsUp
<1>2. ASSUME NEW n \in T PROVE n + 1 \in T
  <2> SUFFICES ASSUME NEW t, t \in SUBSET S, t \in SUBSET U, OfSize(t, n + 1) PROVE g[t] = h[t]
    OBVIOUS
  <2>1. t # {}
    BY SizeZero, FS_EmptySet DEF OfSize
  <2>2. OfSize(t \ {Pick(t)}, n)
    BY <2>1, PickIn, OneLess
  <2>3. g[t \ {Pick(t)}] = h[t \ {Pick(t)}]
    BY <1>2, <2>2
  <2>4. g[t] = f[Pick(t)] + g[t \ {Pick(t)}]
    BY <2>1 DEF SumsUp
  <2>5. h[t] = f[Pick(t)] + h[t \ {Pick(t)}]
    BY <2>1 DEF SumsUp
  <2> QED BY <2>3, <2>4, <2>5
<1>3. T = Nat
  <2>1. T \in SUBSET Nat
    OBVIOUS
  <2> HIDE DEF T
  <2> QED BY <1>1, <1>2, <2>1, NatSets
<1>4. Cardinality(s) \in T
  BY <1>3, FS_CardinalityType
<1> QED BY <1>4 DEF OfSize

(* What the library's fold computes. *)
LEMMA SumChosen ==
  ASSUME NEW f, NEW S
  PROVE  SumFunctionOnSet(f, S) = (CHOOSE g : SumsUp(f, S, g))[S]
BY DEF SumFunctionOnSet, FoldFunctionOnSet, MapThenFoldSet, Pick, SumsUp

(* Each subset of S can be summed up, and the sum takes one element off each. *)
LEMMA SumsExist ==
  ASSUME NEW f, NEW S, IsFiniteSet(S)
  PROVE  \E g : SumsUp(f, S, g)
<1> DEFINE T == {n \in Nat : \A s : OfSize(s, n) => \E g : SumsUp(f, s, g)}
<1>1. 0 \in T
  <2> SUFFICES ASSUME NEW s, OfSize(s, 0) PROVE \E g : SumsUp(f, s, g)
    OBVIOUS
  <2>1. s = {}
    BY SizeZero
  <2> DEFINE g == [t \in SUBSET s |-> 0]
  <2>2. g = [t \in SUBSET s |-> IF t = {} THEN 0 ELSE f[Pick(t)] + g[t \ {Pick(t)}]]
    BY <2>1
  <2> HIDE DEF g
  <2> QED BY <2>2 DEF SumsUp
<1>2. ASSUME NEW n \in T PROVE n + 1 \in T
  <2> SUFFICES ASSUME NEW s, OfSize(s, n + 1) PROVE \E g : SumsUp(f, s, g)
    OBVIOUS
  <2> DEFINE part(x) == CHOOSE g : SumsUp(f, s \ {x}, g)
             any == part(Pick(s))
             near(t) == part(CHOOSE x \in s : x \notin t)
             small == [t \in SUBSET s |-> IF t = s THEN 0 ELSE near(t)[t]]
             g == [t \in SUBSET s |-> IF t = s THEN f[Pick(s)] + small[s \ {Pick(s)}] ELSE small[t]]
  <2>1. s # {} /\ IsFiniteSet(s)
    BY FS_EmptySet DEF OfSize
  <2>2. \A x \in s : SumsUp(f, s \ {x}, part(x))
    <3> SUFFICES ASSUME NEW x \in s PROVE SumsUp(f, s \ {x}, part(x))
      OBVIOUS
    <3>1. OfSize(s \ {x}, n)
      BY OneLess
    <3>2. \E h : SumsUp(f, s \ {x}, h)
      BY <1>2, <3>1
    <3> QED BY <3>2
  <2> HIDE DEF part
  <2>3. ASSUME NEW t \in SUBSET s, NEW x \in s, x \notin t
        PROVE  small[t] = part(x)[t]
    <3> DEFINE y == CHOOSE z \in s : z \notin t
    <3>1. y \in s /\ y \notin t
      BY <2>3
    <3>2. IsFiniteSet(t)
      BY <2>1, FS_Subset
    <3>3. t \in SUBSET (s \ {x}) /\ t \in SUBSET (s \ {y})
      BY <2>3, <3>1
    <3>4. small[t] = part(y)[t]
      BY <2>3 DEF small
    <3> HIDE DEF y
    <3>5. SumsUp(f, s \ {x}, part(x)) /\ SumsUp(f, s \ {y}, part(y))
      BY <2>2, <3>1
    <3>6. part(y)[t] = part(x)[t]
      BY <3>2, <3>3, <3>5, SumsAgree
    <3> QED BY <3>4, <3>6
  <2> HIDE DEF small
  <2>4. ASSUME NEW t \in SUBSET s
        PROVE  g[t] = IF t = {} THEN 0 ELSE f[Pick(t)] + g[t \ {Pick(t)}]
    <3>1. CASE t = s
      <4>1. Pick(s) \in s
        BY <2>1, PickIn
      <4>2. g[t] = f[Pick(s)] + small[s \ {Pick(s)}] /\ g[s \ {Pick(s)}] = small[s \ {Pick(s)}]
        BY <3>1, <4>1
      <4> QED BY <2>1, <3>1, <4>2
    <3>2. CASE t # s
      <4>1. PICK x \in s : x \notin t
        BY <3>2
      <4>2. g[t] = part(x)[t]
        BY <2>3, <3>2, <4>1
      <4>3. t \in SUBSET (s \ {x})
        BY <4>1
      <4>4. part(x)[t] = IF t = {} THEN 0 ELSE f[Pick(t)] + part(x)[t \ {Pick(t)}]
        BY <2>2, <4>1, <4>3 DEF SumsUp
      <4>5. t # {} => g[t \ {Pick(t)}] = part(x)[t \ {Pick(t)}]
        BY <2>3, <3>2, <4>1
      <4> HIDE DEF g
      <4> QED BY <4>2, <4>4, <4>5
    <3> QED BY <3>1, <3>2
  <2>5. g = [t \in SUBSET s |-> IF t = {} THEN 0 ELSE f[Pick(t)] + g[t \ {Pick(t)}]]
    BY <2>4
  <2> HIDE DEF g
  <2> QED BY <2>5 DEF SumsUp
<1>3. T = Nat
  <2>1. T \in SUBSET Nat
    OBVIOUS
  <2> HIDE DEF T
  <2> QED BY <1>1, <1>2, <2>1, NatSets
<1>4. Cardinality(S) \in T
  BY <1>3, FS_CardinalityType
<1> QED BY <1>4 DEF OfSize

(* The sum takes one element off its set. *)
LEMMA SumStep ==
  ASSUME NEW f, NEW S, IsFiniteSet(S)
  PROVE  SumFunctionOnSet(f, S) =
           IF S = {} THEN 0 ELSE f[Pick(S)] + SumFunctionOnSet(f, S \ {Pick(S)})
<1> DEFINE g == CHOOSE h : SumsUp(f, S, h)
           R == S \ {Pick(S)}
           k == CHOOSE h : SumsUp(f, R, h)
<1>1. SumsUp(f, S, g)
  BY SumsExist
<1>2. IsFiniteSet(R)
  BY FS_Subset
<1>3. SumsUp(f, R, k)
  BY <1>2, SumsExist
<1>4. SumFunctionOnSet(f, S) = g[S] /\ SumFunctionOnSet(f, R) = k[R]
  BY SumChosen
<1> HIDE DEF g, k
<1>5. g[S] = IF S = {} THEN 0 ELSE f[Pick(S)] + g[R]
  BY <1>1 DEF SumsUp
<1>6. g[R] = k[R]
  <2>1. R \in SUBSET S /\ R \in SUBSET R
    OBVIOUS
  <2> HIDE DEF R
  <2> QED BY <1>1, <1>2, <1>3, <2>1, SumsAgree
<1> QED BY <1>4, <1>5, <1>6

(* Nothing adds up to nothing. *)
LEMMA SumEmpty == \A f : SumFunctionOnSet(f, {}) = 0
BY SumStep, FS_EmptySet

(* A sum of naturals is natural, a sum of integers an integer. *)
LEMMA SumType ==
  ASSUME NEW Typ \in {Nat, Int}, NEW f, NEW S, IsFiniteSet(S), \A i \in S : f[i] \in Typ
  PROVE  SumFunctionOnSet(f, S) \in Typ
<1> DEFINE T == {n \in Nat : \A s \in SUBSET S : OfSize(s, n) => SumFunctionOnSet(f, s) \in Typ}
<1>1. 0 \in T
  BY SizeZero, SumEmpty
<1>2. ASSUME NEW n \in T PROVE n + 1 \in T
  <2> SUFFICES ASSUME NEW s \in SUBSET S, OfSize(s, n + 1) PROVE SumFunctionOnSet(f, s) \in Typ
    OBVIOUS
  <2>1. s # {} /\ IsFiniteSet(s)
    BY FS_EmptySet DEF OfSize
  <2>2. Pick(s) \in s /\ OfSize(s \ {Pick(s)}, n)
    BY <2>1, PickIn, OneLess
  <2>3. SumFunctionOnSet(f, s \ {Pick(s)}) \in Typ /\ f[Pick(s)] \in Typ
    BY <1>2, <2>2
  <2>4. SumFunctionOnSet(f, s) = f[Pick(s)] + SumFunctionOnSet(f, s \ {Pick(s)})
    BY <2>1, SumStep
  <2> QED BY <2>3, <2>4
<1>3. T = Nat
  <2>1. T \in SUBSET Nat
    OBVIOUS
  <2> HIDE DEF T
  <2> QED BY <1>1, <1>2, <2>1, NatSets
<1>4. Cardinality(S) \in T
  BY <1>3, FS_CardinalityType
<1> QED BY <1>4 DEF OfSize

(* Any element may be taken off first. *)
LEMMA SumRemove ==
  ASSUME NEW f, NEW S, IsFiniteSet(S), \A i \in S : f[i] \in Int, NEW x \in S
  PROVE  SumFunctionOnSet(f, S) = f[x] + SumFunctionOnSet(f, S \ {x})
<1> DEFINE T == {n \in Nat : \A s \in SUBSET S : OfSize(s, n) =>
                   \A y \in s : SumFunctionOnSet(f, s) = f[y] + SumFunctionOnSet(f, s \ {y})}
<1>1. 0 \in T
  BY SizeZero
<1>2. ASSUME NEW n \in T PROVE n + 1 \in T
  <2> SUFFICES ASSUME NEW s \in SUBSET S, OfSize(s, n + 1), NEW y \in s
               PROVE  SumFunctionOnSet(f, s) = f[y] + SumFunctionOnSet(f, s \ {y})
    OBVIOUS
  <2> DEFINE z == Pick(s)
  <2>1. s # {} /\ IsFiniteSet(s)
    BY FS_EmptySet DEF OfSize
  <2>2. z \in s /\ OfSize(s \ {z}, n) /\ OfSize(s \ {y}, n)
    BY <2>1, PickIn, OneLess
  <2>3. SumFunctionOnSet(f, s) = f[z] + SumFunctionOnSet(f, s \ {z})
    BY <2>1, SumStep
  <2> HIDE DEF z
  <2>4. CASE z = y
    BY <2>3, <2>4
  <2>5. CASE z # y
    <3>1. SumFunctionOnSet(f, s \ {z}) = f[y] + SumFunctionOnSet(f, (s \ {z}) \ {y})
      BY <1>2, <2>2, <2>5
    <3>2. SumFunctionOnSet(f, s \ {y}) = f[z] + SumFunctionOnSet(f, (s \ {y}) \ {z})
      BY <1>2, <2>2, <2>5
    <3>3. (s \ {z}) \ {y} = (s \ {y}) \ {z}
      OBVIOUS
    <3>4. IsFiniteSet((s \ {y}) \ {z})
      BY <2>1, FS_Subset
    <3>5. \A i \in (s \ {y}) \ {z} : f[i] \in Int
      OBVIOUS
    <3>6. SumFunctionOnSet(f, (s \ {y}) \ {z}) \in Int
      BY <3>4, <3>5, SumType
    <3>7. f[y] \in Int /\ f[z] \in Int
      BY <2>2
    <3> DEFINE rest == SumFunctionOnSet(f, (s \ {y}) \ {z})
    <3>8. SumFunctionOnSet(f, s \ {z}) = f[y] + rest
      BY <3>1, <3>3
    <3>9. rest \in Int /\ SumFunctionOnSet(f, s \ {y}) = f[z] + rest
      BY <3>2, <3>6
    <3> HIDE DEF rest
    <3> QED BY <2>3, <3>7, <3>8, <3>9
  <2> QED BY <2>4, <2>5
<1>3. T = Nat
  <2>1. T \in SUBSET Nat
    OBVIOUS
  <2> HIDE DEF T
  <2> QED BY <1>1, <1>2, <2>1, NatSets
<1>4. Cardinality(S) \in T
  BY <1>3, FS_CardinalityType
<1> QED BY <1>4 DEF OfSize

(* One more element adds its value. *)
LEMMA SumAdd ==
  ASSUME NEW f, NEW S, IsFiniteSet(S), \A i \in S : f[i] \in Int, NEW x, x \notin S, f[x] \in Int
  PROVE  SumFunctionOnSet(f, S \cup {x}) = SumFunctionOnSet(f, S) + f[x]
<1>1. IsFiniteSet(S \cup {x}) /\ \A i \in S \cup {x} : f[i] \in Int
  BY FS_AddElement
<1>2. (S \cup {x}) \ {x} = S
  OBVIOUS
<1>3. SumFunctionOnSet(f, S \cup {x}) = f[x] + SumFunctionOnSet(f, (S \cup {x}) \ {x})
  BY <1>1, SumRemove
<1>4. SumFunctionOnSet(f, S \cup {x}) = f[x] + SumFunctionOnSet(f, S)
  BY <1>2, <1>3
<1>5. SumFunctionOnSet(f, S) \in Int
  BY SumType
<1> QED BY <1>4, <1>5

(* A function that is nowhere smaller has no smaller sum. *)
LEMMA SumMonotone ==
  ASSUME NEW f, NEW g, NEW S, IsFiniteSet(S),
         \A i \in S : f[i] \in Int /\ g[i] \in Int /\ f[i] <= g[i]
  PROVE  SumFunctionOnSet(f, S) <= SumFunctionOnSet(g, S)
<1> DEFINE T == {n \in Nat : \A s \in SUBSET S : OfSize(s, n) =>
                   SumFunctionOnSet(f, s) <= SumFunctionOnSet(g, s)}
<1>1. 0 \in T
  BY SizeZero, SumEmpty
<1>2. ASSUME NEW n \in T PROVE n + 1 \in T
  <2> SUFFICES ASSUME NEW s \in SUBSET S, OfSize(s, n + 1)
               PROVE  SumFunctionOnSet(f, s) <= SumFunctionOnSet(g, s)
    OBVIOUS
  <2> DEFINE z == Pick(s)
  <2>1. s # {} /\ IsFiniteSet(s)
    BY FS_EmptySet DEF OfSize
  <2>2. z \in s /\ OfSize(s \ {z}, n) /\ IsFiniteSet(s \ {z})
    BY <2>1, PickIn, OneLess, FS_Subset
  <2>3. /\ SumFunctionOnSet(f, s) = f[z] + SumFunctionOnSet(f, s \ {z})
        /\ SumFunctionOnSet(g, s) = g[z] + SumFunctionOnSet(g, s \ {z})
    BY <2>1, SumStep
  <2> HIDE DEF z
  <2>4. SumFunctionOnSet(f, s \ {z}) <= SumFunctionOnSet(g, s \ {z})
    BY <1>2, <2>2
  <2>5. SumFunctionOnSet(f, s \ {z}) \in Int /\ SumFunctionOnSet(g, s \ {z}) \in Int
    <3>1. \A i \in s \ {z} : f[i] \in Int /\ g[i] \in Int
      OBVIOUS
    <3> QED BY <2>2, <3>1, SumType
  <2>6. f[z] \in Int /\ g[z] \in Int /\ f[z] <= g[z]
    BY <2>2
  <2> QED BY <2>3, <2>4, <2>5, <2>6
<1>3. T = Nat
  <2>1. T \in SUBSET Nat
    OBVIOUS
  <2> HIDE DEF T
  <2> QED BY <1>1, <1>2, <2>1, NatSets
<1>4. Cardinality(S) \in T
  BY <1>3, FS_CardinalityType
<1> QED BY <1>4 DEF OfSize

(* The sum depends on the values only. *)
LEMMA SumSame ==
  ASSUME NEW f, NEW g, NEW S, IsFiniteSet(S), \A i \in S : f[i] \in Int /\ f[i] = g[i]
  PROVE  SumFunctionOnSet(f, S) = SumFunctionOnSet(g, S)
<1>1. /\ SumFunctionOnSet(f, S) <= SumFunctionOnSet(g, S)
      /\ SumFunctionOnSet(g, S) <= SumFunctionOnSet(f, S)
  <2>1. \A i \in S : f[i] \in Int /\ g[i] \in Int /\ f[i] <= g[i] /\ g[i] <= f[i]
    OBVIOUS
  <2> QED BY <2>1, SumMonotone
<1>2. SumFunctionOnSet(f, S) \in Int /\ SumFunctionOnSet(g, S) \in Int
  <2>1. \A i \in S : f[i] \in Int /\ g[i] \in Int
    OBVIOUS
  <2> QED BY <2>1, SumType
<1> QED BY <1>1, <1>2

(* Changing one value changes the sum by the difference. *)
LEMMA SumChange ==
  ASSUME NEW f, NEW g, NEW S, IsFiniteSet(S), NEW x \in S,
         \A i \in S : f[i] \in Int /\ g[i] \in Int,
         \A i \in S \ {x} : g[i] = f[i]
  PROVE  SumFunctionOnSet(g, S) = SumFunctionOnSet(f, S) + (g[x] - f[x])
<1>1. /\ SumFunctionOnSet(f, S) = f[x] + SumFunctionOnSet(f, S \ {x})
      /\ SumFunctionOnSet(g, S) = g[x] + SumFunctionOnSet(g, S \ {x})
  BY SumRemove
<1>2. IsFiniteSet(S \ {x}) /\ \A i \in S \ {x} : f[i] \in Int /\ f[i] = g[i]
  BY FS_Subset
<1>3. SumFunctionOnSet(f, S \ {x}) = SumFunctionOnSet(g, S \ {x})
  BY <1>2, SumSame
<1>4. SumFunctionOnSet(g, S \ {x}) \in Int
  <2>1. \A i \in S \ {x} : g[i] \in Int
    OBVIOUS
  <2> QED BY <1>2, <2>1, SumType
<1> QED BY <1>1, <1>3, <1>4

(* The sum of a pointwise sum is the sum of the sums. *)
LEMMA SumPlus ==
  ASSUME NEW f, NEW g, NEW h, NEW S, IsFiniteSet(S),
         \A i \in S : f[i] \in Int /\ g[i] \in Int /\ h[i] = f[i] + g[i]
  PROVE  SumFunctionOnSet(h, S) = SumFunctionOnSet(f, S) + SumFunctionOnSet(g, S)
<1> DEFINE T == {n \in Nat : \A s \in SUBSET S : OfSize(s, n) =>
                   SumFunctionOnSet(h, s) = SumFunctionOnSet(f, s) + SumFunctionOnSet(g, s)}
<1>1. 0 \in T
  <2>1. /\ SumFunctionOnSet(f, {}) = 0 /\ SumFunctionOnSet(g, {}) = 0
        /\ SumFunctionOnSet(h, {}) = 0
    BY SumEmpty
  <2>2. \A s : OfSize(s, 0) => s = {}
    BY SizeZero
  <2> QED BY <2>1, <2>2
<1>2. ASSUME NEW n \in T PROVE n + 1 \in T
  <2> SUFFICES ASSUME NEW s \in SUBSET S, OfSize(s, n + 1)
               PROVE  SumFunctionOnSet(h, s) = SumFunctionOnSet(f, s) + SumFunctionOnSet(g, s)
    OBVIOUS
  <2> DEFINE z == Pick(s)
  <2>1. s # {} /\ IsFiniteSet(s)
    BY FS_EmptySet DEF OfSize
  <2>2. z \in s /\ OfSize(s \ {z}, n) /\ IsFiniteSet(s \ {z})
    BY <2>1, PickIn, OneLess, FS_Subset
  <2>3. /\ SumFunctionOnSet(f, s) = f[z] + SumFunctionOnSet(f, s \ {z})
        /\ SumFunctionOnSet(g, s) = g[z] + SumFunctionOnSet(g, s \ {z})
        /\ SumFunctionOnSet(h, s) = h[z] + SumFunctionOnSet(h, s \ {z})
    BY <2>1, SumStep
  <2> HIDE DEF z
  <2>4. SumFunctionOnSet(h, s \ {z}) = SumFunctionOnSet(f, s \ {z}) + SumFunctionOnSet(g, s \ {z})
    BY <1>2, <2>2
  <2>5. SumFunctionOnSet(f, s \ {z}) \in Int /\ SumFunctionOnSet(g, s \ {z}) \in Int
    <3>1. \A i \in s \ {z} : f[i] \in Int /\ g[i] \in Int
      OBVIOUS
    <3> QED BY <2>2, <3>1, SumType
  <2>6. f[z] \in Int /\ g[z] \in Int /\ h[z] = f[z] + g[z]
    BY <2>2
  <2> QED BY <2>3, <2>4, <2>5, <2>6
<1>3. T = Nat
  <2>1. T \in SUBSET Nat
    OBVIOUS
  <2> HIDE DEF T
  <2> QED BY <1>1, <1>2, <2>1, NatSets
<1>4. Cardinality(S) \in T
  BY <1>3, FS_CardinalityType
<1> QED BY <1>4 DEF OfSize

(* Zeros add up to zero. *)
LEMMA SumZero ==
  ASSUME NEW f, NEW S, IsFiniteSet(S), \A i \in S : f[i] = 0
  PROVE  SumFunctionOnSet(f, S) = 0
<1>1. \A i \in S : f[i] \in Int /\ f[i] = f[i] + f[i]
  OBVIOUS
<1>2. SumFunctionOnSet(f, S) = SumFunctionOnSet(f, S) + SumFunctionOnSet(f, S)
  BY <1>1, SumPlus
<1>3. SumFunctionOnSet(f, S) \in Int
  BY <1>1, SumType
<1> DEFINE t == SumFunctionOnSet(f, S)
<1>4. t \in Int /\ t = t + t
  BY <1>2, <1>3
<1> HIDE DEF t
<1>5. t = 0
  BY <1>4
<1> QED BY <1>5 DEF t

(* The sum over two sets without a common element is the sum of their sums. *)
LEMMA SumUnion ==
  ASSUME NEW f, NEW S, IsFiniteSet(S), NEW R, IsFiniteSet(R), S \cap R = {},
         \A i \in S \cup R : f[i] \in Int
  PROVE  SumFunctionOnSet(f, S \cup R) = SumFunctionOnSet(f, S) + SumFunctionOnSet(f, R)
<1> DEFINE T == {n \in Nat : \A s \in SUBSET R : OfSize(s, n) =>
                   SumFunctionOnSet(f, S \cup s) = SumFunctionOnSet(f, S) + SumFunctionOnSet(f, s)}
<1>0. SumFunctionOnSet(f, S) \in Int
  <2>1. \A i \in S : f[i] \in Int
    OBVIOUS
  <2> QED BY <2>1, SumType
<1>1. 0 \in T
  <2> SUFFICES ASSUME NEW s \in SUBSET R, OfSize(s, 0)
               PROVE  SumFunctionOnSet(f, S \cup s) = SumFunctionOnSet(f, S) + SumFunctionOnSet(f, s)
    OBVIOUS
  <2>1. s = {}
    BY SizeZero
  <2>2. SumFunctionOnSet(f, S \cup s) = SumFunctionOnSet(f, S)
    <3>1. S \cup s = S
      BY <2>1
    <3> QED BY <3>1
  <2>3. SumFunctionOnSet(f, s) = 0
    BY <2>1, SumEmpty
  <2> DEFINE a == SumFunctionOnSet(f, S)
  <2>4. a \in Int
    BY <1>0
  <2>5. SumFunctionOnSet(f, S \cup s) = a
    BY <2>2
  <2>6. SumFunctionOnSet(f, S) = a
    OBVIOUS
  <2> HIDE DEF a
  <2> QED BY <2>3, <2>4, <2>5, <2>6
<1>2. ASSUME NEW n \in T PROVE n + 1 \in T
  <2> SUFFICES ASSUME NEW s \in SUBSET R, OfSize(s, n + 1)
               PROVE  SumFunctionOnSet(f, S \cup s) = SumFunctionOnSet(f, S) + SumFunctionOnSet(f, s)
    OBVIOUS
  <2> DEFINE z == Pick(s)
             r == s \ {z}
  <2>1. s # {} /\ IsFiniteSet(s)
    BY FS_EmptySet DEF OfSize
  <2>2. z \in s /\ OfSize(r, n) /\ z \notin S
    BY <2>1, PickIn, OneLess
  <2>3. SumFunctionOnSet(f, S \cup r) = SumFunctionOnSet(f, S) + SumFunctionOnSet(f, r)
    BY <1>2, <2>2
  <2>4. SumFunctionOnSet(f, s) = f[z] + SumFunctionOnSet(f, r)
    <3>1. \A i \in s : f[i] \in Int
      OBVIOUS
    <3> QED BY <2>1, <2>2, <3>1, SumRemove
  <2>5. SumFunctionOnSet(f, S \cup s) = f[z] + SumFunctionOnSet(f, S \cup r)
    <3>1. IsFiniteSet(S \cup s) /\ \A i \in S \cup s : f[i] \in Int
      BY <2>1, FS_Union
    <3>2. z \in S \cup s /\ (S \cup s) \ {z} = S \cup r
      BY <2>2
    <3>3. SumFunctionOnSet(f, S \cup s) = f[z] + SumFunctionOnSet(f, (S \cup s) \ {z})
      BY <3>1, <3>2, SumRemove
    <3> QED BY <3>2, <3>3
  <2>6. f[z] \in Int /\ SumFunctionOnSet(f, r) \in Int
    <3>1. IsFiniteSet(r) /\ \A i \in r : f[i] \in Int
      BY <2>2 DEF OfSize
    <3>2. SumFunctionOnSet(f, r) \in Int
      BY <3>1, SumType
    <3> QED BY <2>2, <3>2
  <2> HIDE DEF z, r
  <2> QED BY <1>0, <2>3, <2>4, <2>5, <2>6
<1>3. T = Nat
  <2> HIDE DEF T
  <2>1. T \in SUBSET Nat
    BY DEF T
  <2> QED BY <1>1, <1>2, <2>1, NatSets
<1>4. Cardinality(R) \in T /\ OfSize(R, Cardinality(R))
  BY <1>3, FS_CardinalityType DEF OfSize
<1> QED BY <1>4

(* A sum of naturals over part of a set is at most the sum over the set. *)
LEMMA SumWithin ==
  ASSUME NEW f, NEW U, IsFiniteSet(U), \A i \in U : f[i] \in Nat, NEW S \in SUBSET U
  PROVE  SumFunctionOnSet(f, S) <= SumFunctionOnSet(f, U)
<1>1. /\ IsFiniteSet(S) /\ IsFiniteSet(U \ S) /\ S \cap (U \ S) = {} /\ S \cup (U \ S) = U
      /\ \A i \in S \cup (U \ S) : f[i] \in Nat /\ f[i] \in Int
  BY FS_Subset
<1>2. SumFunctionOnSet(f, S \cup (U \ S)) = SumFunctionOnSet(f, S) + SumFunctionOnSet(f, U \ S)
  BY <1>1, SumUnion
<1>3. SumFunctionOnSet(f, S) \in Nat /\ SumFunctionOnSet(f, U \ S) \in Nat
  <2>1. (\A i \in S : f[i] \in Nat) /\ \A i \in U \ S : f[i] \in Nat
    OBVIOUS
  <2> QED BY <1>1, <2>1, SumType
<1>4. SumFunctionOnSet(f, U) = SumFunctionOnSet(f, S) + SumFunctionOnSet(f, U \ S)
  BY <1>1, <1>2
<1> QED BY <1>3, <1>4

(* Where the values outside a part are 0, the sum is that of the part. *)
LEMMA SumOfPart ==
  ASSUME NEW f, NEW U, IsFiniteSet(U), NEW S \in SUBSET U, \A i \in S : f[i] \in Int,
         \A i \in U \ S : f[i] = 0
  PROVE  SumFunctionOnSet(f, U) = SumFunctionOnSet(f, S)
<1>1. /\ IsFiniteSet(S) /\ IsFiniteSet(U \ S) /\ S \cap (U \ S) = {} /\ S \cup (U \ S) = U
      /\ \A i \in S \cup (U \ S) : f[i] \in Int
  BY FS_Subset
<1>2. SumFunctionOnSet(f, S \cup (U \ S)) = SumFunctionOnSet(f, S) + SumFunctionOnSet(f, U \ S)
  BY <1>1, SumUnion
<1>3. SumFunctionOnSet(f, U \ S) = 0
  BY <1>1, SumZero
<1>4. SumFunctionOnSet(f, S) \in Int
  BY <1>1, SumType
<1>5. SumFunctionOnSet(f, U) = SumFunctionOnSet(f, S) + SumFunctionOnSet(f, U \ S)
  BY <1>1, <1>2
<1> QED BY <1>3, <1>4, <1>5
=============================================================================
