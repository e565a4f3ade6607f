---------------------------- MODULE CodecsProofs ----------------------------
(***************************************************************************)
(* The varint is lossless and its overflow exact for every width of groups *)
(* and values, ZigZag and the width checks likewise; the UTF-8 validator   *)
(* accepts exactly the well-formed texts, of any length, and the cut keeps *)
(* whole characters.                                                       *)
(*                                                                         *)
(* The definitions are recursive functions.  What they compute is proved   *)
(* by induction in the form of NatSet, over sets of numbers.               *)
(***************************************************************************)
EXTENDS Varint, Utf8, WellFoundedInduction, SequenceTheorems, TLAPS

-----------------------------------------------------------------------------
(* Induction.                                                              *)

\* A set of numbers that has 0 and every successor is all of them.
LEMMA NatSet ==
    ASSUME NEW S \in SUBSET Nat, 0 \in S, \A n \in S : n + 1 \in S
    PROVE  S = Nat
<1> DEFINE T == Nat \ S
           R == OpToRel(<, Nat)
<1>1. IsWellFoundedOn(R, Nat)
  BY NatLessThanWellFounded
<1>2. \A x, y \in Nat : x < y => <<x, y>> \in R
  BY DEF OpToRel
<1>3. CASE T # {}
  <2> HIDE DEF R
  <2>1. PICK x \in T : \A y \in T : ~(<<y, x>> \in R)
    BY <1>1, <1>3, WFMin
  <2>2. x \in Nat /\ x # 0 /\ x \notin S
    OBVIOUS
  <2>3. x - 1 \in Nat /\ x - 1 < x /\ (x - 1) + 1 = x
    BY <2>2
  <2>4. x - 1 \in T
    BY <2>2, <2>3
  <2> QED
    BY <1>2, <2>1, <2>2, <2>3, <2>4
<1> QED
  BY <1>3

\* The same up to a bound.
LEMMA RangeSet ==
    ASSUME NEW m \in Nat, NEW S, 0 \in S,
           \A n \in 0..m : n \in S /\ n < m => n + 1 \in S
    PROVE  \A n \in 0..m : n \in S
<1> DEFINE G == {n \in Nat : n <= m => n \in S}
<1>1. 0 \in G
  OBVIOUS
<1>2. ASSUME NEW n \in G PROVE n + 1 \in G
  OBVIOUS
<1>3. G \in SUBSET Nat
  OBVIOUS
<1> HIDE DEF G
<1>4. G = Nat
  BY <1>1, <1>2, <1>3, NatSet
<1> QED
  BY <1>4 DEF G

\* And with all smaller numbers at hand.
LEMMA StrongSet ==
    ASSUME NEW m \in Nat, NEW S,
           \A n \in 0..m : (\A k \in 0..n - 1 : k \in S) => n \in S
    PROVE  \A n \in 0..m : n \in S
<1> DEFINE G == {n \in 0..m : \A k \in 0..n : k \in S}
<1>1. 0 \in G
  OBVIOUS
<1>2. ASSUME NEW n \in 0..m, n \in G, n < m PROVE n + 1 \in G
  <2>1. n + 1 \in 0..m /\ n + 1 - 1 = n
    BY <1>2
  <2>2. n + 1 \in S
    BY <1>2, <2>1
  <2> QED
    BY <1>2, <2>1, <2>2
<1> HIDE DEF G
<1>3. \A n \in 0..m : n \in G
  BY <1>1, <1>2, RangeSet
<1> QED
  BY <1>3 DEF G

-----------------------------------------------------------------------------
(* Powers of two.                                                          *)

Doubling(m) == {f \in [0..m -> Nat] : f[0] = 1 /\ \A n \in 0..m - 1 : f[n + 1] = 2 * f[n]}

LEMMA DoublingExists == \A m \in Nat : \E f : f \in Doubling(m)
<1> DEFINE G == {m \in Nat : \E f : f \in Doubling(m)}
<1>1. 0 \in G
  <2> DEFINE f == [n \in 0..0 |-> 1]
  <2>1. f \in Doubling(0)
    BY DEF Doubling
  <2> QED
    BY <2>1
<1>2. ASSUME NEW m \in G PROVE m + 1 \in G
  <2>1. PICK f : f \in Doubling(m)
    OBVIOUS
  <2>2. m \in Nat
    OBVIOUS
  <2>3. f \in [0..m -> Nat] /\ f[0] = 1 /\ \A n \in 0..m - 1 : f[n + 1] = 2 * f[n]
    BY <2>1 DEF Doubling
  <2> DEFINE h == [n \in 0..m + 1 |-> IF n = m + 1 THEN 2 * f[m] ELSE f[n]]
  <2>4. f[m] \in Nat
    BY <2>2, <2>3
  <2>5. h \in [0..m + 1 -> Nat]
    BY <2>2, <2>3, <2>4
  <2>6. h[0] = 1 /\ \A n \in 0..m + 1 - 1 : h[n + 1] = 2 * h[n]
    BY <2>2, <2>3
  <2> HIDE DEF h
  <2>7. h \in Doubling(m + 1)
    BY <2>5, <2>6 DEF Doubling
  <2> QED
    BY <2>2, <2>7
<1> HIDE DEF G
<1>3. G \in SUBSET Nat
  BY DEF G
<1>4. G = Nat
  BY <1>1, <1>2, <1>3, NatSet
<1> QED
  BY <1>4 DEF G

LEMMA DoublingAgrees ==
    ASSUME NEW m \in Nat, NEW k \in Nat, m <= k,
           NEW f \in Doubling(m), NEW g \in Doubling(k)
    PROVE  \A n \in 0..m : f[n] = g[n]
<1> DEFINE S == {n \in 0..m : f[n] = g[n]}
<1>1. 0 \in S
  BY DEF Doubling
<1>2. ASSUME NEW n \in 0..m, n \in S, n < m PROVE n + 1 \in S
  BY <1>2 DEF Doubling
<1> HIDE DEF S
<1>3. \A n \in 0..m : n \in S
  BY <1>1, <1>2, RangeSet
<1> QED
  BY <1>3 DEF S

LEMMA Pow2Unfolds == Pow2 = [n \in Nat |-> IF n = 0 THEN 1 ELSE 2 * Pow2[n - 1]]
<1> DEFINE F == [n \in Nat |-> (CHOOSE f \in Doubling(n) : TRUE)[n]]
<1>1. ASSUME NEW n \in Nat
      PROVE  (CHOOSE f \in Doubling(n) : TRUE) \in Doubling(n)
  BY DoublingExists
<1>2. ASSUME NEW n \in Nat PROVE F[n] = IF n = 0 THEN 1 ELSE 2 * F[n - 1]
  <2> DEFINE f == CHOOSE f \in Doubling(n) : TRUE
  <2>1. f \in Doubling(n)
    BY <1>1
  <2>2. F[n] = f[n]
    OBVIOUS
  <2>3. CASE n = 0
    BY <2>1, <2>2, <2>3 DEF Doubling
  <2>4. CASE n # 0
    <3> DEFINE g == CHOOSE f_1 \in Doubling(n - 1) : TRUE
    <3>1. n - 1 \in Nat /\ n - 1 <= n /\ n - 1 \in 0..n - 1
      BY <2>4
    <3>2. g \in Doubling(n - 1)
      BY <1>1, <3>1
    <3>3. F[n - 1] = g[n - 1]
      BY <3>1
    <3> HIDE DEF f, g, F
    <3>4. g[n - 1] = f[n - 1]
      BY <2>1, <3>1, <3>2, DoublingAgrees
    <3>5. f[n - 1 + 1] = 2 * f[n - 1]
      BY <2>1, <3>1 DEF Doubling
    <3> QED
      BY <2>2, <2>4, <3>3, <3>4, <3>5
  <2> QED
    BY <2>3, <2>4
<1>3. F = [n \in Nat |-> IF n = 0 THEN 1 ELSE 2 * F[n - 1]]
  <2>1. F = [n \in Nat |-> F[n]]
    OBVIOUS
  <2> HIDE DEF F
  <2> QED
    BY <1>2, <2>1
<1> HIDE DEF F
<1> QED
  BY <1>3 DEF Pow2

LEMMA Pow2Zero == Pow2[0] = 1
BY Pow2Unfolds

LEMMA Pow2Next ==
    ASSUME NEW n \in Nat
    PROVE  Pow2[n + 1] = 2 * Pow2[n]
<1>1. n + 1 \in Nat /\ n + 1 # 0 /\ n + 1 - 1 = n
  OBVIOUS
<1> QED
  BY <1>1, Pow2Unfolds

LEMMA Pow2Type == \A n \in Nat : Pow2[n] \in Nat \ {0}
<1> DEFINE G == {n \in Nat : Pow2[n] \in Nat \ {0}}
<1>1. 0 \in G
  BY Pow2Zero
<1>2. ASSUME NEW n \in G PROVE n + 1 \in G
  BY Pow2Next
<1>3. G \in SUBSET Nat
  OBVIOUS
<1> HIDE DEF G
<1>4. G = Nat
  BY <1>1, <1>2, <1>3, NatSet
<1> QED
  BY <1>4 DEF G

LEMMA Pow2Sum == \A a, b \in Nat : Pow2[a + b] = Pow2[a] * Pow2[b]
<1> SUFFICES ASSUME NEW a \in Nat PROVE \A b \in Nat : Pow2[a + b] = Pow2[a] * Pow2[b]
  OBVIOUS
<1> DEFINE G == {b \in Nat : Pow2[a + b] = Pow2[a] * Pow2[b]}
<1>1. 0 \in G
  <2>1. a + 0 = a
    OBVIOUS
  <2> QED
    BY <2>1, Pow2Zero, Pow2Type
<1>2. ASSUME NEW b \in G PROVE b + 1 \in G
  <2>1. b \in Nat /\ a + b \in Nat /\ a + (b + 1) = (a + b) + 1
    OBVIOUS
  <2>2. Pow2[a + (b + 1)] = 2 * Pow2[a + b] /\ Pow2[b + 1] = 2 * Pow2[b]
    BY <2>1, Pow2Next
  <2>3. Pow2[a + b] = Pow2[a] * Pow2[b]
    OBVIOUS
  <2>4. Pow2[a] \in Nat /\ Pow2[b] \in Nat
    BY <2>1, Pow2Type
  <2>5. \A x, y \in Nat : 2 * (x * y) = x * (2 * y)
    OBVIOUS
  <2>6. Pow2[a + (b + 1)] = Pow2[a] * Pow2[b + 1]
    BY <2>2, <2>3, <2>4, <2>5
  <2> QED
    BY <2>1, <2>6
<1>3. G \in SUBSET Nat
  OBVIOUS
<1> HIDE DEF G
<1>4. G = Nat
  BY <1>1, <1>2, <1>3, NatSet
<1> QED
  BY <1>4 DEF G

LEMMA Pow2Grows ==
    ASSUME NEW a \in Nat, NEW b \in Nat, a <= b
    PROVE  Pow2[a] <= Pow2[b]
<1>1. b - a \in Nat /\ a + (b - a) = b
  OBVIOUS
<1>2. Pow2[b] = Pow2[a] * Pow2[b - a]
  BY <1>1, Pow2Sum
<1>3. Pow2[a] \in Nat \ {0} /\ Pow2[b - a] \in Nat \ {0}
  BY <1>1, Pow2Type
<1>4. \A x, y \in Nat \ {0} : x <= x * y
  OBVIOUS
<1> QED
  BY <1>2, <1>3, <1>4


-----------------------------------------------------------------------------
(* The number a byte string denotes.                                       *)

LEMMA GroupType == Group \in Nat \ {0} /\ Modulus \in Nat \ {0}
BY Pow2Type, VarintAssumption DEF Group, Modulus

LEMMA LowType == \A b \in ByteValues : Low(b) \in 0..Group - 1
<1>1. Group \in Nat \ {0}
  BY GroupType
<1> SUFFICES ASSUME NEW b \in ByteValues PROVE Low(b) \in 0..Group - 1
  OBVIOUS
<1>2. b \in Int
  BY <1>1 DEF ByteValues
<1> QED
  BY <1>1, <1>2 DEF Low

Place(bytes, n) == Low(bytes[n]) * Pow2[(n - 1) * GroupBits]

LEMMA PlaceType ==
    ASSUME NEW bytes \in Seq(ByteValues), NEW n \in 1..Len(bytes)
    PROVE  Place(bytes, n) \in Nat
<1>1. bytes[n] \in ByteValues
  OBVIOUS
<1>2. Low(bytes[n]) \in Nat
  BY <1>1, LowType, GroupType
<1>3. (n - 1) * GroupBits \in Nat
  BY VarintAssumption
<1>4. Pow2[(n - 1) * GroupBits] \in Nat
  BY <1>3, Pow2Type
<1>5. \A x, y \in Nat : x * y \in Nat
  OBVIOUS
<1> QED
  BY <1>2, <1>4, <1>5 DEF Place

\* The sums of the first n places, for n up to m.
Sums(bytes, m) ==
    {h \in [0..m -> Nat] : h[0] = 0 /\ \A n \in 1..m : h[n] = h[n - 1] + Place(bytes, n)}

LEMMA SumsExist ==
    ASSUME NEW bytes \in Seq(ByteValues)
    PROVE  \A m \in 0..Len(bytes) : \E h : h \in Sums(bytes, m)
<1> DEFINE G == {m \in 0..Len(bytes) : \E h : h \in Sums(bytes, m)}
<1>1. 0 \in G
  <2> DEFINE h == [n \in 0..0 |-> 0]
  <2>1. h \in Sums(bytes, 0)
    BY DEF Sums
  <2> QED
    BY <2>1
<1>2. ASSUME NEW m \in 0..Len(bytes), m \in G, m < Len(bytes) PROVE m + 1 \in G
  <2>1. PICK h : h \in Sums(bytes, m)
    BY <1>2
  <2>2. h \in [0..m -> Nat] /\ h[0] = 0 /\ \A n \in 1..m : h[n] = h[n - 1] + Place(bytes, n)
    BY <2>1 DEF Sums
  <2> DEFINE p == Place(bytes, m + 1)
             f == [n \in 0..m + 1 |-> IF n = m + 1 THEN h[m] + p ELSE h[n]]
  <2>3. p \in Nat
    BY <1>2, PlaceType
  <2> HIDE DEF p
  <2>4. h[m] \in Nat
    BY <2>2
  <2>5. f \in [0..m + 1 -> Nat]
    BY <2>2, <2>3, <2>4
  <2>6. f[0] = 0
    BY <2>2
  <2>7. ASSUME NEW n \in 1..m + 1 PROVE f[n] = f[n - 1] + Place(bytes, n)
    <3>1. CASE n = m + 1
      BY <3>1 DEF p
    <3>2. CASE n # m + 1
      BY <2>2, <3>2
    <3> QED
      BY <3>1, <3>2
  <2> HIDE DEF f
  <2>8. f \in Sums(bytes, m + 1)
    BY <2>5, <2>6, <2>7 DEF Sums
  <2> QED
    BY <1>2, <2>8
<1> HIDE DEF G
<1>3. \A m \in 0..Len(bytes) : m \in G
  BY <1>1, <1>2, RangeSet
<1> QED
  BY <1>3 DEF G

\* Denoted is the last of the sums.
LEMMA DenotedOf ==
    ASSUME NEW bytes \in Seq(ByteValues)
    PROVE  \E h \in Sums(bytes, Len(bytes)) : Denoted(bytes) = h[Len(bytes)]
<1> DEFINE Eqn(h) == h = [n \in 0..Len(bytes) |->
                IF n = 0 THEN 0
                ELSE h[n - 1] + Low(bytes[n]) * Pow2[(n - 1) * GroupBits]]
           c == CHOOSE h : Eqn(h)
<1>1. PICK f : f \in Sums(bytes, Len(bytes))
  BY SumsExist
<1>2. Eqn(f)
  <2>1. f \in [0..Len(bytes) -> Nat] /\ f[0] = 0
          /\ \A n \in 1..Len(bytes) : f[n] = f[n - 1] + Place(bytes, n)
    BY <1>1 DEF Sums
  <2>2. f = [n \in 0..Len(bytes) |-> f[n]]
    BY <2>1
  <2>3. ASSUME NEW n \in 0..Len(bytes)
        PROVE  f[n] = IF n = 0 THEN 0
                      ELSE f[n - 1] + Low(bytes[n]) * Pow2[(n - 1) * GroupBits]
    <3>1. n = 0 \/ n \in 1..Len(bytes)
      OBVIOUS
    <3> QED
      BY <2>1, <3>1 DEF Place
  <2> QED
    BY <2>2, <2>3
<1>3. Eqn(c)
  BY <1>2
<1> HIDE DEF c
<1>4. ASSUME NEW n \in 0..Len(bytes)
      PROVE  c[n] = IF n = 0 THEN 0
                    ELSE c[n - 1] + Low(bytes[n]) * Pow2[(n - 1) * GroupBits]
  BY <1>3
<1>5. c[0] = 0
  BY <1>4
<1>6. ASSUME NEW n \in 1..Len(bytes) PROVE c[n] = c[n - 1] + Place(bytes, n)
  <2>1. n \in 0..Len(bytes) /\ n # 0
    OBVIOUS
  <2> QED
    BY <1>4, <2>1 DEF Place
<1>7. \A n \in 0..Len(bytes) : c[n] \in Nat
  <2> DEFINE G == {n \in 0..Len(bytes) : c[n] \in Nat}
  <2>1. 0 \in G
    BY <1>5
  <2>2. ASSUME NEW n \in 0..Len(bytes), n \in G, n < Len(bytes) PROVE n + 1 \in G
    <3>1. n + 1 \in 1..Len(bytes) /\ n + 1 - 1 = n /\ n + 1 \in 0..Len(bytes)
      BY <2>2
    <3>2. Place(bytes, n + 1) \in Nat
      BY <3>1, PlaceType
    <3>3. c[n + 1] = c[n] + Place(bytes, n + 1)
      BY <1>6, <3>1
    <3>4. c[n] \in Nat
      BY <2>2
    <3>5. c[n + 1] \in Nat
      BY <3>2, <3>3, <3>4
    <3> QED
      BY <3>1, <3>5
  <2> HIDE DEF G
  <2>3. \A n \in 0..Len(bytes) : n \in G
    BY <2>1, <2>2, RangeSet
  <2> QED
    BY <2>3 DEF G
<1>8. c \in [0..Len(bytes) -> Nat]
  <2>1. c = [n \in 0..Len(bytes) |-> c[n]]
    BY <1>3
  <2> HIDE DEF Eqn
  <2> QED
    BY <1>7, <2>1
<1>9. c \in Sums(bytes, Len(bytes))
  BY <1>5, <1>6, <1>8 DEF Sums
<1>10. Denoted(bytes) = c[Len(bytes)]
  BY DEF Denoted, c
<1> QED
  BY <1>9, <1>10

LEMMA DenotedType == \A bytes \in Seq(ByteValues) : Denoted(bytes) \in Nat
<1> SUFFICES ASSUME NEW bytes \in Seq(ByteValues) PROVE Denoted(bytes) \in Nat
  OBVIOUS
<1>1. PICK h \in Sums(bytes, Len(bytes)) : Denoted(bytes) = h[Len(bytes)]
  BY DenotedOf
<1> QED
  BY <1>1 DEF Sums

LEMMA DenotedNone == Denoted(<<>>) = 0
<1>1. <<>> \in Seq(ByteValues) /\ Len(<<>>) = 0
  OBVIOUS
<1>2. PICK h \in Sums(<<>>, Len(<<>>)) : Denoted(<<>>) = h[Len(<<>>)]
  BY <1>1, DenotedOf
<1> QED
  BY <1>1, <1>2 DEF Sums

\* One more byte adds its group above those before it.
LEMMA DenotedAppend ==
    ASSUME NEW bytes \in Seq(ByteValues), NEW b \in ByteValues
    PROVE  Denoted(Append(bytes, b))
              = Denoted(bytes) + Low(b) * Pow2[Len(bytes) * GroupBits]
<1> DEFINE more == Append(bytes, b)
           m == Len(bytes)
<1>1. more \in Seq(ByteValues) /\ Len(more) = m + 1 /\ m \in Nat
        /\ more[m + 1] = b /\ \A n \in 1..m : more[n] = bytes[n]
  OBVIOUS
<1> HIDE DEF more
<1>2. PICK f \in Sums(bytes, Len(bytes)) : Denoted(bytes) = f[Len(bytes)]
  BY DenotedOf
<1>3. PICK g \in Sums(more, Len(more)) : Denoted(more) = g[Len(more)]
  BY <1>1, DenotedOf
<1>4. f \in [0..m -> Nat] /\ f[0] = 0 /\ \A n \in 1..m : f[n] = f[n - 1] + Place(bytes, n)
  BY DEF Sums
<1>5. g \in [0..m + 1 -> Nat] /\ g[0] = 0
        /\ \A n \in 1..m + 1 : g[n] = g[n - 1] + Place(more, n)
  BY <1>1 DEF Sums
<1>6. \A n \in 1..m : Place(more, n) = Place(bytes, n)
  BY <1>1 DEF Place
<1>7. \A n \in 0..m : g[n] = f[n]
  <2> DEFINE G == {n \in 0..m : g[n] = f[n]}
  <2>1. 0 \in G
    BY <1>1, <1>4, <1>5
  <2>2. ASSUME NEW n \in 0..m, n \in G, n < m PROVE n + 1 \in G
    <3>1. n + 1 \in 1..m /\ n + 1 \in 1..m + 1 /\ n + 1 - 1 = n /\ n + 1 \in 0..m
      BY <1>1, <2>2
    <3>2. g[n + 1] = g[n] + Place(more, n + 1)
      BY <1>5, <3>1
    <3>3. f[n + 1] = f[n] + Place(bytes, n + 1)
      BY <1>4, <3>1
    <3> QED
      BY <1>6, <2>2, <3>1, <3>2, <3>3
  <2> HIDE DEF G, m
  <2>3. \A n \in 0..m : n \in G
    BY <1>1, <2>1, <2>2, RangeSet
  <2> QED
    BY <2>3 DEF G
<1>8. g[m + 1] = g[m] + Place(more, m + 1)
  <2>1. m + 1 \in 1..m + 1 /\ m + 1 - 1 = m
    BY <1>1
  <2> QED
    BY <1>5, <2>1
<1>9. Place(more, m + 1) = Low(b) * Pow2[m * GroupBits]
  <2>1. m + 1 - 1 = m
    BY <1>1
  <2> QED
    BY <1>1, <2>1 DEF Place
<1> QED
  BY <1>1, <1>2, <1>3, <1>7, <1>8, <1>9 DEF more


-----------------------------------------------------------------------------
(* Arithmetic.                                                             *)

LEMMA DivMod ==
    ASSUME NEW x \in Int, NEW d \in Nat \ {0}
    PROVE  x \div d \in Int /\ x % d \in 0..d - 1 /\ x = (x \div d) * d + (x % d)
OBVIOUS

LEMMA QuotientIs ==
    ASSUME NEW x \in Int, NEW d \in Nat \ {0}, NEW q \in Int, NEW r \in 0..d - 1,
           x = q * d + r
    PROVE  x \div d = q /\ x % d = r
<1> DEFINE p == x \div d
           e == x % d
<1>1. p \in Int /\ e \in 0..d - 1 /\ x = p * d + e
  BY DivMod
<1> HIDE DEF p, e
<1>2. (q - p) * d = e - r
  BY <1>1
<1>3. CASE q - p >= 1
  <2>1. \A a \in Int : a >= 1 => a * d >= d
    OBVIOUS
  <2> QED
    BY <1>1, <1>2, <1>3, <2>1
<1>4. CASE q - p <= -1
  <2>1. \A a \in Int : a <= -1 => a * d <= -d
    OBVIOUS
  <2> QED
    BY <1>1, <1>2, <1>4, <2>1
<1>5. CASE q = p
  BY <1>1, <1>5 DEF p, e
<1> QED
  BY <1>1, <1>3, <1>4, <1>5

LEMMA FlagFallsOff ==
    ASSUME NEW d \in Nat \ {0}, NEW l \in 0..d - 1
    PROVE  (l + d) % d = l
<1> DEFINE x == l + d
           q == 1
<1>1. x \in Int /\ q \in Int /\ x = q * d + l
  OBVIOUS
<1> HIDE DEF x, q
<1>2. x % d = l
  BY <1>1, QuotientIs
<1> QED
  BY <1>2 DEF x

\* A number of n places and one more digit below d.
LEMMA PlacesBelow ==
    ASSUME NEW p \in Nat \ {0}, NEW v \in 0..p - 1, NEW digit \in Nat, NEW d \in Nat
    PROVE  digit < d <=> v + digit * p < p * d
<1>1. CASE digit < d
  <2>1. d - digit >= 1 /\ d - digit \in Int
    BY <1>1
  <2>2. \A a \in Int : a >= 1 => a * p >= p
    OBVIOUS
  <2>3. (d - digit) * p >= p
    BY <2>1, <2>2
  <2>4. (d - digit) * p = p * d - digit * p
    OBVIOUS
  <2>5. v < p
    OBVIOUS
  <2> DEFINE A == p * d
             B == digit * p
  <2>6. A \in Int /\ B \in Int
    OBVIOUS
  <2>7. A - B >= p
    BY <2>3, <2>4
  <2> HIDE DEF A, B
  <2>8. v + B < A
    BY <2>5, <2>6, <2>7
  <2> QED
    BY <1>1, <2>8 DEF A, B
<1>2. CASE digit >= d
  <2>1. digit - d \in Nat
    BY <1>2
  <2>2. \A a \in Nat : a * p >= 0
    OBVIOUS
  <2>3. (digit - d) * p >= 0
    BY <2>1, <2>2
  <2>4. (digit - d) * p = digit * p - p * d
    OBVIOUS
  <2> DEFINE A == p * d
             B == digit * p
  <2>6. A \in Int /\ B \in Int
    OBVIOUS
  <2>7. B - A >= 0
    BY <2>3, <2>4
  <2> HIDE DEF A, B
  <2>8. ~(v + B < A)
    BY <2>6, <2>7
  <2> QED
    BY <1>2, <2>8 DEF A, B
<1> QED
  BY <1>1, <1>2

LEMMA QuotientZero ==
    ASSUME NEW x \in Nat, NEW d \in Nat \ {0}
    PROVE  x \div d = 0 <=> x < d
<1>1. CASE x < d
  <2>1. x = 0 * d + x /\ x \in 0..d - 1
    BY <1>1
  <2> QED
    BY <1>1, <2>1, QuotientIs
<1>2. CASE x >= d
  <2>1. x = (x \div d) * d + (x % d) /\ x % d \in 0..d - 1
    BY DivMod
  <2>2. x \div d = 0 => x = x % d
    BY <2>1
  <2> QED
    BY <1>2, <2>1, <2>2
<1> QED
  BY <1>1, <1>2

-----------------------------------------------------------------------------
(* _varint_decode.                                                         *)

Accumulators == [value : Nat, shift : Nat, status : {"more", "done", "overflow"}]

\* The test of the last group is exact: it fails when the number is too wide.
LEMMA TooWideIsExact ==
    ASSUME NEW shift \in Nat, shift < ValueBits,
           NEW value \in 0..Pow2[shift] - 1, NEW b \in ByteValues
    PROVE  /\ value + Low(b) * Pow2[shift] \in Nat
           /\ value + Low(b) * Pow2[shift] < Pow2[shift + GroupBits]
           /\ (ValueBits - shift < GroupBits /\ Low(b) \div Pow2[ValueBits - shift] # 0)
                 <=> value + Low(b) * Pow2[shift] >= Modulus
<1> DEFINE p == Pow2[shift]
           l == Low(b)
<1>1. p \in Nat \ {0} /\ value \in 0..p - 1
  BY Pow2Type
<1>2. l \in Nat /\ l < Group /\ Group \in Nat
  BY LowType, GroupType
<1>3. Pow2[shift + GroupBits] = p * Group
  BY Pow2Sum, VarintAssumption DEF Group
<1> HIDE DEF p, l
<1>4. value + l * p \in Nat
  <2>1. l * p \in Nat
    BY <1>1, <1>2
  <2> QED
    BY <1>1, <2>1
<1>5. value + l * p < p * Group
  BY <1>1, <1>2, PlacesBelow
<1>6. ValueBits \in Nat /\ GroupBits \in Nat
  BY VarintAssumption
<1>7. CASE ValueBits - shift < GroupBits
  <2> DEFINE q == Pow2[ValueBits - shift]
  <2>1. ValueBits - shift \in Nat /\ shift + (ValueBits - shift) = ValueBits
    BY <1>6
  <2>2. q \in Nat \ {0}
    BY <2>1, Pow2Type
  <2>3. Modulus = p * q
    BY <2>1, Pow2Sum DEF Modulus, p
  <2> HIDE DEF q
  <2>4. l < q <=> value + l * p < p * q
    BY <1>1, <1>2, <2>2, PlacesBelow
  <2>5. l \div q = 0 <=> l < q
    BY <1>2, <2>2, QuotientZero
  <2>6. p * q \in Nat
    BY <1>1, <2>2
  <2>7. l \div q # 0 <=> value + l * p >= Modulus
    BY <1>4, <2>3, <2>4, <2>5, <2>6
  <2> QED
    BY <1>3, <1>4, <1>5, <1>7, <2>7 DEF p, l, q
<1>8. CASE ~(ValueBits - shift < GroupBits)
  <2>1. shift + GroupBits \in Nat /\ shift + GroupBits <= ValueBits
    BY <1>6, <1>8
  <2>2. Pow2[shift + GroupBits] <= Modulus
    BY <1>6, <2>1, Pow2Grows DEF Modulus
  <2>3. p * Group \in Nat
    BY <1>1, <1>2
  <2>4. ~(value + l * p >= Modulus)
    BY <1>3, <1>4, <1>5, <2>2, <2>3, GroupType
  <2> QED
    BY <1>3, <1>4, <1>5, <1>8, <2>4 DEF p, l
<1> QED
  BY <1>7, <1>8

\* One byte more: what the decoder has then, and when it gives up.
LEMMA DecodeStep ==
    ASSUME NEW bytes \in Seq(ByteValues), NEW b \in ByteValues,
           NEW d \in Accumulators, NEW r, r = DecodeByte(d, b),
           d.shift = Len(bytes) * GroupBits, d.shift < ValueBits,
           d.value = Denoted(bytes), d.value < Pow2[d.shift]
    PROVE  /\ r \in Accumulators
           /\ Denoted(Append(bytes, b)) = Denoted(bytes) + Low(b) * Pow2[d.shift]
           /\ r.status = "overflow" <=>
                 \/ Denoted(Append(bytes, b)) >= Modulus
                 \/ Flagged(b) /\ (Len(bytes) + 1) * GroupBits >= ValueBits
           /\ r.status = "done" =>
                 r.value = Denoted(Append(bytes, b)) /\ ~Flagged(b)
           /\ r.status = "more" =>
                 /\ Flagged(b)
                 /\ r.shift = (Len(bytes) + 1) * GroupBits
                 /\ r.shift < ValueBits
                 /\ r.value = Denoted(Append(bytes, b))
                 /\ r.value < Pow2[r.shift]
<1> DEFINE value == d.value + Low(b) * Pow2[d.shift]
           shift == d.shift + GroupBits
           wide == ValueBits - d.shift < GroupBits
                      /\ Low(b) \div Pow2[ValueBits - d.shift] # 0
<1>1. d.shift \in Nat /\ d.value \in Nat
  BY DEF Accumulators
<1>2. d.value \in 0..Pow2[d.shift] - 1
  BY <1>1, Pow2Type
<1>3. /\ value \in Nat
      /\ value < Pow2[shift]
      /\ wide <=> value >= Modulus
  BY <1>1, <1>2, TooWideIsExact
<1>4. Denoted(Append(bytes, b)) = value
  BY DenotedAppend
<1>5. shift = (Len(bytes) + 1) * GroupBits /\ shift \in Nat
  <2>1. Len(bytes) \in Nat /\ GroupBits \in Nat
    BY VarintAssumption
  <2>2. Len(bytes) * GroupBits + GroupBits = (Len(bytes) + 1) * GroupBits
    BY <2>1
  <2> QED
    BY <1>1, <2>1, <2>2
<1>6. ~(d.shift >= ValueBits)
  BY <1>1, VarintAssumption
<1>7. Flagged(b) \in BOOLEAN
  BY DEF Flagged
<1>8. r = IF wide THEN [d EXCEPT !.status = "overflow"]
          ELSE IF ~Flagged(b) THEN [value |-> value, shift |-> 0, status |-> "done"]
          ELSE [value |-> value, shift |-> shift,
                status |-> IF shift >= ValueBits THEN "overflow" ELSE "more"]
  BY <1>6 DEF DecodeByte
<1> HIDE DEF value, shift, wide
<1>9. CASE wide
  <2>1. r = [d EXCEPT !.status = "overflow"]
    BY <1>8, <1>9
  <2>2. r \in Accumulators /\ r.status = "overflow"
    BY <2>1 DEF Accumulators
  <2> QED
    BY <1>3, <1>4, <1>9, <2>2 DEF value
<1>10. CASE ~wide /\ ~Flagged(b)
  <2>1. r = [value |-> value, shift |-> 0, status |-> "done"]
    BY <1>8, <1>10
  <2>2. r \in Accumulators /\ r.status = "done" /\ r.value = value
    BY <1>3, <2>1 DEF Accumulators
  <2> QED
    BY <1>3, <1>4, <1>10, <2>2 DEF value
<1>11. CASE ~wide /\ Flagged(b) /\ shift >= ValueBits
  <2>1. r = [value |-> value, shift |-> shift, status |-> "overflow"]
    BY <1>8, <1>11
  <2>2. r \in Accumulators /\ r.status = "overflow"
    BY <1>3, <1>5, <2>1 DEF Accumulators
  <2> QED
    BY <1>3, <1>4, <1>5, <1>11, <2>2 DEF value
<1>12. CASE ~wide /\ Flagged(b) /\ ~(shift >= ValueBits)
  <2>1. r = [value |-> value, shift |-> shift, status |-> "more"]
    BY <1>8, <1>12
  <2>2. r \in Accumulators /\ r.status = "more" /\ r.value = value /\ r.shift = shift
    BY <1>3, <1>5, <2>1 DEF Accumulators
  <2>3. shift < ValueBits
    BY <1>5, <1>12, VarintAssumption
  <2>4. ~(value >= Modulus)
    BY <1>3, <1>12
  <2>5. r.value < Pow2[r.shift]
    BY <1>3, <2>2
  <2>6. Denoted(Append(bytes, b)) = Denoted(bytes) + Low(b) * Pow2[d.shift]
    BY <1>4 DEF value
  <2> QED
    BY <1>4, <1>5, <1>12, <2>2, <2>3, <2>4, <2>5, <2>6
<1> QED
  BY <1>9, <1>10, <1>11, <1>12


-----------------------------------------------------------------------------
(* The two loops.                                                          *)

LEMMA ValuesType == -1 \notin Values /\ Values \subseteq Nat /\ 0 \in Values
BY GroupType DEF Values

LEMMA VarintInit == Init => Inductive
<1> SUFFICES ASSUME Init PROVE Inductive
  OBVIOUS
<1>1. num \in Values \cup {-1} /\ rest = num /\ fed = <<>> /\ dec = Fresh
  BY DEF Init
<1>2. dec = [value |-> 0, shift |-> 0, status |-> "more"]
  BY <1>1 DEF Fresh
<1>3. dec.value = 0 /\ dec.shift = 0 /\ dec.status = "more" /\ dec \in Accumulators
  BY <1>2 DEF Accumulators
<1>4. Number = 0
  BY <1>1, DenotedNone DEF Number
<1>5. Len(fed) * GroupBits = 0
  <2>1. Len(fed) = 0
    BY <1>1
  <2> QED
    BY <2>1, VarintAssumption
<1>6. TypeOK
  BY <1>1, <1>3 DEF TypeOK, Accumulators
<1>7. Accumulated
  BY <1>3, <1>4, <1>5, Pow2Zero, VarintAssumption DEF Accumulated
<1>8. Remaining
  <2>1. num \in Int
    BY <1>1, ValuesType
  <2>2. num = Number + rest * Pow2[dec.shift]
    BY <1>1, <1>3, <1>4, <2>1, Pow2Zero
  <2> QED
    BY <1>1, <1>3, <2>2 DEF Remaining
<1>9. DecodesTheNumber /\ OverflowIsExact /\ RoundTrip
  BY <1>1, <1>3 DEF DecodesTheNumber, OverflowIsExact, RoundTrip
<1> QED
  BY <1>6, <1>7, <1>8, <1>9 DEF Inductive

\* What either loop does to the decoder.
LEMMA FeedStep ==
    ASSUME TypeOK, Accumulated, dec.status = "more",
           NEW byte \in ByteValues, Feed(byte)
    PROVE  /\ fed' \in Seq(ByteValues)
           /\ dec' \in Accumulators
           /\ Len(fed') = Len(fed) + 1
           /\ fed'[Len(fed')] = byte
           /\ fed' # <<>>
           /\ Number' = Number + Low(byte) * Pow2[dec.shift]
           /\ Accumulated'
           /\ DecodesTheNumber'
           /\ OverflowIsExact'
           /\ dec'.status = "more" => Flagged(byte)
           /\ dec'.status = "done" => ~Flagged(byte) /\ dec'.value = Number'
<1>1. fed \in Seq(ByteValues) /\ dec \in Accumulators
  BY DEF TypeOK, Accumulators
<1>2. dec.shift = Len(fed) * GroupBits /\ dec.shift < ValueBits
        /\ dec.value = Denoted(fed) /\ dec.value < Pow2[dec.shift]
  BY DEF Accumulated, Number
<1>3. fed' = Append(fed, byte) /\ dec' = DecodeByte(dec, byte)
  BY DEF Feed
<1>4. fed' \in Seq(ByteValues) /\ Len(fed') = Len(fed) + 1 /\ fed'[Len(fed')] = byte
        /\ Len(fed') # 0
  BY <1>1, <1>3
<1>5. fed' # <<>>
  BY <1>4
<1>6. Number' = Denoted(Append(fed, byte))
  BY <1>3 DEF Number
<1> DEFINE r == DecodeByte(dec, byte)
<1> HIDE DEF r
<1>7. r = DecodeByte(dec, byte)
  BY DEF r
<1>8. dec' = r
  BY <1>3, <1>7
<1>9. /\ r \in Accumulators
      /\ Denoted(Append(fed, byte)) = Denoted(fed) + Low(byte) * Pow2[dec.shift]
      /\ r.status = "overflow" <=>
            \/ Denoted(Append(fed, byte)) >= Modulus
            \/ Flagged(byte) /\ (Len(fed) + 1) * GroupBits >= ValueBits
      /\ r.status = "done" =>
            r.value = Denoted(Append(fed, byte)) /\ ~Flagged(byte)
      /\ r.status = "more" =>
            /\ Flagged(byte)
            /\ r.shift = (Len(fed) + 1) * GroupBits
            /\ r.shift < ValueBits
            /\ r.value = Denoted(Append(fed, byte))
            /\ r.value < Pow2[r.shift]
  BY <1>1, <1>2, <1>7, DecodeStep
<1>10. Number' = Number + Low(byte) * Pow2[dec.shift]
  BY <1>6, <1>9 DEF Number
<1>11. Accumulated'
  BY <1>4, <1>6, <1>8, <1>9 DEF Accumulated
<1>12. DecodesTheNumber'
  BY <1>6, <1>8, <1>9 DEF DecodesTheNumber
<1>13. OverflowIsExact'
  BY <1>4, <1>6, <1>8, <1>9 DEF OverflowIsExact
<1> QED
  BY <1>4, <1>5, <1>6, <1>8, <1>9, <1>10, <1>11, <1>12, <1>13

LEMMA ArbitraryStep ==
    ASSUME Inductive, ArbitraryByte
    PROVE  Inductive'
<1>1. num = -1 /\ dec.status = "more" /\ num' = num /\ rest' = rest
  BY DEF ArbitraryByte
<1>2. PICK byte \in ByteValues : Feed(byte)
  BY DEF ArbitraryByte
<1>3. TypeOK /\ Accumulated /\ Remaining
  BY DEF Inductive
<1>4. /\ fed' \in Seq(ByteValues)
      /\ dec' \in Accumulators
      /\ Accumulated'
      /\ DecodesTheNumber'
      /\ OverflowIsExact'
  BY <1>1, <1>2, <1>3, FeedStep
<1>5. rest = -1
  BY <1>1, <1>3 DEF Remaining
<1>6. TypeOK'
  BY <1>1, <1>3, <1>4 DEF TypeOK, Accumulators, Values
<1>7. Remaining'
  BY <1>1, <1>5 DEF Remaining
<1>8. RoundTrip'
  BY <1>1 DEF RoundTrip
<1> QED
  BY <1>4, <1>6, <1>7, <1>8 DEF Inductive

\* The byte the encoder writes for what it has left.
LEMMA EncodedByte ==
    ASSUME NEW r \in Nat, NEW b,
           b = Low(r) + (IF r \div Group # 0 THEN Group ELSE 0)
    PROVE  /\ b \in ByteValues
           /\ Low(b) = Low(r)
           /\ Low(r) \in Nat
           /\ r \div Group \in Nat
           /\ Flagged(b) <=> r \div Group # 0
           /\ r = (r \div Group) * Group + Low(r)
           /\ r \div Group = 0 => b = r
<1> DEFINE q == r \div Group
           l == r % Group
<1>1. Group \in Nat \ {0}
  BY GroupType
<1>2. q \in Int /\ l \in 0..Group - 1 /\ r = q * Group + l
  <2>1. r \in Int
    OBVIOUS
  <2>2. ASSUME NEW x \in Int, NEW d \in Nat \ {0}
        PROVE  x \div d \in Int /\ x % d \in 0..d - 1 /\ x = (x \div d) * d + (x % d)
    BY DivMod
  <2> QED
    BY <1>1, <2>1, <2>2, Zenon
<1>3. Low(r) = l
  BY DEF Low
<1>4. q \in Nat
  <2>1. CASE q <= -1
    <3>1. \A a \in Int : a <= -1 => a * Group <= -Group
      BY <1>1
    <3>2. q * Group <= -Group
      BY <1>2, <2>1, <3>1
    <3> QED
      BY <1>1, <1>2, <3>2
  <2> QED
    BY <1>2, <2>1
<1> HIDE DEF q, l
<1>5. CASE q = 0
  <2>1. b = l
    BY <1>1, <1>2, <1>3, <1>5 DEF q
  <2>2. l = 0 * Group + l
    BY <1>1, <1>2
  <2>3. l % Group = l
    BY <1>1, <1>2, <2>2, QuotientIs
  <2>4. Low(b) = l
    BY <2>1, <2>3 DEF Low
  <2>5. b \in ByteValues /\ ~Flagged(b)
    BY <1>1, <1>2, <2>1 DEF ByteValues, Flagged
  <2>6. b = r
    BY <1>1, <1>2, <1>5, <2>1
  <2> QED
    BY <1>2, <1>3, <1>4, <1>5, <2>4, <2>5, <2>6 DEF q
<1>6. CASE q # 0
  <2>1. b = l + Group
    BY <1>1, <1>2, <1>3, <1>6 DEF q
  <2>3. b % Group = l
    BY <1>1, <1>2, <2>1, FlagFallsOff
  <2>4. Low(b) = l
    BY <2>3 DEF Low
  <2>5. b \in ByteValues /\ Flagged(b)
    BY <1>1, <1>2, <2>1 DEF ByteValues, Flagged
  <2> QED
    BY <1>2, <1>3, <1>4, <1>6, <2>4, <2>5 DEF q
<1> QED
  BY <1>5, <1>6

\* The groups written and those left always make up the value, so that the
\* decoder finds it neither too wide nor unfinished.
LEMMA EncodeStep ==
    ASSUME Inductive, EncodeByte
    PROVE  Inductive'
<1> DEFINE more == rest \div Group
           byte == Low(rest) + (IF more # 0 THEN Group ELSE 0)
           p == Pow2[dec.shift]
<1>1. /\ rest >= 0
      /\ Feed(byte)
      /\ rest' = IF more # 0 THEN more ELSE -1
      /\ num' = num
  BY DEF EncodeByte
<1>2. TypeOK /\ Accumulated /\ Remaining
  BY DEF Inductive
<1>3. num \in Values \cup {-1} /\ rest \in Nat
  BY <1>1, <1>2, ValuesType DEF TypeOK
<1>4. num \in Values /\ num \in Nat
  BY <1>1, <1>2, <1>3, ValuesType DEF Remaining
<1>5. dec.status = "more" /\ num = Number + rest * p /\ (fed # <<>> => rest > 0)
  BY <1>1, <1>2 DEF Remaining
<1> HIDE DEF byte, more, p
<1>6. /\ byte \in ByteValues
      /\ Low(byte) = Low(rest)
      /\ Low(rest) \in Nat
      /\ more \in Nat
      /\ Flagged(byte) <=> more # 0
      /\ rest = more * Group + Low(rest)
      /\ more = 0 => byte = rest
  BY <1>3, EncodedByte DEF byte, more
<1>7. /\ fed' \in Seq(ByteValues)
      /\ dec' \in Accumulators
      /\ Len(fed') = Len(fed) + 1
      /\ fed'[Len(fed')] = byte
      /\ fed' # <<>>
      /\ Number' = Number + Low(byte) * p
      /\ Accumulated'
      /\ DecodesTheNumber'
      /\ OverflowIsExact'
      /\ dec'.status = "more" => Flagged(byte)
      /\ dec'.status = "done" => ~Flagged(byte) /\ dec'.value = Number'
  BY <1>1, <1>2, <1>5, <1>6, FeedStep DEF p
<1>8. fed \in Seq(ByteValues) /\ dec \in Accumulators /\ dec.shift \in Nat
  BY <1>2 DEF TypeOK, Accumulators
<1>9. p \in Nat \ {0} /\ Group \in Nat \ {0} /\ Modulus \in Nat
  BY <1>8, Pow2Type, GroupType DEF p
<1>10. Number \in Nat
  BY <1>8, DenotedType DEF Number
<1>11. num = Number' + more * (Group * p)
  <2> DEFINE l == Low(rest)
  <2>1. l \in Nat /\ rest = more * Group + l /\ Number' = Number + l * p
    BY <1>6, <1>7
  <2> HIDE DEF l
  <2>2. \A x, y \in Nat : (x * Group + y) * p = x * (Group * p) + y * p
    BY <1>9
  <2>3. rest * p = more * (Group * p) + l * p
    BY <1>6, <2>1, <2>2
  <2>4. more * (Group * p) \in Nat /\ l * p \in Nat
    BY <1>6, <1>9, <2>1
  <2> QED
    BY <1>5, <1>10, <2>1, <2>3, <2>4
<1>12. Number' \in Nat
  BY <1>7, DenotedType DEF Number
<1>13. num < Modulus
  BY <1>4, GroupType DEF Values
<1>14. ~(Number' >= Modulus)
  <2>1. more * (Group * p) \in Nat
    BY <1>6, <1>9
  <2> QED
    BY <1>9, <1>11, <1>12, <1>13, <2>1
<1>15. dec.shift + GroupBits = Len(fed') * GroupBits /\ Len(fed') * GroupBits \in Nat
  <2>1. dec.shift = Len(fed) * GroupBits
    BY <1>2, <1>5 DEF Accumulated
  <2>2. Len(fed) \in Nat /\ GroupBits \in Nat
    BY <1>8, VarintAssumption
  <2>3. Len(fed) * GroupBits + GroupBits = (Len(fed) + 1) * GroupBits
    BY <2>2
  <2>4. (Len(fed) + 1) * GroupBits \in Nat
    BY <2>2
  <2> QED
    BY <1>7, <2>1, <2>3, <2>4
<1>16. Pow2[Len(fed') * GroupBits] = Group * p
  <2>1. Pow2[dec.shift + GroupBits] = Pow2[dec.shift] * Group
    BY <1>8, Pow2Sum, VarintAssumption DEF Group
  <2>2. p * Group = Group * p
    BY <1>9
  <2> QED
    BY <1>15, <2>1, <2>2 DEF p
<1>17. more # 0 => ~(Len(fed') * GroupBits >= ValueBits)
  <2> SUFFICES ASSUME more # 0, Len(fed') * GroupBits >= ValueBits PROVE FALSE
    OBVIOUS
  <2>1. Modulus <= Group * p
    BY <1>15, <1>16, Pow2Grows, VarintAssumption DEF Modulus
  <2>2. Group * p \in Nat
    BY <1>9
  <2>3. \A x \in Nat \ {0}, y \in Nat : y <= x * y
    OBVIOUS
  <2>4. Group * p <= more * (Group * p)
    BY <1>6, <2>2, <2>3
  <2>5. more * (Group * p) \in Nat
    BY <1>6, <2>2
  <2> QED
    BY <1>9, <1>11, <1>12, <1>13, <2>1, <2>2, <2>4, <2>5
<1>18. dec'.status # "overflow"
  BY <1>6, <1>7, <1>14, <1>17 DEF OverflowIsExact
<1>19. dec'.status = IF more # 0 THEN "more" ELSE "done"
  BY <1>6, <1>7, <1>18 DEF Accumulators
<1>20. more = 0 => Number' = num
  <2>1. Group * p \in Nat
    BY <1>9
  <2>2. \A x \in Nat : 0 * x = 0
    OBVIOUS
  <2> QED
    BY <1>11, <1>12, <2>1, <2>2
<1>21. TypeOK'
  <2>1. more # 0 => more \in Values
    <3> SUFFICES ASSUME more # 0 PROVE more \in Values
      OBVIOUS
    <3>1. \A x \in Nat, y \in Nat \ {0} : x <= x * y
      OBVIOUS
    <3>2. Group * p \in Nat \ {0}
      BY <1>9
    <3>3. more <= more * (Group * p) /\ more * (Group * p) \in Nat
      BY <1>6, <3>1, <3>2
    <3> DEFINE left == more * (Group * p)
    <3>4. num = Number' + left /\ more <= left /\ left \in Nat
      BY <1>11, <3>3
    <3> HIDE DEF left
    <3>5. more \in Nat /\ Modulus \in Nat
      BY <1>6, <1>9
    <3>6. num \in Nat
      BY <1>4
    <3>7. \A a, b, c, d, m \in Nat : a = b + c /\ d <= c /\ a < m => d < m
      OBVIOUS
    <3>8. more < Modulus
      BY <1>12, <1>13, <3>4, <3>5, <3>6, <3>7
    <3> QED
      BY <3>5, <3>8 DEF Values
  <2>2. rest' \in Values \cup {-1}
    BY <1>1, <2>1
  <2>3. num' \in Values \cup {-1}
    BY <1>1, <1>4
  <2> QED
    BY <1>7, <2>2, <2>3 DEF TypeOK, Accumulators, Values
<1>22. Remaining'
  <2>1. num' # -1
    BY <1>1, <1>4
  <2>2. CASE more = 0
    BY <1>1, <2>1, <2>2 DEF Remaining
  <2>3. CASE more # 0
    <3>1. rest' = more /\ dec'.status = "more"
      BY <1>1, <1>19, <2>3
    <3>2. dec'.shift = Len(fed') * GroupBits
      BY <1>7, <3>1 DEF Accumulated
    <3>3. num' = Number' + rest' * Pow2[dec'.shift]
      BY <1>1, <1>11, <1>16, <3>1, <3>2
    <3>4. rest' > 0
      BY <1>6, <2>3, <3>1
    <3> QED
      BY <2>1, <3>1, <3>3, <3>4 DEF Remaining
  <2> QED
    BY <2>2, <2>3
<1>23. RoundTrip'
  <2>1. rest' = -1 <=> more = 0
    BY <1>1, <1>6
  <2>2. more = 0 => dec'.value = num'
    BY <1>1, <1>7, <1>19, <1>20
  <2>3. more = 0 /\ Len(fed') > 1 => byte # 0
    <3> SUFFICES ASSUME more = 0, Len(fed') > 1 PROVE byte # 0
      OBVIOUS
    <3>1. fed # <<>>
      BY <1>7
    <3> QED
      BY <1>5, <1>6, <3>1
  <2> QED
    BY <1>7, <1>19, <2>1, <2>2, <2>3 DEF RoundTrip
<1> QED
  BY <1>7, <1>21, <1>22, <1>23 DEF Inductive

LEMMA VarintNext == Inductive /\ [Next]_vars => Inductive'
<1> SUFFICES ASSUME Inductive, [Next]_vars PROVE Inductive'
  OBVIOUS
<1>1. CASE EncodeByte
  BY <1>1, EncodeStep
<1>2. CASE ArbitraryByte
  BY <1>2, ArbitraryStep
<1>3. CASE UNCHANGED vars
  BY <1>3 DEF vars, Inductive, TypeOK, Accumulated, Remaining, DecodesTheNumber,
             OverflowIsExact, RoundTrip, Number, Values
<1> QED
  BY <1>1, <1>2, <1>3 DEF Next

\* The account of both loops, for every width of a group and of a value.
THEOREM VarintHolds == Spec => []Inductive
BY VarintInit, VarintNext, PTL DEF Spec

\* A decoded value is the number its bytes denote.  (_varint_decode)
THEOREM DecodedIsDenoted == Spec => []DecodesTheNumber
<1>1. Inductive => DecodesTheNumber
  BY DEF Inductive
<1> QED
  BY VarintHolds, <1>1, PTL

\* The decoder gives up on exactly the byte strings that no value of the type
\* has, at the first byte that settles it.  (_varint_decode)
THEOREM OverflowExact == Spec => []OverflowIsExact
<1>1. Inductive => OverflowIsExact
  BY DEF Inductive
<1> QED
  BY VarintHolds, <1>1, PTL

\* Every value that is encoded is decoded to itself, from the fewest bytes.
\* (_varint_encode, _varint_decode)
THEOREM VarintRoundTrip == Spec => []RoundTrip
<1>1. Inductive => RoundTrip
  BY DEF Inductive
<1> QED
  BY VarintHolds, <1>1, PTL


-----------------------------------------------------------------------------
(* ZigZag and the width checks.                                            *)

Half == Pow2[ValueBits - 1]

LEMMA HalfIs == Half \in Nat \ {0} /\ Modulus = 2 * Half
<1>1. ValueBits - 1 \in Nat /\ (ValueBits - 1) + 1 = ValueBits
  BY VarintAssumption
<1> QED
  BY <1>1, Pow2Type, Pow2Next DEF Half, Modulus

LEMMA SignedIs ==
    ASSUME NEW u \in 0..Modulus - 1
    PROVE  /\ Signed(u) = IF u >= Half THEN u - Modulus ELSE u
           /\ Signed(u) \in -Half..Half - 1
           /\ Unsigned(Signed(u)) = u
<1>1. Half \in Nat \ {0} /\ Modulus = 2 * Half /\ Modulus \in Nat \ {0}
  BY HalfIs
<1>2. Modulus \div 2 = Half
  BY <1>1
<1>3. Signed(u) = IF u >= Half THEN u - Modulus ELSE u
  BY <1>2 DEF Signed
<1>4. Signed(u) \in -Half..Half - 1
  BY <1>1, <1>3
<1>5. CASE u >= Half
  <2> DEFINE s == Signed(u)
             q == -1
  <2>1. s \in Int /\ q \in Int /\ s = q * Modulus + u
    BY <1>1, <1>3, <1>5
  <2> HIDE DEF s, q
  <2>2. s % Modulus = u
    BY <1>1, <2>1, QuotientIs
  <2> QED
    BY <1>3, <1>4, <2>2 DEF Unsigned, s
<1>6. CASE ~(u >= Half)
  <2> DEFINE s == Signed(u)
             q == 0
  <2>1. s \in Int /\ q \in Int /\ s = q * Modulus + u
    BY <1>1, <1>3, <1>6
  <2> HIDE DEF s, q
  <2>2. s % Modulus = u
    BY <1>1, <2>1, QuotientIs
  <2> QED
    BY <1>3, <1>4, <2>2 DEF Unsigned, s
<1> QED
  BY <1>5, <1>6

\* Every signed value is that of its code.
LEMMA UnsignedIs ==
    ASSUME NEW s \in -Half..Half - 1
    PROVE  /\ Unsigned(s) = IF s < 0 THEN s + Modulus ELSE s
           /\ Unsigned(s) \in 0..Modulus - 1
           /\ Signed(Unsigned(s)) = s
<1>1. Half \in Nat \ {0} /\ Modulus = 2 * Half /\ Modulus \in Nat \ {0}
  BY HalfIs
<1> DEFINE u == IF s < 0 THEN s + Modulus ELSE s
<1>2. u \in 0..Modulus - 1 /\ s \in Int
  BY <1>1
<1>3. Signed(u) = s
  <2>1. Signed(u) = IF u >= Half THEN u - Modulus ELSE u
    BY <1>2, SignedIs
  <2> QED
    BY <1>1, <2>1
<1>4. Unsigned(Signed(u)) = u
  <2> HIDE DEF u
  <2> QED
    BY <1>2, SignedIs
<1>5. Unsigned(s) = u
  <2> HIDE DEF u
  <2> QED
    BY <1>3, <1>4
<1> QED
  BY <1>2, <1>3, <1>5

LEMMA ZigzagEncodeIs ==
    ASSUME NEW s \in -Half..Half - 1
    PROVE  ZigzagEncode(s) = IF s < 0 THEN -2 * s - 1 ELSE 2 * s
<1>1. Half \in Nat \ {0} /\ Modulus = 2 * Half /\ Modulus \in Nat \ {0}
  BY HalfIs
<1>2. Unsigned(s) = IF s < 0 THEN s + Modulus ELSE s
  BY UnsignedIs
<1> DEFINE x == 2 * Unsigned(s)
           q == IF s < 0 THEN 1 ELSE 0
           r == IF s < 0 THEN 2 * s + Modulus ELSE 2 * s
<1>3. x \in Int /\ q \in Int /\ r \in 0..Modulus - 1
  BY <1>1, <1>2
<1>4. x = q * Modulus + r
  <2>1. CASE s < 0
    <3>1. x = 2 * s + 2 * Modulus /\ q * Modulus = Modulus /\ r = 2 * s + Modulus
      BY <1>1, <1>2, <2>1
    <3> HIDE DEF x, q, r
    <3> QED
      BY <1>1, <3>1
  <2>2. CASE ~(s < 0)
    BY <1>1, <1>2, <2>2
  <2> QED
    BY <2>1, <2>2
<1> HIDE DEF x, q, r
<1>5. x % Modulus = r
  BY <1>1, <1>3, <1>4, QuotientIs
<1>6. ZigzagEncode(s) = IF s < 0 THEN Complement(r) ELSE r
  BY <1>5 DEF ZigzagEncode, x
<1> QED
  BY <1>1, <1>6 DEF Complement, r

LEMMA ZigzagDecodeIs ==
    ASSUME NEW u \in 0..Modulus - 1, NEW k \in Int
    PROVE  /\ u = 2 * k => ZigzagDecode(u) = k /\ k \in 0..Half - 1
           /\ u = 2 * k + 1 => ZigzagDecode(u) = -k - 1 /\ k \in 0..Half - 1
<1>1. Half \in Nat \ {0} /\ Modulus = 2 * Half /\ Modulus \in Nat \ {0}
  BY HalfIs
<1>2. CASE u = 2 * k
  <2>1. u % 2 = 0 /\ u \div 2 = k /\ k \in 0..Half - 1
    BY <1>1, <1>2
  <2>2. k \in 0..Modulus - 1 /\ ~(k >= Half)
    BY <1>1, <2>1
  <2>3. Signed(k) = k
    BY <2>2, SignedIs
  <2> QED
    BY <1>2, <2>1, <2>3 DEF ZigzagDecode
<1>3. CASE u = 2 * k + 1
  <2>1. u % 2 = 1 /\ u \div 2 = k /\ k \in 0..Half - 1
    BY <1>1, <1>3
  <2> DEFINE c == Complement(k)
  <2>2. c \in 0..Modulus - 1 /\ c >= Half /\ c - Modulus = -k - 1
    BY <1>1, <2>1 DEF Complement
  <2>3. ZigzagDecode(u) = Signed(c)
    BY <2>1 DEF ZigzagDecode
  <2> HIDE DEF c
  <2>4. Signed(c) = -k - 1
    BY <2>2, SignedIs
  <2> QED
    BY <1>1, <1>3, <2>1, <2>3, <2>4
<1> QED
  BY <1>2, <1>3

LEMMA ZigzagOfTyped == TypeOK => ZigzagIsInverse
<1> SUFFICES ASSUME TypeOK, num >= 0
             PROVE  /\ ZigzagDecode(ZigzagEncode(Signed(num))) = Signed(num)
                    /\ ZigzagEncode(ZigzagDecode(num)) = num
                    /\ ZigzagEncode(Signed(num)) = IF Signed(num) < 0 THEN -2 * Signed(num) - 1
                                                   ELSE 2 * Signed(num)
  BY DEF ZigzagIsInverse
<1>1. Half \in Nat \ {0} /\ Modulus = 2 * Half /\ Modulus \in Nat \ {0}
  BY HalfIs
<1>2. num \in 0..Modulus - 1
  BY ValuesType DEF TypeOK, Values
<1> DEFINE s == Signed(num)
<1>3. s \in -Half..Half - 1
  BY <1>2, SignedIs
<1> HIDE DEF s
<1>4. ZigzagEncode(s) = IF s < 0 THEN -2 * s - 1 ELSE 2 * s
  BY <1>3, ZigzagEncodeIs
<1>5. ZigzagDecode(ZigzagEncode(s)) = s
  <2>1. CASE s < 0
    <3> DEFINE k == -s - 1
               u == ZigzagEncode(s)
    <3>1. k \in Int /\ u \in 0..Modulus - 1 /\ u = 2 * k + 1 /\ -k - 1 = s
      BY <1>1, <1>3, <1>4, <2>1
    <3> HIDE DEF k, u
    <3>2. ZigzagDecode(u) = -k - 1
      BY <3>1, ZigzagDecodeIs
    <3> QED
      BY <3>1, <3>2 DEF u
  <2>2. CASE ~(s < 0)
    <3> DEFINE u == ZigzagEncode(s)
    <3>1. s \in Int /\ u \in 0..Modulus - 1 /\ u = 2 * s
      BY <1>1, <1>3, <1>4, <2>2
    <3> HIDE DEF u
    <3>2. ZigzagDecode(u) = s
      BY <3>1, ZigzagDecodeIs
    <3> QED
      BY <3>2 DEF u
  <2> QED
    BY <2>1, <2>2
<1>6. ZigzagEncode(ZigzagDecode(num)) = num
  <2> DEFINE k == num \div 2
             z == ZigzagDecode(num)
  <2>1. k \in Int /\ (num = 2 * k \/ num = 2 * k + 1)
    BY <1>2
  <2> HIDE DEF k
  <2>2. CASE num = 2 * k
    <3>1. z = k /\ k \in 0..Half - 1
      BY <1>2, <2>1, <2>2, ZigzagDecodeIs
    <3> HIDE DEF z
    <3>2. z \in -Half..Half - 1 /\ ~(z < 0)
      BY <1>1, <3>1
    <3>3. ZigzagEncode(z) = 2 * z
      BY <3>2, ZigzagEncodeIs
    <3> QED
      BY <2>2, <3>1, <3>3 DEF z
  <2>3. CASE num = 2 * k + 1
    <3>1. z = -k - 1 /\ k \in 0..Half - 1
      BY <1>2, <2>1, <2>3, ZigzagDecodeIs
    <3> HIDE DEF z
    <3>2. z \in -Half..Half - 1 /\ z < 0
      BY <1>1, <3>1
    <3>3. ZigzagEncode(z) = -2 * z - 1
      BY <3>2, ZigzagEncodeIs
    <3>4. ZigzagEncode(z) = num
      BY <1>1, <2>3, <3>1, <3>3
    <3> QED
      BY <3>4 DEF z
  <2> QED
    BY <2>1, <2>2, <2>3
<1> QED
  BY <1>4, <1>5, <1>6 DEF s

\* ZigZag is lossless in both directions and gives small numbers small codes,
\* for every width.  (_zigzag_encode, _zigzag_decode)
THEOREM ZigzagLossless == Spec => []ZigzagIsInverse
<1>1. Inductive => ZigzagIsInverse
  BY ZigzagOfTyped DEF Inductive
<1> QED
  BY VarintHolds, <1>1, PTL


LEMMA QuotientRange ==
    ASSUME NEW x \in Int, NEW d \in Nat \ {0}, NEW q \in Int
    PROVE  x \div d = q <=> q * d <= x /\ x < q * d + d
<1>1. CASE q * d <= x /\ x < q * d + d
  <2> DEFINE r == x - q * d
  <2>1. r \in 0..d - 1 /\ x = q * d + r
    BY <1>1
  <2> HIDE DEF r
  <2>2. x \div d = q
    BY <2>1, QuotientIs
  <2> QED
    BY <1>1, <2>2
<1>2. ASSUME x \div d = q PROVE q * d <= x /\ x < q * d + d
  <2>1. x = (x \div d) * d + (x % d) /\ x % d \in 0..d - 1
    BY DivMod
  <2> DEFINE r == x % d
  <2>2. x = q * d + r /\ r \in 0..d - 1
    BY <1>2, <2>1
  <2> HIDE DEF r
  <2> QED
    BY <2>2
<1> QED
  BY <1>1, <1>2

LEMMA FitsUnsignedIs ==
    ASSUME NEW n \in Nat, NEW x \in 0..Modulus - 1
    PROVE  FitsUnsigned(x, n) <=> StoreLow(x, n) = x
<1> DEFINE d == Pow2[n]
<1>1. d \in Nat \ {0} /\ Modulus \in Nat \ {0} /\ x \in Nat
  BY Pow2Type, GroupType
<1>2. StoreLow(x, n) = x % d
  BY DEF StoreLow
<1>3. x % d = x <=> x < d
  <2> HIDE DEF d
  <2>1. CASE x < d
    <3> DEFINE q == 0
    <3>1. q \in Int /\ x = q * d + x /\ x \in 0..d - 1
      BY <1>1, <2>1
    <3> HIDE DEF q
    <3>2. x % d = x
      BY <1>1, <3>1, QuotientIs
    <3> QED
      BY <2>1, <3>2
  <2>2. CASE ~(x < d)
    <3>1. x % d \in 0..d - 1
      BY <1>1, DivMod
    <3> QED
      BY <1>1, <2>2, <3>1
  <2> QED
    BY <2>1, <2>2
<1>4. n >= ValueBits => x < d
  <2>1. n >= ValueBits => Modulus <= d
    BY Pow2Grows, VarintAssumption DEF Modulus
  <2> HIDE DEF d
  <2> QED
    BY <1>1, <2>1
<1>5. x \div d = 0 <=> x < d
  <2> HIDE DEF d
  <2> QED
    BY <1>1, QuotientZero
<1>6. FitsUnsigned(x, n) <=> n >= ValueBits \/ x \div d = 0
  BY DEF FitsUnsigned
<1> HIDE DEF d
<1> QED
  BY <1>2, <1>3, <1>4, <1>5, <1>6

\* The values an n-bit signed destination holds.
LEMMA FitsSignedIs ==
    ASSUME NEW n \in Nat, n > 0, n < ValueBits, NEW s \in -Half..Half - 1
    PROVE  FitsSigned(s, n) <=> -Pow2[n - 1] <= s /\ s < Pow2[n - 1]
<1> DEFINE h == Pow2[n - 1]
<1>1. n - 1 \in Nat /\ ValueBits - 1 \in Nat /\ n - 1 <= ValueBits - 1 /\ ValueBits \in Nat
  BY VarintAssumption
<1>2. h \in Nat \ {0} /\ h <= Half /\ Half \in Nat \ {0} /\ s \in Int
  BY <1>1, Pow2Type, Pow2Grows, HalfIs DEF Half
<1>3. FitsSigned(s, n) <=> s \div h = s \div Half
  BY <1>1 DEF FitsSigned, Half
<1> HIDE DEF h
<1>4. CASE s < 0
  <2> DEFINE q == -1
  <2>1. q \in Int /\ q * Half <= s /\ s < q * Half + Half
    BY <1>2, <1>4
  <2>2. q * h = -h /\ q * h + h = 0
    BY <1>2
  <2> HIDE DEF q
  <2>3. s \div Half = q
    BY <1>2, <2>1, QuotientRange
  <2>4. s \div h = q <=> q * h <= s /\ s < q * h + h
    BY <1>2, <2>1, QuotientRange
  <2> QED
    BY <1>2, <1>3, <1>4, <2>2, <2>3, <2>4 DEF h
<1>5. CASE ~(s < 0)
  <2> DEFINE q == 0
  <2>1. q \in Int /\ q * Half <= s /\ s < q * Half + Half
    BY <1>2, <1>5
  <2>2. q * h = 0 /\ q * h + h = h
    BY <1>2
  <2> HIDE DEF q
  <2>3. s \div Half = q
    BY <1>2, <2>1, QuotientRange
  <2>4. s \div h = q <=> q * h <= s /\ s < q * h + h
    BY <1>2, <2>1, QuotientRange
  <2>5. s \div h = q <=> s < h
    <3>1. s \div h = q <=> 0 <= s /\ s < h
      BY <2>2, <2>4, Zenon
    <3>2. 0 <= s
      BY <1>2, <1>5
    <3> QED
      BY <3>1, <3>2, Zenon
  <2>6. FitsSigned(s, n) <=> s < h
    BY <1>3, <2>3, <2>5
  <2>7. -h <= s
    BY <1>2, <1>5
  <2> QED
    BY <2>6, <2>7 DEF h
<1> QED
  BY <1>4, <1>5

\* What comes back from an n-bit signed destination.
Resigned(x, n) ==
    IF StoreLow(x, n) >= Pow2[n - 1] THEN StoreLow(x, n) - Pow2[n] ELSE StoreLow(x, n)

LEMMA ResignedIs ==
    ASSUME NEW n \in Nat, n > 0, n <= ValueBits, NEW x \in 0..Modulus - 1
    PROVE  Resigned(x, n) = Signed(x) <=>
              -Pow2[n - 1] <= Signed(x) /\ Signed(x) < Pow2[n - 1]
<1> DEFINE d == Pow2[n]
           h == Pow2[n - 1]
           e == Pow2[ValueBits - n]
           s == Signed(x)
           stored == x % d
<1>1. n - 1 \in Nat /\ (n - 1) + 1 = n /\ ValueBits - n \in Nat /\ n + (ValueBits - n) = ValueBits
  BY VarintAssumption
<1>2. d = 2 * h /\ h \in Nat \ {0} /\ d \in Nat \ {0} /\ e \in Nat \ {0}
  BY <1>1, Pow2Type, Pow2Next
<1>3. Modulus = d * e
  BY <1>1, Pow2Sum DEF Modulus
<1>4. Half \in Nat \ {0} /\ Modulus = 2 * Half /\ Modulus \in Nat \ {0}
  BY HalfIs
<1>5. s = (IF x >= Half THEN x - Modulus ELSE x) /\ s \in -Half..Half - 1
  BY SignedIs
<1>6. Resigned(x, n) = IF stored >= h THEN stored - d ELSE stored
  BY DEF Resigned, StoreLow
<1> HIDE DEF d, h, e, s
<1>7. stored \in 0..d - 1
  <2>1. x \in Int
    BY <1>4
  <2> QED
    BY <1>2, <2>1, DivMod
<1>8. ASSUME -h <= s, s < h PROVE Resigned(x, n) = s
  <2>1. CASE x >= Half
    <3> DEFINE q == e - 1
               r == d + s
    <3>1. s = x - Modulus /\ s < 0 /\ x \in Int /\ q \in Int
      BY <1>2, <1>4, <1>5, <2>1
    <3>2. r \in 0..d - 1 /\ r >= h
      BY <1>2, <1>8, <3>1
    <3>3. q * d = d * e - d
      BY <1>2
    <3>4. x = q * d + r
      BY <1>2, <1>3, <1>4, <3>1, <3>3
    <3> HIDE DEF q, r
    <3>5. x % d = r
      BY <1>2, <3>1, <3>2, <3>4, QuotientIs
    <3>6. r - d = s
      BY <1>2, <3>1 DEF r
    <3> QED
      BY <1>6, <3>2, <3>5, <3>6
  <2>2. CASE ~(x >= Half)
    <3> DEFINE q == 0
    <3>1. s = x /\ x \in Int /\ q \in Int /\ x = q * d + x /\ x \in 0..d - 1 /\ ~(x >= h)
      BY <1>2, <1>4, <1>5, <1>8, <2>2
    <3> HIDE DEF q
    <3>2. x % d = x
      BY <1>2, <3>1, QuotientIs
    <3> QED
      BY <1>6, <3>1, <3>2
  <2> QED
    BY <2>1, <2>2
<1>9. -h <= Resigned(x, n) /\ Resigned(x, n) < h
  <2> HIDE DEF stored
  <2> QED
    BY <1>2, <1>6, <1>7
<1> QED
  BY <1>8, <1>9 DEF h, s

LEMMA FitsOfTyped == TypeOK => FitsIsExact
<1> SUFFICES ASSUME TypeOK, num >= 0, NEW n \in Widths
             PROVE  /\ FitsUnsigned(num, n) <=> StoreLow(num, n) = num
                    /\ n <= ValueBits =>
                          (FitsSigned(Signed(num), n) <=> Resigned(num, n) = Signed(num))
  BY DEF FitsIsExact, Resigned
<1>1. num \in 0..Modulus - 1
  BY ValuesType DEF TypeOK, Values
<1>2. n \in Nat /\ n > 0 /\ ValueBits \in Nat
  BY VarintAssumption
<1>3. FitsUnsigned(num, n) <=> StoreLow(num, n) = num
  BY <1>1, <1>2, FitsUnsignedIs
<1>4. ASSUME n <= ValueBits
      PROVE  FitsSigned(Signed(num), n) <=> Resigned(num, n) = Signed(num)
  <2> DEFINE s == Signed(num)
  <2>1. s \in -Half..Half - 1
    BY <1>1, SignedIs
  <2>2. Resigned(num, n) = s <=> -Pow2[n - 1] <= s /\ s < Pow2[n - 1]
    BY <1>1, <1>2, <1>4, ResignedIs
  <2>3. CASE n = ValueBits
    <3>1. FitsSigned(s, n)
      BY <1>2, <2>3 DEF FitsSigned
    <3>2. Pow2[n - 1] = Half
      BY <2>3 DEF Half
    <3> HIDE DEF s
    <3>3. -Pow2[n - 1] <= s /\ s < Pow2[n - 1]
      BY <2>1, <3>2, HalfIs
    <3> QED
      BY <2>2, <3>1, <3>3 DEF s
  <2>4. CASE n < ValueBits
    <3> HIDE DEF s
    <3>1. FitsSigned(s, n) <=> -Pow2[n - 1] <= s /\ s < Pow2[n - 1]
      BY <1>2, <2>1, <2>4, FitsSignedIs
    <3> QED
      BY <2>2, <3>1 DEF s
  <2> QED
    BY <1>2, <1>4, <2>3, <2>4
<1> QED
  BY <1>3, <1>4

\* The range checks accept exactly what a destination of any width holds.
\* (_fits_unsigned_n, _fits_signed_n, _store_scalar)
THEOREM FitsExact == Spec => []FitsIsExact
<1>1. Inductive => FitsIsExact
  BY FitsOfTyped DEF Inductive
<1> QED
  BY VarintHolds, <1>1, PTL


-----------------------------------------------------------------------------
(* The encoding form of Unicode, by length.                                *)

LEMMA OneByte ==
    ASSUME NEW a \in Bytes
    PROVE  Encodes(<<a>>) <=> a < 128
<1>1. Candidate(<<a>>) = a
  BY DEF Candidate
<1>2. CASE a < 128
  <2>1. Encode(a) = <<a>> /\ Scalar(a)
    BY <1>2, Utf8Assumption DEF Encode, Scalar
  <2> QED
    BY <1>1, <1>2, <2>1 DEF Encodes
<1>3. CASE ~(a < 128)
  <2>1. a < 2048
    BY Utf8Assumption
  <2>2. Encode(a) = <<192 + a \div 64, 128 + ((a \div 1) % 64)>>
    BY <1>3, <2>1 DEF Encode
  <2>3. Len(Encode(a)) = 2 /\ Len(<<a>>) = 1
    BY <2>2
  <2> QED
    BY <1>1, <1>3, <2>3 DEF Encodes
<1> QED
  BY <1>2, <1>3

LEMMA TwoBytes ==
    ASSUME NEW a \in Bytes, NEW b \in Bytes, NEW c,
           c = (a % 32) * 64 + (b % 64)
    PROVE  Encodes(<<a, b>>) <=> a \div 32 = 6 /\ b \div 64 = 2 /\ c >= 128
<1>1. Candidate(<<a, b>>) = c
  BY DEF Candidate
<1>2. c \in Nat /\ c < 2048 /\ c \div 64 = a % 32 /\ (c \div 1) % 64 = b % 64
  BY Utf8Assumption
<1>3. Scalar(c)
  BY <1>2 DEF Scalar
<1>4. CASE c < 128
  <2>1. Encode(c) = <<c>>
    BY <1>4 DEF Encode
  <2>2. Len(Encode(c)) = 1 /\ Len(<<a, b>>) = 2
    BY <2>1
  <2>3. Encode(c) # <<a, b>>
    BY <2>2
  <2> QED
    BY <1>1, <1>2, <1>4, <2>3 DEF Encodes
<1>5. CASE c >= 128
  <2>1. Encode(c) = <<192 + c \div 64, 128 + ((c \div 1) % 64)>>
    BY <1>2, <1>5 DEF Encode
  <2>2. Encode(c) = <<192 + (a % 32), 128 + (b % 64)>>
    BY <1>2, <2>1
  <2>3. Encode(c) = <<a, b>> <=> a = 192 + (a % 32) /\ b = 128 + (b % 64)
    BY <2>2
  <2>4. a = 192 + (a % 32) <=> a \div 32 = 6
    BY Utf8Assumption
  <2>5. b = 128 + (b % 64) <=> b \div 64 = 2
    BY Utf8Assumption
  <2> QED
    BY <1>1, <1>3, <1>5, <2>3, <2>4, <2>5 DEF Encodes
<1> QED
  BY <1>2, <1>4, <1>5

LEMMA ThreeBytes ==
    ASSUME NEW a \in Bytes, NEW b \in Bytes, NEW d \in Bytes, NEW c,
           c = (a % 16) * 4096 + (b % 64) * 64 + (d % 64)
    PROVE  Encodes(<<a, b, d>>) <=>
              a \div 16 = 14 /\ b \div 64 = 2 /\ d \div 64 = 2 /\ c >= 2048 /\ Scalar(c)
<1>1. Candidate(<<a, b, d>>) = c
  BY SMT DEF Candidate
<1>2. c \in Nat /\ c < 65536 /\ c \div 4096 = a % 16 /\ (c \div 64) % 64 = b % 64
        /\ (c \div 1) % 64 = d % 64
  <2>1. ASSUME NEW p, NEW q, NEW r, p = a % 16, q = b % 64, r = d % 64
        PROVE  p \in Nat /\ p < 16 /\ q \in Nat /\ q < 64 /\ r \in Nat /\ r < 64
    BY <2>1, Utf8Assumption, SMT
  <2>2. ASSUME NEW p \in Nat, NEW q \in Nat, NEW r \in Nat, p < 16, q < 64, r < 64,
               c = p * 4096 + q * 64 + r
        PROVE  c \in Nat /\ c < 65536 /\ c \div 4096 = p /\ (c \div 64) % 64 = q
                  /\ (c \div 1) % 64 = r
    <3>1. c \in Nat /\ c < 65536
      BY <2>2, SMT
    <3>2. c \div 4096 = p
      BY <2>2, SMT
    <3>3. c \div 64 = p * 64 + q
      BY <2>2, SMT
    <3>4. (c \div 64) % 64 = q
      BY <2>2, <3>3, SMT
    <3>5. c \div 1 = c
      BY <3>1, SMT
    <3>6. (c \div 1) % 64 = r
      BY <2>2, <3>5, SMT
    <3> QED
      BY <3>1, <3>2, <3>4, <3>6, SMT
  <2> QED
    BY <2>1, <2>2, SMT
<1>3. CASE c < 2048
  <2>1. Len(Encode(c)) # 3
    <3>1. CASE c < 128
      <4>1. Encode(c) = <<c>>
        BY <3>1, SMT DEF Encode
      <4> QED
        BY <4>1, SMT
    <3>2. CASE ~(c < 128)
      <4>1. Encode(c) = <<192 + c \div 64, 128 + ((c \div 1) % 64)>>
        BY <1>3, <3>2, SMT DEF Encode
      <4> QED
        BY <4>1, SMT
    <3> QED
      BY <3>1, <3>2, SMT
  <2>2. Len(<<a, b, d>>) = 3
    BY SMT
  <2>3. Encode(c) # <<a, b, d>>
    BY <2>1, <2>2, SMT
  <2> QED
    BY <1>1, <1>2, <1>3, <2>3, SMT DEF Encodes
<1>4. CASE c >= 2048
  <2>1. Encode(c) = <<224 + c \div 4096, 128 + ((c \div 64) % 64), 128 + ((c \div 1) % 64)>>
    BY <1>2, <1>4, SMT DEF Encode
  <2>2. Encode(c) = <<224 + (a % 16), 128 + (b % 64), 128 + (d % 64)>>
    BY <1>2, <2>1, SMT
  <2>3. Encode(c) = <<a, b, d>> <=>
           a = 224 + (a % 16) /\ b = 128 + (b % 64) /\ d = 128 + (d % 64)
    BY <2>2, SMT
  <2>4. a = 224 + (a % 16) <=> a \div 16 = 14
    BY Utf8Assumption, SMT
  <2>5. \A x \in Bytes : x = 128 + (x % 64) <=> x \div 64 = 2
    BY Utf8Assumption, SMT
  <2>6. Encodes(<<a, b, d>>) <=> Scalar(c) /\ Encode(c) = <<a, b, d>>
    BY <1>1, SMT DEF Encodes
  <2> QED
    BY <1>4, <2>3, <2>4, <2>5, <2>6, SMT
<1> QED
  BY <1>2, <1>3, <1>4, SMT

LEMMA FourBytes ==
    ASSUME NEW a \in Bytes, NEW b \in Bytes, NEW d \in Bytes, NEW e \in Bytes, NEW c,
           c = (a % 8) * 262144 + (b % 64) * 4096 + (d % 64) * 64 + (e % 64)
    PROVE  Encodes(<<a, b, d, e>>) <=>
              /\ a \div 8 = 30 /\ b \div 64 = 2 /\ d \div 64 = 2 /\ e \div 64 = 2
              /\ c >= 65536 /\ Scalar(c)
<1>1. Candidate(<<a, b, d, e>>) = c
  BY SMT DEF Candidate
<1>2. c \in Nat /\ c < 2097152 /\ c \div 262144 = a % 8 /\ (c \div 4096) % 64 = b % 64
        /\ (c \div 64) % 64 = d % 64 /\ (c \div 1) % 64 = e % 64
  <2>1. ASSUME NEW p, NEW q, NEW r, NEW x, p = a % 8, q = b % 64, r = d % 64, x = e % 64
        PROVE  p \in Nat /\ p < 8 /\ q \in Nat /\ q < 64 /\ r \in Nat /\ r < 64
                  /\ x \in Nat /\ x < 64
    BY <2>1, Utf8Assumption, SMT
  <2>2. ASSUME NEW p \in Nat, NEW q \in Nat, NEW r \in Nat, NEW x \in Nat,
               p < 8, q < 64, r < 64, x < 64,
               c = p * 262144 + q * 4096 + r * 64 + x
        PROVE  c \in Nat /\ c < 2097152 /\ c \div 262144 = p
                  /\ (c \div 4096) % 64 = q /\ (c \div 64) % 64 = r /\ (c \div 1) % 64 = x
    <3>1. c \in Nat /\ c < 2097152
      BY <2>2, SMT
    <3>2. c \div 262144 = p
      BY <2>2, SMT
    <3>3. c \div 4096 = p * 64 + q /\ c \div 64 = p * 4096 + q * 64 + r
      BY <2>2, SMT
    <3>4. (c \div 4096) % 64 = q
      BY <2>2, <3>3, SMT
    <3>5. (c \div 64) % 64 = r
      BY <2>2, <3>3, SMT
    <3>6. c \div 1 = c
      BY <3>1, SMT
    <3>7. (c \div 1) % 64 = x
      BY <2>2, <3>6, SMT
    <3> QED
      BY <3>1, <3>2, <3>4, <3>5, <3>7, SMT
  <2> QED
    BY <2>1, <2>2, SMT
<1>3. CASE c < 65536
  <2>1. Len(Encode(c)) # 4
    <3>1. CASE c < 128
      <4>1. Encode(c) = <<c>>
        BY <3>1, SMT DEF Encode
      <4> QED
        BY <4>1, SMT
    <3>2. CASE ~(c < 128) /\ c < 2048
      <4>1. Encode(c) = <<192 + c \div 64, 128 + ((c \div 1) % 64)>>
        BY <3>2, SMT DEF Encode
      <4> QED
        BY <4>1, SMT
    <3>3. CASE ~(c < 128) /\ ~(c < 2048)
      <4>1. Encode(c) = <<224 + c \div 4096, 128 + ((c \div 64) % 64), 128 + ((c \div 1) % 64)>>
        BY <1>3, <3>3, SMT DEF Encode
      <4> QED
        BY <4>1, SMT
    <3> QED
      BY <3>1, <3>2, <3>3, SMT
  <2>2. Len(<<a, b, d, e>>) = 4
    BY SMT
  <2>3. Encode(c) # <<a, b, d, e>>
    BY <2>1, <2>2, SMT
  <2> QED
    BY <1>1, <1>2, <1>3, <2>3, SMT DEF Encodes
<1>4. CASE c >= 65536
  <2>1. Encode(c) = <<240 + c \div 262144, 128 + ((c \div 4096) % 64),
                      128 + ((c \div 64) % 64), 128 + ((c \div 1) % 64)>>
    BY <1>2, <1>4, SMT DEF Encode
  <2>2. Encode(c) = <<240 + (a % 8), 128 + (b % 64), 128 + (d % 64), 128 + (e % 64)>>
    BY <1>2, <2>1, SMT
  <2>3. Encode(c) = <<a, b, d, e>> <=>
           a = 240 + (a % 8) /\ b = 128 + (b % 64) /\ d = 128 + (d % 64) /\ e = 128 + (e % 64)
    BY <2>2, SMT
  <2>4. a = 240 + (a % 8) <=> a \div 8 = 30
    BY Utf8Assumption, SMT
  <2>5. \A x \in Bytes : x = 128 + (x % 64) <=> x \div 64 = 2
    BY Utf8Assumption, SMT
  <2>6. Encodes(<<a, b, d, e>>) <=> Scalar(c) /\ Encode(c) = <<a, b, d, e>>
    BY <1>1, SMT DEF Encodes
  <2> QED
    BY <1>4, <2>3, <2>4, <2>5, <2>6, SMT
<1> QED
  BY <1>2, <1>3, <1>4, SMT


-----------------------------------------------------------------------------
(* Characters in a text.                                                   *)

LEMMA BytesAt ==
    ASSUME text \in Seq(Bytes), NEW n \in 1..Len(text)
    PROVE  text[n] \in Bytes /\ text[n] \in Nat /\ text[n] < 256
<1>1. text[n] \in Bytes
  OBVIOUS
<1> QED
  BY <1>1, Utf8Assumption

Pieces ==
    \A m \in Nat :
        /\ m + 1 <= Len(text) => SubSeq(text, m + 1, m + 1) = <<text[m + 1]>>
        /\ m + 2 <= Len(text) => SubSeq(text, m + 1, m + 2) = <<text[m + 1], text[m + 2]>>
        /\ m + 3 <= Len(text) =>
              SubSeq(text, m + 1, m + 3) = <<text[m + 1], text[m + 2], text[m + 3]>>
        /\ m + 4 <= Len(text) =>
              SubSeq(text, m + 1, m + 4)
                 = <<text[m + 1], text[m + 2], text[m + 3], text[m + 4]>>

LEMMA SubSeqIs ==
    ASSUME text \in Seq(Bytes)
    PROVE  Pieces
<1> SUFFICES ASSUME NEW m \in Nat
             PROVE  /\ m + 1 <= Len(text) => SubSeq(text, m + 1, m + 1) = <<text[m + 1]>>
                    /\ m + 2 <= Len(text) =>
                          SubSeq(text, m + 1, m + 2) = <<text[m + 1], text[m + 2]>>
                    /\ m + 3 <= Len(text) =>
                          SubSeq(text, m + 1, m + 3) = <<text[m + 1], text[m + 2], text[m + 3]>>
                    /\ m + 4 <= Len(text) =>
                          SubSeq(text, m + 1, m + 4)
                             = <<text[m + 1], text[m + 2], text[m + 3], text[m + 4]>>
  BY DEF Pieces
<1>0. Len(text) \in Nat /\ \A n \in 1..Len(text) : text[n] \in Bytes
  OBVIOUS
<1>a. ASSUME NEW n \in Nat, m + n <= Len(text)
      PROVE  /\ SubSeq(text, m + 1, m + n) \in Seq(Bytes)
             /\ Len(SubSeq(text, m + 1, m + n)) = n
             /\ \A i \in 1..n : SubSeq(text, m + 1, m + n)[i] = text[m + i]
  BY <1>0, <1>a
<1>1. ASSUME m + 1 <= Len(text) PROVE SubSeq(text, m + 1, m + 1) = <<text[m + 1]>>
  <2> DEFINE s == SubSeq(text, m + 1, m + 1)
             t == <<text[m + 1]>>
  <2>1. s \in Seq(Bytes) /\ Len(s) = 1 /\ s[1] = text[m + 1]
    BY <1>1, <1>a
  <2>2. t \in Seq(Bytes) /\ Len(t) = 1 /\ t[1] = text[m + 1]
    BY <1>0, <1>1
  <2> HIDE DEF s, t
  <2>3. \A i \in 1..Len(s) : s[i] = t[i]
    BY <2>1, <2>2
  <2>4. s = t
    BY <2>1, <2>2, <2>3, SeqEqual
  <2> QED
    BY <2>4 DEF s, t
<1>2. ASSUME m + 2 <= Len(text)
      PROVE  SubSeq(text, m + 1, m + 2) = <<text[m + 1], text[m + 2]>>
  <2> DEFINE s == SubSeq(text, m + 1, m + 2)
             t == <<text[m + 1], text[m + 2]>>
  <2>1. s \in Seq(Bytes) /\ Len(s) = 2 /\ s[1] = text[m + 1] /\ s[2] = text[m + 2]
    BY <1>2, <1>a
  <2>2. t \in Seq(Bytes) /\ Len(t) = 2 /\ t[1] = text[m + 1] /\ t[2] = text[m + 2]
    BY <1>0, <1>2
  <2> HIDE DEF s, t
  <2>3. \A i \in 1..Len(s) : s[i] = t[i]
    BY <2>1, <2>2
  <2>4. s = t
    BY <2>1, <2>2, <2>3, SeqEqual
  <2> QED
    BY <2>4 DEF s, t
<1>3. ASSUME m + 3 <= Len(text)
      PROVE  SubSeq(text, m + 1, m + 3) = <<text[m + 1], text[m + 2], text[m + 3]>>
  <2> DEFINE s == SubSeq(text, m + 1, m + 3)
             t == <<text[m + 1], text[m + 2], text[m + 3]>>
  <2>1. s \in Seq(Bytes) /\ Len(s) = 3
          /\ s[1] = text[m + 1] /\ s[2] = text[m + 2] /\ s[3] = text[m + 3]
    BY <1>3, <1>a
  <2>2. t \in Seq(Bytes) /\ Len(t) = 3
          /\ t[1] = text[m + 1] /\ t[2] = text[m + 2] /\ t[3] = text[m + 3]
    BY <1>0, <1>3
  <2> HIDE DEF s, t
  <2>3. \A i \in 1..Len(s) : s[i] = t[i]
    BY <2>1, <2>2
  <2>4. s = t
    BY <2>1, <2>2, <2>3, SeqEqual
  <2> QED
    BY <2>4 DEF s, t
<1>4. ASSUME m + 4 <= Len(text)
      PROVE  SubSeq(text, m + 1, m + 4)
                = <<text[m + 1], text[m + 2], text[m + 3], text[m + 4]>>
  <2> DEFINE s == SubSeq(text, m + 1, m + 4)
             t == <<text[m + 1], text[m + 2], text[m + 3], text[m + 4]>>
  <2>1. s \in Seq(Bytes) /\ Len(s) = 4 /\ s[1] = text[m + 1] /\ s[2] = text[m + 2]
          /\ s[3] = text[m + 3] /\ s[4] = text[m + 4]
    BY <1>4, <1>a
  <2>2. t \in Seq(Bytes) /\ Len(t) = 4 /\ t[1] = text[m + 1] /\ t[2] = text[m + 2]
          /\ t[3] = text[m + 3] /\ t[4] = text[m + 4]
    BY <1>0, <1>4
  <2> HIDE DEF s, t
  <2>3. \A i \in 1..Len(s) : s[i] = t[i]
    BY <2>1, <2>2
  <2>4. s = t
    BY <2>1, <2>2, <2>3, SeqEqual
  <2> QED
    BY <2>4 DEF s, t
<1> QED
  BY <1>1, <1>2, <1>3, <1>4

LEMMA LeadsAre ==
    ASSUME NEW l \in Leads
    PROVE  /\ l.need = 1 \/ l.need = 2 \/ l.need = 3
           /\ l.need = 1 => l.tag = 6 /\ l.width = 32 /\ l.least = 128
           /\ l.need = 2 => l.tag = 14 /\ l.width = 16 /\ l.least = 2048
           /\ l.need = 3 => l.tag = 30 /\ l.width = 8 /\ l.least = 65536
BY SMT DEF Leads

\* The recursion of CodePoint, written out.
LEMMA CodePointIs ==
    ASSUME text \in Seq(Bytes), NEW l \in Leads, NEW p \in 1..Len(text),
           p + l.need <= Len(text)
    PROVE  /\ l.need = 1 => CodePoint(l, p) = (text[p] % 32) * 64 + (text[p + 1] % 64)
           /\ l.need = 2 => CodePoint(l, p) = (text[p] % 16) * 4096 + (text[p + 1] % 64) * 64
                                                + (text[p + 2] % 64)
           /\ l.need = 3 => CodePoint(l, p) = (text[p] % 8) * 262144 + (text[p + 1] % 64) * 4096
                                                + (text[p + 2] % 64) * 64 + (text[p + 3] % 64)
<1> DEFINE need == l.need
           lead == text[p] % l.width
           Eqn(h) == h = [n \in 0..need |-> IF n = 0 THEN lead
                                            ELSE h[n - 1] * 64 + (text[p + n] % 64)]
           c == CHOOSE h : Eqn(h)
           v1 == lead * 64 + (text[p + 1] % 64)
           v2 == v1 * 64 + (text[p + 2] % 64)
           v3 == v2 * 64 + (text[p + 3] % 64)
           f == [n \in 0..need |-> IF n = 0 THEN lead ELSE IF n = 1 THEN v1
                                   ELSE IF n = 2 THEN v2 ELSE v3]
<1>0. /\ l.need = 1 \/ l.need = 2 \/ l.need = 3
      /\ l.need = 1 => l.width = 32
      /\ l.need = 2 => l.width = 16
      /\ l.need = 3 => l.width = 8
  BY LeadsAre, SMT
<1>1. need = 1 \/ need = 2 \/ need = 3
  BY <1>0
<1>2. CodePoint(l, p) = c[need]
  BY DEF CodePoint
<1>3. Eqn(f)
  <2> HIDE DEF need, lead
  <2>1. ASSUME NEW n \in 0..need
        PROVE  f[n] = IF n = 0 THEN lead ELSE f[n - 1] * 64 + (text[p + n] % 64)
    <3>1. n = 0 \/ n = 1 \/ n = 2 \/ n = 3
      BY <1>1
    <3>2. n # 0 => n - 1 \in 0..need
      BY <1>1
    <3> QED
      BY <3>1, <3>2
  <2>2. f = [n \in 0..need |-> f[n]]
    OBVIOUS
  <2> HIDE DEF f
  <2> QED
    BY <2>1, <2>2
<1>4. Eqn(c)
  <2> HIDE DEF f, need, lead
  <2> QED
    BY <1>3
<1> HIDE DEF c, f, lead, need
<1>5. ASSUME NEW n \in 0..need
      PROVE  c[n] = IF n = 0 THEN lead ELSE c[n - 1] * 64 + (text[p + n] % 64)
  BY <1>4
<1>6. c[0] = lead
  BY <1>1, <1>5
<1>7. need >= 1 => c[1] = c[0] * 64 + (text[p + 1] % 64)
  BY <1>1, <1>5
<1>8. need >= 2 => c[2] = c[1] * 64 + (text[p + 2] % 64)
  BY <1>1, <1>5
<1>9. need >= 3 => c[3] = c[2] * 64 + (text[p + 3] % 64)
  BY <1>1, <1>5
<1>10. lead = text[p] % l.width /\ need = l.need
  BY DEF lead, need
<1>11. \A x \in Nat : x % 8 \in Nat /\ x % 16 \in Nat /\ x % 64 \in Nat
  BY SMT
<1>12. CASE need = 1
  <2>0. l.width = 32
    BY <1>0, <1>10, <1>12
  <2>1. lead = text[p] % 32
    BY <1>10, <2>0, Zenon
  <2> QED
    BY <1>2, <1>6, <1>7, <1>10, <1>12, <2>1, SMT
<1>13. CASE need = 2
  <2>0. l.width = 16
    BY <1>0, <1>10, <1>13
  <2>1. lead = text[p] % 16
    BY <1>10, <2>0, Zenon
  <2>2. text[p] \in Nat /\ text[p + 1] \in Nat /\ text[p + 2] \in Nat
    BY <1>10, <1>13, BytesAt
  <2>3. \A x, y, z \in Nat : (x * 64 + y) * 64 + z = x * 4096 + y * 64 + z
    BY SMT
  <2>4. lead \in Nat /\ text[p + 1] % 64 \in Nat /\ text[p + 2] % 64 \in Nat
    <3>1. text[p] % 16 \in Nat /\ text[p + 1] % 64 \in Nat /\ text[p + 2] % 64 \in Nat
      BY <1>11, <2>2
    <3> QED
      BY <2>1, <3>1
  <2>5. c[2] = (lead * 64 + (text[p + 1] % 64)) * 64 + (text[p + 2] % 64)
    BY <1>6, <1>7, <1>8, <1>13, SMT
  <2>6. c[2] = lead * 4096 + (text[p + 1] % 64) * 64 + (text[p + 2] % 64)
    BY <2>3, <2>4, <2>5, SMT
  <2> QED
    BY <1>2, <1>10, <1>13, <2>1, <2>6, SMT
<1>14. CASE need = 3
  <2>0. l.width = 8
    BY <1>0, <1>10, <1>14
  <2>1. lead = text[p] % 8
    BY <1>10, <2>0, Zenon
  <2>2. text[p] \in Nat /\ text[p + 1] \in Nat /\ text[p + 2] \in Nat /\ text[p + 3] \in Nat
    BY <1>10, <1>14, BytesAt
  <2>3. \A x, y, z, w \in Nat : ((x * 64 + y) * 64 + z) * 64 + w
                                   = x * 262144 + y * 4096 + z * 64 + w
    BY SMT
  <2>4. lead \in Nat /\ text[p + 1] % 64 \in Nat /\ text[p + 2] % 64 \in Nat
          /\ text[p + 3] % 64 \in Nat
    <3>1. text[p] % 8 \in Nat
      BY <1>11, <2>2
    <3>2. /\ text[p + 1] % 64 \in Nat
          /\ text[p + 2] % 64 \in Nat
          /\ text[p + 3] % 64 \in Nat
      BY <1>11, <2>2
    <3> QED
      BY <2>1, <3>1, <3>2
  <2>5. c[3] = ((lead * 64 + (text[p + 1] % 64)) * 64 + (text[p + 2] % 64)) * 64
                  + (text[p + 3] % 64)
    BY <1>6, <1>7, <1>8, <1>9, <1>14, SMT
  <2>6. c[3] = lead * 262144 + (text[p + 1] % 64) * 4096 + (text[p + 2] % 64) * 64
                  + (text[p + 3] % 64)
    BY <2>3, <2>4, <2>5, SMT
  <2> QED
    BY <1>2, <1>10, <1>14, <2>1, <2>6, SMT
<1> QED
  BY <1>1, <1>10, <1>12, <1>13, <1>14, SMT


Character(m, n) == Encodes(SubSeq(text, m + 1, n))

\* What the validator asks of the l.need bytes behind a lead.
Followed(l, m) ==
    /\ l \in LeadOf(text[m + 1])
    /\ \A k \in 1..l.need : Continuation(text[m + 1 + k])
    /\ Acceptable(l, CodePoint(l, m + 1))

LEMMA AsciiIsCharacter ==
    ASSUME text \in Seq(Bytes), NEW m \in Nat, m + 1 <= Len(text)
    PROVE  Character(m, m + 1) <=> text[m + 1] < 128
<1>1. SubSeq(text, m + 1, m + 1) = <<text[m + 1]>>
  BY SubSeqIs DEF Pieces
<1>2. text[m + 1] \in Bytes
  BY BytesAt
<1> DEFINE a == text[m + 1]
<1> HIDE DEF a
<1>3. Encodes(<<a>>) <=> a < 128
  BY <1>2, OneByte DEF a
<1> QED
  BY <1>1, <1>3, Zenon DEF Character, a

LEMMA Residues ==
    \A x \in Nat : /\ x % 8 \in Nat /\ x % 8 < 8
                   /\ x % 16 \in Nat /\ x % 16 < 16
                   /\ x % 32 \in Nat /\ x % 32 < 32
                   /\ x % 64 \in Nat /\ x % 64 < 64
BY SMT

LEMMA FollowedIsCharacter ==
    ASSUME text \in Seq(Bytes), NEW l \in Leads, NEW m \in Nat,
           m + 1 + l.need <= Len(text)
    PROVE  Character(m, m + 1 + l.need) <=> Followed(l, m)
<1> DEFINE a == text[m + 1]
           b == text[m + 2]
           d == text[m + 3]
           e == text[m + 4]
           c == CodePoint(l, m + 1)
<1>1. /\ l.need = 1 \/ l.need = 2 \/ l.need = 3
      /\ l.need = 1 => l.tag = 6 /\ l.width = 32 /\ l.least = 128
      /\ l.need = 2 => l.tag = 14 /\ l.width = 16 /\ l.least = 2048
      /\ l.need = 3 => l.tag = 30 /\ l.width = 8 /\ l.least = 65536
  BY LeadsAre, SMT
<1>2. Len(text) \in Nat
  OBVIOUS
<1>3. m + 1 \in 1..Len(text) /\ (m + 1) + l.need <= Len(text)
  BY <1>1, <1>2
<1>4. l \in LeadOf(a) <=> a \div l.width = l.tag
  BY Zenon DEF LeadOf
<1>5. Followed(l, m) <=> /\ a \div l.width = l.tag
                         /\ \A k \in 1..l.need : Continuation(text[m + 1 + k])
                         /\ Acceptable(l, c)
  BY <1>4, Zenon DEF Followed
<1>6. Acceptable(l, c) <=> c >= l.least /\ c <= 1114111 /\ ~(c >= 55296 /\ c <= 57343)
  BY SMT DEF Acceptable
<1>7. Scalar(c) <=> c < 55296 \/ (c > 57343 /\ c <= 1114111)
  BY SMT DEF Scalar
<1>8. /\ l.need = 1 => c = (text[m + 1] % 32) * 64 + (text[m + 1 + 1] % 64)
      /\ l.need = 2 => c = (text[m + 1] % 16) * 4096 + (text[m + 1 + 1] % 64) * 64
                             + (text[m + 1 + 2] % 64)
      /\ l.need = 3 => c = (text[m + 1] % 8) * 262144 + (text[m + 1 + 1] % 64) * 4096
                             + (text[m + 1 + 2] % 64) * 64 + (text[m + 1 + 3] % 64)
  BY <1>3, CodePointIs, SMT
<1>9. m + 1 + 1 = m + 2 /\ m + 1 + 2 = m + 3 /\ m + 1 + 3 = m + 4
  OBVIOUS
<1> HIDE DEF c
<1>10. CASE l.need = 1
  <2>1. a \in Bytes /\ b \in Bytes /\ m + 2 <= Len(text)
    BY <1>2, <1>3, <1>10, BytesAt
  <2>2. Character(m, m + 1 + l.need) <=> Encodes(<<a, b>>)
    <3>1. SubSeq(text, m + 1, m + 2) = <<a, b>>
      BY <2>1, SubSeqIs DEF Pieces
    <3> QED
      BY <1>9, <1>10, <3>1, Zenon DEF Character
  <2>3. c = (a % 32) * 64 + (b % 64)
    BY <1>8, <1>9, <1>10
  <2>4. Continuation(b) <=> b \div 64 = 2
    BY DEF Continuation
  <2>5. (\A k \in 1..l.need : Continuation(text[m + 1 + k])) <=> Continuation(b)
    <3>1. 1..l.need = {1}
      BY <1>10
    <3> QED
      BY <1>9, <3>1
  <2> HIDE DEF a, b
  <2>6. Encodes(<<a, b>>) <=> a \div 32 = 6 /\ b \div 64 = 2 /\ c >= 128
    BY <2>1, <2>3, TwoBytes
  <2>7. c \in Nat /\ c < 2048
    <3>1. a \in Nat /\ b \in Nat
      BY <2>1, Utf8Assumption
    <3>2. a % 32 \in Nat /\ a % 32 < 32 /\ b % 64 \in Nat /\ b % 64 < 64
      BY <3>1, Residues
    <3>3. \A p, q \in Nat : p < 32 /\ q < 64 => p * 64 + q \in Nat /\ p * 64 + q < 2048
      BY SMT
    <3> QED
      BY <2>3, <3>2, <3>3, SMT
  <2>8. Followed(l, m) <=> a \div 32 = 6 /\ b \div 64 = 2 /\ c >= 128
    <3>1. Acceptable(l, c) <=> c >= 128
      BY <1>1, <1>6, <1>10, <2>7, SMT
    <3> QED
      BY <1>1, <1>5, <1>10, <2>4, <2>5, <3>1, SMT
  <2> QED
    BY <2>2, <2>6, <2>8, SMT
<1>11. CASE l.need = 2
  <2>1. a \in Bytes /\ b \in Bytes /\ d \in Bytes /\ m + 3 <= Len(text)
    BY <1>2, <1>3, <1>11, BytesAt
  <2>2. Character(m, m + 1 + l.need) <=> Encodes(<<a, b, d>>)
    <3>1. SubSeq(text, m + 1, m + 3) = <<a, b, d>>
      BY <2>1, SubSeqIs DEF Pieces
    <3> QED
      BY <1>9, <1>11, <3>1, Zenon DEF Character
  <2>3. c = (a % 16) * 4096 + (b % 64) * 64 + (d % 64)
    BY <1>8, <1>9, <1>11, SMT
  <2>4. \A x : Continuation(x) <=> x \div 64 = 2
    BY DEF Continuation
  <2>5. (\A k \in 1..l.need : Continuation(text[m + 1 + k]))
           <=> Continuation(b) /\ Continuation(d)
    <3>1. 1..l.need = {1, 2}
      BY <1>11
    <3> QED
      BY <1>9, <3>1
  <2> HIDE DEF a, b, d
  <2>6. Encodes(<<a, b, d>>) <=>
           a \div 16 = 14 /\ b \div 64 = 2 /\ d \div 64 = 2 /\ c >= 2048 /\ Scalar(c)
    BY <2>1, <2>3, ThreeBytes, SMT
  <2>7. c \in Nat /\ c < 65536
    <3>1. a \in Nat /\ b \in Nat /\ d \in Nat
      BY <2>1, Utf8Assumption
    <3>2. a % 16 \in Nat /\ a % 16 < 16 /\ b % 64 \in Nat /\ b % 64 < 64
            /\ d % 64 \in Nat /\ d % 64 < 64
      BY <3>1, Residues
    <3>3. \A p, q, r \in Nat : p < 16 /\ q < 64 /\ r < 64 =>
             p * 4096 + q * 64 + r \in Nat /\ p * 4096 + q * 64 + r < 65536
      BY SMT
    <3> QED
      BY <2>3, <3>2, <3>3, SMT
  <2>8. Followed(l, m) <=>
           a \div 16 = 14 /\ b \div 64 = 2 /\ d \div 64 = 2 /\ c >= 2048 /\ Scalar(c)
    <3>1. Acceptable(l, c) <=> c >= 2048 /\ Scalar(c)
      BY <1>1, <1>6, <1>7, <1>11, <2>7, SMT
    <3> QED
      BY <1>1, <1>5, <1>11, <2>4, <2>5, <3>1, SMT
  <2> QED
    BY <2>2, <2>6, <2>8, SMT
<1>12. CASE l.need = 3
  <2>1. a \in Bytes /\ b \in Bytes /\ d \in Bytes /\ e \in Bytes /\ m + 4 <= Len(text)
    BY <1>2, <1>3, <1>12, BytesAt
  <2>2. Character(m, m + 1 + l.need) <=> Encodes(<<a, b, d, e>>)
    <3>1. SubSeq(text, m + 1, m + 4) = <<a, b, d, e>>
      BY <2>1, SubSeqIs DEF Pieces
    <3> QED
      BY <1>9, <1>12, <3>1, Zenon DEF Character
  <2>3. c = (a % 8) * 262144 + (b % 64) * 4096 + (d % 64) * 64 + (e % 64)
    BY <1>8, <1>9, <1>12, SMT
  <2>4. \A x : Continuation(x) <=> x \div 64 = 2
    BY DEF Continuation
  <2>5. (\A k \in 1..l.need : Continuation(text[m + 1 + k]))
           <=> Continuation(b) /\ Continuation(d) /\ Continuation(e)
    <3>1. 1..l.need = {1, 2, 3}
      BY <1>12
    <3> QED
      BY <1>9, <3>1
  <2> HIDE DEF a, b, d, e
  <2>6. Encodes(<<a, b, d, e>>) <=>
           /\ a \div 8 = 30 /\ b \div 64 = 2 /\ d \div 64 = 2 /\ e \div 64 = 2
           /\ c >= 65536 /\ Scalar(c)
    BY <2>1, <2>3, FourBytes, SMT
  <2>7. c \in Nat
    <3>1. a \in Nat /\ b \in Nat /\ d \in Nat /\ e \in Nat
      BY <2>1, Utf8Assumption
    <3>2. a % 8 \in Nat /\ b % 64 \in Nat /\ d % 64 \in Nat /\ e % 64 \in Nat
      BY <3>1, Residues
    <3>3. \A p, q, r, x \in Nat : p * 262144 + q * 4096 + r * 64 + x \in Nat
      BY SMT
    <3> QED
      BY <2>3, <3>2, <3>3, SMT
  <2>8. Followed(l, m) <=>
           /\ a \div 8 = 30 /\ b \div 64 = 2 /\ d \div 64 = 2 /\ e \div 64 = 2
           /\ c >= 65536 /\ Scalar(c)
    <3>1. Acceptable(l, c) <=> c >= 65536 /\ Scalar(c)
      BY <1>1, <1>6, <1>7, <1>12, <2>7, SMT
    <3> QED
      BY <1>1, <1>5, <1>12, <2>4, <2>5, <3>1, SMT
  <2> QED
    BY <2>2, <2>6, <2>8, SMT
<1> QED
  BY <1>1, <1>10, <1>11, <1>12, SMT

\* The first byte of a character is no continuation and tells its length; the
\* others are continuations.
LEMMA CharacterShape ==
    ASSUME text \in Seq(Bytes), NEW m \in Nat, NEW k \in 1..4,
           m + k <= Len(text), Character(m, m + k)
    PROVE  /\ k = 1 => text[m + 1] < 128
           /\ k = 2 => text[m + 1] \div 32 = 6
           /\ k = 3 => text[m + 1] \div 16 = 14
           /\ k = 4 => text[m + 1] \div 8 = 30
           /\ \A i \in 2..k : Continuation(text[m + i])
<1>1. Len(text) \in Nat
  OBVIOUS
<1>2. CASE k = 1
  BY <1>2, AsciiIsCharacter
<1>3. CASE k # 1
  <2>1. PICK l \in Leads : l.need = k - 1
    <3>1. k = 2 \/ k = 3 \/ k = 4
      BY <1>3
    <3>2. CASE k = 2
      <4>1. [tag |-> 6, width |-> 32, need |-> 1, least |-> 128] \in Leads
        BY SMT DEF Leads
      <4> QED
        BY <3>2, <4>1, SMT
    <3>3. CASE k = 3
      <4>1. [tag |-> 14, width |-> 16, need |-> 2, least |-> 2048] \in Leads
        BY SMT DEF Leads
      <4> QED
        BY <3>3, <4>1, SMT
    <3>4. CASE k = 4
      <4>1. [tag |-> 30, width |-> 8, need |-> 3, least |-> 65536] \in Leads
        BY SMT DEF Leads
      <4> QED
        BY <3>4, <4>1, SMT
    <3> QED
      BY <3>1, <3>2, <3>3, <3>4
  <2>2. m + 1 + l.need = m + k
    BY <2>1
  <2>3. Followed(l, m)
    BY <2>2, FollowedIsCharacter
  <2>4. text[m + 1] \div l.width = l.tag /\ \A i \in 1..l.need : Continuation(text[m + 1 + i])
    BY <2>3, Zenon DEF Followed, LeadOf
  <2>5. /\ l.need = 1 => l.tag = 6 /\ l.width = 32
        /\ l.need = 2 => l.tag = 14 /\ l.width = 16
        /\ l.need = 3 => l.tag = 30 /\ l.width = 8
    BY LeadsAre, SMT
  <2>6. ASSUME NEW i \in 2..k PROVE Continuation(text[m + i])
    <3>1. i - 1 \in 1..l.need /\ m + 1 + (i - 1) = m + i
      BY <2>1
    <3>2. Continuation(text[m + 1 + (i - 1)])
      BY <2>4, <3>1
    <3> QED
      BY <3>1, <3>2
  <2> QED
    BY <1>3, <2>1, <2>4, <2>5, <2>6, SMT
<1> QED
  BY <1>2, <1>3

LEMMA CharacterStarts ==
    ASSUME text \in Seq(Bytes), NEW m \in Nat, NEW k \in 1..4,
           m + k <= Len(text), Character(m, m + k)
    PROVE  /\ ~Continuation(text[m + 1])
           /\ \A j \in 1..4 : m + j <= Len(text) /\ Character(m, m + j) => j = k
<1>1. text[m + 1] \in Nat /\ text[m + 1] < 256
  BY BytesAt
<1> DEFINE a == text[m + 1]
<1>2. /\ k = 1 => a < 128
      /\ k = 2 => a \div 32 = 6
      /\ k = 3 => a \div 16 = 14
      /\ k = 4 => a \div 8 = 30
  BY CharacterShape
<1>3. ASSUME NEW j \in 1..4, m + j <= Len(text), Character(m, m + j)
      PROVE  j = k
  <2>1. /\ j = 1 => a < 128
        /\ j = 2 => a \div 32 = 6
        /\ j = 3 => a \div 16 = 14
        /\ j = 4 => a \div 8 = 30
    BY <1>3, CharacterShape
  <2> HIDE DEF a
  <2>2. a \in Nat
    BY <1>1 DEF a
  <2> QED
    BY <1>2, <2>1, <2>2
<1>4. ~Continuation(a)
  <2> HIDE DEF a
  <2>1. a \in Nat
    BY <1>1 DEF a
  <2> QED
    BY <1>2, <2>1 DEF Continuation
<1> QED
  BY <1>3, <1>4


-----------------------------------------------------------------------------
(* Well-formed prefixes.                                                   *)

\* A character ends at n behind an element of S.
Reached(S, n) == \E k \in 1..4 : k <= n /\ Character(n - k, n) /\ n - k \in S

Prefixes(m) == {S \in SUBSET (0..m) : \A n \in 0..m : n \in S <=> n = 0 \/ Reached(S, n)}

LEMMA PrefixesExist == \A m \in Nat : \E S : S \in Prefixes(m)
<1> DEFINE G == {m \in Nat : \E S : S \in Prefixes(m)}
<1>1. 0 \in G
  <2> DEFINE S == {0}
  <2>1. S \in Prefixes(0)
    BY DEF Prefixes
  <2> QED
    BY <2>1
<1>2. ASSUME NEW m \in G PROVE m + 1 \in G
  <2>1. PICK S : S \in Prefixes(m)
    OBVIOUS
  <2>2. m \in Nat
    OBVIOUS
  <2>3. S \in SUBSET (0..m) /\ \A n \in 0..m : n \in S <=> n = 0 \/ Reached(S, n)
    BY <2>1 DEF Prefixes
  <2> DEFINE T == IF Reached(S, m + 1) THEN S \cup {m + 1} ELSE S
  <2>4. T \in SUBSET (0..m + 1)
    BY <2>2, <2>3
  <2>5. \A n \in 0..m : n \in T <=> n \in S
    BY <2>2, <2>3
  <2>6. m + 1 \in T <=> Reached(S, m + 1)
    BY <2>2, <2>3
  <2> HIDE DEF T
  <2>7. ASSUME NEW n \in 0..m + 1 PROVE Reached(T, n) <=> Reached(S, n)
    <3>1. \A k \in 1..4 : k <= n => n - k \in 0..m
      BY <2>2
    <3> QED
      BY <2>5, <3>1 DEF Reached
  <2>8. ASSUME NEW n \in 0..m + 1 PROVE n \in T <=> n = 0 \/ Reached(T, n)
    <3>1. CASE n = m + 1
      BY <2>2, <2>6, <2>7, <3>1
    <3>2. CASE n # m + 1
      <4>1. n \in 0..m
        BY <2>2, <3>2
      <4> QED
        BY <2>3, <2>5, <2>7, <4>1
    <3> QED
      BY <3>1, <3>2
  <2>9. T \in Prefixes(m + 1)
    BY <2>4, <2>8 DEF Prefixes
  <2> QED
    BY <2>2, <2>9
<1> HIDE DEF G
<1>3. G \in SUBSET Nat
  BY DEF G
<1>4. G = Nat
  BY <1>1, <1>2, <1>3, NatSet
<1> QED
  BY <1>4 DEF G

LEMMA WellFormedIs ==
    ASSUME text \in Seq(Bytes)
    PROVE  \A n \in 0..Len(text) :
              WellFormed[n] <=>
                 \/ n = 0
                 \/ \E k \in 1..4 : k <= n /\ Character(n - k, n) /\ WellFormed[n - k]
<1>1. Len(text) \in Nat
  OBVIOUS
<1> DEFINE m == Len(text)
           Body(h, n) ==
              \/ n = 0
              \/ \E k \in 1..4 : k <= n /\ Encodes(SubSeq(text, n - k + 1, n)) /\ h[n - k]
           Eqn(h) == h = [n \in 0..m |-> Body(h, n)]
           c == CHOOSE h : Eqn(h)
<1>2. PICK S : S \in Prefixes(m)
  BY <1>1, PrefixesExist
<1> HIDE DEF m
<1>3. S \in SUBSET (0..m) /\ \A n \in 0..m : n \in S <=> n = 0 \/ Reached(S, n)
  BY <1>2 DEF Prefixes
<1>4. m \in Nat
  BY <1>1 DEF m
<1> DEFINE f == [n \in 0..m |-> n \in S]
<1>5. Eqn(f)
  <2>1. ASSUME NEW n \in 0..m PROVE (n \in S) = Body(f, n)
    <3>1. \A k \in 1..4 : k <= n => n - k \in 0..m
      BY <1>4
    <3>2. \A k \in 1..4 : k <= n => (f[n - k] <=> n - k \in S)
      BY <3>1
    <3> HIDE DEF f
    <3>3. Body(f, n) <=> n = 0 \/ Reached(S, n)
      BY <3>2 DEF Reached, Character
    <3>4. n \in S <=> n = 0 \/ Reached(S, n)
      BY <1>3
    <3> HIDE DEF Body
    <3>5. Body(f, n) \in BOOLEAN
      BY DEF Body
    <3> QED
      BY <3>3, <3>4, <3>5
  <2>2. f = [n \in 0..m |-> n \in S]
    OBVIOUS
  <2> HIDE DEF f, Body
  <2> QED
    BY <2>1, <2>2
<1>6. Eqn(c)
  <2> HIDE DEF f, Body
  <2> QED
    BY <1>5
<1>7. WellFormed = c
  BY DEF WellFormed, m
<1> HIDE DEF c, f
<1>8. ASSUME NEW n \in 0..m PROVE c[n] = Body(c, n)
  <2> HIDE DEF Body
  <2> QED
    BY <1>6
<1>9. ASSUME NEW n \in 0..m
      PROVE  WellFormed[n] <=> Body(WellFormed, n)
  <2> HIDE DEF Body
  <2> QED
    BY <1>7, <1>8
<1> QED
  BY <1>9 DEF Character, m

\* A character behind a well-formed prefix makes a longer one.
LEMMA OneMore ==
    ASSUME text \in Seq(Bytes), NEW m \in 0..Len(text), WellFormed[m],
           NEW k \in 1..4, m + k <= Len(text), Character(m, m + k)
    PROVE  WellFormed[m + k]
<1>1. m + k \in 0..Len(text) /\ k <= m + k /\ (m + k) - k = m
  OBVIOUS
<1> DEFINE n == m + k
<1>2. n \in 0..Len(text) /\ k <= n /\ n - k = m /\ Character(n - k, n) /\ WellFormed[n - k]
  BY <1>1
<1> HIDE DEF n
<1>3. WellFormed[n]
  BY <1>2, WellFormedIs
<1> QED
  BY <1>3 DEF n

\* Between two well-formed prefixes the text goes on with a character.
Onwards(n) ==
    \A m \in 0..n - 1 :
        WellFormed[m] /\ WellFormed[n] =>
            \E k \in 1..4 : m + k <= n /\ Character(m, m + k)

LEMMA GoesOn ==
    ASSUME text \in Seq(Bytes)
    PROVE  \A n \in 0..Len(text) : Onwards(n)
<1> DEFINE G == {n \in 0..Len(text) : Onwards(n)}
<1>0. Len(text) \in Nat
  OBVIOUS
<1>1. ASSUME NEW n \in 0..Len(text), \A i \in 0..n - 1 : i \in G PROVE n \in G
  <2> SUFFICES ASSUME NEW m \in 0..n - 1, WellFormed[m], WellFormed[n]
               PROVE  \E k \in 1..4 : m + k <= n /\ Character(m, m + k)
    BY DEF Onwards
  <2>1. m \in Nat /\ n \in Nat /\ m < n /\ n <= Len(text)
    BY <1>0
  <2>2. PICK k \in 1..4 : k <= n /\ Character(n - k, n) /\ WellFormed[n - k]
    BY <2>1, WellFormedIs
  <2> DEFINE p == n - k
  <2>3. p \in Nat /\ p < n /\ p + k = n /\ Character(p, p + k) /\ WellFormed[p]
    BY <2>1, <2>2
  <2> HIDE DEF p
  <2>4. CASE p = m
    BY <2>1, <2>3, <2>4
  <2>5. CASE m < p
    <3>1. p \in G /\ m \in 0..p - 1
      BY <1>1, <2>1, <2>3, <2>5
    <3>2. PICK j \in 1..4 : m + j <= p /\ Character(m, m + j)
      BY <2>3, <3>1 DEF Onwards
    <3>3. m + j <= n
      BY <2>1, <2>3, <3>2
    <3> QED
      BY <3>2, <3>3
  <2>6. CASE p < m
    <3>1. m \in G /\ p \in 0..m - 1
      BY <1>1, <2>1, <2>3, <2>6
    <3>2. PICK j \in 1..4 : p + j <= m /\ Character(p, p + j)
      BY <2>3, <3>1 DEF Onwards
    <3>3. p + j <= Len(text) /\ p + k <= Len(text)
      BY <2>1, <2>3, <3>2, <1>0
    <3>4. j = k
      BY <2>3, <3>2, <3>3, CharacterStarts
    <3> QED
      BY <2>1, <2>3, <3>2, <3>4
  <2> QED
    BY <2>1, <2>3, <2>4, <2>5, <2>6
<1> HIDE DEF G
<1>2. \A n \in 0..Len(text) : n \in G
  BY <1>0, <1>1, StrongSet
<1> QED
  BY <1>2 DEF G

\* A position that does not continue a character is between characters.
Between(n) ==
    \A p \in 0..n - 1 : WellFormed[n] /\ ~Continuation(text[p + 1]) => WellFormed[p]

LEMMA StartsAreBetween ==
    ASSUME text \in Seq(Bytes)
    PROVE  \A n \in 0..Len(text) : Between(n)
<1> DEFINE G == {n \in 0..Len(text) : Between(n)}
<1>0. Len(text) \in Nat
  OBVIOUS
<1>1. ASSUME NEW n \in 0..Len(text), \A i \in 0..n - 1 : i \in G PROVE n \in G
  <2> SUFFICES ASSUME NEW p \in 0..n - 1, WellFormed[n], ~Continuation(text[p + 1])
               PROVE  WellFormed[p]
    BY DEF Between
  <2>1. p \in Nat /\ n \in Nat /\ p < n /\ n <= Len(text)
    BY <1>0
  <2>2. PICK k \in 1..4 : k <= n /\ Character(n - k, n) /\ WellFormed[n - k]
    BY <2>1, WellFormedIs
  <2> DEFINE m == n - k
  <2>3. m \in Nat /\ m < n /\ m + k = n /\ Character(m, m + k) /\ WellFormed[m]
    BY <2>1, <2>2
  <2> HIDE DEF m
  <2>4. CASE p = m
    BY <2>3, <2>4
  <2>5. CASE p < m
    <3>1. m \in G /\ p \in 0..m - 1
      BY <1>1, <2>1, <2>3, <2>5
    <3> QED
      BY <2>3, <3>1 DEF Between
  <2>6. CASE m < p
    <3> DEFINE i == p + 1 - m
    <3>1. i \in 2..k /\ m + i = p + 1
      BY <2>1, <2>3, <2>6
    <3>2. m + k <= Len(text)
      BY <2>1, <2>3
    <3> HIDE DEF i
    <3>3. Continuation(text[m + i])
      BY <2>3, <3>1, <3>2, CharacterShape
    <3> QED
      BY <3>1, <3>3
  <2> QED
    BY <2>1, <2>3, <2>4, <2>5, <2>6
<1> HIDE DEF G
<1>2. \A n \in 0..Len(text) : n \in G
  BY <1>0, <1>1, StrongSet
<1> QED
  BY <1>2 DEF G


-----------------------------------------------------------------------------
(* The validator.                                                          *)

LEMMA LeadFor ==
    ASSUME NEW k \in 2..4
    PROVE  \E l \in Leads : l.need = k - 1
<1>1. k = 2 \/ k = 3 \/ k = 4
  OBVIOUS
<1>2. CASE k = 2
  <2>1. [tag |-> 6, width |-> 32, need |-> 1, least |-> 128] \in Leads
    BY SMT DEF Leads
  <2> QED
    BY <1>2, <2>1, SMT
<1>3. CASE k = 3
  <2>1. [tag |-> 14, width |-> 16, need |-> 2, least |-> 2048] \in Leads
    BY SMT DEF Leads
  <2> QED
    BY <1>3, <2>1, SMT
<1>4. CASE k = 4
  <2>1. [tag |-> 30, width |-> 8, need |-> 3, least |-> 65536] \in Leads
    BY SMT DEF Leads
  <2> QED
    BY <1>4, <2>1, SMT
<1> QED
  BY <1>1, <1>2, <1>3, <1>4

LEMMA TextInitKnown == TextInit => TextKnown
<1> SUFFICES ASSUME TextInit PROVE TextKnown
  OBVIOUS
<1>1. PICK n \in 0..MaxLen : text \in [1..n -> Bytes]
  BY DEF TextInit
<1>2. n \in Nat
  BY Utf8Assumption
<1>3. text \in Seq(Bytes) /\ Len(text) = n
  BY <1>1, <1>2
<1>4. 0 \in 0..Len(text)
  BY <1>2, <1>3
<1>5. WellFormed[0]
  BY <1>3, <1>4, WellFormedIs
<1> QED
  BY <1>3, <1>4, <1>5 DEF TextInit, TextKnown

LEMMA WholeIsCharacter ==
    ASSUME TextKnown, pos < Len(text), NEW l \in LeadOf(text[pos + 1])
    PROVE  WholeCharacter(l) <=>
              pos + 1 + l.need <= Len(text) /\ Character(pos, pos + 1 + l.need)
<1>1. text \in Seq(Bytes) /\ pos \in Nat /\ Len(text) \in Nat
  BY DEF TextKnown
<1>2. l \in Leads
  BY DEF LeadOf
<1>3. l.need \in Nat
  <2>1. l.need = 1 \/ l.need = 2 \/ l.need = 3
    BY <1>2, LeadsAre
  <2> QED
    BY <2>1
<1>4. l.need < Unread <=> pos + 1 + l.need <= Len(text)
  BY <1>1, <1>3 DEF Unread
<1>5. WholeCharacter(l) <=> l.need < Unread /\ Followed(l, pos)
  BY Zenon DEF WholeCharacter, Followed
<1>6. pos + 1 + l.need <= Len(text) => (Character(pos, pos + 1 + l.need) <=> Followed(l, pos))
  BY <1>1, <1>2, FollowedIsCharacter
<1> QED
  BY <1>4, <1>5, <1>6, Zenon

LEMMA StepKeepsKnown ==
    ASSUME TextKnown, Step
    PROVE  TextKnown'
<1>1. text \in Seq(Bytes) /\ pos \in Nat /\ Len(text) \in Nat /\ WellFormed[pos]
        /\ pos \in 0..Len(text)
  BY DEF TextKnown
<1>2. verdict = "none" /\ pos < Len(text) /\ text' = text
  BY DEF Step
<1>3. WellFormed' = WellFormed
  BY <1>2 DEF WellFormed
<1>4. ASSUME NEW k \in 1..4, pos + k <= Len(text), Character(pos, pos + k),
             pos' = pos + k, verdict' = verdict
      PROVE  TextKnown'
  <2>1. WellFormed[pos + k]
    BY <1>1, <1>4, OneMore
  <2>2. pos' \in 0..Len(text')
    BY <1>1, <1>2, <1>4
  <2> QED
    BY <1>1, <1>2, <1>3, <1>4, <2>1, <2>2 DEF TextKnown
<1>5. CASE Ascii
  <2>1. pos + 1 <= Len(text) /\ 1 \in 1..4
    BY <1>1, <1>2
  <2>2. Character(pos, pos + 1)
    BY <1>1, <1>5, <2>1, AsciiIsCharacter DEF Ascii
  <2> QED
    BY <1>4, <1>5, <2>1, <2>2 DEF Ascii
<1>6. ASSUME NEW l \in LeadOf(text[pos + 1]), MultiByte(l) PROVE TextKnown'
  <2>1. l \in Leads
    BY DEF LeadOf
  <2>2. pos + 1 + l.need <= Len(text) /\ Character(pos, pos + 1 + l.need)
    BY <1>2, <1>6, WholeIsCharacter DEF MultiByte
  <2>3. l.need = 1 \/ l.need = 2 \/ l.need = 3
    BY <2>1, LeadsAre
  <2> DEFINE k == l.need + 1
  <2>4. k \in 1..4 /\ pos + k = pos + 1 + l.need /\ pos' = pos + k /\ verdict' = verdict
    BY <1>1, <1>6, <2>3 DEF MultiByte
  <2> HIDE DEF k
  <2> QED
    BY <1>4, <2>2, <2>4
<1>7. CASE IllFormed
  <2>1. text[pos + 1] >= 128 /\ verdict' = "invalid" /\ pos' = pos
          /\ \A l \in LeadOf(text[pos + 1]) : ~WholeCharacter(l)
    BY <1>7 DEF IllFormed
  <2>2. ASSUME WellFormed[Len(text)] PROVE FALSE
    <3>1. Len(text) \in 0..Len(text) /\ pos \in 0..Len(text) - 1
      BY <1>1, <1>2
    <3>2. PICK k \in 1..4 : pos + k <= Len(text) /\ Character(pos, pos + k)
      BY <1>1, <2>2, <3>1, GoesOn DEF Onwards
    <3>3. CASE k = 1
      <4>1. text[pos + 1] < 128
        BY <1>1, <3>2, <3>3, AsciiIsCharacter
      <4>2. text[pos + 1] \in Nat
        BY <1>1, <1>2, BytesAt
      <4> QED
        BY <2>1, <4>1, <4>2
    <3>4. CASE k # 1
      <4>1. PICK l \in Leads : l.need = k - 1
        BY <3>4, LeadFor
      <4>2. pos + 1 + l.need = pos + k
        BY <1>1, <4>1
      <4>3. Followed(l, pos)
        BY <1>1, <3>2, <4>2, FollowedIsCharacter
      <4>4. l \in LeadOf(text[pos + 1])
        BY <4>3 DEF Followed
      <4>5. WholeCharacter(l)
        BY <1>2, <3>2, <4>2, <4>4, WholeIsCharacter
      <4> QED
        BY <2>1, <4>4, <4>5
    <3> QED
      BY <3>3, <3>4
  <2> QED
    BY <1>1, <1>2, <1>3, <2>1, <2>2 DEF TextKnown
<1> QED
  BY <1>5, <1>6, <1>7 DEF Step

LEMMA TextNextKnown == TextKnown /\ [TextNext]_textVars => TextKnown'
<1> SUFFICES ASSUME TextKnown, [TextNext]_textVars PROVE TextKnown'
  OBVIOUS
<1>1. CASE Step
  BY <1>1, StepKeepsKnown
<1>2. CASE Done
  <2>1. text' = text /\ pos' = pos /\ verdict' = "valid" /\ pos = Len(text)
    BY <1>2 DEF Done
  <2>2. WellFormed' = WellFormed
    BY <2>1 DEF WellFormed
  <2> QED
    BY <2>1, <2>2 DEF TextKnown
<1>3. CASE UNCHANGED textVars
  <2>1. text' = text /\ pos' = pos /\ verdict' = verdict
    BY <1>3 DEF textVars
  <2>2. WellFormed' = WellFormed
    BY <2>1 DEF WellFormed
  <2> QED
    BY <2>1, <2>2 DEF TextKnown
<1> QED
  BY <1>1, <1>2, <1>3 DEF TextNext

\* What the validator has read is well formed; what it refuses is not.
THEOREM TextHolds == TextSpec => []TextKnown
BY TextInitKnown, TextNextKnown, PTL DEF TextSpec

\* Exactly the well-formed texts are accepted, whatever their length.
\* (sofab_utf8_valid)
THEOREM VerdictExact == TextSpec => []VerdictIsExact
<1>1. TextKnown => VerdictIsExact
  <2> SUFFICES ASSUME TextKnown, verdict # "none"
               PROVE  verdict = "valid" <=> WellFormed[Len(text)]
    BY DEF VerdictIsExact
  <2>1. verdict = "valid" \/ verdict = "invalid"
    BY DEF TextKnown
  <2> QED
    BY <2>1 DEF TextKnown
<1> QED
  BY TextHolds, <1>1, PTL

-----------------------------------------------------------------------------
(* The cut.                                                                *)

\* Where a text cut to n bytes ends: behind a whole character.
CutAt(p, n) ==
    /\ p \in 0..n
    /\ p = 0 \/ ~Unfinished(p)
    /\ \A i \in p + 1..n : Unfinished(i)

Cuts(m) ==
    {h \in [0..m -> Nat] :
        \A n \in 0..m : h[n] = IF n > 0 /\ Unfinished(n) THEN h[n - 1] ELSE n}

LEMMA CutsExist == \A m \in Nat : \E h : h \in Cuts(m)
<1> DEFINE G == {m \in Nat : \E h : h \in Cuts(m)}
<1>1. 0 \in G
  <2> DEFINE h == [n \in 0..0 |-> 0]
  <2>1. h \in Cuts(0)
    BY DEF Cuts
  <2> QED
    BY <2>1
<1>2. ASSUME NEW m \in G PROVE m + 1 \in G
  <2>1. PICK h : h \in Cuts(m)
    OBVIOUS
  <2>2. m \in Nat
    OBVIOUS
  <2>3. h \in [0..m -> Nat]
          /\ \A n \in 0..m : h[n] = IF n > 0 /\ Unfinished(n) THEN h[n - 1] ELSE n
    BY <2>1 DEF Cuts
  <2> DEFINE v == IF Unfinished(m + 1) THEN h[m] ELSE m + 1
             f == [n \in 0..m + 1 |-> IF n = m + 1 THEN v ELSE h[n]]
  <2>4. v \in Nat
    BY <2>2, <2>3
  <2>5. f \in [0..m + 1 -> Nat]
    <3> HIDE DEF v
    <3> QED
      BY <2>2, <2>3, <2>4
  <2>6. ASSUME NEW n \in 0..m + 1
        PROVE  f[n] = IF n > 0 /\ Unfinished(n) THEN f[n - 1] ELSE n
    <3>1. CASE n = m + 1
      BY <2>2, <3>1
    <3>2. CASE n # m + 1
      <4>1. n \in 0..m /\ (n > 0 => n - 1 \in 0..m)
        BY <2>2, <3>2
      <4>2. f[n] = h[n] /\ (n > 0 => f[n - 1] = h[n - 1])
        BY <2>2, <4>1
      <4> HIDE DEF f
      <4> QED
        BY <2>3, <4>1, <4>2
    <3> QED
      BY <3>1, <3>2
  <2> HIDE DEF f
  <2>7. f \in Cuts(m + 1)
    BY <2>5, <2>6 DEF Cuts
  <2> QED
    BY <2>2, <2>7
<1> HIDE DEF G
<1>3. G \in SUBSET Nat
  BY DEF G
<1>4. G = Nat
  BY <1>1, <1>2, <1>3, NatSet
<1> QED
  BY <1>4 DEF G

LEMMA PrefixCuts ==
    ASSUME text \in Seq(Bytes)
    PROVE  \A n \in 0..Len(text) - 1 : CutAt(Utf8Prefix[n], n)
<1>0. Len(text) \in Nat
  OBVIOUS
<1>1. CASE Len(text) = 0
  BY <1>1
<1>2. CASE Len(text) # 0
  <2> DEFINE m == Len(text) - 1
             Eqn(h) == h = [n \in 0..m |-> IF n > 0 /\ Unfinished(n) THEN h[n - 1] ELSE n]
             c == CHOOSE h : Eqn(h)
  <2>1. m \in Nat
    BY <1>0, <1>2
  <2>2. Utf8Prefix = c
    BY DEF Utf8Prefix
  <2> HIDE DEF m
  <2>3. PICK f : f \in Cuts(m)
    BY <2>1, CutsExist
  <2>4. Eqn(f)
    <3>1. f = [n \in 0..m |-> f[n]]
          /\ \A n \in 0..m : f[n] = IF n > 0 /\ Unfinished(n) THEN f[n - 1] ELSE n
      BY <2>3 DEF Cuts
    <3> QED
      BY <3>1
  <2>5. Eqn(c)
    BY <2>4
  <2> HIDE DEF c
  <2>6. ASSUME NEW n \in 0..m
        PROVE  c[n] = IF n > 0 /\ Unfinished(n) THEN c[n - 1] ELSE n
    BY <2>5
  <2> DEFINE G == {n \in 0..m : CutAt(c[n], n)}
  <2>7. 0 \in G
    <3>1. c[0] = 0
      BY <2>1, <2>6
    <3> QED
      BY <2>1, <3>1 DEF CutAt
  <2>8. ASSUME NEW n \in 0..m, n \in G, n < m PROVE n + 1 \in G
    <3>1. n + 1 \in 0..m /\ n + 1 > 0 /\ (n + 1) - 1 = n /\ n \in Nat
      BY <2>1, <2>8
    <3>2. c[n + 1] = IF Unfinished(n + 1) THEN c[n] ELSE n + 1
      BY <2>6, <3>1
    <3>3. CutAt(c[n], n)
      BY <2>8
    <3>4. CASE Unfinished(n + 1)
      <4>1. c[n + 1] = c[n]
        BY <3>2, <3>4
      <4> DEFINE p == c[n]
      <4> HIDE DEF p
      <4>2. p \in 0..n /\ (p = 0 \/ ~Unfinished(p)) /\ \A i \in p + 1..n : Unfinished(i)
        BY <3>3 DEF CutAt, p
      <4>3. \A i \in p + 1..n + 1 : i = n + 1 \/ i \in p + 1..n
        BY <3>1, <4>2
      <4>4. CutAt(p, n + 1)
        BY <3>1, <3>4, <4>2, <4>3 DEF CutAt
      <4> QED
        BY <3>1, <4>1, <4>4 DEF p
    <3>5. CASE ~Unfinished(n + 1)
      <4>1. c[n + 1] = n + 1
        BY <3>2, <3>5
      <4>2. CutAt(n + 1, n + 1)
        BY <3>1, <3>5 DEF CutAt
      <4> QED
        BY <3>1, <4>1, <4>2
    <3> QED
      BY <3>4, <3>5
  <2> HIDE DEF G
  <2>9. \A n \in 0..m : n \in G
    BY <2>1, <2>7, <2>8, RangeSet
  <2> QED
    BY <2>2, <2>9 DEF G, m
<1> QED
  BY <1>1, <1>2

LEMMA CutsOfTyped == TextKnown => CutsBetweenCharacters
<1> SUFFICES ASSUME TextKnown, WellFormed[Len(text)], NEW n \in 0..Len(text) - 1
             PROVE  /\ Utf8Prefix[n] <= n
                    /\ \A k \in 0..n : WellFormed[k] => k <= Utf8Prefix[n]
                    /\ WellFormed[Utf8Prefix[n]]
  BY DEF CutsBetweenCharacters
<1>1. text \in Seq(Bytes) /\ Len(text) \in Nat /\ n \in Nat /\ n < Len(text)
        /\ Len(text) \in 0..Len(text)
  BY DEF TextKnown
<1> DEFINE p == Utf8Prefix[n]
<1>2. CutAt(p, n)
  BY <1>1, PrefixCuts
<1> HIDE DEF p
<1>3. p \in 0..n /\ p \in 0..Len(text) - 1 /\ p <= n
  BY <1>1, <1>2 DEF CutAt
<1>4. WellFormed[p]
  <2>1. CASE p = 0
    BY <1>1, <2>1, WellFormedIs
  <2>2. CASE p # 0
    <3>1. ~Continuation(text[p + 1])
      BY <1>2, <2>2 DEF CutAt, Unfinished
    <3> QED
      BY <1>1, <1>3, <3>1, StartsAreBetween DEF Between
  <2> QED
    BY <2>1, <2>2
<1>5. ASSUME NEW k \in 0..n, WellFormed[k] PROVE k <= p
  <2>1. k \in 0..Len(text) - 1 /\ k \in Nat
    BY <1>1
  <2>2. PICK j \in 1..4 : k + j <= Len(text) /\ Character(k, k + j)
    BY <1>1, <1>5, <2>1, GoesOn DEF Onwards
  <2>3. ~Continuation(text[k + 1])
    BY <1>1, <2>1, <2>2, CharacterStarts
  <2>4. k \notin p + 1..n
    BY <1>2, <2>3 DEF CutAt, Unfinished
  <2> QED
    BY <1>1, <1>3, <2>1, <2>4
<1> QED
  BY <1>3, <1>4, <1>5 DEF p

\* A text that is cut keeps whole characters, and as many as fit.  (utf8Prefix)
THEOREM CutIsBetween == TextSpec => []CutsBetweenCharacters
BY TextHolds, CutsOfTyped, PTL
=============================================================================
