---------------------------- MODULE BackendProofs ----------------------------
(***************************************************************************)
(* Proofs about the value codec, the parameters it stores and the mock of  *)
(* the backend, for bytes of any even number of values, any kinds and any  *)
(* descriptors.                                                            *)
(***************************************************************************)
EXTENDS MockBackend, SequenceTheorems, FiniteSetTheorems, WellFoundedInduction, TLAPS

-----------------------------------------------------------------------------
(* Induction, as a fact about sets: what is to be shown of every number is *)
(* the membership in a set.                                                *)

Below == {p \in Nat \X Nat : p[1] < p[2]}

LEMMA LeastOfSet ==
  ASSUME NEW T, T \subseteq Nat, T # {}
  PROVE  \E x \in T : \A y \in T : x <= y
<1>1. IsWellFoundedOn(Below, Nat)
  BY NatLessThanWellFounded DEF OpToRel, Below
<1>2. PICK x \in T : \A y \in T : ~ (<<y, x>> \in Below)
  BY <1>1, WFMin
<1>3. \A y \in Nat : <<y, x>> \in Below <=> y < x
  BY DEF Below
<1>4. \A y \in T : y \in Nat /\ x \in Nat /\ ~(y < x)
  BY <1>2, <1>3
<1> QED
  BY <1>4

LEMMA Induction ==
  ASSUME NEW m \in Nat, NEW S, 0 \in S, \A n \in 0..m : n < m /\ n \in S => n + 1 \in S
  PROVE  \A n \in 0..m : n \in S
<1> DEFINE T == {n \in 0..m : n \notin S}
<1> SUFFICES ASSUME T # {} PROVE FALSE
  OBVIOUS
<1>1. PICK x \in T : \A y \in T : x <= y
  <2>1. T \subseteq Nat
    OBVIOUS
  <2> HIDE DEF T
  <2> QED BY <2>1, LeastOfSet
<1>2. x # 0 /\ x \in 0..m /\ x \notin S
  OBVIOUS
<1>3. x - 1 \in 0..m /\ x - 1 < m /\ x - 1 \notin T
  BY <1>1, <1>2
<1>4. (x - 1) + 1 = x
  BY <1>2
<1> QED
  BY <1>2, <1>3, <1>4

(* A recursive definition over 0..m has a solution.                        *)
Steps(m, V) == [1..m -> [V -> V]]
Iterates(g, m, V, v, step) ==
  g \in [0..m -> V] /\ g[0] = v /\ \A i \in 1..m : g[i] = step[i][g[i - 1]]

LEMMA Recursion ==
  ASSUME NEW m \in Nat, NEW V, NEW v, v \in V, NEW step, step \in Steps(m, V)
  PROVE  \E g : Iterates(g, m, V, v, step)
<1> DEFINE Solves(n, g) == Iterates(g, n, V, v, step)
           S == {n \in 0..m : \E g : Solves(n, g)}
<1> USE DEF Steps, Iterates
<1>1. 0 \in S
  <2> DEFINE g == [i \in 0..0 |-> v]
  <2>1. g \in [0..0 -> V] /\ g[0] = v
    OBVIOUS
  <2>2. \A i \in 1..0 : FALSE
    OBVIOUS
  <2> HIDE DEF g
  <2>3. Solves(0, g)
    BY <2>1, <2>2
  <2> QED BY <2>3
<1>2. ASSUME NEW n \in 0..m, n < m, n \in S PROVE n + 1 \in S
  <2>1. PICK g : Solves(n, g)
    BY <1>2
  <2> DEFINE h == [i \in 0..(n + 1) |-> IF i = n + 1 THEN step[n + 1][g[n]] ELSE g[i]]
  <2>2. n + 1 \in 1..m /\ g[n] \in V /\ step[n + 1][g[n]] \in V
    BY <1>2, <2>1
  <2>3. h \in [0..(n + 1) -> V]
    BY <2>1, <2>2
  <2>4. h[0] = v /\ h[n + 1] = step[n + 1][g[n]] /\ \A i \in 0..n : h[i] = g[i]
    BY <2>1
  <2> HIDE DEF h
  <2>5. ASSUME NEW i \in 1..(n + 1) PROVE h[i] = step[i][h[i - 1]]
    <3>1. CASE i = n + 1
      BY <3>1, <2>4
    <3>2. CASE i \in 1..n
      BY <3>2, <2>1, <2>4
    <3> QED BY <3>1, <3>2
  <2>6. Solves(n + 1, h)
    BY <2>3, <2>4, <2>5
  <2>7. n + 1 \in 0..m
    BY <1>2
  <2> QED BY <2>6, <2>7
<1>3. m \in S
  <2> HIDE DEF S
  <2>1. \A n \in 0..m : n \in S
    BY <1>1, <1>2, Induction
  <2> QED BY <2>1
<1> QED BY <1>3

-----------------------------------------------------------------------------
(* Powers of the number of values of a byte.                               *)

IsPower(n, g) == g = [i \in 0..n |-> IF i = 0 THEN 1 ELSE ByteValues * g[i - 1]]

LEMMA ByteFacts == ByteValues \in Nat /\ ByteValues >= 2 /\ ByteValues = 2 * (ByteValues \div 2)
  BY CodecAssumption

LEMMA PowerTable ==
  ASSUME NEW n \in Nat
  PROVE  \E g : IsPower(n, g) /\ Power(n) = g[n]
<1>1. \E g : IsPower(n, g)
  <2> DEFINE numbers == Nat
             one == 1
             step == [i \in 1..n |-> [x \in numbers |-> ByteValues * x]]
  <2>1. one \in numbers /\ step \in Steps(n, numbers)
    BY ByteFacts DEF Steps
  <2>2. PICK g : Iterates(g, n, numbers, one, step)
    <3> HIDE DEF step, numbers, one
    <3> QED BY <2>1, Recursion
  <2>3. ASSUME NEW i \in 1..n PROVE g[i] = ByteValues * g[i - 1]
    <3>1. i - 1 \in 0..n
      OBVIOUS
    <3>2. g[i - 1] \in numbers
      BY <2>2, <3>1 DEF Iterates
    <3>3. step[i][g[i - 1]] = ByteValues * g[i - 1]
      BY <3>2
    <3> QED BY <2>2, <3>3 DEF Iterates
  <2>4. ASSUME NEW i \in 0..n PROVE g[i] = IF i = 0 THEN 1 ELSE ByteValues * g[i - 1]
    <3>1. CASE i = 0
      BY <3>1, <2>2 DEF Iterates
    <3>2. CASE i \in 1..n
      BY <3>2, <2>3
    <3> QED BY <3>1, <3>2
  <2>5. IsPower(n, g)
    BY <2>2, <2>4 DEF Iterates, IsPower
  <2> QED BY <2>5
<1>2. Power(n) = (CHOOSE g : IsPower(n, g))[n]
  BY DEF Power, IsPower
<1> QED
  BY <1>1, <1>2

LEMMA TablesAgree ==
  ASSUME NEW n \in Nat, NEW g, IsPower(n, g), NEW h, IsPower(n + 1, h)
  PROVE  \A i \in 0..n : g[i] = h[i]
<1> DEFINE S == {i \in 0..n : g[i] = h[i]}
<1>0. /\ \A i \in 0..n : g[i] = IF i = 0 THEN 1 ELSE ByteValues * g[i - 1]
      /\ \A i \in 0..(n + 1) : h[i] = IF i = 0 THEN 1 ELSE ByteValues * h[i - 1]
  BY DEF IsPower
<1>1. 0 \in S
  BY <1>0
<1>2. ASSUME NEW i \in 0..n, i < n, i \in S PROVE i + 1 \in S
  <2>1. g[i + 1] = ByteValues * g[i] /\ h[i + 1] = ByteValues * h[i]
    <3>1. i + 1 \in 0..n /\ i + 1 \in 0..(n + 1) /\ i + 1 # 0 /\ (i + 1) - 1 = i
      BY <1>2
    <3> QED BY <3>1, <1>0
  <2>2. i + 1 \in 0..n
    BY <1>2
  <2> QED BY <2>1, <2>2, <1>2
<1>3. \A i \in 0..n : i \in S
  <2> HIDE DEF S
  <2> QED BY <1>1, <1>2, Induction
<1> QED BY <1>3

LEMMA PowerNext ==
  /\ Power(0) = 1
  /\ \A n \in Nat : Power(n + 1) = ByteValues * Power(n)
<1>1. Power(0) = 1
  <2>1. PICK g : IsPower(0, g) /\ Power(0) = g[0]
    BY PowerTable
  <2> QED BY <2>1 DEF IsPower
<1>2. ASSUME NEW n \in Nat PROVE Power(n + 1) = ByteValues * Power(n)
  <2>1. PICK g : IsPower(n, g) /\ Power(n) = g[n]
    BY PowerTable
  <2>2. PICK h : IsPower(n + 1, h) /\ Power(n + 1) = h[n + 1]
    BY PowerTable
  <2>3. g[n] = h[n]
    BY <2>1, <2>2, TablesAgree
  <2>4. h[n + 1] = ByteValues * h[(n + 1) - 1]
    BY <2>2 DEF IsPower
  <2> QED BY <2>1, <2>2, <2>3, <2>4
<1> QED BY <1>1, <1>2

LEMMA PowerPositive ==
  ASSUME NEW n \in Nat
  PROVE  Power(n) \in Nat /\ Power(n) > 0
<1> DEFINE S == {i \in 0..n : Power(i) \in Nat /\ Power(i) > 0}
<1>1. 0 \in S
  BY PowerNext
<1>2. ASSUME NEW i \in 0..n, i < n, i \in S PROVE i + 1 \in S
  <2>1. Power(i + 1) = ByteValues * Power(i)
    BY PowerNext
  <2>2. ByteValues * Power(i) \in Nat /\ ByteValues * Power(i) > 0
    BY <1>2, ByteFacts
  <2> QED BY <1>2, <2>1, <2>2
<1>3. \A i \in 0..n : i \in S
  <2> HIDE DEF S
  <2> QED BY <1>1, <1>2, Induction
<1> QED BY <1>3

LEMMA PowerGrows ==
  ASSUME NEW m \in Nat, NEW n \in Nat, m <= n
  PROVE  Power(m) <= Power(n)
<1> DEFINE S == {i \in 0..(n - m) : Power(m) <= Power(m + i)}
<1>1. 0 \in S
  BY PowerPositive
<1>2. ASSUME NEW i \in 0..(n - m), i < n - m, i \in S PROVE i + 1 \in S
  <2>1. m + i \in Nat /\ m + (i + 1) = (m + i) + 1
    OBVIOUS
  <2>2. Power(m + (i + 1)) = ByteValues * Power(m + i)
    BY <2>1, PowerNext
  <2>3. Power(m) \in Nat /\ Power(m + i) \in Nat
    BY <2>1, PowerPositive
  <2>4. Power(m + i) <= ByteValues * Power(m + i)
    BY <2>3, ByteFacts
  <2> QED BY <1>2, <2>2, <2>3, <2>4, ByteFacts
<1>3. \A i \in 0..(n - m) : i \in S
  <2>1. n - m \in Nat
    OBVIOUS
  <2> HIDE DEF S
  <2> QED BY <1>1, <1>2, <2>1, Induction
<1>4. m + (n - m) = n
  OBVIOUS
<1> QED BY <1>3, <1>4

-----------------------------------------------------------------------------
(* Numbers and their cells.                                                *)

LEMMA DivisionFacts ==
  ASSUME NEW n \in Int, NEW b \in Nat, b > 0
  PROVE  /\ n \div b \in Int /\ n % b \in Nat /\ n % b < b
         /\ n = b * (n \div b) + (n % b)
         /\ n >= 0 => n \div b >= 0
  OBVIOUS

LEMMA DivisionIs ==
  ASSUME NEW b \in Nat, b > 0, NEW q \in Int, NEW r \in Nat, r < b
  PROVE  (b * q + r) \div b = q /\ (b * q + r) % b = r
  OBVIOUS

LEMMA ProductFacts ==
  /\ \A x, y \in Nat : x * y \in Nat
  /\ \A x, y \in Int : x * y \in Int /\ x * y = y * x
  /\ \A x, y, z \in Int : x * (y * z) = (x * y) * z /\ x * (y + z) = x * y + x * z
  OBVIOUS

IsSum(cells, m, g) ==
  g = [i \in 0..m |-> IF i = 0 THEN 0 ELSE g[i - 1] + cells[i] * Power(i - 1)]

LEMMA SumNext ==
  ASSUME NEW m \in Nat, NEW cells, NEW g, IsSum(cells, m, g)
  PROVE  /\ g[0] = 0
         /\ \A i \in 1..m : g[i] = g[i - 1] + cells[i] * Power(i - 1)
         /\ \A i \in 0..m : i < m => g[i + 1] = g[i] + cells[i + 1] * Power(i)
<1>1. \A i \in 0..m : g[i] = IF i = 0 THEN 0 ELSE g[i - 1] + cells[i] * Power(i - 1)
  BY DEF IsSum
<1>2. \A i \in 1..m : i # 0 /\ i \in 0..m
  OBVIOUS
<1>3. \A i \in 0..m : i < m => i + 1 \in 1..m /\ (i + 1) - 1 = i
  OBVIOUS
<1>4. 0 \in 0..m
  OBVIOUS
<1> QED BY <1>1, <1>2, <1>3, <1>4

LEMMA SumExists ==
  ASSUME NEW m \in Nat, NEW cells \in [1..m -> Bytes]
  PROVE  \E g : IsSum(cells, m, g) /\ Unsigned(cells) = g[m]
<1>1. \E g : IsSum(cells, m, g)
  <2> DEFINE numbers == Nat
             zero == 0
             step == [i \in 1..m |-> [x \in numbers |-> x + cells[i] * Power(i - 1)]]
  <2>1. zero \in numbers /\ step \in Steps(m, numbers)
    <3>1. ASSUME NEW i \in 1..m, NEW x \in Nat PROVE x + cells[i] * Power(i - 1) \in Nat
      <4>1. i - 1 \in Nat /\ cells[i] \in Nat
        BY ByteFacts DEF Bytes
      <4>2. cells[i] * Power(i - 1) \in Nat
        BY <4>1, PowerPositive, ProductFacts
      <4> QED BY <4>2
    <3> QED BY <3>1 DEF Steps
  <2>2. PICK g : Iterates(g, m, numbers, zero, step)
    <3> HIDE DEF step, numbers, zero
    <3> QED BY <2>1, Recursion
  <2>3. ASSUME NEW i \in 1..m PROVE g[i] = g[i - 1] + cells[i] * Power(i - 1)
    <3>1. i - 1 \in 0..m
      OBVIOUS
    <3>2. g[i - 1] \in numbers
      BY <2>2, <3>1 DEF Iterates
    <3>3. step[i][g[i - 1]] = g[i - 1] + cells[i] * Power(i - 1)
      BY <3>2
    <3> QED BY <2>2, <3>3 DEF Iterates
  <2>4. ASSUME NEW i \in 0..m
        PROVE  g[i] = IF i = 0 THEN 0 ELSE g[i - 1] + cells[i] * Power(i - 1)
    <3>1. CASE i = 0
      BY <3>1, <2>2 DEF Iterates
    <3>2. CASE i \in 1..m
      BY <3>2, <2>3
    <3> QED BY <3>1, <3>2
  <2>5. IsSum(cells, m, g)
    BY <2>2, <2>4 DEF Iterates, IsSum
  <2> QED BY <2>5
<1>2. Len(cells) = m
  OBVIOUS
<1>3. Unsigned(cells) = (CHOOSE g : IsSum(cells, m, g))[m]
  BY <1>2 DEF Unsigned, IsSum
<1> QED BY <1>1, <1>3

LEMMA SumInRange ==
  ASSUME NEW m \in Nat, NEW cells \in [1..m -> Bytes], NEW g, IsSum(cells, m, g)
  PROVE  \A i \in 0..m : g[i] \in Nat /\ g[i] < Power(i)
<1> DEFINE S == {i \in 0..m : g[i] \in Nat /\ g[i] < Power(i)}
<1>1. 0 \in S
  BY SumNext, PowerNext
<1>2. ASSUME NEW i \in 0..m, i < m, i \in S PROVE i + 1 \in S
  <2> DEFINE c == cells[i + 1]
             p == Power(i)
  <2>1. i + 1 \in 1..m /\ i \in Nat /\ c \in Nat /\ c + 1 <= ByteValues
    BY <1>2, ByteFacts DEF Bytes
  <2>2. p \in Nat /\ p > 0 /\ Power(i + 1) = ByteValues * p
    BY <2>1, PowerPositive, PowerNext
  <2>3. g[i + 1] = g[i] + c * p
    BY <1>2, SumNext
  <2>4. g[i] \in Nat /\ g[i] < p
    BY <1>2
  <2>5. c * p \in Nat /\ (c + 1) * p <= ByteValues * p /\ (c + 1) * p = c * p + p
    <3> HIDE DEF c, p
    <3> QED BY <2>1, <2>2, ByteFacts
  <2>6. ByteValues * p \in Nat
    BY <2>2, ByteFacts, ProductFacts
  <2> HIDE DEF c, p
  <2>7. g[i + 1] \in Nat /\ g[i + 1] < Power(i + 1)
    BY <2>2, <2>3, <2>4, <2>5, <2>6
  <2> QED BY <2>1, <2>7
<1>3. \A i \in 0..m : i \in S
  <2> HIDE DEF S
  <2> QED BY <1>1, <1>2, Induction
<1> QED BY <1>3

(* What the cells from i on add is a multiple of the weight of cell i.     *)
LEMMA SumAbove ==
  ASSUME NEW m \in Nat, NEW cells \in [1..m -> Bytes], NEW g, IsSum(cells, m, g), NEW i \in 0..m
  PROVE  \E k \in Nat : g[m] = g[i] + Power(i) * k
<1> DEFINE S == {j \in 0..(m - i) : \E k, l \in Nat : /\ g[i + j] = g[i] + Power(i) * k
                                                     /\ Power(i + j) = Power(i) * l}
<1>0. m - i \in Nat /\ i + 0 = i /\ i + (m - i) = m
  OBVIOUS
<1>1. 0 \in S
  <2>1. g[i] \in Nat /\ Power(i) \in Nat
    BY SumInRange, PowerPositive
  <2>2. g[i + 0] = g[i] + Power(i) * 0 /\ Power(i + 0) = Power(i) * 1
    BY <1>0, <2>1
  <2> QED BY <1>0, <2>2
<1>2. ASSUME NEW j \in 0..(m - i), j < m - i, j \in S PROVE j + 1 \in S
  <2>1. PICK k \in Nat, l \in Nat : g[i + j] = g[i] + Power(i) * k /\ Power(i + j) = Power(i) * l
    BY <1>2
  <2> DEFINE c == cells[i + j + 1]
             p == Power(i)
  <2>2. /\ i + j \in 0..m /\ i + j < m /\ i + (j + 1) = (i + j) + 1 /\ j + 1 \in 0..(m - i)
        /\ c \in Nat /\ p \in Nat /\ g[i] \in Nat
    <3>1. i + j \in 0..m /\ i + j < m /\ i + j + 1 \in 1..m /\ i \in Nat
      BY <1>2
    <3>2. c \in Nat
      BY <3>1, ByteFacts DEF Bytes
    <3>3. p \in Nat
      BY <3>1, PowerPositive
    <3>4. g[i] \in Nat
      BY SumInRange
    <3>5. i + (j + 1) = (i + j) + 1 /\ j + 1 \in 0..(m - i)
      BY <1>2, <3>1
    <3> HIDE DEF c, p
    <3> QED BY <3>1, <3>2, <3>3, <3>4, <3>5
  <2>3. g[i + (j + 1)] = (g[i] + p * k) + c * (p * l)
    <3>1. g[(i + j) + 1] = g[i + j] + cells[(i + j) + 1] * Power(i + j)
      BY <2>2, SumNext
    <3>2. (i + j) + 1 = i + j + 1
      BY <2>2
    <3> QED BY <2>1, <2>2, <3>1, <3>2
  <2>4. Power(i + (j + 1)) = ByteValues * (p * l)
    BY <2>1, <2>2, PowerNext
  <2> HIDE DEF c, p
  <2>5. (g[i] + p * k) + c * (p * l) = g[i] + p * (k + c * l) /\ k + c * l \in Nat
    BY <2>2
  <2>6. ByteValues * (p * l) = p * (ByteValues * l) /\ ByteValues * l \in Nat
    BY <2>2, ByteFacts
  <2>7. /\ g[i + (j + 1)] = g[i] + Power(i) * (k + c * l)
        /\ Power(i + (j + 1)) = Power(i) * (ByteValues * l)
    BY <2>3, <2>4, <2>5, <2>6 DEF p
  <2> QED BY <2>2, <2>5, <2>6, <2>7
<1>3. \A j \in 0..(m - i) : j \in S
  <2> HIDE DEF S
  <2> QED BY <1>0, <1>1, <1>2, Induction
<1>4. m - i \in S
  BY <1>0, <1>3
<1> QED BY <1>0, <1>4

LEMMA CellOfSum ==
  ASSUME NEW m \in Nat, NEW cells \in [1..m -> Bytes], NEW g, IsSum(cells, m, g), NEW i \in 1..m
  PROVE  (g[m] \div Power(i - 1)) % ByteValues = cells[i]
<1> DEFINE p == Power(i - 1)
           c == cells[i]
<1>1. i \in 0..m /\ i - 1 \in 0..m /\ i - 1 \in Nat /\ (i - 1) + 1 = i
  OBVIOUS
<1>2. p \in Nat /\ p > 0 /\ Power(i) = ByteValues * p
  BY <1>1, PowerPositive, PowerNext
<1>3. c \in Nat /\ c < ByteValues
  BY ByteFacts DEF Bytes
<1> DEFINE low == g[i - 1]
<1>4. low \in Nat /\ low < p /\ g[i] = low + c * p
  BY <1>1, SumInRange, SumNext
<1>5. PICK k \in Nat : g[m] = g[i] + Power(i) * k
  BY <1>1, SumAbove
<1> HIDE DEF p, c, low
<1>6. g[m] = p * (c + ByteValues * k) + low /\ c + ByteValues * k \in Nat
  <2>1. g[m] = (low + c * p) + (ByteValues * p) * k
    BY <1>2, <1>4, <1>5
  <2>2. c + ByteValues * k \in Nat
    BY <1>3, ByteFacts
  <2>3. (low + c * p) + (ByteValues * p) * k = p * (c + ByteValues * k) + low
    BY <1>2, <1>3, <1>4, ByteFacts
  <2> QED BY <2>1, <2>2, <2>3
<1>7. g[m] \div p = c + ByteValues * k
  <2> DEFINE q == c + ByteValues * k
  <2>1. g[m] = p * q + low /\ q \in Int
    BY <1>6
  <2> HIDE DEF q
  <2>2. (p * q + low) \div p = q
    BY <1>2, <1>4, <2>1, DivisionIs
  <2> QED BY <2>1, <2>2 DEF q
<1>8. c + ByteValues * k = ByteValues * k + c
  BY <1>3, ByteFacts
<1>9. (ByteValues * k + c) % ByteValues = c
  BY <1>3, ByteFacts, DivisionIs
<1> QED BY <1>7, <1>8, <1>9 DEF p, c

LEMMA UnsignedRange ==
  ASSUME NEW m \in Nat, NEW cells \in [1..m -> Bytes]
  PROVE  Unsigned(cells) \in Nat /\ Unsigned(cells) < Power(m)
<1>1. PICK g : IsSum(cells, m, g) /\ Unsigned(cells) = g[m]
  BY SumExists
<1> QED BY <1>1, SumInRange

LEMMA SizeFacts ==
  ASSUME NEW kind \in Kinds
  PROVE  /\ Size[kind] \in Nat /\ Size[kind] > 0
         /\ Power(Size[kind]) \in Nat /\ Power(Size[kind]) > 0
         /\ Power(Size[kind]) = 2 * (Power(Size[kind]) \div 2)
         /\ Power(Size[kind]) \div 2 \in Nat
<1>1. Size[kind] \in Nat /\ Size[kind] > 0
  BY CodecAssumption
<1>2. Power(Size[kind]) \in Nat /\ Power(Size[kind]) > 0
  BY <1>1, PowerPositive
<1> DEFINE p == Power(Size[kind] - 1)
           h == ByteValues \div 2
<1>3. p \in Nat /\ Power(Size[kind]) = ByteValues * p
  <2>1. Size[kind] - 1 \in Nat /\ (Size[kind] - 1) + 1 = Size[kind]
    BY <1>1
  <2> QED BY <2>1, PowerPositive, PowerNext
<1>4. h \in Nat /\ ByteValues = 2 * h
  BY ByteFacts
<1> HIDE DEF p, h
<1>5. ByteValues * p = 2 * (h * p) + 0 /\ h * p \in Nat
  BY <1>3, <1>4
<1>6. Power(Size[kind]) \div 2 = h * p
  BY <1>3, <1>5, DivisionIs
<1> QED BY <1>1, <1>2, <1>3, <1>5, <1>6

(* The cells of a number that memory was read as.                          *)
LEMMA CellsOfRead ==
  ASSUME NEW kind \in Kinds, NEW cells \in [1..Size[kind] -> Bytes],
         NEW n, n \in {Unsigned(cells), Unsigned(cells) - Power(Size[kind])}
  PROVE  CellsOf(kind, n) = cells
<1> DEFINE m == Size[kind]
           u == Unsigned(cells)
           p == Power(m)
<1>1. m \in Nat /\ p \in Nat /\ p > 0
  BY SizeFacts
<1>2. u \in Nat /\ u < p
  BY <1>1, UnsignedRange
<1>3. n % p = u
  <2>1. (p * 0 + u) % p = u /\ (p * (-1) + u) % p = u
    <3> HIDE DEF p, u
    <3> QED BY <1>1, <1>2, DivisionIs
  <2>2. p * 0 + u = u /\ p * (-1) + u = u - p
    <3> HIDE DEF p, u
    <3> QED BY <1>1, <1>2
  <2> QED BY <2>1, <2>2
<1>4. PICK g : IsSum(cells, m, g) /\ u = g[m]
  BY <1>1, SumExists
<1>5. \A i \in 1..m : (u \div Power(i - 1)) % ByteValues = cells[i]
  BY <1>1, <1>4, CellOfSum
<1>6. CellsOf(kind, n) = [i \in 1..m |-> ((n % p) \div Power(i - 1)) % ByteValues]
  BY DEF CellsOf
<1>7. cells = [i \in 1..m |-> cells[i]]
  OBVIOUS
<1> HIDE DEF m, u, p
<1>8. CellsOf(kind, n) = [i \in 1..m |-> (u \div Power(i - 1)) % ByteValues]
  BY <1>3, <1>6
<1> QED BY <1>5, <1>7, <1>8

(* And the number that the cells written for it are read as.               *)
LEMMA UnsignedOfCells ==
  ASSUME NEW kind \in Kinds, NEW n \in Int
  PROVE  /\ CellsOf(kind, n) \in [1..Size[kind] -> Bytes]
         /\ Unsigned(CellsOf(kind, n)) = n % Power(Size[kind])
<1> DEFINE m == Size[kind]
           r == n % Power(m)
           cells == [i \in 1..m |-> (r \div Power(i - 1)) % ByteValues]
<1>0. CellsOf(kind, n) = cells
  BY DEF CellsOf
<1>1. m \in Nat /\ Power(m) \in Nat /\ Power(m) > 0
  BY SizeFacts
<1>2. r \in Nat /\ r < Power(m)
  <2> HIDE DEF m
  <2> QED BY <1>1, DivisionFacts
<1>3. \A i \in 0..m : Power(i) \in Nat /\ Power(i) > 0 /\ r \div Power(i) \in Nat
  <2> HIDE DEF r
  <2> QED BY <1>1, <1>2, PowerPositive, DivisionFacts
<1>4. cells \in [1..m -> Bytes]
  <2>1. ASSUME NEW i \in 1..m PROVE (r \div Power(i - 1)) % ByteValues \in Bytes
    <3>1. i - 1 \in 0..m
      BY <1>1
    <3>2. r \div Power(i - 1) \in Int
      BY <3>1, <1>3
    <3> HIDE DEF r
    <3>3. (r \div Power(i - 1)) % ByteValues \in Nat /\ (r \div Power(i - 1)) % ByteValues < ByteValues
      BY <3>2, ByteFacts, DivisionFacts
    <3> QED BY <3>3, ByteFacts DEF Bytes
  <2> QED BY <2>1
<1>5. PICK g : IsSum(cells, m, g) /\ Unsigned(cells) = g[m]
  <2> HIDE DEF cells, m
  <2> QED BY <1>1, <1>4, SumExists
<1>6. \A i \in 0..m : i < m => cells[i + 1] = (r \div Power(i)) % ByteValues
  <2>1. \A i \in 0..m : i < m => i + 1 \in 1..m /\ (i + 1) - 1 = i
    BY <1>1
  <2> HIDE DEF m, r
  <2> QED BY <2>1
<1> HIDE DEF cells, r, m
<1> DEFINE S == {i \in 0..m : g[i] = r % Power(i)}
<1>7. 0 \in S
  <2>1. r = 1 * r + 0 /\ r \in Int /\ Power(0) = 1
    BY <1>2, PowerNext
  <2>2. (1 * r + 0) % 1 = 0
    BY <1>2
  <2> QED BY <1>1, <1>5, <2>1, <2>2, SumNext
<1>8. ASSUME NEW i \in 0..m, i < m, i \in S PROVE i + 1 \in S
  <2> DEFINE p == Power(i)
             q == r \div p
             c == q % ByteValues
             d == q \div ByteValues
  <2>1. p \in Nat /\ p > 0 /\ q \in Nat
    BY <1>3
  <2>2. Power(i + 1) = ByteValues * p
    BY PowerNext, <1>1
  <2>3. g[i + 1] = (r % p) + c * p
    <3>1. g[i + 1] = g[i] + cells[i + 1] * Power(i)
      BY <1>1, <1>5, <1>8, SumNext
    <3>2. cells[i + 1] = c /\ g[i] = r % p
      BY <1>6, <1>8
    <3> HIDE DEF p, c
    <3>3. Power(i) = p
      BY DEF p
    <3> QED BY <3>1, <3>2, <3>3
  <2>4. r % p \in Nat /\ r % p < p /\ r = p * q + (r % p)
    <3> HIDE DEF p
    <3> QED BY <1>2, <2>1, DivisionFacts
  <2>5. c \in Nat /\ c < ByteValues /\ d \in Int /\ q = ByteValues * d + c
    <3> HIDE DEF q
    <3> QED BY <2>1, ByteFacts, DivisionFacts
  <2> DEFINE t == r % p
  <2> HIDE DEF t, c, d, q, p
  <2>6. r = (ByteValues * p) * d + (t + c * p)
    <3>1. r = p * q + t
      BY <2>4 DEF t
    <3>2. t \in Nat
      BY <2>4 DEF t
    <3>3. r = p * (ByteValues * d + c) + t
      BY <3>1, <2>5
    <3>4. p * (ByteValues * d + c) + t = (ByteValues * p) * d + (t + c * p)
      BY <3>2, <2>1, <2>5, ByteFacts
    <3> QED BY <3>3, <3>4
  <2>7. t + c * p \in Nat /\ t + c * p < ByteValues * p
    <3>1. t \in Nat /\ t < p
      BY <2>4 DEF t
    <3>2. c * p \in Nat /\ (c + 1) * p = c * p + p /\ (c + 1) * p <= ByteValues * p
      BY <2>1, <2>5, ByteFacts
    <3> QED BY <3>1, <3>2, <2>1, ByteFacts
  <2>8. ByteValues * p \in Nat /\ ByteValues * p > 0
    BY <2>1, ByteFacts
  <2>9. r % (ByteValues * p) = t + c * p
    BY <2>5, <2>6, <2>7, <2>8, DivisionIs
  <2>10. i + 1 \in 0..m
    BY <1>1, <1>8
  <2> QED BY <2>2, <2>3, <2>9, <2>10 DEF t
<1>9. \A i \in 0..m : i \in S
  <2> HIDE DEF S
  <2> QED BY <1>1, <1>7, <1>8, Induction
<1>10. g[m] = r % Power(m)
  BY <1>1, <1>9
<1>11. r % Power(m) = r
  <2>1. r = Power(m) * 0 + r
    BY <1>1, <1>2
  <2>2. (Power(m) * 0 + r) % Power(m) = r
    BY <1>1, <1>2, DivisionIs
  <2> QED BY <2>1, <2>2
<1> QED BY <1>0, <1>4, <1>5, <1>10, <1>11 DEF m, r

-----------------------------------------------------------------------------
(* Scalars: what is read is written back, and what is written reads back.  *)

LEMMA ResultFacts ==
  \A why, what : Result(why, what).error = why /\ Result(why, what).output = what
  BY DEF Result

LEMMA TextFacts ==
  /\ \A n : <<"number", n>>[1] = "number" /\ <<"number", n>>[2] = n
  /\ \A n : <<"number and more", n>>[1] = "number and more" /\ <<"number and more", n>>[2] = n
  /\ \A k, c : /\ <<"real", k, c>>[1] = "real"
               /\ <<"real", k, c>>[2] = k /\ <<"real", k, c>>[3] = c
  /\ \A x \in {"nonfinite", "true", "false", "empty", "other"} : <<x>>[1] = x
  OBVIOUS

LEMMA WideFacts ==
  ASSUME NEW kind \in Kinds
  PROVE  WideSize \in Nat /\ Size[kind] <= WideSize
<1> DEFINE sizes == {Size[k] : k \in Kinds}
<1>1. \E w \in sizes : \A k \in Kinds : Size[k] <= w
  BY CodecAssumption
<1>2. WideSize \in sizes /\ \A k \in Kinds : Size[k] <= WideSize
  <2>1. WideSize = CHOOSE w \in sizes : \A k \in Kinds : Size[k] <= w
    BY DEF WideSize
  <2> HIDE DEF sizes
  <2> QED BY <1>1, <2>1
<1>3. sizes \subseteq Nat
  BY CodecAssumption
<1> QED BY <1>2, <1>3

LEMMA HalfGrows ==
  ASSUME NEW x \in Nat, NEW y \in Nat, x <= y
  PROVE  x \div 2 \in Nat /\ y \div 2 \in Nat /\ x \div 2 <= y \div 2
  OBVIOUS

LEMMA InWide ==
  ASSUME NEW kind \in Kinds, NEW n \in Int, InRange(kind, Size[kind], n)
  PROVE  InRange(kind, WideSize, n)
<1> DEFINE p == Power(Size[kind])
           w == Power(WideSize)
<1>1. p \in Nat /\ w \in Nat /\ p <= w
  BY SizeFacts, WideFacts, PowerPositive, PowerGrows
<1>2. p \div 2 \in Nat /\ w \div 2 \in Nat /\ p \div 2 <= w \div 2
  <2> HIDE DEF p, w
  <2> QED BY <1>1, HalfGrows
<1> QED
  BY <1>1, <1>2 DEF InRange, Least, Greatest

LEMMA FloatFacts ==
  ASSUME NEW kind \in Floating
  PROVE  /\ kind \in Kinds /\ Sort[kind] = "FLOATING_POINT"
         /\ Reals[kind] \subseteq [1..Size[kind] -> Bytes]
         /\ <<"nonfinite">> \notin DOMAIN Nearest[kind]
         /\ \A cells : <<"real", kind, cells>> \notin DOMAIN Nearest[kind]
         /\ \A t \in DOMAIN Nearest[kind] : Nearest[kind][t] \in Reals[kind]
<1>1. \A t \in DOMAIN Nearest[kind] :
        /\ Nearest[kind][t] \in Reals[kind]
        /\ t[1] = "number" \/ (t[1] = "real" /\ t[2] # kind)
  BY CodecAssumption
<1>2. <<"nonfinite">>[1] = "nonfinite"
  OBVIOUS
<1>3. \A cells : <<"real", kind, cells>>[1] = "real" /\ <<"real", kind, cells>>[2] = kind
  OBVIOUS
<1> QED
  BY <1>1, <1>2, <1>3, CodecAssumption DEF Floating

LEMMA IntegerRead ==
  ASSUME NEW kind \in Kinds, Sort[kind] \in {"SIGNED_INTEGER", "UNSIGNED_INTEGER"},
         NEW cells \in [1..Size[kind] -> Bytes]
  PROVE  \E n \in Int :
           /\ ReadScalar(kind, cells) = Result("ok", <<"number", n>>)
           /\ n \in {Unsigned(cells), Unsigned(cells) - Power(Size[kind])}
           /\ InRange(kind, Size[kind], n)
           /\ Sort[kind] = "SIGNED_INTEGER" \/ n >= 0
<1> DEFINE u == Unsigned(cells)
           p == Power(Size[kind])
           n == IF u > Greatest(kind, Size[kind]) THEN u - p ELSE u
<1>1. u \in Nat /\ p \in Nat /\ u < p /\ p = 2 * (p \div 2) /\ p \div 2 \in Nat
  BY SizeFacts, UnsignedRange
<1>2. ReadScalar(kind, cells) = Result("ok", <<"number", n>>)
  BY DEF ReadScalar
<1> HIDE DEF u, p
<1>3. Greatest(kind, Size[kind]) \in Int
  BY <1>1 DEF Greatest, p
<1>4. n \in Int
  BY <1>1, <1>3
<1>5. InRange(kind, Size[kind], n) /\ (Sort[kind] = "SIGNED_INTEGER" \/ n >= 0)
  <2> DEFINE h == p \div 2
  <2>1. /\ Greatest(kind, Size[kind]) = IF Sort[kind] = "SIGNED_INTEGER" THEN h - 1 ELSE p - 1
        /\ Least(kind, Size[kind]) = IF Sort[kind] = "SIGNED_INTEGER" THEN -h ELSE 0
    BY DEF Greatest, Least, p
  <2> HIDE DEF h
  <2>2. h \in Nat /\ p = 2 * h
    BY <1>1 DEF h
  <2>3. CASE Sort[kind] = "SIGNED_INTEGER"
    BY <1>1, <2>1, <2>2, <2>3 DEF InRange
  <2>4. CASE Sort[kind] = "UNSIGNED_INTEGER"
    BY <1>1, <2>1, <2>2, <2>4 DEF InRange
  <2> QED BY <2>3, <2>4
<1>6. n \in {u, u - p}
  OBVIOUS
<1> HIDE DEF n
<1> QED BY <1>2, <1>4, <1>5, <1>6 DEF u, p

LEMMA ReadThenWrite ==
  ASSUME NEW kind \in Kinds, NEW cells \in [1..Size[kind] -> Bytes],
         ReadScalar(kind, cells).error = "ok"
  PROVE  LET text == ReadScalar(kind, cells).output
         IN IF text = <<"nonfinite">> THEN WriteScalar(kind, text).error = "ERANGE"
            ELSE WriteScalar(kind, text) = Result("ok", cells)
<1> DEFINE text == ReadScalar(kind, cells).output
<1>1. CASE Sort[kind] = "BOOLEAN"
  <2> DEFINE u == Unsigned(cells)
  <2>1. ReadScalar(kind, cells) = IF u > 1 THEN Result("EPROTO", Empty)
                                  ELSE Result("ok", IF u = 1 THEN <<"true">> ELSE <<"false">>)
    BY <1>1 DEF ReadScalar
  <2>2. u \in Nat
    BY SizeFacts, UnsignedRange
  <2>3. u \in {0, 1} /\ text = IF u = 1 THEN <<"true">> ELSE <<"false">>
    <3> HIDE DEF u
    <3> DEFINE shown == Result("ok", IF u = 1 THEN <<"true">> ELSE <<"false">>)
               r == ReadScalar(kind, cells)
    <3>1. u <= 1
      <4>1. CASE u > 1
        <5>1. r = Result("EPROTO", Empty)
          BY <2>1, <4>1
        <5>2. r.error = "EPROTO"
          BY <5>1, ResultFacts
        <5> QED BY <5>2
      <4>2. CASE ~(u > 1)
        BY <4>2, <2>2
      <4> QED BY <4>1, <4>2
    <3>2. u = 0 \/ u = 1
      BY <2>2, <3>1
    <3>3. r = shown
      BY <2>1, <2>2, <3>1
    <3>4. r.output = IF u = 1 THEN <<"true">> ELSE <<"false">>
      BY <3>3, ResultFacts
    <3> QED BY <3>2, <3>4
  <2>4. <<"true">> # <<"false">> /\ <<"true">> # <<"nonfinite">> /\ <<"false">> # <<"nonfinite">>
    OBVIOUS
  <2>5. WriteScalar(kind, text) = Result("ok", CellsOf(kind, u))
    BY <1>1, <2>3, <2>4 DEF WriteScalar
  <2>6. CellsOf(kind, u) = cells
    BY CellsOfRead
  <2> QED BY <2>3, <2>4, <2>5, <2>6
<1>2. CASE Sort[kind] = "FLOATING_POINT"
  <2>1. kind \in Floating
    BY <1>2 DEF Floating
  <2>2. text = IF cells \in Reals[kind] THEN <<"real", kind, cells>> ELSE <<"nonfinite">>
    BY <1>2 DEF ReadScalar, Result
  <2>3. CASE cells \in Reals[kind]
    <3>1. text = <<"real", kind, cells>>
      BY <2>2, <2>3
    <3> HIDE DEF text
    <3>2. text[1] = "real" /\ text[2] = kind /\ text[3] = cells /\ text # <<"nonfinite">>
      BY <3>1, TextFacts
    <3>3. WriteScalar(kind, text) = Result("ok", cells)
      BY <1>2, <3>2 DEF WriteScalar
    <3> QED BY <3>2, <3>3 DEF text
  <2>4. CASE cells \notin Reals[kind]
    <3>1. text = <<"nonfinite">>
      BY <2>2, <2>4
    <3>2. text[1] # "real" /\ text # Empty /\ text \notin DOMAIN Nearest[kind]
      <4> HIDE DEF text
      <4>1. text[1] = "nonfinite" /\ Empty[1] = "empty"
        BY <3>1, TextFacts DEF Empty
      <4> QED BY <2>1, <3>1, <4>1, FloatFacts
    <3> HIDE DEF text
    <3>3. WriteScalar(kind, text).error = "ERANGE"
      BY <1>2, <3>2 DEF WriteScalar, Result
    <3> QED BY <3>1, <3>3 DEF text
  <2> QED BY <2>3, <2>4
<1>3. CASE Sort[kind] \in {"SIGNED_INTEGER", "UNSIGNED_INTEGER"}
  <2>1. PICK n \in Int :
          /\ ReadScalar(kind, cells) = Result("ok", <<"number", n>>)
          /\ n \in {Unsigned(cells), Unsigned(cells) - Power(Size[kind])}
          /\ InRange(kind, Size[kind], n)
          /\ Sort[kind] = "SIGNED_INTEGER" \/ n >= 0
    BY <1>3, IntegerRead
  <2>2. text = <<"number", n>>
    BY <2>1, ResultFacts
  <2> HIDE DEF text
  <2>3. text[1] = "number" /\ text[2] = n /\ text # <<"nonfinite">>
    BY <2>2, TextFacts
  <2>4. HasNumber(kind, text)
    BY <2>1, <2>3 DEF HasNumber
  <2>5. InRange(kind, WideSize, text[2]) /\ InRange(kind, Size[kind], text[2])
    BY <2>1, <2>3, InWide
  <2>6. CellsOf(kind, text[2]) = cells
    BY <2>1, <2>3, CellsOfRead
  <2>7. WriteScalar(kind, text) = Result("ok", cells)
    BY <1>3, <2>3, <2>4, <2>5, <2>6 DEF WriteScalar, WriteInteger
  <2> QED BY <2>3, <2>7 DEF text
<1>4. Sort[kind] \in {"BOOLEAN", "SIGNED_INTEGER", "UNSIGNED_INTEGER", "FLOATING_POINT"}
  BY CodecAssumption
<1> QED BY <1>1, <1>2, <1>3, <1>4

RealTexts == UNION {{<<"real", k, cells>> : cells \in Reals[k]} : k \in Floating}
Text ==
  {<<"number", n>> : n \in Int} \cup {<<"number and more", n>> : n \in Int} \cup RealTexts
  \cup {<<"nonfinite">>, <<"true">>, <<"false">>, <<"empty">>, <<"other">>}

LEMMA TextCases ==
  ASSUME NEW t \in Text
  PROVE  \/ t[1] \in {"number", "number and more"} /\ t[2] \in Int /\ t = <<t[1], t[2]>>
         \/ /\ t[1] = "real" /\ t[2] \in Floating /\ t[3] \in Reals[t[2]]
            /\ t = <<"real", t[2], t[3]>>
         \/ t[1] \in {"nonfinite", "true", "false", "empty", "other"} /\ t = <<t[1]>>
<1>1. CASE \E n \in Int : t = <<"number", n>> \/ t = <<"number and more", n>>
  <2>1. PICK n \in Int : t = <<"number", n>> \/ t = <<"number and more", n>>
    BY <1>1
  <2>2. CASE t = <<"number", n>>
    <3>1. t[1] = "number" /\ t[2] = n
      BY <2>2, TextFacts
    <3>2. t[1] \in {"number", "number and more"}
      BY <3>1
    <3> QED BY <2>2, <3>1, <3>2
  <2>3. CASE t = <<"number and more", n>>
    <3>1. t[1] = "number and more" /\ t[2] = n
      BY <2>3, TextFacts
    <3>2. t[1] \in {"number", "number and more"}
      BY <3>1
    <3> QED BY <2>3, <3>1, <3>2
  <2> QED BY <2>1, <2>2, <2>3
<1>2. CASE t \in RealTexts
  <2>1. PICK k \in Floating : \E cells \in Reals[k] : t = <<"real", k, cells>>
    BY <1>2 DEF RealTexts
  <2>2. PICK cells \in Reals[k] : t = <<"real", k, cells>>
    BY <2>1
  <2> QED BY <2>2, TextFacts
<1>3. CASE t \in {<<"nonfinite">>, <<"true">>, <<"false">>, <<"empty">>, <<"other">>}
  <2>1. PICK x \in {"nonfinite", "true", "false", "empty", "other"} : t = <<x>>
    BY <1>3
  <2> QED BY <2>1, TextFacts
<1> QED BY <1>1, <1>2, <1>3 DEF Text

LEMMA IntegerReadsBack ==
  ASSUME NEW kind \in Kinds, Sort[kind] \in {"SIGNED_INTEGER", "UNSIGNED_INTEGER"},
         NEW n \in Int, InRange(kind, Size[kind], n)
  PROVE  /\ CellsOf(kind, n) \in [1..Size[kind] -> Bytes]
         /\ ReadScalar(kind, CellsOf(kind, n)) = Result("ok", <<"number", n>>)
<1> DEFINE cells == CellsOf(kind, n)
           u == Unsigned(cells)
           p == Power(Size[kind])
           h == p \div 2
<1>1. cells \in [1..Size[kind] -> Bytes] /\ u = n % p
  BY UnsignedOfCells
<1>2. p \in Nat /\ p > 0 /\ p = 2 * h /\ h \in Nat
  BY SizeFacts
<1>3. /\ Greatest(kind, Size[kind]) = IF Sort[kind] = "SIGNED_INTEGER" THEN h - 1 ELSE p - 1
      /\ Least(kind, Size[kind]) = IF Sort[kind] = "SIGNED_INTEGER" THEN -h ELSE 0
  BY DEF Greatest, Least
<1>4. ReadScalar(kind, cells) =
        Result("ok", <<"number", IF u > Greatest(kind, Size[kind]) THEN u - p ELSE u>>)
  BY DEF ReadScalar
<1> HIDE DEF cells, u, p, h
<1>5. CASE n >= 0
  <2>1. n <= p - 1 /\ n <= Greatest(kind, Size[kind])
    BY <1>2, <1>3 DEF InRange
  <2>2. u = n
    <3>1. n \in Nat /\ n < p /\ p * 0 + n = n
      BY <1>2, <1>5, <2>1
    <3>2. (p * 0 + n) % p = n
      BY <1>2, <3>1, DivisionIs
    <3> QED BY <1>1, <3>1, <3>2
  <2>3. (IF u > Greatest(kind, Size[kind]) THEN u - p ELSE u) = n
    BY <1>2, <1>3, <2>1, <2>2
  <2> QED BY <1>1, <1>4, <2>3 DEF cells
<1>6. CASE n < 0
  <2>1. /\ n >= -h /\ Greatest(kind, Size[kind]) = h - 1
    BY <1>2, <1>3, <1>6 DEF InRange
  <2>2. u = n + p
    <3>1. n + p \in Nat /\ n + p < p /\ p * (-1) + (n + p) = n
      BY <1>2, <1>6, <2>1
    <3>2. (p * (-1) + (n + p)) % p = n + p
      BY <1>2, <3>1, DivisionIs
    <3> QED BY <1>1, <3>1, <3>2
  <2>3. (IF u > Greatest(kind, Size[kind]) THEN u - p ELSE u) = n
    BY <1>2, <2>1, <2>2
  <2> QED BY <1>1, <1>4, <2>3 DEF cells
<1> QED BY <1>5, <1>6

LEMMA WriteThenRead ==
  ASSUME NEW kind \in Kinds, NEW text \in Text, WriteScalar(kind, text).error = "ok"
  PROVE  LET cells == WriteScalar(kind, text).output
         IN /\ cells \in [1..Size[kind] -> Bytes]
            /\ ReadScalar(kind, cells) = Result("ok", Meaning(kind, text))
<1> DEFINE cells == WriteScalar(kind, text).output
           goal == /\ cells \in [1..Size[kind] -> Bytes]
                   /\ ReadScalar(kind, cells) = Result("ok", Meaning(kind, text))
<1>1. CASE Sort[kind] = "BOOLEAN"
  <2>1. text \in {<<"true">>, <<"false">>}
    BY <1>1, ResultFacts DEF WriteScalar
  <2> DEFINE n == IF text = <<"true">> THEN 1 ELSE 0
  <2>2. WriteScalar(kind, text) = Result("ok", CellsOf(kind, n))
    BY <1>1, <2>1 DEF WriteScalar
  <2>3. cells = CellsOf(kind, n)
    <3> HIDE DEF n
    <3> QED BY <2>2, ResultFacts
  <2>4. n \in {0, 1}
    OBVIOUS
  <2>5. cells \in [1..Size[kind] -> Bytes] /\ Unsigned(cells) = n % Power(Size[kind])
    <3> HIDE DEF n, cells
    <3> QED BY <2>3, <2>4, UnsignedOfCells
  <2>6. Power(Size[kind]) \in Nat /\ Power(Size[kind]) >= 2
    <3>1. Power(1) = ByteValues
      <4>1. Power(0 + 1) = ByteValues * Power(0) /\ 0 + 1 = 1
        BY PowerNext
      <4> QED BY <4>1, PowerNext, ByteFacts
    <3>2. Size[kind] \in Nat /\ 1 <= Size[kind]
      BY SizeFacts
    <3>3. Power(1) <= Power(Size[kind])
      BY <3>2, PowerGrows
    <3> QED BY <3>1, <3>3, ByteFacts, SizeFacts
  <2>7. n % Power(Size[kind]) = n
    <3> DEFINE p == Power(Size[kind])
    <3> HIDE DEF p, n
    <3>1. n \in Nat /\ n < p /\ p * 0 + n = n /\ p \in Nat /\ p > 0
      BY <2>4, <2>6 DEF p
    <3>2. (p * 0 + n) % p = n
      BY <3>1, DivisionIs
    <3> QED BY <3>1, <3>2 DEF p
  <2>8. Unsigned(cells) = n
    <3> HIDE DEF n, cells
    <3> QED BY <2>5, <2>7
  <2>9. ReadScalar(kind, cells) = Result("ok", IF n = 1 THEN <<"true">> ELSE <<"false">>)
    <3> HIDE DEF n, cells
    <3>1. ~(n > 1)
      BY <2>4
    <3>2. ReadScalar(kind, cells) =
            IF Unsigned(cells) > 1 THEN Result("EPROTO", Empty)
            ELSE Result("ok", IF Unsigned(cells) = 1 THEN <<"true">> ELSE <<"false">>)
      BY <1>1 DEF ReadScalar
    <3> QED BY <2>8, <3>1, <3>2
  <2>10. (IF n = 1 THEN <<"true">> ELSE <<"false">>) = text
    BY <2>1
  <2>11. Meaning(kind, text) = text
    BY <1>1 DEF Meaning, Floating
  <2> HIDE DEF n
  <2> QED BY <2>5, <2>9, <2>10, <2>11
<1>2. CASE Sort[kind] = "FLOATING_POINT"
  <2>0. kind \in Floating
    BY <1>2 DEF Floating
  <2> USE <2>0
  <2>1. CASE text[1] = "real" /\ text[2] = kind
    <3>1. text = <<"real", kind, text[3]>> /\ text[3] \in Reals[kind]
      BY <2>1, TextCases
    <3>2. cells = text[3]
      BY <1>2, <2>1, ResultFacts DEF WriteScalar
    <3>3. Meaning(kind, text) = text
      <4>1. <<"real", kind, text[3]>> \notin DOMAIN Nearest[kind]
        BY FloatFacts
      <4> QED BY <3>1, <4>1 DEF Meaning
    <3>4. ReadScalar(kind, cells) = Result("ok", <<"real", kind, text[3]>>)
      BY <1>2, <3>1, <3>2 DEF ReadScalar
    <3> QED BY <3>1, <3>2, <3>3, <3>4, FloatFacts
  <2>2. CASE ~(text[1] = "real" /\ text[2] = kind) /\ text \in DOMAIN Nearest[kind]
    <3>1. cells = Nearest[kind][text]
      BY <1>2, <2>2, ResultFacts DEF WriteScalar
    <3>2. cells \in Reals[kind] /\ cells \in [1..Size[kind] -> Bytes]
      <4> HIDE DEF cells
      <4> QED BY <2>2, <3>1, FloatFacts
    <3>3. Meaning(kind, text) = <<"real", kind, cells>>
      BY <2>2, <3>1 DEF Meaning
    <3>4. ReadScalar(kind, cells) = Result("ok", <<"real", kind, cells>>)
      BY <1>2, <3>2 DEF ReadScalar
    <3> QED BY <3>2, <3>3, <3>4
  <2>3. CASE ~(text[1] = "real" /\ text[2] = kind) /\ text \notin DOMAIN Nearest[kind]
    <3>1. WriteScalar(kind, text).error = IF text = Empty THEN "EINVAL" ELSE "ERANGE"
      BY <1>2, <2>3, ResultFacts DEF WriteScalar
    <3> QED BY <3>1
  <2> QED BY <2>1, <2>2, <2>3
<1>3. CASE Sort[kind] \in {"SIGNED_INTEGER", "UNSIGNED_INTEGER"}
  <2>1. WriteScalar(kind, text) = WriteInteger(kind, text)
    BY <1>3 DEF WriteScalar
  <2>2. /\ HasNumber(kind, text) /\ text[1] = "number" /\ InRange(kind, Size[kind], text[2])
        /\ cells = CellsOf(kind, text[2])
    BY <2>1, ResultFacts DEF WriteInteger
  <2>3. text = <<"number", text[2]>> /\ text[2] \in Int
    BY <2>2, TextCases
  <2>4. Meaning(kind, text) = text
    BY <1>3 DEF Meaning, Floating
  <2> HIDE DEF cells
  <2> QED BY <1>3, <2>2, <2>3, <2>4, IntegerReadsBack DEF cells
<1>4. Sort[kind] \in {"BOOLEAN", "SIGNED_INTEGER", "UNSIGNED_INTEGER", "FLOATING_POINT"}
  BY CodecAssumption
<1> QED BY <1>1, <1>2, <1>3, <1>4

-----------------------------------------------------------------------------
(* The errors of a sequence of steps.                                      *)

LEMMA FirstErrorIs ==
  ASSUME NEW n \in Nat, NEW errors, DOMAIN errors = 1..n
  PROVE  /\ (\A i \in 1..n : errors[i] = "ok") => FirstError(errors) = "ok"
         /\ (\E i \in 1..n : errors[i] # "ok") =>
              FirstError(errors) # "ok" /\ \E i \in 1..n : FirstError(errors) = errors[i]
<1> DEFINE bad == {i \in DOMAIN errors : errors[i] # "ok"}
<1>1. FirstError(errors) = IF bad = {} THEN "ok" ELSE errors[CHOOSE i \in bad : \A j \in bad : i <= j]
  BY DEF FirstError
<1>2. CASE \A i \in 1..n : errors[i] = "ok"
  <2>1. bad = {}
    BY <1>2
  <2> QED BY <1>1, <1>2, <2>1
<1>3. CASE \E i \in 1..n : errors[i] # "ok"
  <2>1. bad \subseteq Nat /\ bad # {} /\ \A i \in bad : i \in 1..n /\ errors[i] # "ok"
    BY <1>3
  <2> HIDE DEF bad
  <2>2. \E i \in bad : \A j \in bad : i <= j
    BY <2>1, LeastOfSet
  <2> DEFINE first == CHOOSE i \in bad : \A j \in bad : i <= j
  <2>3. first \in bad
    BY <2>2
  <2>4. FirstError(errors) = errors[first]
    BY <1>1, <2>1
  <2> HIDE DEF first
  <2> QED BY <1>3, <2>1, <2>3, <2>4
<1> QED BY <1>2, <1>3

(* No error in it is the same as no error of it.                           *)
LEMMA NoErrors ==
  ASSUME NEW n \in Nat, NEW errors, DOMAIN errors = 1..n
  PROVE  FirstError(errors) = "ok" <=> \A i \in 1..n : errors[i] = "ok"
  BY FirstErrorIs

-----------------------------------------------------------------------------
(* Snapshots and descriptors.                                              *)

(* All strings; the provers have to be told of those the code spells out.  *)
Names == STRING \cup {"none", "request", "response", "result", "a", "b", "value", "sequence"}

DescriptorField == [name : Names, kind : Kinds, offset : Nat, count : Nat \ {0}]
Field    == [name : Names, kind : Kinds, value : Text, array : Seq(Text)]
Snapshot == [type : Names, fields : Seq(Field)]

(* What the caller hands over is a snapshot, whatever it says.             *)
Caller == Typed \subseteq Text /\ \A s \in Snapshot : Distorted(s) \subseteq Snapshot

Cells(size) == [1..size -> Bytes]

(* The memory of one element of a field.                                   *)
Element(f, cells, j) == [i \in 1..Size[f.kind] |-> cells[First(f, j) + i]]

(* One text for each element of a field.                                   *)
Column(f) == [1..f.count -> Text]

LEMMA ScalarText ==
  ASSUME NEW kind \in Kinds, NEW cells \in [1..Size[kind] -> Bytes]
  PROVE  ReadScalar(kind, cells).output \in Text
<1>1. CASE Sort[kind] = "BOOLEAN"
  BY <1>1, ResultFacts DEF ReadScalar, Text, Empty
<1>2. CASE Sort[kind] = "FLOATING_POINT"
  <2>1. CASE cells \in Reals[kind]
    <3>1. ReadScalar(kind, cells) = Result("ok", <<"real", kind, cells>>)
      BY <1>2, <2>1 DEF ReadScalar
    <3>2. kind \in Floating
      BY <1>2 DEF Floating
    <3>3. <<"real", kind, cells>> \in RealTexts
      BY <2>1, <3>2 DEF RealTexts
    <3>4. <<"real", kind, cells>> \in Text
      BY <3>3 DEF Text
    <3> QED BY <3>1, <3>4, ResultFacts
  <2>2. CASE cells \notin Reals[kind]
    BY <1>2, <2>2, ResultFacts DEF ReadScalar, Text
  <2> QED BY <2>1, <2>2
<1>3. CASE Sort[kind] \in {"SIGNED_INTEGER", "UNSIGNED_INTEGER"}
  <2>1. PICK n \in Int : ReadScalar(kind, cells) = Result("ok", <<"number", n>>)
    BY <1>3, IntegerRead
  <2>2. <<"number", n>> \in Text
    BY DEF Text
  <2> QED BY <2>1, <2>2, ResultFacts
<1>4. Sort[kind] \in {"BOOLEAN", "SIGNED_INTEGER", "UNSIGNED_INTEGER", "FLOATING_POINT"}
  BY CodecAssumption
<1> QED BY <1>1, <1>2, <1>3, <1>4

(* A field of a snapshot keeps its texts.                                  *)
LEMMA ShownTexts ==
  ASSUME NEW f \in DescriptorField, NEW column \in Column(f)
  PROVE  /\ Shown(f, column) \in Field
         /\ Shown(f, column).name = f.name /\ Shown(f, column).kind = f.kind
         /\ Texts(f, Shown(f, column)) = column
         /\ IF f.count = 1 THEN Shown(f, column).array = <<>>
            ELSE Len(Shown(f, column).array) = f.count /\ Shown(f, column).value = Empty
<1>0. f.count \in Nat \ {0} /\ f.name \in Names /\ f.kind \in Kinds
  BY DEF DescriptorField
<1>1. column \in [1..f.count -> Text]
  BY DEF Column
<1>2. Empty \in Text
  BY DEF Empty, Text
<1> HIDE DEF Text, Empty
<1>3. CASE f.count = 1
  <2>1. column[1] \in Text /\ column = <<column[1]>>
    BY <1>1, <1>3
  <2> QED BY <1>0, <1>3, <2>1 DEF Shown, Texts, Field
<1>4. CASE f.count # 1
  <2>1. column \in Seq(Text) /\ Len(column) = f.count
    BY <1>0, <1>1
  <2> QED BY <1>0, <1>2, <1>4, <2>1 DEF Shown, Texts, Field
<1> QED BY <1>3, <1>4

(* The elements of a field lie one behind the other in its extent.         *)
LEMMA Extents ==
  ASSUME NEW f \in DescriptorField, NEW j \in 1..f.count, NEW i \in 1..Size[f.kind]
  PROVE  /\ First(f, j) \in Nat
         /\ f.offset + 1 <= First(f, j) + i
         /\ First(f, j) + i <= f.offset + Size[f.kind] * f.count
         /\ \A k \in 1..f.count : First(f, j) + i - First(f, k) \in 1..Size[f.kind] => k = j
<1> DEFINE z == Size[f.kind]
           x == f.offset
           c == f.count
<1>1. z \in Nat /\ z > 0 /\ x \in Nat /\ c \in Nat /\ j \in Nat /\ j >= 1 /\ j <= c
      /\ i \in Nat /\ i >= 1 /\ i <= z
  BY SizeFacts DEF DescriptorField
<1>2. \A k : First(f, k) = x + (k - 1) * z
  BY DEF First
<1>3. z * c = Size[f.kind] * f.count /\ (1..f.count) = 1..c /\ (1..Size[f.kind]) = 1..z /\ f.offset = x
  OBVIOUS
<1> HIDE DEF z, x, c
<1>4. (j - 1) * z \in Nat /\ (j - 1) * z + z = j * z /\ j * z <= c * z /\ c * z = z * c
  BY <1>1
<1>5. ASSUME NEW k \in 1..c, (x + (j - 1) * z) + i - (x + (k - 1) * z) \in 1..z PROVE k = j
  <2>0. k \in Nat /\ k >= 1 /\ (k - 1) * z \in Nat /\ (k - 1) * z + z = k * z
    BY <1>1
  <2>1. CASE k < j
    <3>1. k * z <= (j - 1) * z
      BY <1>1, <2>0, <2>1
    <3> QED BY <1>1, <1>4, <1>5, <2>0, <3>1
  <2>2. CASE j < k
    <3>1. j * z <= (k - 1) * z
      BY <1>1, <2>0, <2>2
    <3> QED BY <1>1, <1>4, <1>5, <2>0, <3>1
  <2> QED BY <1>1, <2>0, <2>1, <2>2
<1>6. First(f, j) = x + (j - 1) * z /\ \A k \in 1..c : First(f, k) = x + (k - 1) * z
  BY <1>2
<1>7. \A k \in 1..c : First(f, j) + i - First(f, k) \in 1..z => k = j
  BY <1>5, <1>6
<1> DEFINE at == First(f, j)
<1>8. at \in Nat /\ x + 1 <= at + i /\ at + i <= x + z * c
  <2>1. at = x + (j - 1) * z
    BY <1>6
  <2> HIDE DEF at
  <2> QED BY <1>1, <1>4, <2>1
<1>9. \A k \in 1..f.count : First(f, j) + i - First(f, k) \in 1..Size[f.kind] => k = j
  BY <1>3, <1>7
<1> QED BY <1>3, <1>8, <1>9

LEMMA InBounds ==
  ASSUME NEW f \in DescriptorField, NEW m \in Nat, Bounds(f, m),
         NEW cells \in Cells(m), NEW j \in 1..f.count
  PROVE  /\ Element(f, cells, j) \in [1..Size[f.kind] -> Bytes]
         /\ \A i \in 1..Size[f.kind] : First(f, j) + i \in 1..m
<1>1. f.offset \in Nat /\ Size[f.kind] * f.count <= m - f.offset
  BY DEF Bounds, DescriptorField
<1>2. Size[f.kind] * f.count \in Nat
  <2>1. Size[f.kind] \in Nat /\ f.count \in Nat
    BY SizeFacts DEF DescriptorField
  <2> QED BY <2>1, ProductFacts
<1>3. ASSUME NEW i \in 1..Size[f.kind] PROVE First(f, j) + i \in 1..m
  <2> DEFINE e == Size[f.kind] * f.count
             at == First(f, j)
  <2>1. at \in Nat /\ at + i <= f.offset + e /\ i \in Nat /\ i >= 1
    BY Extents, SizeFacts DEF DescriptorField
  <2>2. e \in Nat /\ e <= m - f.offset
    BY <1>1, <1>2
  <2> HIDE DEF e, at
  <2>3. at + i \in 1..m
    BY <1>1, <2>1, <2>2
  <2> QED BY <2>3 DEF at
<1>4. \A i \in 1..Size[f.kind] : cells[First(f, j) + i] \in Bytes
  BY <1>3 DEF Cells
<1> QED BY <1>3, <1>4 DEF Element

(* The texts memory is shown as, one for each element of a field.          *)
ColumnOf(f, cells) == [j \in 1..f.count |-> ReadScalar(f.kind, Element(f, cells, j)).output]

LEMMA FieldRead ==
  ASSUME NEW f \in DescriptorField, NEW m \in Nat, Bounds(f, m), NEW cells \in Cells(m)
  PROVE  /\ ColumnOf(f, cells) \in Column(f)
         /\ ReadField(f, cells).output = Shown(f, ColumnOf(f, cells))
         /\ ReadField(f, cells).error = "ok"
              <=> \A j \in 1..f.count : ReadScalar(f.kind, Element(f, cells, j)).error = "ok"
<1> DEFINE read == [j \in 1..f.count |-> ReadScalar(f.kind, Element(f, cells, j))]
           errors == [j \in 1..f.count |-> ReadScalar(f.kind, Element(f, cells, j)).error]
<1>0. Len(cells) = m /\ f.kind \in Kinds /\ f.count \in Nat
  BY DEF Cells, DescriptorField
<1>1. ReadField(f, cells) = Result(FirstError(errors), Shown(f, ColumnOf(f, cells)))
  BY <1>0 DEF ReadField, Element, ColumnOf
<1>2. ColumnOf(f, cells) \in Column(f)
  BY <1>0, InBounds, ScalarText DEF ColumnOf, Column
<1>3. FirstError(errors) = "ok" <=> \A j \in 1..f.count : errors[j] = "ok"
  <2>1. DOMAIN errors = 1..f.count
    OBVIOUS
  <2> HIDE DEF errors
  <2> QED BY <1>0, <2>1, NoErrors
<1> QED BY <1>1, <1>2, <1>3, ResultFacts

(* A snapshot of a well-formed descriptor.                                 *)
WellFormed(d) ==
  /\ d \in [type : Names, size : Nat, fields : Seq(DescriptorField)]
  /\ \A i \in 1..Len(d.fields) :
       /\ d.fields[i] \in DescriptorField
       /\ Bounds(d.fields[i], d.size)
       /\ \A j \in 1..Len(d.fields) :
            j # i => d.fields[i].name # d.fields[j].name /\ Beside(d.fields[i], d.fields[j])

SnapshotOf(d, cells) ==
  [type |-> d.type,
   fields |-> [i \in 1..Len(d.fields) |-> Shown(d.fields[i], ColumnOf(d.fields[i], cells))]]

Readable(d, cells) ==
  \A i \in 1..Len(d.fields) : \A j \in 1..d.fields[i].count :
    ReadScalar(d.fields[i].kind, Element(d.fields[i], cells, j)).error = "ok"

LEMMA Decoded ==
  ASSUME NEW d, WellFormed(d), NEW cells \in Cells(d.size), NEW output
  PROVE  LET result == Decode(d, [type |-> d.type, cells |-> cells], output)
         IN /\ result.error = "ok" <=> Readable(d, cells)
            /\ IF result.error = "ok" THEN result.output = SnapshotOf(d, cells)
               ELSE result.output = output
            /\ SnapshotOf(d, cells) \in Snapshot
<1> DEFINE n == Len(d.fields)
           read == [i \in 1..n |-> ReadField(d.fields[i], cells)]
           errors == [i \in 1..n |-> read[i].error]
           result == Decode(d, [type |-> d.type, cells |-> cells], output)
<1>0. n \in Nat /\ DOMAIN d.fields = 1..n /\ d.size \in Nat /\ Len(cells) = d.size
  BY DEF WellFormed, Cells
<1>1. result = IF FirstError(errors) # "ok" THEN Result(FirstError(errors), output)
               ELSE Result("ok", [type |-> d.type, fields |-> [i \in 1..n |-> read[i].output]])
  BY <1>0 DEF Decode
<1>2. \A i \in 1..n :
        /\ ColumnOf(d.fields[i], cells) \in Column(d.fields[i])
        /\ read[i].output = Shown(d.fields[i], ColumnOf(d.fields[i], cells))
        /\ read[i].error = "ok"
             <=> \A j \in 1..d.fields[i].count :
                   ReadScalar(d.fields[i].kind, Element(d.fields[i], cells, j)).error = "ok"
  BY <1>0, FieldRead DEF WellFormed
<1>3. FirstError(errors) = "ok" <=> \A i \in 1..n : errors[i] = "ok"
  <2>1. DOMAIN errors = 1..n
    OBVIOUS
  <2> HIDE DEF errors, n
  <2> QED BY <1>0, <2>1, NoErrors
<1>4. [type |-> d.type, fields |-> [i \in 1..n |-> read[i].output]] = SnapshotOf(d, cells)
  BY <1>2 DEF SnapshotOf
<1>5. SnapshotOf(d, cells) \in Snapshot
  <2>1. \A i \in 1..n : Shown(d.fields[i], ColumnOf(d.fields[i], cells)) \in Field
    BY <1>2, ShownTexts DEF WellFormed
  <2>2. d.type \in Names
    BY DEF WellFormed
  <2> DEFINE fields == [i \in 1..n |-> Shown(d.fields[i], ColumnOf(d.fields[i], cells))]
  <2>3. fields \in Seq(Field)
    <3> HIDE DEF n
    <3> QED BY <1>0, <2>1
  <2>4. SnapshotOf(d, cells) = [type |-> d.type, fields |-> fields]
    BY DEF SnapshotOf
  <2> HIDE DEF fields
  <2> QED BY <2>2, <2>3, <2>4 DEF Snapshot
<1>6. FirstError(errors) = "ok" <=> Readable(d, cells)
  BY <1>2, <1>3 DEF Readable
<1> HIDE DEF read, errors
<1>7. CASE FirstError(errors) = "ok"
  BY <1>1, <1>4, <1>5, <1>6, <1>7, ResultFacts
<1>8. CASE FirstError(errors) # "ok"
  <2>1. result = Result(FirstError(errors), output)
    BY <1>1, <1>8
  <2> QED BY <1>5, <1>6, <1>8, <2>1, ResultFacts
<1> QED BY <1>7, <1>8

-----------------------------------------------------------------------------
(* Encode, field by field.                                                 *)

UsedBefore(input, n) == \E m \in 1..(n - 1) : input.fields[m].name = input.fields[n].name
Shaped(f, field) ==
  IF f.count = 1 THEN field.array = <<>> ELSE Len(field.array) = f.count /\ field.value = Empty
WriteErrors(f, field) == [j \in 1..f.count |-> WriteScalar(f.kind, Texts(f, field)[j]).error]

LEMMA WriteFieldIs ==
  ASSUME NEW d, WellFormed(d), NEW input, NEW n,
         NEW i \in 1..Len(d.fields), d.fields[i].name = input.fields[n].name
  PROVE  LET f == d.fields[i]
             field == input.fields[n]
         IN WriteField(d, input, n, d.size) =
              IF UsedBefore(input, n) THEN "EINVAL"
              ELSE IF field.kind # f.kind THEN "EPROTOTYPE"
              ELSE IF ~Shaped(f, field) THEN "EMSGSIZE"
              ELSE FirstError(WriteErrors(f, field))
<1> DEFINE named == {k \in DOMAIN d.fields : d.fields[k].name = input.fields[n].name}
           f == d.fields[i]
           field == input.fields[n]
<1>0. DOMAIN d.fields = 1..Len(d.fields)
  BY DEF WellFormed
<1>1. i \in named /\ \A k \in named : k = i
  BY <1>0 DEF WellFormed
<1>2. (CHOOSE k \in named : TRUE) = i /\ named # {}
  <2> HIDE DEF named
  <2> QED BY <1>1
<1>3. Bounds(f, d.size)
  BY DEF WellFormed
<1>4. (IF f.count = 1 THEN field.array # <<>> ELSE Len(field.array) # f.count \/ field.value # Empty)
        <=> ~Shaped(f, field)
  BY DEF Shaped
<1>5. WriteField(d, input, n, d.size) =
        IF named = {} \/ UsedBefore(input, n) THEN "EINVAL"
        ELSE LET g == d.fields[CHOOSE k \in named : TRUE]
             IN IF ~Bounds(g, d.size) THEN "EPROTO"
                ELSE IF field.kind # g.kind THEN "EPROTOTYPE"
                ELSE IF IF g.count = 1 THEN field.array # <<>>
                        ELSE Len(field.array) # g.count \/ field.value # Empty
                     THEN "EMSGSIZE"
                ELSE FirstError(WriteErrors(g, field))
  BY DEF WriteField, UsedBefore, WriteErrors
<1> HIDE DEF named
<1>6. WriteField(d, input, n, d.size) =
        IF UsedBefore(input, n) THEN "EINVAL"
        ELSE IF ~Bounds(f, d.size) THEN "EPROTO"
             ELSE IF field.kind # f.kind THEN "EPROTOTYPE"
             ELSE IF IF f.count = 1 THEN field.array # <<>>
                     ELSE Len(field.array) # f.count \/ field.value # Empty
                  THEN "EMSGSIZE"
             ELSE FirstError(WriteErrors(f, field))
  BY <1>2, <1>5
<1> QED BY <1>3, <1>4, <1>6

(* What a field that is taken is like.                                     *)
Taken(f, field) ==
  /\ field.name = f.name /\ field.kind = f.kind /\ Shaped(f, field)
  /\ \A j \in 1..f.count : WriteScalar(f.kind, Texts(f, field)[j]).error = "ok"

LEMMA WriteFieldOk ==
  ASSUME NEW d, WellFormed(d), NEW input, NEW n
  PROVE  WriteField(d, input, n, d.size) = "ok" <=>
           ~UsedBefore(input, n) /\ \E i \in 1..Len(d.fields) : Taken(d.fields[i], input.fields[n])
<1>1. CASE \E i \in 1..Len(d.fields) : d.fields[i].name = input.fields[n].name
  <2>1. PICK i \in 1..Len(d.fields) : d.fields[i].name = input.fields[n].name
    BY <1>1
  <2> DEFINE f == d.fields[i]
             field == input.fields[n]
  <2>2. f.count \in Nat
    BY DEF WellFormed, DescriptorField
  <2>3. FirstError(WriteErrors(f, field)) = "ok"
          <=> \A j \in 1..f.count : WriteScalar(f.kind, Texts(f, field)[j]).error = "ok"
    <3> DEFINE errors == WriteErrors(f, field)
    <3>1. DOMAIN errors = 1..f.count
      BY DEF WriteErrors
    <3>2. \A j \in 1..f.count : errors[j] = WriteScalar(f.kind, Texts(f, field)[j]).error
      BY DEF WriteErrors
    <3> HIDE DEF errors
    <3>3. FirstError(errors) = "ok" <=> \A j \in 1..f.count : errors[j] = "ok"
      BY <2>2, <3>1, NoErrors
    <3> QED BY <3>2, <3>3 DEF errors
  <2>4. WriteField(d, input, n, d.size) = "ok" <=> ~UsedBefore(input, n) /\ Taken(f, field)
    <3>1. WriteField(d, input, n, d.size) =
              IF UsedBefore(input, n) THEN "EINVAL"
              ELSE IF field.kind # f.kind THEN "EPROTOTYPE"
              ELSE IF ~Shaped(f, field) THEN "EMSGSIZE"
              ELSE FirstError(WriteErrors(f, field))
      BY <2>1, WriteFieldIs
    <3> QED BY <2>1, <2>3, <3>1 DEF Taken
  <2>5. \A k \in 1..Len(d.fields) : Taken(d.fields[k], field) => k = i
    BY <2>1 DEF Taken, WellFormed
  <2> QED BY <2>4, <2>5
<1>2. CASE \A i \in 1..Len(d.fields) : d.fields[i].name # input.fields[n].name
  <2>1. {i \in DOMAIN d.fields : d.fields[i].name = input.fields[n].name} = {}
    BY <1>2 DEF WellFormed
  <2>2. WriteField(d, input, n, d.size) = "EINVAL"
    BY <2>1 DEF WriteField
  <2> QED BY <1>2, <2>2 DEF Taken
<1> QED BY <1>1, <1>2

(* What Encode stores, one field of the descriptor after the other.        *)
TextsFor(d, input, i) ==
  Texts(d.fields[i], input.fields[CHOOSE n \in DOMAIN input.fields :
                                    input.fields[n].name = d.fields[i].name])
IsWritten(d, input, seed, g) ==
  g = [i \in 0..Len(d.fields) |->
         IF i = 0 THEN Base(d, seed) ELSE Written(d.fields[i], TextsFor(d, input, i), g[i - 1])]
Stored(d, input, seed) == (CHOOSE g : IsWritten(d, input, seed, g))[Len(d.fields)]

(* Encode takes an input when it takes each of its fields.                 *)
LEMMA Encoded ==
  ASSUME NEW d, WellFormed(d), NEW input \in Snapshot, NEW output, NEW seed,
         seed = <<>> \/ \E cells \in Cells(d.size) : seed = <<[type |-> d.type, cells |-> cells]>>
  PROVE  LET result == Encode(d, input, output, seed)
         IN /\ result.error = "ok" <=>
                 /\ input.type = d.type /\ Len(input.fields) = Len(d.fields)
                 /\ \A n \in 1..Len(d.fields) : WriteField(d, input, n, d.size) = "ok"
            /\ result.output = IF result.error # "ok" THEN output
                               ELSE [type |-> d.type, cells |-> Stored(d, input, seed)]
<1> DEFINE result == Encode(d, input, output, seed)
           errors == [n \in DOMAIN input.fields |-> WriteField(d, input, n, d.size)]
<1>1. ~(seed # <<>> /\ (seed[1].type # d.type \/ Len(seed[1].cells) # d.size))
  <2>1. CASE seed = <<>>
    BY <2>1
  <2>2. CASE \E cells \in Cells(d.size) : seed = <<[type |-> d.type, cells |-> cells]>>
    <3>1. PICK cells \in Cells(d.size) : seed = <<[type |-> d.type, cells |-> cells]>>
      BY <2>2
    <3>2. Len(cells) = d.size
      BY DEF Cells, WellFormed
    <3> QED BY <3>1, <3>2
  <2> QED BY <2>1, <2>2
<1> DEFINE payload == [type |-> d.type, cells |-> Stored(d, input, seed)]
<1>3. result =
        IF input.type # d.type THEN Result("EPROTOTYPE", output)
        ELSE IF Len(input.fields) # Len(d.fields) THEN Result("EINVAL", output)
        ELSE IF FirstError(errors) # "ok" THEN Result(FirstError(errors), output)
        ELSE Result("ok", payload)
  BY <1>1 DEF Encode, Stored, IsWritten, TextsFor
<1>4. Len(input.fields) \in Nat /\ DOMAIN input.fields = 1..Len(input.fields)
  BY DEF Snapshot
<1>5. FirstError(errors) = "ok"
        <=> \A n \in 1..Len(input.fields) : WriteField(d, input, n, d.size) = "ok"
  <2>1. /\ DOMAIN errors = 1..Len(input.fields)
        /\ \A n \in 1..Len(input.fields) : errors[n] = WriteField(d, input, n, d.size)
    BY <1>4
  <2> HIDE DEF errors
  <2>2. FirstError(errors) = "ok" <=> \A n \in 1..Len(input.fields) : errors[n] = "ok"
    BY <1>4, <2>1, NoErrors
  <2> QED BY <2>1, <2>2
<1> HIDE DEF errors, result
<1>6. CASE input.type # d.type
  <2>1. result = Result("EPROTOTYPE", output)
    BY <1>3, <1>6
  <2> QED BY <1>6, <2>1, ResultFacts DEF result
<1>7. CASE input.type = d.type /\ Len(input.fields) # Len(d.fields)
  <2>1. result = Result("EINVAL", output)
    BY <1>3, <1>7
  <2> QED BY <1>7, <2>1, ResultFacts DEF result
<1>8. CASE input.type = d.type /\ Len(input.fields) = Len(d.fields) /\ FirstError(errors) # "ok"
  <2>1. result = Result(FirstError(errors), output)
    BY <1>3, <1>8
  <2> QED BY <1>5, <1>8, <2>1, ResultFacts DEF result
<1>9. CASE input.type = d.type /\ Len(input.fields) = Len(d.fields) /\ FirstError(errors) = "ok"
  <2>1. result = Result("ok", payload)
    BY <1>3, <1>9
  <2> QED BY <1>5, <1>9, <2>1, ResultFacts DEF result
<1> QED BY <1>6, <1>7, <1>8, <1>9

LEMMA Checked ==
  ASSUME NEW d, WellFormed(d), NEW input \in Snapshot, NEW output
  PROVE  Encode(d, input, output, <<>>).error = "ok" <=>
           /\ input.type = d.type /\ Len(input.fields) = Len(d.fields)
           /\ \A n \in 1..Len(d.fields) : WriteField(d, input, n, d.size) = "ok"
<1> DEFINE seed == <<>>
<1>1. seed = <<>> \/ \E cells \in Cells(d.size) : seed = <<[type |-> d.type, cells |-> cells]>>
  OBVIOUS
<1> HIDE DEF seed
<1> DEFINE result == Encode(d, input, output, seed)
<1>2. /\ result.error = "ok" <=>
           /\ input.type = d.type /\ Len(input.fields) = Len(d.fields)
           /\ \A n \in 1..Len(d.fields) : WriteField(d, input, n, d.size) = "ok"
      /\ result.output = IF result.error # "ok" THEN output
                         ELSE [type |-> d.type, cells |-> Stored(d, input, seed)]
  BY <1>1, Encoded
<1> QED BY <1>2 DEF seed

-----------------------------------------------------------------------------
(* A value that was read is written back as it was.                        *)

Finite(d, cells) ==
  \A i \in 1..Len(d.fields) : \A j \in 1..d.fields[i].count :
    ColumnOf(d.fields[i], cells)[j] # <<"nonfinite">>

LEMMA FieldRewritten ==
  ASSUME NEW f \in DescriptorField, NEW m \in Nat, Bounds(f, m), NEW cells \in Cells(m),
         \A j \in 1..f.count : /\ ReadScalar(f.kind, Element(f, cells, j)).error = "ok"
                               /\ ColumnOf(f, cells)[j] # <<"nonfinite">>
  PROVE  Written(f, ColumnOf(f, cells), cells) = cells
<1> DEFINE column == ColumnOf(f, cells)
           Over(i) == {j \in 1..f.count : i - First(f, j) \in 1..Size[f.kind]}
<1>0. f.kind \in Kinds /\ DOMAIN column = 1..f.count /\ DOMAIN cells = 1..m
  BY DEF DescriptorField, ColumnOf, Cells
<1>1. ASSUME NEW j \in 1..f.count, NEW i \in 1..m, i - First(f, j) \in 1..Size[f.kind]
      PROVE  WriteScalar(f.kind, column[j]).output[i - First(f, j)] = cells[i]
  <2>1. Element(f, cells, j) \in [1..Size[f.kind] -> Bytes]
    BY InBounds
  <2>2. column[j] = ReadScalar(f.kind, Element(f, cells, j)).output
    BY DEF ColumnOf
  <2>3. WriteScalar(f.kind, column[j]) = Result("ok", Element(f, cells, j))
    BY <1>0, <2>1, <2>2, ReadThenWrite
  <2>4. Element(f, cells, j)[i - First(f, j)] = cells[First(f, j) + (i - First(f, j))]
    BY <1>1 DEF Element
  <2>5. First(f, j) \in Nat
    <3>1. 1 \in 1..Size[f.kind]
      BY <1>0, SizeFacts
    <3> QED BY <3>1, Extents
  <2>6. First(f, j) + (i - First(f, j)) = i
    BY <2>5
  <2> QED BY <2>3, <2>4, <2>6, ResultFacts
<1>2. ASSUME NEW i \in 1..m PROVE Written(f, column, cells)[i] = cells[i]
  <2>1. Written(f, column, cells)[i] =
          IF \E j \in 1..f.count : i - First(f, j) \in 1..Size[f.kind]
          THEN LET j == CHOOSE j \in 1..f.count : i - First(f, j) \in 1..Size[f.kind]
               IN WriteScalar(f.kind, column[j]).output[i - First(f, j)]
          ELSE cells[i]
    BY <1>0 DEF Written
  <2> DEFINE k == CHOOSE j \in 1..f.count : i - First(f, j) \in 1..Size[f.kind]
  <2>2. CASE \E j \in 1..f.count : i - First(f, j) \in 1..Size[f.kind]
    <3>1. k \in 1..f.count /\ i - First(f, k) \in 1..Size[f.kind]
      BY <2>2
    <3>2. Written(f, column, cells)[i] = WriteScalar(f.kind, column[k]).output[i - First(f, k)]
      BY <2>1, <2>2
    <3> HIDE DEF k, column
    <3> QED BY <3>1, <3>2, <1>1
  <2>3. CASE ~\E j \in 1..f.count : i - First(f, j) \in 1..Size[f.kind]
    BY <2>1, <2>3
  <2> QED BY <2>2, <2>3
<1>3. Written(f, column, cells) = [i \in 1..m |-> Written(f, column, cells)[i]]
  BY <1>0 DEF Written
<1>4. cells = [i \in 1..m |-> cells[i]]
  BY DEF Cells
<1> HIDE DEF column
<1>5. Written(f, column, cells) = cells
  BY <1>2, <1>3, <1>4
<1> QED BY <1>5 DEF column

LEMMA Rewritten ==
  ASSUME NEW d, WellFormed(d), NEW cells \in Cells(d.size), Readable(d, cells)
  PROVE  LET input == SnapshotOf(d, cells)
             seed == <<[type |-> d.type, cells |-> cells]>>
         IN /\ \A n \in 1..Len(d.fields) :
                 /\ WriteField(d, input, n, d.size) \in {"ok", "ERANGE"}
                 /\ WriteField(d, input, n, d.size) = "ok" <=>
                      \A j \in 1..d.fields[n].count :
                        ColumnOf(d.fields[n], cells)[j] # <<"nonfinite">>
            /\ Finite(d, cells) => Stored(d, input, seed) = cells
<1> DEFINE input == SnapshotOf(d, cells)
           seed == <<[type |-> d.type, cells |-> cells]>>
           ColumnAt(n) == ColumnOf(d.fields[n], cells)
<1>0. /\ Len(d.fields) \in Nat /\ d.size \in Nat
      /\ input.fields = [i \in 1..Len(d.fields) |-> Shown(d.fields[i], ColumnAt(i))]
      /\ DOMAIN input.fields = 1..Len(d.fields)
  BY DEF WellFormed, SnapshotOf
<1>1. ASSUME NEW n \in 1..Len(d.fields)
      PROVE  /\ d.fields[n] \in DescriptorField /\ Bounds(d.fields[n], d.size)
             /\ input.fields[n] = Shown(d.fields[n], ColumnAt(n))
             /\ input.fields[n].name = d.fields[n].name /\ input.fields[n].kind = d.fields[n].kind
             /\ Shaped(d.fields[n], input.fields[n])
             /\ Texts(d.fields[n], input.fields[n]) = ColumnAt(n)
  <2>1. d.fields[n] \in DescriptorField /\ Bounds(d.fields[n], d.size)
    BY DEF WellFormed
  <2>2. ColumnAt(n) \in Column(d.fields[n])
    BY <1>0, <2>1, FieldRead
  <2>3. input.fields[n] = Shown(d.fields[n], ColumnAt(n))
    BY <1>0
  <2> HIDE DEF input, ColumnAt
  <2> QED BY <2>1, <2>2, <2>3, ShownTexts DEF Shaped
<1>2. \A m, n \in 1..Len(d.fields) : input.fields[m].name = d.fields[n].name => m = n
  BY <1>1 DEF WellFormed
<1>3. ASSUME NEW n \in 1..Len(d.fields)
      PROVE  /\ WriteField(d, input, n, d.size) \in {"ok", "ERANGE"}
             /\ WriteField(d, input, n, d.size) = "ok" <=>
                  \A j \in 1..d.fields[n].count : ColumnAt(n)[j] # <<"nonfinite">>
  <2> DEFINE f == d.fields[n]
             errors == WriteErrors(f, input.fields[n])
  <2>1. ~UsedBefore(input, n)
    <3>1. \A m \in 1..(n - 1) : m \in 1..Len(d.fields) /\ m # n
      BY <1>0
    <3> HIDE DEF input
    <3> QED BY <3>1, <1>1, <1>2 DEF UsedBefore
  <2>2. WriteField(d, input, n, d.size) = FirstError(errors)
    <3> HIDE DEF input
    <3> QED BY <1>1, <2>1, WriteFieldIs
  <2>3. f.count \in Nat /\ f.kind \in Kinds
    BY <1>1 DEF DescriptorField
  <2>4. DOMAIN errors = 1..f.count
    BY DEF WriteErrors
  <2>5. ASSUME NEW j \in 1..f.count
        PROVE  errors[j] = IF ColumnAt(n)[j] = <<"nonfinite">> THEN "ERANGE" ELSE "ok"
    <3>1. errors[j] = WriteScalar(f.kind, ColumnAt(n)[j]).error
      <4> HIDE DEF input, ColumnAt
      <4> QED BY <1>1 DEF WriteErrors
    <3>2. ColumnAt(n)[j] = ReadScalar(f.kind, Element(f, cells, j)).output
      BY DEF ColumnOf
    <3>3. Element(f, cells, j) \in [1..Size[f.kind] -> Bytes]
      BY <1>0, <1>1, InBounds
    <3>4. ReadScalar(f.kind, Element(f, cells, j)).error = "ok"
      BY DEF Readable
    <3> DEFINE text == ColumnAt(n)[j]
    <3>5. IF text = <<"nonfinite">> THEN WriteScalar(f.kind, text).error = "ERANGE"
          ELSE WriteScalar(f.kind, text) = Result("ok", Element(f, cells, j))
      BY <2>3, <3>2, <3>3, <3>4, ReadThenWrite
    <3> HIDE DEF text
    <3>6. WriteScalar(f.kind, text).error = IF text = <<"nonfinite">> THEN "ERANGE" ELSE "ok"
      BY <3>5, ResultFacts
    <3> QED BY <3>1, <3>6 DEF text
  <2> HIDE DEF errors, ColumnAt, input, f
  <2>6. FirstError(errors) \in {"ok", "ERANGE"}
        /\ (FirstError(errors) = "ok" <=> \A j \in 1..f.count : ColumnAt(n)[j] # <<"nonfinite">>)
    <3>1. CASE \A j \in 1..f.count : errors[j] = "ok"
      BY <2>3, <2>4, <2>5, <3>1, FirstErrorIs
    <3>2. CASE \E j \in 1..f.count : errors[j] # "ok"
      BY <2>3, <2>4, <2>5, <3>2, FirstErrorIs
    <3> QED BY <3>1, <3>2
  <2> QED BY <2>2, <2>6 DEF f
<1>4. ASSUME Finite(d, cells) PROVE Stored(d, input, seed) = cells
  <2> DEFINE same == [i \in 0..Len(d.fields) |-> cells]
             Solves(g) == IsWritten(d, input, seed, g)
  <2>1. \A n \in 1..Len(d.fields) : Written(d.fields[n], TextsFor(d, input, n), cells) = cells
    <3> SUFFICES ASSUME NEW n \in 1..Len(d.fields)
                 PROVE  Written(d.fields[n], TextsFor(d, input, n), cells) = cells
      OBVIOUS
    <3> DEFINE at == CHOOSE m \in DOMAIN input.fields : input.fields[m].name = d.fields[n].name
    <3>1. at = n
      <4> HIDE DEF input
      <4> QED BY <1>0, <1>1, <1>2
    <3>2. TextsFor(d, input, n) = ColumnAt(n)
      <4>1. TextsFor(d, input, n) = Texts(d.fields[n], input.fields[at])
        BY DEF TextsFor
      <4> HIDE DEF at, input, ColumnAt
      <4> QED BY <1>1, <3>1, <4>1
    <3>3. \A j \in 1..d.fields[n].count :
            /\ ReadScalar(d.fields[n].kind, Element(d.fields[n], cells, j)).error = "ok"
            /\ ColumnAt(n)[j] # <<"nonfinite">>
      BY <1>4 DEF Readable, Finite
    <3>4. Written(d.fields[n], ColumnAt(n), cells) = cells
      BY <1>0, <1>1, <3>3, FieldRewritten
    <3> QED BY <3>2, <3>4
  <2>2. Base(d, seed) = cells
    BY DEF Base
  <2>3. Solves(same)
    <3> HIDE DEF input, seed
    <3>1. \A i \in 1..Len(d.fields) : same[i - 1] = cells
      BY <1>0
    <3>2. \A i \in 0..Len(d.fields) :
            cells = IF i = 0 THEN Base(d, seed)
                    ELSE Written(d.fields[i], TextsFor(d, input, i), same[i - 1])
      BY <1>0, <2>1, <2>2, <3>1
    <3> QED BY <3>2 DEF IsWritten
  <2> DEFINE g == CHOOSE g : Solves(g)
             S == {i \in 0..Len(d.fields) : g[i] = cells}
  <2>4. Solves(g)
    <3> HIDE DEF Solves, same
    <3> QED BY <2>3
  <2>5. Stored(d, input, seed) = g[Len(d.fields)]
    BY DEF Stored
  <2>6. \A i \in 0..Len(d.fields) :
          g[i] = IF i = 0 THEN Base(d, seed)
                 ELSE Written(d.fields[i], TextsFor(d, input, i), g[i - 1])
    <3> HIDE DEF g, input, seed
    <3> QED BY <2>4 DEF IsWritten
  <2> HIDE DEF g, input, seed
  <2>7. 0 \in S
    BY <1>0, <2>2, <2>6
  <2>8. ASSUME NEW i \in 0..Len(d.fields), i < Len(d.fields), i \in S PROVE i + 1 \in S
    <3>1. i + 1 \in 1..Len(d.fields) /\ i + 1 \in 0..Len(d.fields) /\ (i + 1) - 1 = i /\ i + 1 # 0
      BY <1>0, <2>8
    <3>2. g[i + 1] = Written(d.fields[i + 1], TextsFor(d, input, i + 1), cells)
      BY <2>6, <2>8, <3>1
    <3> QED BY <2>1, <3>1, <3>2
  <2>9. \A i \in 0..Len(d.fields) : i \in S
    <3> HIDE DEF S
    <3> QED BY <1>0, <2>7, <2>8, Induction
  <2> QED BY <1>0, <2>5, <2>9
<1> HIDE DEF ColumnAt
<1> QED BY <1>3, <1>4 DEF ColumnAt

-----------------------------------------------------------------------------
(* A value that was written reads back as what its texts stand for.        *)

Extent(f) == (f.offset + 1)..(f.offset + Size[f.kind] * f.count)

LEMMA ElementsInExtent ==
  ASSUME NEW f \in DescriptorField, NEW j \in 1..f.count, NEW i \in 1..Size[f.kind]
  PROVE  First(f, j) \in Nat /\ First(f, j) + i \in Extent(f)
<1> DEFINE e == f.offset + Size[f.kind] * f.count
           at == First(f, j)
<1>1. at \in Nat /\ f.offset + 1 <= at + i /\ at + i <= e
  BY Extents
<1>2. e \in Nat /\ f.offset \in Nat /\ i \in Nat
  <2>1. Size[f.kind] \in Nat /\ f.count \in Nat /\ f.offset \in Nat
    BY SizeFacts DEF DescriptorField
  <2>2. Size[f.kind] * f.count \in Nat
    BY <2>1, ProductFacts
  <2> QED BY <2>1, <2>2
<1> HIDE DEF e, at
<1>3. at + i \in (f.offset + 1)..e
  BY <1>1, <1>2
<1> QED BY <1>1, <1>3 DEF Extent, e, at

LEMMA ExtentsApart ==
  ASSUME NEW f \in DescriptorField, NEW g \in DescriptorField, Beside(f, g)
  PROVE  Extent(f) \cap Extent(g) = {}
<1> DEFINE e == Size[f.kind] * f.count
           h == Size[g.kind] * g.count
<1>1. e \in Nat /\ h \in Nat /\ f.offset \in Nat /\ g.offset \in Nat
  <2>1. /\ Size[f.kind] \in Nat /\ f.count \in Nat /\ f.offset \in Nat
        /\ Size[g.kind] \in Nat /\ g.count \in Nat /\ g.offset \in Nat
    BY SizeFacts DEF DescriptorField
  <2> QED BY <2>1, ProductFacts
<1>2. f.offset + e <= g.offset \/ g.offset + h <= f.offset
  BY DEF Beside
<1>3. Extent(f) = (f.offset + 1)..(f.offset + e) /\ Extent(g) = (g.offset + 1)..(g.offset + h)
  BY DEF Extent
<1> HIDE DEF e, h
<1> QED BY <1>1, <1>2, <1>3

LEMMA FieldWritten ==
  ASSUME NEW f \in DescriptorField, NEW m \in Nat, Bounds(f, m), NEW cells \in Cells(m),
         NEW column \in Column(f),
         \A j \in 1..f.count : WriteScalar(f.kind, column[j]).error = "ok"
  PROVE  LET w == Written(f, column, cells)
         IN /\ w \in Cells(m)
            /\ \A j \in 1..f.count : Element(f, w, j) = WriteScalar(f.kind, column[j]).output
            /\ \A i \in 1..m \ Extent(f) : w[i] = cells[i]
<1> DEFINE w == Written(f, column, cells)
           Out(j) == WriteScalar(f.kind, column[j]).output
<1>0. f.kind \in Kinds /\ DOMAIN column = 1..f.count /\ DOMAIN cells = 1..m
  BY DEF DescriptorField, Column, Cells
<1>1. \A j \in 1..f.count : Out(j) \in [1..Size[f.kind] -> Bytes]
  BY <1>0, WriteThenRead DEF Column
<1>2. \A i \in 1..m : w[i] =
        IF \E j \in 1..f.count : i - First(f, j) \in 1..Size[f.kind]
        THEN LET j == CHOOSE j \in 1..f.count : i - First(f, j) \in 1..Size[f.kind]
             IN Out(j)[i - First(f, j)]
        ELSE cells[i]
  BY <1>0 DEF Written
<1>3. w = [i \in 1..m |-> w[i]]
  BY <1>0 DEF Written
<1> HIDE DEF w, Out
<1>4. ASSUME NEW j \in 1..f.count, NEW i \in 1..Size[f.kind]
      PROVE  w[First(f, j) + i] = Out(j)[i] /\ First(f, j) + i \in 1..m
  <2> DEFINE at == First(f, j) + i
             k == CHOOSE k \in 1..f.count : at - First(f, k) \in 1..Size[f.kind]
  <2>1. at \in 1..m
    BY InBounds
  <2>2. First(f, j) \in Nat /\ i \in Nat
    BY <1>0, ElementsInExtent, SizeFacts
  <2>3. at - First(f, j) = i
    BY <2>2
  <2>4. k \in 1..f.count /\ at - First(f, k) \in 1..Size[f.kind]
    BY <2>3
  <2>5. k = j
    <3> HIDE DEF k
    <3> QED BY <2>4, Extents
  <2>6. w[at] = Out(k)[at - First(f, k)]
    BY <1>2, <2>1, <2>3
  <2> HIDE DEF k
  <2> QED BY <2>1, <2>3, <2>5, <2>6
<1>5. \A j \in 1..f.count : Element(f, w, j) = Out(j)
  <2> SUFFICES ASSUME NEW j \in 1..f.count PROVE Element(f, w, j) = Out(j)
    OBVIOUS
  <2>1. Element(f, w, j) = [i \in 1..Size[f.kind] |-> w[First(f, j) + i]]
    BY DEF Element
  <2>2. Out(j) = [i \in 1..Size[f.kind] |-> Out(j)[i]]
    BY <1>1
  <2> QED BY <1>4, <2>1, <2>2
<1>6. ASSUME NEW i \in 1..m
      PROVE  w[i] \in Bytes /\ (i \notin Extent(f) => w[i] = cells[i])
  <2>1. CASE \E j \in 1..f.count : i - First(f, j) \in 1..Size[f.kind]
    <3>1. PICK j \in 1..f.count : i - First(f, j) \in 1..Size[f.kind]
      BY <2>1
    <3> DEFINE at == i - First(f, j)
    <3>2. at \in 1..Size[f.kind] /\ First(f, j) \in Nat
      BY <3>1, ElementsInExtent
    <3>3. First(f, j) + at = i
      BY <3>2
    <3> HIDE DEF at
    <3>4. w[i] = Out(j)[at] /\ i \in Extent(f)
      BY <1>4, <3>2, <3>3, ElementsInExtent
    <3> QED BY <1>1, <3>2, <3>4
  <2>2. CASE ~\E j \in 1..f.count : i - First(f, j) \in 1..Size[f.kind]
    <3>1. w[i] = cells[i]
      BY <1>2, <2>2
    <3> QED BY <3>1 DEF Cells
  <2> QED BY <2>1, <2>2
<1>7. w \in Cells(m)
  BY <1>3, <1>6 DEF Cells
<1> QED BY <1>5, <1>6, <1>7 DEF w, Out

(* The fields of an input that is taken are those of the descriptor, in    *)
(* any order.                                                              *)
Matches(d, input, i, n) == n \in 1..Len(d.fields) /\ Taken(d.fields[i], input.fields[n])

LEMMA Matching ==
  ASSUME NEW d, WellFormed(d), NEW input \in Snapshot, Len(input.fields) = Len(d.fields),
         \A n \in 1..Len(d.fields) : WriteField(d, input, n, d.size) = "ok"
  PROVE  /\ \A i \in 1..Len(d.fields) : \E n : Matches(d, input, i, n)
         /\ \A m, n \in 1..Len(d.fields) : input.fields[m].name = input.fields[n].name => m = n
<1> DEFINE N == 1..Len(d.fields)
           of == [n \in N |-> CHOOSE i \in N : Taken(d.fields[i], input.fields[n])]
<1>0. Len(d.fields) \in Nat
  BY DEF WellFormed
<1>1. \A n \in N : ~UsedBefore(input, n) /\ \E i \in N : Taken(d.fields[i], input.fields[n])
  BY WriteFieldOk
<1>2. \A n \in N : of[n] \in N /\ Taken(d.fields[of[n]], input.fields[n])
  BY <1>1
<1>3. \A m, n \in N : input.fields[m].name = input.fields[n].name => m = n
  <2>1. ASSUME NEW m \in N, NEW n \in N, m < n PROVE input.fields[m].name # input.fields[n].name
    <3>1. m \in 1..(n - 1)
      BY <2>1, <1>0
    <3> QED BY <1>1, <3>1 DEF UsedBefore
  <2>2. \A m, n \in N : m < n \/ n < m \/ m = n
    BY <1>0
  <2> QED BY <2>1, <2>2
<1>4. of \in [N -> N]
  BY <1>2
<1> HIDE DEF of
<1>5. \A m, n \in N : of[m] = of[n] => m = n
  BY <1>2, <1>3 DEF Taken
<1>6. ASSUME NEW i \in N, \A n \in N : of[n] # i PROVE FALSE
  <2> DEFINE T == N \ {i}
  <2>1. IsFiniteSet(N) /\ Cardinality(N) = Len(d.fields)
    <3>1. 1 \in Int /\ Len(d.fields) \in Int /\ ~(1 > Len(d.fields)) /\ Len(d.fields) - 1 + 1 = Len(d.fields)
      BY <1>0
    <3> QED BY <3>1, FS_Interval
  <2>2. IsFiniteSet(T) /\ Cardinality(T) = Cardinality(N) - 1
    <3> HIDE DEF N
    <3> QED BY <2>1, FS_RemoveElement
  <2>3. Cardinality(T) < Cardinality(N)
    BY <1>0, <2>1, <2>2
  <2>4. of \in [N -> T]
    BY <1>4, <1>6
  <2> HIDE DEF T, N
  <2>5. \E m, n \in N : m # n /\ of[m] = of[n]
    BY <2>1, <2>2, <2>3, <2>4, FS_PigeonHole
  <2> QED BY <1>5, <2>5
<1>7. ASSUME NEW i \in N PROVE \E n : Matches(d, input, i, n)
  <2>1. PICK n \in N : of[n] = i
    BY <1>6
  <2>2. Matches(d, input, i, n)
    BY <1>2, <2>1 DEF Matches
  <2> QED BY <2>2
<1> QED BY <1>3, <1>7

LEMMA MatchedTexts ==
  ASSUME NEW d, WellFormed(d), NEW input \in Snapshot, Len(input.fields) = Len(d.fields),
         \A n \in 1..Len(d.fields) : WriteField(d, input, n, d.size) = "ok",
         NEW i \in 1..Len(d.fields)
  PROVE  /\ TextsFor(d, input, i) \in Column(d.fields[i])
         /\ \A j \in 1..d.fields[i].count :
              WriteScalar(d.fields[i].kind, TextsFor(d, input, i)[j]).error = "ok"
         /\ \E n \in 1..Len(d.fields) :
              /\ input.fields[n].name = d.fields[i].name
              /\ TextsFor(d, input, i) = Texts(d.fields[i], input.fields[n])
<1> DEFINE at == CHOOSE n \in DOMAIN input.fields : input.fields[n].name = d.fields[i].name
           f == d.fields[i]
<1>1. PICK n : Matches(d, input, i, n)
  BY Matching
<1>2. DOMAIN input.fields = 1..Len(d.fields) /\ input.fields[n] \in Field
  BY <1>1 DEF Snapshot, Matches
<1>3. at = n
  <2>1. n \in DOMAIN input.fields /\ input.fields[n].name = f.name
    BY <1>1, <1>2 DEF Matches, Taken
  <2>2. at \in DOMAIN input.fields /\ input.fields[at].name = f.name
    BY <2>1
  <2> HIDE DEF at
  <2>3. at \in 1..Len(d.fields) /\ n \in 1..Len(d.fields)
        /\ input.fields[at].name = input.fields[n].name
    BY <1>1, <1>2, <2>1, <2>2 DEF Matches
  <2> QED BY <2>3, Matching
<1>4. TextsFor(d, input, i) = Texts(f, input.fields[n])
  <2>1. TextsFor(d, input, i) = Texts(f, input.fields[at])
    BY DEF TextsFor
  <2> HIDE DEF at, f
  <2> QED BY <1>3, <2>1
<1>5. Texts(f, input.fields[n]) \in Column(f)
  <2> DEFINE field == input.fields[n]
  <2> SUFFICES Texts(f, field) \in Column(f)
    OBVIOUS
  <2>1. field \in Field /\ Shaped(f, field) /\ f.count \in Nat
    BY <1>1, <1>2 DEF Matches, Taken, WellFormed, DescriptorField
  <2> HIDE DEF field, f
  <2>2. CASE f.count = 1
    <3>1. Texts(f, field) = <<field.value>> /\ field.value \in Text
      BY <2>1, <2>2 DEF Texts, Field
    <3>2. \A v \in Text : <<v>> \in [1..1 -> Text]
      OBVIOUS
    <3>3. <<field.value>> \in [1..f.count -> Text]
      BY <2>2, <3>1, <3>2
    <3> QED BY <3>1, <3>3 DEF Column
  <2>3. CASE f.count # 1
    <3>1. Texts(f, field) = field.array /\ field.array \in Seq(Text) /\ Len(field.array) = f.count
      BY <2>1, <2>3 DEF Texts, Field, Shaped
    <3>2. field.array \in [1..Len(field.array) -> Text]
      BY <3>1
    <3> QED BY <3>1, <3>2 DEF Column
  <2> QED BY <2>2, <2>3
<1> QED BY <1>1, <1>4, <1>5 DEF Matches, Taken

LEMMA StoredIs ==
  ASSUME NEW d, WellFormed(d), NEW input \in Snapshot, Len(input.fields) = Len(d.fields),
         \A n \in 1..Len(d.fields) : WriteField(d, input, n, d.size) = "ok",
         NEW seed, Base(d, seed) \in Cells(d.size)
  PROVE  /\ Stored(d, input, seed) \in Cells(d.size)
         /\ \A i \in 1..Len(d.fields) : \A j \in 1..d.fields[i].count :
              Element(d.fields[i], Stored(d, input, seed), j) =
                WriteScalar(d.fields[i].kind, TextsFor(d, input, i)[j]).output
         /\ \A c \in 1..d.size :
              (\A i \in 1..Len(d.fields) : c \notin Extent(d.fields[i])) =>
                Stored(d, input, seed)[c] = Base(d, seed)[c]
<1> DEFINE L == Len(d.fields)
           V == Cells(d.size)
           base == Base(d, seed)
           Out(i, j) == WriteScalar(d.fields[i].kind, TextsFor(d, input, i)[j]).output
           Turn(i, cells) == Written(d.fields[i], TextsFor(d, input, i), cells)
<1>0. L \in Nat /\ d.size \in Nat
  BY DEF WellFormed
<1>1. \A i \in 1..L : d.fields[i] \in DescriptorField /\ Bounds(d.fields[i], d.size)
  BY DEF WellFormed
<1>2. ASSUME NEW i \in 1..L, NEW cells \in V
      PROVE  /\ Turn(i, cells) \in V
             /\ \A j \in 1..d.fields[i].count : Element(d.fields[i], Turn(i, cells), j) = Out(i, j)
             /\ \A c \in 1..d.size \ Extent(d.fields[i]) : Turn(i, cells)[c] = cells[c]
  <2>1. /\ TextsFor(d, input, i) \in Column(d.fields[i])
        /\ \A j \in 1..d.fields[i].count :
             WriteScalar(d.fields[i].kind, TextsFor(d, input, i)[j]).error = "ok"
    BY MatchedTexts
  <2> QED BY <1>0, <1>1, <2>1, FieldWritten
<1> HIDE DEF Out, Turn
<1>3. PICK h : Iterates(h, L, V, base, [i \in 1..L |-> [x \in V |-> Turn(i, x)]])
  <2> DEFINE step == [i \in 1..L |-> [x \in V |-> Turn(i, x)]]
  <2>1. step \in Steps(L, V)
    BY <1>2 DEF Steps
  <2> HIDE DEF step, V, base, L
  <2>2. base \in V
    BY DEF base, V
  <2>3. \E h : Iterates(h, L, V, base, step)
    BY <1>0, <2>1, <2>2, Recursion
  <2> QED BY <2>3 DEF step
<1> DEFINE Solves(g) == IsWritten(d, input, seed, g)
<1>4. Solves(h)
  <2>1. h \in [0..L -> V] /\ h[0] = base
    BY <1>3 DEF Iterates
  <2>2. ASSUME NEW i \in 1..L PROVE h[i] = Turn(i, h[i - 1])
    <3>1. i - 1 \in 0..L
      BY <1>0
    <3>2. h[i - 1] \in V
      BY <2>1, <3>1
    <3> HIDE DEF V
    <3> QED BY <1>3, <3>2 DEF Iterates
  <2>3. ASSUME NEW i \in 0..L PROVE h[i] = IF i = 0 THEN base ELSE Turn(i, h[i - 1])
    <3>1. CASE i = 0
      BY <2>1, <3>1
    <3>2. CASE i \in 1..L
      BY <1>0, <2>2, <3>2
    <3> QED BY <1>0, <3>1, <3>2
  <2>4. h = [i \in 0..L |-> IF i = 0 THEN base ELSE Turn(i, h[i - 1])]
    <3> HIDE DEF V, base
    <3> QED BY <2>1, <2>3
  <2> QED BY <2>4 DEF IsWritten, Turn
<1> DEFINE g == CHOOSE g : Solves(g)
<1>5. Solves(g)
  <2> HIDE DEF Solves
  <2> QED BY <1>4
<1>6. Stored(d, input, seed) = g[L]
  BY DEF Stored
<1>7. \A i \in 0..L : g[i] = IF i = 0 THEN base ELSE Turn(i, g[i - 1])
  <2> HIDE DEF g
  <2> QED BY <1>5 DEF IsWritten, Turn
<1> HIDE DEF g
<1> DEFINE Right(i, cells) ==
             /\ cells \in V
             /\ \A k \in 1..i : \A j \in 1..d.fields[k].count :
                  Element(d.fields[k], cells, j) = Out(k, j)
             /\ \A c \in 1..d.size :
                  (\A k \in 1..i : c \notin Extent(d.fields[k])) => cells[c] = base[c]
           S == {i \in 0..L : Right(i, g[i])}
<1>8. 0 \in S
  <2>1. g[0] = base
    BY <1>0, <1>7
  <2> QED BY <1>0, <2>1
<1>9. ASSUME NEW i \in 0..L, i < L, i \in S PROVE i + 1 \in S
  <2> DEFINE n == i + 1
             old == g[i]
             new == g[n]
  <2>1. n \in 1..L /\ n \in 0..L /\ n - 1 = i /\ n # 0 /\ \A k \in 1..n : k \in 1..i \/ k = n
    BY <1>0, <1>9
  <2>2. new = Turn(n, old) /\ Right(i, old)
    BY <1>7, <1>9, <2>1
  <2> HIDE DEF new, old, n
  <2>3. new \in V /\ \A c \in 1..d.size \ Extent(d.fields[n]) : new[c] = old[c]
    BY <1>2, <2>1, <2>2
  <2>4. ASSUME NEW k \in 1..n, NEW j \in 1..d.fields[k].count
        PROVE  Element(d.fields[k], new, j) = Out(k, j)
    <3>1. CASE k = n
      BY <1>2, <2>1, <2>2, <3>1
    <3>2. CASE k \in 1..i
      <4> DEFINE f == d.fields[k]
      <4>1. k \in 1..L /\ k # n
        BY <1>0, <1>9, <2>1, <3>2
      <4>2. Element(f, old, j) = Out(k, j)
        BY <2>2, <3>2
      <4>3. Extent(f) \cap Extent(d.fields[n]) = {}
        <5>1. Beside(f, d.fields[n])
          BY <2>1, <4>1 DEF WellFormed
        <5> QED BY <1>1, <2>1, <4>1, <5>1, ExtentsApart
      <4>4. ASSUME NEW c \in 1..Size[f.kind] PROVE new[First(f, j) + c] = old[First(f, j) + c]
        <5>1. First(f, j) + c \in 1..d.size
          BY <1>0, <1>1, <2>2, <4>1, InBounds
        <5>2. First(f, j) + c \in Extent(f)
          BY <1>1, <4>1, ElementsInExtent
        <5>3. First(f, j) + c \in 1..d.size \ Extent(d.fields[n])
          BY <4>3, <5>1, <5>2
        <5> QED BY <2>3, <5>3
      <4>5. Element(f, new, j) = Element(f, old, j)
        BY <4>4 DEF Element
      <4> QED BY <4>2, <4>5
    <3> QED BY <2>1, <3>1, <3>2
  <2>5. ASSUME NEW c \in 1..d.size, \A k \in 1..n : c \notin Extent(d.fields[k])
        PROVE  new[c] = base[c]
    <3>1. \A k \in 1..i : k \in 1..n
      BY <1>0, <1>9 DEF n
    <3>2. n \in 1..n
      BY <1>0, <1>9 DEF n
    <3>3. new[c] = old[c]
      BY <2>3, <2>5, <3>2
    <3>4. old[c] = base[c]
      BY <2>2, <2>5, <3>1
    <3> QED BY <3>3, <3>4
  <2>6. Right(n, new)
    <3> HIDE DEF V, base
    <3> QED BY <2>3, <2>4, <2>5
  <2> QED BY <2>1, <2>6 DEF new, n
<1>10. \A i \in 0..L : i \in S
  <2> HIDE DEF S, L
  <2> QED BY <1>0, <1>8, <1>9, Induction
<1>11. Right(L, g[L])
  BY <1>0, <1>10
<1> QED BY <1>6, <1>11 DEF Out

LEMMA MeaningAgain ==
  ASSUME NEW kind \in Kinds, NEW text
  PROVE  Meaning(kind, Meaning(kind, text)) = Meaning(kind, text)
<1>1. CASE kind \in Floating /\ text \in DOMAIN Nearest[kind]
  <2>1. Meaning(kind, text) = <<"real", kind, Nearest[kind][text]>>
    BY <1>1 DEF Meaning
  <2>2. <<"real", kind, Nearest[kind][text]>> \notin DOMAIN Nearest[kind]
    BY <1>1, FloatFacts
  <2> QED BY <2>1, <2>2 DEF Meaning
<1>2. CASE ~(kind \in Floating /\ text \in DOMAIN Nearest[kind])
  BY <1>2 DEF Meaning
<1> QED BY <1>1, <1>2

Row(d, snapshot, i, n) ==
  <<d.fields[i].name,
    [j \in 1..d.fields[i].count |->
       Meaning(d.fields[i].kind, Texts(d.fields[i], snapshot.fields[n])[j])]>>

LEMMA MeaningsAre ==
  ASSUME NEW d, WellFormed(d), NEW snapshot, DOMAIN snapshot.fields = 1..Len(d.fields),
         NEW Of, Of \in [1..Len(d.fields) -> 1..Len(d.fields)],
         \A i, n \in 1..Len(d.fields) : d.fields[i].name = snapshot.fields[n].name <=> n = Of[i]
  PROVE  Meanings(d, snapshot) = {Row(d, snapshot, i, Of[i]) : i \in 1..Len(d.fields)}
<1> DEFINE N == 1..Len(d.fields)
           pairs == {q \in (DOMAIN d.fields) \X (DOMAIN snapshot.fields) :
                       d.fields[q[1]].name = snapshot.fields[q[2]].name}
<1>1. Meanings(d, snapshot) = {Row(d, snapshot, p[1], p[2]) : p \in pairs}
  BY DEF Meanings, Row
<1>2. DOMAIN d.fields = N
  BY DEF WellFormed
<1>3. \A p \in pairs : p[1] \in N /\ p[2] = Of[p[1]]
  BY <1>2
<1>4. \A i \in N : <<i, Of[i]>> \in pairs /\ <<i, Of[i]>>[1] = i /\ <<i, Of[i]>>[2] = Of[i]
  BY <1>2
<1> HIDE DEF N, pairs
<1>5. {Row(d, snapshot, p[1], p[2]) : p \in pairs} \subseteq {Row(d, snapshot, i, Of[i]) : i \in N}
  BY <1>3
<1>6. ASSUME NEW i \in N
      PROVE  Row(d, snapshot, i, Of[i]) \in {Row(d, snapshot, p[1], p[2]) : p \in pairs}
  <2> DEFINE p == <<i, Of[i]>>
  <2>1. p \in pairs /\ p[1] = i /\ p[2] = Of[i]
    BY <1>4
  <2> HIDE DEF p
  <2> QED BY <2>1
<1> QED BY <1>1, <1>5, <1>6 DEF N

LEMMA ReadsBack ==
  ASSUME NEW d, WellFormed(d), NEW input \in Snapshot, Len(input.fields) = Len(d.fields),
         \A n \in 1..Len(d.fields) : WriteField(d, input, n, d.size) = "ok",
         NEW seed, Base(d, seed) \in Cells(d.size)
  PROVE  LET w == Stored(d, input, seed)
         IN /\ Readable(d, w)
            /\ Meanings(d, SnapshotOf(d, w)) = Meanings(d, input)
<1> DEFINE N == 1..Len(d.fields)
           w == Stored(d, input, seed)
           M(i) == [j \in 1..d.fields[i].count |->
                      Meaning(d.fields[i].kind, TextsFor(d, input, i)[j])]
           snapshot == SnapshotOf(d, w)
<1>0. Len(d.fields) \in Nat /\ \A i \in N : d.fields[i] \in DescriptorField /\ d.fields[i].kind \in Kinds
  BY DEF WellFormed, DescriptorField
<1>1. ASSUME NEW i \in N, NEW j \in 1..d.fields[i].count
      PROVE  ReadScalar(d.fields[i].kind, Element(d.fields[i], w, j)) =
               Result("ok", Meaning(d.fields[i].kind, TextsFor(d, input, i)[j]))
  <2> DEFINE text == TextsFor(d, input, i)[j]
             kind == d.fields[i].kind
  <2>1. Element(d.fields[i], w, j) = WriteScalar(kind, text).output
    BY StoredIs
  <2>2. text \in Text /\ WriteScalar(kind, text).error = "ok"
    <3>1. /\ TextsFor(d, input, i) \in Column(d.fields[i])
          /\ WriteScalar(d.fields[i].kind, TextsFor(d, input, i)[j]).error = "ok"
      BY MatchedTexts
    <3> QED BY <3>1 DEF Column
  <2>3. kind \in Kinds
    BY <1>0
  <2> HIDE DEF text, kind, w
  <2>4. ReadScalar(kind, Element(d.fields[i], w, j)) = Result("ok", Meaning(kind, text))
    BY <2>1, <2>2, <2>3, WriteThenRead
  <2> QED BY <2>4 DEF text, kind
<1> HIDE DEF w
<1>2. Readable(d, w)
  BY <1>1, ResultFacts DEF Readable
<1>3. \A i \in N : ColumnOf(d.fields[i], w) = M(i)
  BY <1>1, ResultFacts DEF ColumnOf
<1>4. Meanings(d, snapshot) = {<<d.fields[i].name, M(i)>> : i \in N}
  <2> DEFINE Of == [i \in N |-> i]
  <2>1. /\ DOMAIN snapshot.fields = N
        /\ \A i \in N : snapshot.fields[i] = Shown(d.fields[i], ColumnOf(d.fields[i], w))
    BY DEF SnapshotOf
  <2>2. ASSUME NEW i \in N
        PROVE  /\ snapshot.fields[i].name = d.fields[i].name
               /\ Texts(d.fields[i], snapshot.fields[i]) = M(i)
    <3>1. w \in Cells(d.size) /\ d.size \in Nat /\ Bounds(d.fields[i], d.size)
      BY StoredIs DEF w, WellFormed
    <3>2. ColumnOf(d.fields[i], w) \in Column(d.fields[i])
      BY <1>0, <3>1, FieldRead
    <3> HIDE DEF snapshot, M
    <3> QED BY <1>0, <1>3, <2>1, <3>2, ShownTexts
  <2> HIDE DEF snapshot
  <2>3. \A i, n \in N : d.fields[i].name = snapshot.fields[n].name <=> n = Of[i]
    BY <2>2 DEF WellFormed
  <2>4. Of \in [N -> N]
    OBVIOUS
  <2>5. Meanings(d, snapshot) = {Row(d, snapshot, i, Of[i]) : i \in N}
    <3> HIDE DEF Of
    <3> QED BY <2>1, <2>3, <2>4, MeaningsAre
  <2>6. ASSUME NEW i \in N PROVE Row(d, snapshot, i, Of[i]) = <<d.fields[i].name, M(i)>>
    <3>1. \A j \in 1..d.fields[i].count :
            Meaning(d.fields[i].kind, M(i)[j]) = M(i)[j]
      BY <1>0, MeaningAgain
    <3>2. Row(d, snapshot, i, i) =
            <<d.fields[i].name, [j \in 1..d.fields[i].count |-> Meaning(d.fields[i].kind, M(i)[j])]>>
      <4> HIDE DEF M
      <4> QED BY <2>2 DEF Row
    <3>3. [j \in 1..d.fields[i].count |-> Meaning(d.fields[i].kind, M(i)[j])] = M(i)
      BY <3>1
    <3>4. Of[i] = i
      OBVIOUS
    <3> HIDE DEF M, Of
    <3> QED BY <3>2, <3>3, <3>4
  <2> HIDE DEF M, Of
  <2> QED BY <2>5, <2>6
<1>5. Meanings(d, input) = {<<d.fields[i].name, M(i)>> : i \in N}
  <2>1. ASSUME NEW i \in N
        PROVE  \E n \in N : /\ input.fields[n].name = d.fields[i].name
                            /\ TextsFor(d, input, i) = Texts(d.fields[i], input.fields[n])
    BY MatchedTexts
  <2> DEFINE Of == [i \in N |-> CHOOSE n \in N :
                      /\ input.fields[n].name = d.fields[i].name
                      /\ TextsFor(d, input, i) = Texts(d.fields[i], input.fields[n])]
  <2>2. \A i \in N : /\ Of[i] \in N /\ input.fields[Of[i]].name = d.fields[i].name
                     /\ TextsFor(d, input, i) = Texts(d.fields[i], input.fields[Of[i]])
    BY <2>1
  <2>3. Of \in [N -> N]
    BY <2>2
  <2> HIDE DEF Of
  <2>4. \A m, n \in N : input.fields[m].name = input.fields[n].name => m = n
    BY Matching
  <2>5. \A i, n \in N : d.fields[i].name = input.fields[n].name <=> n = Of[i]
    BY <2>2, <2>4
  <2>6. DOMAIN input.fields = N
    BY DEF Snapshot
  <2>7. Meanings(d, input) = {Row(d, input, i, Of[i]) : i \in N}
    BY <2>3, <2>5, <2>6, MeaningsAre
  <2>8. \A i \in N : Row(d, input, i, Of[i]) = <<d.fields[i].name, M(i)>>
    BY <2>2 DEF Row
  <2> HIDE DEF M
  <2> QED BY <2>7, <2>8
<1> QED BY <1>2, <1>4, <1>5 DEF w

-----------------------------------------------------------------------------
(* The stored parameter.                                                   *)

LEMMA AllWellFormed ==
  ASSUME NEW d \in Descriptors
  PROVE  WellFormed(d)
<1>1. d \in [type : Names, size : Nat, fields : Seq(DescriptorField)]
  <2> DEFINE Spelt == [name : STRING, kind : Kinds, offset : Nat, count : Nat \ {0}]
  <2>1. d \in [type : STRING, size : Nat, fields : Seq(Spelt)]
    BY DescriptorAssumption
  <2>2. Spelt \subseteq DescriptorField /\ STRING \subseteq Names
    BY DEF DescriptorField, Names
  <2> HIDE DEF Spelt
  <2>3. Seq(Spelt) \subseteq Seq(DescriptorField)
    BY <2>2
  <2> QED BY <2>1, <2>2, <2>3
<1>2. DOMAIN d.fields = 1..Len(d.fields) /\ \A i \in 1..Len(d.fields) : d.fields[i] \in DescriptorField
  BY <1>1
<1>3. \A i \in DOMAIN d.fields :
        /\ Bounds(d.fields[i], d.size)
        /\ \A j \in DOMAIN d.fields \ {i} : /\ d.fields[i].name # d.fields[j].name
                                            /\ Beside(d.fields[i], d.fields[j])
  BY DescriptorAssumption
<1> QED BY <1>1, <1>2, <1>3 DEF WellFormed

LEMMA EditTyped ==
  ASSUME Caller, form \in Snapshot, Edit
  PROVE  form' \in Snapshot
<1>1. PICK n \in DOMAIN form.fields :
        \E j \in 1..Len(form.fields[n].array) \cup {1}, text \in Typed :
          form' = [form EXCEPT !.fields[n] = Edited(@, j, text)]
  BY DEF Edit
<1>2. PICK j \in 1..Len(form.fields[n].array) \cup {1} :
        \E text \in Typed : form' = [form EXCEPT !.fields[n] = Edited(@, j, text)]
  BY <1>1
<1>3. PICK text \in Typed : form' = [form EXCEPT !.fields[n] = Edited(@, j, text)]
  BY <1>2
<1> DEFINE field == form.fields[n]
<1>4. form.fields \in Seq(Field) /\ form.type \in Names /\ field \in Field /\ text \in Text
  BY DEF Snapshot, Caller
<1>5. Edited(field, j, text) \in Field
  <2> HIDE DEF field
  <2>1. CASE field.array = <<>>
    BY <1>4, <2>1 DEF Edited, Field
  <2>2. CASE field.array # <<>>
    <3>1. field.array \in Seq(Text) /\ Len(field.array) \in Nat /\ Len(field.array) # 0
      BY <1>4, <2>2 DEF Field
    <3>2. j \in 1..Len(field.array)
      BY <3>1, <1>2 DEF field
    <3>3. [field.array EXCEPT ![j] = text] \in Seq(Text)
      BY <1>4, <3>1, <3>2
    <3> QED BY <1>4, <2>2, <3>3 DEF Edited, Field
  <2> QED BY <2>1, <2>2
<1>6. form' = [form EXCEPT !.fields = [form.fields EXCEPT ![n] = Edited(field, j, text)]]
  BY <1>3
<1>7. [form.fields EXCEPT ![n] = Edited(field, j, text)] \in Seq(Field)
  <2> HIDE DEF field
  <2> QED BY <1>1, <1>4, <1>5
<1> QED BY <1>4, <1>6, <1>7 DEF Snapshot

LEMMA InputsTyped ==
  ASSUME Caller, form \in Snapshot
  PROVE  Inputs \subseteq Snapshot
  BY DEF Inputs, Caller

ParameterTyped ==
  /\ descriptor \in Descriptors
  /\ storage \in Cells(descriptor.size)
  /\ form \in Snapshot

LEMMA NoSnapshotTyped == NoSnapshot \in Snapshot
<1>1. <<>> \in Seq(Field)
  OBVIOUS
<1>2. "none" \in Names
  BY DEF Names
<1> QED BY <1>1, <1>2 DEF NoSnapshot, Snapshot

LEMMA ZerosTyped ==
  ASSUME NEW m \in Nat
  PROVE  [i \in 1..m |-> 0] \in Cells(m)
  BY ByteFacts DEF Cells, Bytes

(* A successful SetParameter stores what encoding over the stored bytes    *)
(* gives, after every field has been taken.                                *)
LEMMA SetStores ==
  ASSUME Caller, ParameterTyped, NEW input \in Inputs, Set(input)
  PROVE  LET seed == <<Payload(storage)>>
         IN /\ error' = "ok" =>
                 /\ Len(input.fields) = Len(descriptor.fields) /\ input.type = descriptor.type
                 /\ \A n \in 1..Len(descriptor.fields) :
                      WriteField(descriptor, input, n, descriptor.size) = "ok"
                 /\ storage' = Stored(descriptor, input, seed)
            /\ error' # "ok" => storage' = storage
            /\ Base(descriptor, seed) = storage
<1> DEFINE d == descriptor
           seed == <<Payload(storage)>>
           checked == Encode(d, input, Payload(<<>>), <<>>)
           encoded == Encode(d, input, Payload(<<>>), seed)
           errors == <<checked.error, encoded.error>>
<1>0. WellFormed(d) /\ input \in Snapshot /\ storage \in Cells(d.size)
  BY AllWellFormed, InputsTyped DEF ParameterTyped
<1>1. /\ error' = FirstError(errors)
      /\ storage' = IF error' = "ok" THEN encoded.output.cells ELSE storage
  BY DEF Set
<1>2. seed = <<[type |-> d.type, cells |-> storage]>>
  BY DEF Payload
<1>3. Base(d, seed) = storage
  BY <1>2 DEF Base
<1>4. /\ encoded.error = "ok" <=>
           /\ input.type = d.type /\ Len(input.fields) = Len(d.fields)
           /\ \A n \in 1..Len(d.fields) : WriteField(d, input, n, d.size) = "ok"
      /\ encoded.output = IF encoded.error # "ok" THEN Payload(<<>>)
                          ELSE [type |-> d.type, cells |-> Stored(d, input, seed)]
  <2> HIDE DEF seed, d
  <2> QED BY <1>0, <1>2, Encoded
<1>5. error' = "ok" => encoded.error = "ok"
  <2>1. DOMAIN errors = 1..2 /\ errors[2] = encoded.error
    OBVIOUS
  <2> HIDE DEF errors, encoded
  <2>2. FirstError(errors) = "ok" => \A i \in 1..2 : errors[i] = "ok"
    BY <2>1, NoErrors
  <2> QED BY <1>1, <2>1, <2>2
<1> HIDE DEF encoded, checked, errors
<1> QED BY <1>1, <1>3, <1>4, <1>5

LEMMA ParameterTypedStep ==
  ASSUME Caller, ParameterTyped, [ParameterNext]_valueVars
  PROVE  ParameterTyped'
<1>0. WellFormed(descriptor) /\ descriptor.size \in Nat /\ descriptor \in Descriptors
      /\ storage \in Cells(descriptor.size) /\ form \in Snapshot
  BY AllWellFormed DEF ParameterTyped, WellFormed
<1>1. ASSUME NEW cells \in Cells(descriptor.size), Answer(Decode(descriptor, Payload(cells), form))
      PROVE  form' \in Snapshot
  <2>1. form' = Decode(descriptor, [type |-> descriptor.type, cells |-> cells], form).output
    BY <1>1 DEF Answer, Payload
  <2> QED BY <1>0, <2>1, Decoded
<1>2. CASE Get
  <2>1. form' \in Snapshot
    BY <1>0, <1>1, <1>2 DEF Get
  <2> QED BY <1>0, <1>2, <2>1 DEF Get, ParameterTyped
<1>3. CASE Prepare
  <2>1. form' \in Snapshot
    BY <1>0, <1>1, <1>3, ZerosTyped DEF Prepare
  <2> QED BY <1>0, <1>3, <2>1 DEF Prepare, ParameterTyped
<1>4. CASE Edit
  <2>1. form' \in Snapshot
    BY <1>0, <1>4, EditTyped
  <2> QED BY <1>0, <1>4, <2>1 DEF Edit, ParameterTyped
<1>5. CASE WriteElsewhere
  <2>1. PICK i \in DOMAIN storage : \E v \in Bytes : storage' = [storage EXCEPT ![i] = v]
    BY <1>5 DEF WriteElsewhere
  <2>2. PICK v \in Bytes : storage' = [storage EXCEPT ![i] = v]
    BY <2>1
  <2>3. storage' \in Cells(descriptor.size)
    BY <1>0, <2>2 DEF Cells
  <2> QED BY <1>0, <1>5, <2>3 DEF WriteElsewhere, ParameterTyped
<1>6. ASSUME NEW input \in Inputs, Set(input) PROVE ParameterTyped'
  <2>1. storage' \in Cells(descriptor.size)
    <3>1. CASE error' = "ok"
      <4>1. input \in Snapshot
        BY <1>0, <1>6, InputsTyped
      <4> QED BY <1>0, <1>6, <3>1, <4>1, SetStores, StoredIs
    <3>2. CASE error' # "ok"
      BY <1>0, <1>6, <3>2, SetStores
    <3> QED BY <3>1, <3>2
  <2> QED BY <1>0, <1>6, <2>1 DEF Set, ParameterTyped
<1>7. CASE UNCHANGED valueVars
  BY <1>0, <1>7 DEF valueVars, ParameterTyped
<1> QED BY <1>2, <1>3, <1>4, <1>5, <1>6, <1>7 DEF ParameterNext

LEMMA ParameterTypedInit == ParameterInit => ParameterTyped
<1> SUFFICES ASSUME ParameterInit PROVE ParameterTyped
  OBVIOUS
<1>1. descriptor.size \in Nat
  BY AllWellFormed DEF ParameterInit, WellFormed
<1> QED BY <1>1, NoSnapshotTyped, ZerosTyped DEF ParameterInit, CallerInit, ParameterTyped

(* Whatever the bytes of a parameter are, reading it and writing it back   *)
(* unedited changes none of them, or is refused with ERANGE because it     *)
(* holds a floating-point value that is not finite (Decode and Encode).    *)
THEOREM UnchangedByRoundTrip ==
  ASSUME Caller
  PROVE  ParameterSpec => []UneditedWritesBack
<1>1. ParameterTyped => UneditedWritesBack
  <2> SUFFICES ASSUME ParameterTyped PROVE UneditedWritesBack
    OBVIOUS
  <2> DEFINE d == descriptor
             L == Len(d.fields)
             seed == <<Payload(storage)>>
             read == Decode(d, Payload(storage), NoSnapshot)
             written == Encode(d, read.output, Payload(<<>>), seed)
             finite == \A i \in DOMAIN read.output.fields :
                         LET field == read.output.fields[i]
                         IN /\ field.value # <<"nonfinite">>
                            /\ \A j \in DOMAIN field.array : field.array[j] # <<"nonfinite">>
  <2>0. WellFormed(d) /\ storage \in Cells(d.size) /\ L \in Nat /\ d.size \in Nat
    BY AllWellFormed DEF ParameterTyped, WellFormed
  <2>1. Payload(storage) = [type |-> d.type, cells |-> storage]
    BY DEF Payload
  <2> SUFFICES ASSUME read.error = "ok"
               PROVE  IF finite THEN written = Result("ok", Payload(storage)) ELSE written.error = "ERANGE"
    BY DEF UneditedWritesBack
  <2>2. read.output = SnapshotOf(d, storage) /\ Readable(d, storage) /\ SnapshotOf(d, storage) \in Snapshot
    <3> HIDE DEF d
    <3> QED BY <2>0, <2>1, Decoded
  <2>3. finite <=> Finite(d, storage)
    <3>1. /\ DOMAIN read.output.fields = 1..L
          /\ \A i \in 1..L : read.output.fields[i] = Shown(d.fields[i], ColumnOf(d.fields[i], storage))
      <4> HIDE DEF read
      <4> QED BY <2>2 DEF SnapshotOf
    <3>2. ASSUME NEW i \in 1..L
          PROVE  LET field == read.output.fields[i]
                 IN (/\ field.value # <<"nonfinite">>
                     /\ \A j \in DOMAIN field.array : field.array[j] # <<"nonfinite">>)
                      <=> \A j \in 1..d.fields[i].count : ColumnOf(d.fields[i], storage)[j] # <<"nonfinite">>
      <4> DEFINE f == d.fields[i]
                 column == ColumnOf(f, storage)
                 field == Shown(f, column)
      <4>1. f.count \in Nat \ {0} /\ column = [j \in 1..f.count |-> column[j]]
        BY <2>0 DEF WellFormed, DescriptorField, ColumnOf
      <4>2. read.output.fields[i] = field
        BY <3>1
      <4>3. Empty # <<"nonfinite">>
        BY DEF Empty
      <4> HIDE DEF column, f
      <4>4. (/\ field.value # <<"nonfinite">>
             /\ \A j \in DOMAIN field.array : field.array[j] # <<"nonfinite">>)
              <=> \A j \in 1..f.count : column[j] # <<"nonfinite">>
        <5>1. CASE f.count = 1
          <6>1. field.value = column[1] /\ DOMAIN field.array = {}
            BY <5>1 DEF Shown
          <6> HIDE DEF field
          <6> QED BY <5>1, <6>1
        <5>2. CASE f.count # 1
          <6>1. field.value = Empty /\ field.array = column /\ DOMAIN column = 1..f.count
            BY <4>1, <5>2 DEF Shown
          <6> HIDE DEF field
          <6> QED BY <4>3, <6>1
        <5> QED BY <5>1, <5>2
      <4> HIDE DEF field, read
      <4> QED BY <4>2, <4>4 DEF column, f
    <3> HIDE DEF read
    <3> QED BY <3>1, <3>2 DEF Finite
  <2> DEFINE input == SnapshotOf(d, storage)
  <2>4. /\ \A n \in 1..L :
             /\ WriteField(d, input, n, d.size) \in {"ok", "ERANGE"}
             /\ WriteField(d, input, n, d.size) = "ok" <=>
                  \A j \in 1..d.fields[n].count : ColumnOf(d.fields[n], storage)[j] # <<"nonfinite">>
        /\ Finite(d, storage) => Stored(d, input, seed) = storage
    <3> HIDE DEF d
    <3> QED BY <2>0, <2>1, <2>2, Rewritten
  <2>5. /\ input.type = d.type /\ Len(input.fields) = L /\ DOMAIN input.fields = 1..L
    BY <2>0 DEF SnapshotOf
  <2>6. written = Encode(d, input, Payload(<<>>), seed)
    BY <2>2
  <2> HIDE DEF input, read
  <2>7. CASE Finite(d, storage)
    <3>1. \A n \in 1..L : WriteField(d, input, n, d.size) = "ok"
      BY <2>4, <2>7 DEF Finite
    <3>2. written.error = "ok" /\ written.output = [type |-> d.type, cells |-> storage]
      <4> HIDE DEF written, d
      <4> QED BY <2>0, <2>1, <2>2, <2>4, <2>5, <2>6, <2>7, <3>1, Encoded DEF input
    <3>3. written = Result(written.error, written.output)
      BY <2>6 DEF Encode, Result
    <3> QED BY <2>1, <2>3, <2>7, <3>2, <3>3
  <2>8. CASE ~Finite(d, storage)
    <3> DEFINE errors == [n \in DOMAIN input.fields |-> WriteField(d, input, n, d.size)]
    <3>1. DOMAIN errors = 1..L /\ \A n \in 1..L : errors[n] = WriteField(d, input, n, d.size)
      BY <2>5
    <3>2. \E n \in 1..L : errors[n] # "ok"
      BY <2>4, <2>8, <3>1 DEF Finite
    <3>3. \A n \in 1..L : errors[n] \in {"ok", "ERANGE"}
      BY <2>4, <3>1
    <3>4. FirstError(errors) = "ERANGE"
      <4> HIDE DEF errors
      <4> QED BY <2>0, <3>1, <3>2, <3>3, FirstErrorIs
    <3>5. ~(seed[1].type # d.type \/ Len(seed[1].cells) # d.size)
      BY <2>0, <2>1 DEF Cells
    <3>6. written = Result("ERANGE", Payload(<<>>))
      BY <2>5, <2>6, <3>4, <3>5 DEF Encode
    <3> QED BY <2>3, <2>8, <3>6, ResultFacts
  <2> QED BY <2>7, <2>8
<1>2. ParameterTyped /\ [ParameterNext]_valueVars => ParameterTyped'
  BY ParameterTypedStep
<1> QED
  BY <1>1, <1>2, ParameterTypedInit, PTL DEF ParameterSpec

(* What SetParameter stored without an error reads back as what the texts  *)
(* of its input stand for, and no byte outside the fields has changed.     *)
THEOREM WritesShow ==
  ASSUME Caller
  PROVE  ParameterSpec => SetsWhatItShows
<1> DEFINE Step == error' = "ok" /\ form' = form => \A input \in Inputs : Set(input) =>
             LET read == Decode(descriptor, Payload(storage'), NoSnapshot)
             IN /\ read.error = "ok"
                /\ Meanings(descriptor, read.output) = Meanings(descriptor, input)
                /\ \A i \in DOMAIN storage \ Covered(descriptor) : storage'[i] = storage[i]
<1>1. ParameterTyped => Step
  <2> SUFFICES ASSUME ParameterTyped, error' = "ok", NEW input \in Inputs, Set(input)
               PROVE  LET read == Decode(descriptor, Payload(storage'), NoSnapshot)
                      IN /\ read.error = "ok"
                         /\ Meanings(descriptor, read.output) = Meanings(descriptor, input)
                         /\ \A i \in DOMAIN storage \ Covered(descriptor) : storage'[i] = storage[i]
    OBVIOUS
  <2> DEFINE d == descriptor
             L == Len(d.fields)
             seed == <<Payload(storage)>>
  <2>0. WellFormed(d) /\ input \in Snapshot /\ storage \in Cells(d.size) /\ L \in Nat
    BY AllWellFormed, InputsTyped DEF ParameterTyped, WellFormed
  <2>1. /\ Len(input.fields) = L
        /\ \A n \in 1..L : WriteField(d, input, n, d.size) = "ok"
        /\ storage' = Stored(d, input, seed)
        /\ Base(d, seed) = storage
    BY SetStores
  <2> HIDE DEF seed
  <2>2. Base(d, seed) \in Cells(d.size)
    BY <2>0, <2>1
  <2>3. storage' \in Cells(d.size)
    BY <2>0, <2>1, <2>2, StoredIs
  <2>4. Readable(d, storage') /\ Meanings(d, SnapshotOf(d, storage')) = Meanings(d, input)
    BY <2>0, <2>1, <2>2, ReadsBack
  <2>5. Payload(storage') = [type |-> d.type, cells |-> storage']
    BY DEF Payload
  <2>6. LET read == Decode(d, Payload(storage'), NoSnapshot)
        IN read.error = "ok" /\ read.output = SnapshotOf(d, storage')
    BY <2>0, <2>3, <2>4, <2>5, Decoded
  <2>7. ASSUME NEW c \in DOMAIN storage \ Covered(d) PROVE storage'[c] = storage[c]
    <3>1. c \in 1..d.size
      BY <2>0 DEF Cells
    <3>2. \A i \in 1..L : c \notin Extent(d.fields[i])
      <4>1. DOMAIN d.fields = 1..L
        BY <2>0 DEF WellFormed
      <4> QED BY <2>7, <4>1 DEF Covered, Extent
    <3> QED BY <2>0, <2>1, <2>2, <3>1, <3>2, StoredIs
  <2> QED BY <2>4, <2>6, <2>7
<1>2. ParameterTyped /\ [ParameterNext]_valueVars => ParameterTyped'
  BY ParameterTypedStep
<1>3. ParameterTyped /\ [ParameterNext]_valueVars => [Step]_valueVars
  BY <1>1
<1> HIDE DEF Step
<1>4. ParameterSpec => [][Step]_valueVars
  BY <1>2, <1>3, ParameterTypedInit, PTL DEF ParameterSpec
<1> QED
  BY <1>4 DEF SetsWhatItShows, Step

(* A call of the real backend that fails changes neither the snapshot of   *)
(* its caller nor the parameter, however far it came.                      *)
THEOREM FailedCallsKeepOutput == ParameterSpec => FailureKeepsOutput
<1> DEFINE Step == error' # "ok" => UNCHANGED <<form, storage>>
<1>1. ASSUME NEW d, NEW payload, NEW output, Decode(d, payload, output).error # "ok"
      PROVE  Decode(d, payload, output).output = output
  <2> DEFINE read == [i \in DOMAIN d.fields |-> ReadField(d.fields[i], payload.cells)]
             why == FirstError([i \in DOMAIN read |-> read[i].error])
             value == [type |-> d.type, fields |-> [i \in DOMAIN read |-> read[i].output]]
             result == Decode(d, payload, output)
  <2>1. result = IF payload.type # d.type THEN Result("EPROTOTYPE", output)
                 ELSE IF Len(payload.cells) # d.size THEN Result("EMSGSIZE", output)
                 ELSE IF why # "ok" THEN Result(why, output) ELSE Result("ok", value)
    BY DEF Decode
  <2> HIDE DEF why, value, result
  <2>2. result # Result("ok", value)
    BY <1>1, ResultFacts DEF result
  <2>3. \E x : result = Result(x, output)
    BY <2>1, <2>2
  <2> QED BY <2>3, ResultFacts DEF result
<1>2. ASSUME ParameterNext PROVE Step
  <2>1. ASSUME Get PROVE Step
    BY <1>1, <2>1 DEF Get, Answer
  <2>2. ASSUME Prepare PROVE Step
    BY <1>1, <2>2 DEF Prepare, Answer
  <2>3. ASSUME Edit PROVE Step
    BY <2>3 DEF Edit
  <2>4. ASSUME WriteElsewhere PROVE Step
    BY <2>4 DEF WriteElsewhere
  <2>5. ASSUME NEW input \in Inputs, Set(input) PROVE Step
    BY <2>5 DEF Set
  <2> HIDE DEF Step
  <2> QED BY <1>2, <2>1, <2>2, <2>3, <2>4, <2>5 DEF ParameterNext
<1>3. [ParameterNext]_valueVars => [Step]_valueVars
  BY <1>2
<1> HIDE DEF Step
<1>4. ParameterSpec => [][Step]_valueVars
  BY <1>3, PTL DEF ParameterSpec
<1> QED
  BY <1>4 DEF FailureKeepsOutput, Step

-----------------------------------------------------------------------------
(* The mock.                                                               *)

LEMMA SchemaFacts ==
  ASSUME NEW type \in Names, NEW kind \in Kinds, NEW L \in Nat,
         NEW names \in [1..L -> Names], \A m, n \in 1..L : names[m] = names[n] => m = n
  PROVE  /\ WellFormed(Schema(type, kind, names))
         /\ Schema(type, kind, names).type = type
         /\ Len(Schema(type, kind, names).fields) = L
         /\ \A n \in 1..L :
              /\ Schema(type, kind, names).fields[n] \in DescriptorField
              /\ Schema(type, kind, names).fields[n].name = names[n]
              /\ Schema(type, kind, names).fields[n].kind = kind
              /\ Schema(type, kind, names).fields[n].count = 1
<1> DEFINE d == Schema(type, kind, names)
           z == Size[kind]
           At(n) == (n - 1) * z
<1>1. z \in Nat /\ z > 0
  BY SizeFacts
<1>2. DOMAIN names = 1..L /\ Len(names) = L
  OBVIOUS
<1>3. /\ d.type = type /\ d.size = L * z
      /\ d.fields = [n \in 1..L |-> Scalar(names[n], kind, At(n))]
      /\ DOMAIN d = {"type", "size", "fields"}
      /\ d = [type |-> d.type, size |-> d.size, fields |-> d.fields]
  BY <1>2 DEF Schema
<1> HIDE DEF d, z, At
<1>4. ASSUME NEW n \in 1..L
      PROVE  /\ At(n) \in Nat /\ At(n) + z = n * z /\ n * z <= L * z /\ n * z \in Nat /\ L * z \in Nat
             /\ \A m \in 1..L : n < m => n * z <= At(m)
  <2>1. n \in Nat /\ n >= 1 /\ n <= L
    OBVIOUS
  <2>2. (n - 1) * z \in Nat /\ (n - 1) * z + z = n * z /\ n * z <= L * z /\ n * z \in Nat /\ L * z \in Nat
    BY <1>1, <2>1
  <2>3. ASSUME NEW m \in 1..L, n < m PROVE n * z <= (m - 1) * z
    <3>1. m \in Nat /\ n <= m - 1
      BY <2>3
    <3> QED BY <1>1, <2>1, <3>1
  <2> QED BY <2>2, <2>3 DEF At
<1>5. ASSUME NEW n \in 1..L
      PROVE  /\ d.fields[n] \in DescriptorField
             /\ d.fields[n].name = names[n] /\ d.fields[n].kind = kind
             /\ d.fields[n].count = 1 /\ d.fields[n].offset = At(n)
             /\ Size[d.fields[n].kind] * d.fields[n].count = z
  <2>1. d.fields[n] = [name |-> names[n], kind |-> kind, offset |-> At(n), count |-> 1]
    BY <1>3 DEF Scalar
  <2>2. At(n) \in Nat /\ names[n] \in Names
    BY <1>4
  <2>3. z * 1 = z
    BY <1>1
  <2> QED BY <2>1, <2>2, <2>3 DEF DescriptorField, z
<1>6. ASSUME NEW n \in 1..L PROVE Bounds(d.fields[n], d.size)
  <2>1. At(n) <= L * z /\ z <= L * z - At(n)
    BY <1>1, <1>4
  <2> QED BY <1>3, <1>5, <2>1 DEF Bounds
<1>7. ASSUME NEW m \in 1..L, NEW n \in 1..L, m # n
      PROVE  d.fields[m].name # d.fields[n].name /\ Beside(d.fields[m], d.fields[n])
  <2>1. m < n \/ n < m
    BY <1>7
  <2>2. At(m) + z <= At(n) \/ At(n) + z <= At(m)
    BY <1>4, <2>1
  <2> QED BY <1>5, <1>7, <2>2 DEF Beside
<1>8. Len(d.fields) = L /\ d.fields \in Seq(DescriptorField)
  BY <1>3, <1>5
<1>9. d \in [type : Names, size : Nat, fields : Seq(DescriptorField)]
  <2>1. L * z \in Nat
    BY <1>1, ProductFacts
  <2> QED BY <1>3, <1>8, <2>1
<1>10. WellFormed(d)
  BY <1>5, <1>6, <1>7, <1>8, <1>9 DEF WellFormed
<1> QED BY <1>3, <1>5, <1>8, <1>10 DEF d

LEMMA SchemasAre ==
  /\ WellFormed(Request) /\ Request.type = "request" /\ Len(Request.fields) = 2
  /\ Request.fields[1].name = "a" /\ Request.fields[2].name = "b"
  /\ \A n \in 1..2 : /\ Request.fields[n] \in DescriptorField
                     /\ Request.fields[n].kind = Operands /\ Request.fields[n].count = 1
  /\ Response.type = "response" /\ Response.fields[1] \in DescriptorField
  /\ Response.fields[1].count = 1
  /\ \A p \in Parameters : HasType(p) =>
       /\ WellFormed(SchemaOf(p)) /\ SchemaOf(p).type = p /\ Len(SchemaOf(p).fields) = 1
       /\ SchemaOf(p).fields[1] \in DescriptorField /\ SchemaOf(p).fields[1].count = 1
       /\ SchemaOf(p).fields[1].name = "value" /\ SchemaOf(p).fields[1].kind = Kind[p]
  /\ \A t \in Topics : LET schema == Schema(t, Operands, <<"sequence">>)
                       IN schema.type = t /\ schema.fields[1] \in DescriptorField
                          /\ schema.fields[1].count = 1
<1>1. Operands \in Kinds
  BY MockAssumption
<1> DEFINE two == <<"a", "b">>
           One(x) == <<x>>
<1>2. /\ two \in [1..2 -> Names] /\ two[1] = "a" /\ two[2] = "b"
      /\ \A m, n \in 1..2 : two[m] = two[n] => m = n
  BY DEF Names
<1>3. ASSUME NEW x \in Names
      PROVE  One(x) \in [1..1 -> Names] /\ One(x)[1] = x /\ \A m, n \in 1..1 : m = n
  OBVIOUS
<1>4. "a" \in Names /\ "b" \in Names /\ "value" \in Names /\ "result" \in Names
      /\ "sequence" \in Names /\ "request" \in Names /\ "response" \in Names
  BY DEF Names
<1>5. 1 \in 1..1 /\ 1 \in 1..2 /\ 2 \in 1..2
  OBVIOUS
<1>6. Request = Schema("request", Operands, two)
  BY DEF Request
<1> HIDE DEF two, One
<1>7. ASSUME NEW type \in Names, NEW kind \in Kinds, NEW x \in Names
      PROVE  LET d == Schema(type, kind, One(x))
             IN /\ WellFormed(d) /\ d.type = type /\ Len(d.fields) = 1
                /\ d.fields[1] \in DescriptorField /\ d.fields[1].count = 1
                /\ d.fields[1].name = x /\ d.fields[1].kind = kind
  BY <1>3, <1>5, SchemaFacts
<1>8. Response = Schema("response", Operands, One("result"))
  BY DEF Response, One
<1>9. \A p \in Parameters : /\ SchemaOf(p) = Schema(p, Kind[p], One("value")) /\ p \in Names
                            /\ HasType(p) => Kind[p] \in Kinds
  BY MockAssumption DEF SchemaOf, One, Names, HasType
<1>10. \A t \in Topics : /\ Schema(t, Operands, <<"sequence">>) = Schema(t, Operands, One("sequence"))
                         /\ t \in Names
  BY MockAssumption DEF One, Names
<1>11. /\ WellFormed(Request) /\ Request.type = "request" /\ Len(Request.fields) = 2
       /\ \A n \in 1..2 : /\ Request.fields[n] \in DescriptorField
                          /\ Request.fields[n].name = two[n]
                          /\ Request.fields[n].kind = Operands /\ Request.fields[n].count = 1
  <2> DEFINE L == 2
  <2>1. L \in Nat /\ two \in [1..L -> Names] /\ \A m, n \in 1..L : two[m] = two[n] => m = n
    BY <1>2
  <2> HIDE DEF L
  <2> DEFINE d == Schema("request", Operands, two)
  <2>2. /\ WellFormed(d) /\ d.type = "request" /\ Len(d.fields) = L
        /\ \A n \in 1..L : /\ d.fields[n] \in DescriptorField /\ d.fields[n].name = two[n]
                           /\ d.fields[n].kind = Operands /\ d.fields[n].count = 1
    BY <1>1, <1>4, <2>1, SchemaFacts
  <2> HIDE DEF d
  <2> QED BY <1>6, <2>2 DEF L, d
<1>12. Response.type = "response" /\ Response.fields[1] \in DescriptorField /\ Response.fields[1].count = 1
  BY <1>1, <1>4, <1>7, <1>8
<1>13. ASSUME NEW p \in Parameters, HasType(p)
       PROVE  /\ WellFormed(SchemaOf(p)) /\ SchemaOf(p).type = p /\ Len(SchemaOf(p).fields) = 1
              /\ SchemaOf(p).fields[1] \in DescriptorField /\ SchemaOf(p).fields[1].count = 1
              /\ SchemaOf(p).fields[1].name = "value" /\ SchemaOf(p).fields[1].kind = Kind[p]
  BY <1>4, <1>7, <1>9, <1>13
<1>14. ASSUME NEW t \in Topics
       PROVE  LET schema == Schema(t, Operands, <<"sequence">>)
              IN schema.type = t /\ schema.fields[1] \in DescriptorField /\ schema.fields[1].count = 1
  BY <1>1, <1>4, <1>7, <1>10
<1> QED BY <1>2, <1>5, <1>11, <1>12, <1>13, <1>14

(* The checks done by hand agree with the codec's.                         *)
LEMMA ScalarAgrees ==
  ASSUME NEW kind \in Kinds, Sort[kind] # "BOOLEAN", NEW text \in Text
  PROVE  CheckScalar(kind, text) = "ok" <=> WriteScalar(kind, text).error = "ok"
<1>1. CASE Sort[kind] = "FLOATING_POINT"
  <2>1. CASE text[1] = "real" /\ text[2] = kind
    BY <1>1, <2>1, ResultFacts DEF CheckScalar, CheckReal, WriteScalar
  <2>2. CASE ~(text[1] = "real" /\ text[2] = kind) /\ text \in DOMAIN Nearest[kind]
    BY <1>1, <2>2, ResultFacts DEF CheckScalar, CheckReal, WriteScalar
  <2>3. CASE ~(text[1] = "real" /\ text[2] = kind) /\ text \notin DOMAIN Nearest[kind]
    <3>1. WriteScalar(kind, text) = Result(IF text = Empty THEN "EINVAL" ELSE "ERANGE", <<>>)
      BY <1>1, <2>3 DEF WriteScalar
    <3>2. WriteScalar(kind, text).error = IF text = Empty THEN "EINVAL" ELSE "ERANGE"
      BY <3>1, ResultFacts
    <3>3. CheckScalar(kind, text) = "EINVAL"
      BY <1>1, <2>3 DEF CheckScalar, CheckReal
    <3> QED BY <3>2, <3>3
  <2> QED BY <2>1, <2>2, <2>3
<1>2. CASE Sort[kind] \in {"SIGNED_INTEGER", "UNSIGNED_INTEGER"}
  <2>1. CheckScalar(kind, text) = CheckInteger(kind, text)
        /\ WriteScalar(kind, text) = WriteInteger(kind, text)
    BY <1>2 DEF CheckScalar, WriteScalar
  <2>2. CASE ~HasNumber(kind, text)
    BY <2>1, <2>2, ResultFacts DEF CheckInteger, WriteInteger
  <2>3. CASE HasNumber(kind, text)
    <3>1. text[2] \in Int
      BY <2>3, TextCases DEF HasNumber
    <3>2. InRange(kind, Size[kind], text[2]) => InRange(kind, WideSize, text[2])
      BY <3>1, InWide
    <3> QED BY <2>1, <2>3, <3>2, ResultFacts DEF CheckInteger, WriteInteger
  <2> QED BY <2>2, <2>3
<1>3. Sort[kind] \in {"BOOLEAN", "SIGNED_INTEGER", "UNSIGNED_INTEGER", "FLOATING_POINT"}
  BY CodecAssumption
<1> QED BY <1>1, <1>2, <1>3

LEMMA FieldAgrees ==
  ASSUME NEW f \in DescriptorField, f.count = 1, Sort[f.kind] # "BOOLEAN", NEW field \in Field
  PROVE  Taken(f, field) <=> field.name = f.name /\ CheckField(f, field) = "ok"
<1>1. f.kind \in Kinds /\ field.value \in Text
  BY DEF DescriptorField, Field
<1>2. CheckField(f, field) = "ok" <=>
        field.kind = f.kind /\ field.array = <<>> /\ CheckScalar(f.kind, field.value) = "ok"
  BY DEF CheckField
<1>3. Texts(f, field)[1] = field.value /\ (Shaped(f, field) <=> field.array = <<>>)
  BY DEF Texts, Shaped
<1>4. (1..f.count) = {1}
  OBVIOUS
<1>5. Taken(f, field) <=>
        /\ field.name = f.name /\ field.kind = f.kind /\ field.array = <<>>
        /\ WriteScalar(f.kind, field.value).error = "ok"
  BY <1>3, <1>4 DEF Taken
<1> QED BY <1>1, <1>2, <1>5, ScalarAgrees

LEMMA ServicesAgree ==
  ASSUME NEW input \in Snapshot, NEW output
  PROVE  ValidateService("add", input) = "ok" <=> Encode(Request, input, output, <<>>).error = "ok"
<1> DEFINE Fields(n) == input.fields[n]
           Wrong(n) ==
             \/ Fields(n).name \notin {"a", "b"}
             \/ n = 2 /\ Fields(1).name = Fields(2).name
           errors == [n \in 1..2 |-> IF Wrong(n) THEN "EINVAL"
                                     ELSE CheckField(Request.fields[1], Fields(n))]
<1>1. Encode(Request, input, output, <<>>).error = "ok" <=>
        /\ input.type = "request" /\ Len(input.fields) = 2
        /\ \A n \in 1..2 : WriteField(Request, input, n, Request.size) = "ok"
  <2> DEFINE d == Request
  <2>1. WellFormed(d) /\ d.type = "request" /\ Len(d.fields) = 2
    BY SchemasAre
  <2> HIDE DEF d
  <2>2. Encode(d, input, output, <<>>).error = "ok" <=>
          /\ input.type = d.type /\ Len(input.fields) = Len(d.fields)
          /\ \A n \in 1..Len(d.fields) : WriteField(d, input, n, d.size) = "ok"
    BY <2>1, Checked
  <2> QED BY <2>1, <2>2 DEF d
<1>2. ValidateService("add", input) = "ok" <=>
        input.type = "request" /\ Len(input.fields) = 2 /\ FirstError(errors) = "ok"
  BY DEF ValidateService
<1>3. FirstError(errors) = "ok" <=>
        \A n \in 1..2 : ~Wrong(n) /\ CheckField(Request.fields[1], Fields(n)) = "ok"
  <2>1. /\ DOMAIN errors = 1..2
        /\ \A n \in 1..2 : errors[n] = "ok" <=>
             ~Wrong(n) /\ CheckField(Request.fields[1], Fields(n)) = "ok"
    <3> HIDE DEF Wrong, Fields
    <3> QED OBVIOUS
  <2> HIDE DEF errors
  <2>2. FirstError(errors) = "ok" <=> \A n \in 1..2 : errors[n] = "ok"
    BY <2>1, NoErrors
  <2> QED BY <2>1, <2>2
<1>4. ASSUME Len(input.fields) = 2, NEW n \in 1..2
      PROVE  WriteField(Request, input, n, Request.size) = "ok" <=>
               ~Wrong(n) /\ CheckField(Request.fields[1], Fields(n)) = "ok"
  <2>1. Fields(n) \in Field
    BY <1>4 DEF Snapshot
  <2>2. UsedBefore(input, n) <=> n = 2 /\ Fields(1).name = Fields(2).name
    <3>1. CASE n = 1
      BY <3>1 DEF UsedBefore
    <3>2. CASE n = 2
      <4>1. \A m : m \in 1..(n - 1) <=> m = 1
        BY <3>2
      <4> QED BY <3>2, <4>1 DEF UsedBefore
    <3> QED BY <3>1, <3>2
  <2>3. \A i \in 1..2 : CheckField(Request.fields[i], Fields(n)) = CheckField(Request.fields[1], Fields(n))
    BY SchemasAre DEF CheckField
  <2>4. \A i \in 1..2 : Taken(Request.fields[i], Fields(n)) <=>
          /\ Fields(n).name = Request.fields[i].name
          /\ CheckField(Request.fields[i], Fields(n)) = "ok"
    <3>1. Sort[Operands] # "BOOLEAN"
      BY MockAssumption
    <3> HIDE DEF Fields
    <3> QED BY <2>1, <3>1, SchemasAre, FieldAgrees
  <2>5. (\E i \in 1..2 : Taken(Request.fields[i], Fields(n))) <=>
          Fields(n).name \in {"a", "b"} /\ CheckField(Request.fields[1], Fields(n)) = "ok"
    <3>1. Request.fields[1].name = "a" /\ Request.fields[2].name = "b"
      BY SchemasAre
    <3>2. \A i \in 1..2 : i = 1 \/ i = 2
      OBVIOUS
    <3> HIDE DEF Fields
    <3> QED BY <2>3, <2>4, <3>1, <3>2
  <2>6. WriteField(Request, input, n, Request.size) = "ok" <=>
          ~UsedBefore(input, n) /\ \E i \in 1..2 : Taken(Request.fields[i], Fields(n))
    BY SchemasAre, WriteFieldOk
  <2> QED BY <2>2, <2>5, <2>6
<1> HIDE DEF Wrong, Fields, errors
<1> QED BY <1>1, <1>2, <1>3, <1>4

LEMMA ParametersAgree ==
  ASSUME NEW p \in Parameters, HasType(p), NEW input \in Snapshot, NEW output
  PROVE  ValidateParameter(p, input) = "ok" <=>
           Encode(SchemaOf(p), input, output, <<>>).error = "ok"
<1> DEFINE d == SchemaOf(p)
           f == d.fields[1]
           field == input.fields[1]
<1>1. /\ WellFormed(d) /\ d.type = p /\ Len(d.fields) = 1
      /\ f \in DescriptorField /\ f.count = 1 /\ f.name = "value" /\ f.kind = Kind[p]
  BY SchemasAre
<1>2. Sort[f.kind] # "BOOLEAN" /\ p \in Writable
  BY <1>1, MockAssumption DEF HasType
<1>3. ValidateParameter(p, input) = "ok" <=>
        /\ input.type = p /\ Len(input.fields) = 1 /\ field.name = "value"
        /\ CheckField(f, field) = "ok"
  BY <1>2 DEF ValidateParameter
<1> HIDE DEF d, f, field
<1>4. Encode(d, input, output, <<>>).error = "ok" <=>
        /\ input.type = p /\ Len(input.fields) = 1
        /\ \A n \in 1..1 : WriteField(d, input, n, d.size) = "ok"
  BY <1>1, Checked
<1>5. WriteField(d, input, 1, d.size) = "ok" <=> Taken(f, field)
  <2>1. ~UsedBefore(input, 1)
    BY DEF UsedBefore
  <2>2. WriteField(d, input, 1, d.size) = "ok" <=>
          ~UsedBefore(input, 1) /\ \E i \in 1..1 : Taken(d.fields[i], input.fields[1])
    BY <1>1, WriteFieldOk
  <2> QED BY <2>1, <2>2 DEF f, field
<1>6. Len(input.fields) = 1 => field \in Field
  BY DEF Snapshot, field
<1>7. Len(input.fields) = 1 =>
        (Taken(f, field) <=> field.name = "value" /\ CheckField(f, field) = "ok")
  BY <1>1, <1>2, <1>6, FieldAgrees
<1>8. \A n : n \in 1..1 <=> n = 1
  OBVIOUS
<1> QED BY <1>3, <1>4, <1>5, <1>7, <1>8 DEF d

MockTyped ==
  /\ descriptor \in Schemas
  /\ form \in Snapshot
  /\ texts \in [Parameters -> Text]
  /\ sequence \in [Topics -> Nat]

LEMMA NumberTexts == Empty \in Text /\ \A n \in Int : <<"number", n>> \in Text
  BY DEF Text, Empty

LEMMA FilledTyped ==
  ASSUME NEW schema, schema.type \in Names, NEW L \in Nat, NEW values \in [1..L -> Text],
         \A n \in 1..L : schema.fields[n] \in DescriptorField /\ schema.fields[n].count = 1
  PROVE  Filled(schema, values) \in Snapshot
<1> DEFINE One(v) == <<v>>
           fields == [n \in 1..L |-> Shown(schema.fields[n], One(values[n]))]
<1>1. ASSUME NEW n \in 1..L PROVE Shown(schema.fields[n], One(values[n])) \in Field
  <2> DEFINE column == One(values[n])
             f == schema.fields[n]
  <2>1. \A v \in Text : One(v) \in [1..1 -> Text]
    OBVIOUS
  <2> HIDE DEF One
  <2>2. column \in [1..1 -> Text] /\ f \in DescriptorField /\ f.count = 1
    BY <2>1
  <2> HIDE DEF column, f
  <2>3. Shown(f, column) \in Field
    BY <2>2, ShownTexts DEF Column
  <2> QED BY <2>3 DEF column, f
<1>2. Filled(schema, values) = [type |-> schema.type, fields |-> fields]
  BY DEF Filled
<1>3. fields \in Seq(Field)
  <2> HIDE DEF One
  <2> QED BY <1>1
<1> HIDE DEF fields
<1> QED BY <1>2, <1>3 DEF Snapshot

(* The snapshots the mock answers with.                                    *)
LEMMA AnswersTyped ==
  /\ \A v, w \in Text : Filled(Request, <<v, w>>) \in Snapshot
  /\ \A v \in Text : Filled(Response, <<v>>) \in Snapshot
  /\ \A p \in Parameters, v \in Text : HasType(p) => Filled(SchemaOf(p), <<v>>) \in Snapshot
  /\ \A t \in Topics, v \in Text : Filled(Schema(t, Operands, <<"sequence">>), <<v>>) \in Snapshot
<1> DEFINE Pair(v, w) == <<v, w>>
           One(v) == <<v>>
           one == 1
           two == 2
<1>1. one \in Nat /\ two \in Nat
  OBVIOUS
<1>2. \A v, w \in Text : Pair(v, w) \in [1..two -> Text]
  OBVIOUS
<1>3. \A v \in Text : One(v) \in [1..one -> Text]
  OBVIOUS
<1>4. "request" \in Names /\ "response" \in Names /\ Parameters \subseteq Names /\ Topics \subseteq Names
  BY MockAssumption DEF Names
<1>5. \A n : n \in 1..one <=> n = 1
  OBVIOUS
<1>6. \A n \in 1..two : n \in 1..2
  OBVIOUS
<1> HIDE DEF Pair, One, one, two
<1>7. ASSUME NEW v \in Text, NEW w \in Text PROVE Filled(Request, Pair(v, w)) \in Snapshot
  <2>1. Request.type \in Names /\ \A n \in 1..two : /\ Request.fields[n] \in DescriptorField
                                                    /\ Request.fields[n].count = 1
    BY <1>4, <1>6, SchemasAre
  <2> QED BY <1>1, <1>2, <2>1, FilledTyped
<1>8. ASSUME NEW schema, schema.type \in Names, schema.fields[1] \in DescriptorField,
             schema.fields[1].count = 1, NEW v \in Text
      PROVE  Filled(schema, One(v)) \in Snapshot
  <2>1. \A n \in 1..one : schema.fields[n] \in DescriptorField /\ schema.fields[n].count = 1
    BY <1>5, <1>8
  <2> QED BY <1>1, <1>3, <1>8, <2>1, FilledTyped
<1>9. \A v \in Text : Filled(Response, One(v)) \in Snapshot
  BY <1>4, <1>8, SchemasAre
<1>10. \A p \in Parameters, v \in Text : HasType(p) => Filled(SchemaOf(p), One(v)) \in Snapshot
  <2>1. \A p \in Parameters : HasType(p) => SchemaOf(p).type \in Names
    BY <1>4, SchemasAre
  <2> QED BY <2>1, <1>8, SchemasAre
<1>11. \A t \in Topics, v \in Text :
         Filled(Schema(t, Operands, <<"sequence">>), One(v)) \in Snapshot
  <2> SUFFICES ASSUME NEW t \in Topics, NEW v \in Text
               PROVE  Filled(Schema(t, Operands, <<"sequence">>), One(v)) \in Snapshot
    OBVIOUS
  <2> DEFINE schema == Schema(t, Operands, <<"sequence">>)
  <2>1. schema.type = t /\ schema.fields[1] \in DescriptorField /\ schema.fields[1].count = 1
    BY SchemasAre
  <2> HIDE DEF schema
  <2>2. schema.type \in Names
    BY <1>4, <2>1
  <2>3. Filled(schema, One(v)) \in Snapshot
    BY <1>8, <2>1, <2>2
  <2> QED BY <2>3 DEF schema
<1> QED BY <1>7, <1>9, <1>10, <1>11 DEF Pair, One

(* Two operands that were taken are integers.                              *)
LEMMA OperandsAreIntegers ==
  ASSUME NEW service, NEW request \in Snapshot, ValidateService(service, request) = "ok"
  PROVE  Operand(request, "a") \in Int /\ Operand(request, "b") \in Int
<1> DEFINE Fields(n) == request.fields[n]
           Wrong(n) == Fields(n).name \notin {"a", "b"} \/ (n = 2 /\ Fields(1).name = Fields(2).name)
           errors == [n \in 1..2 |-> IF Wrong(n) THEN "EINVAL"
                                     ELSE CheckField(Request.fields[1], Fields(n))]
<1>1. Len(request.fields) = 2 /\ FirstError(errors) = "ok"
  BY DEF ValidateService
<1>2. \A n \in 1..2 : errors[n] = "ok"
  <2>1. DOMAIN errors = 1..2
    OBVIOUS
  <2> HIDE DEF errors
  <2> QED BY <1>1, <2>1, NoErrors
<1>3. ASSUME NEW n \in 1..2
      PROVE  Fields(n).name \in {"a", "b"} /\ Fields(n).value[2] \in Int
  <2>1. ~Wrong(n) /\ CheckField(Request.fields[1], Fields(n)) = "ok"
    BY <1>2
  <2>2. Request.fields[1].kind = Operands
    BY SchemasAre
  <2>3. Fields(n).value \in Text
    <3>1. request.fields \in Seq(Field) /\ n \in 1..Len(request.fields)
      BY <1>1 DEF Snapshot
    <3>2. request.fields[n] \in Field
      BY <3>1
    <3> QED BY <3>2 DEF Field
  <2> DEFINE text == Fields(n).value
  <2> HIDE DEF Fields
  <2>4. CheckScalar(Operands, text) = "ok"
    BY <2>1, <2>2 DEF CheckField
  <2>5. Sort[Operands] # "FLOATING_POINT"
    BY MockAssumption
  <2>6. text[1] = "number"
    BY <2>4, <2>5 DEF CheckScalar, CheckInteger
  <2> QED BY <2>1, <2>3, <2>6, TextCases
<1>4. Fields(1).name # Fields(2).name
  BY <1>2
<1>5. ASSUME NEW name \in {"a", "b"} PROVE Operand(request, name) \in Int
  <2>1. \E n \in 1..2 : Fields(n).name = name
    <3>1. Fields(1).name \in {"a", "b"} /\ Fields(2).name \in {"a", "b"}
      BY <1>3
    <3> HIDE DEF Fields
    <3> QED BY <1>4, <3>1
  <2> DEFINE at == CHOOSE n \in 1..2 : Fields(n).name = name
  <2>2. at \in 1..2
    BY <2>1
  <2>3. Operand(request, name) = Fields(at).value[2]
    BY DEF Operand
  <2> HIDE DEF at
  <2> QED BY <1>3, <2>2, <2>3
<1> QED BY <1>5

LEMMA MockTypedStep ==
  ASSUME Caller, MockTyped, [MockNext]_mockVars
  PROVE  MockTyped'
<1> USE DEF MockTyped
<1>1. ASSUME NEW p \in Parameters \cup {"unknown"}, MockGet(p) PROVE MockTyped'
  <2>1. form' \in Snapshot
    <3>1. CASE p \in Parameters /\ HasType(p)
      <4>1. form' = Filled(SchemaOf(p), <<texts[p]>>)
        BY <1>1, <3>1, ResultFacts DEF MockGet, Answer
      <4>2. texts[p] \in Text
        BY <3>1
      <4> QED BY <3>1, <4>1, <4>2, AnswersTyped
    <3>2. CASE ~(p \in Parameters /\ HasType(p))
      BY <1>1, <3>2, ResultFacts DEF MockGet, Answer
    <3> QED BY <3>1, <3>2
  <2> QED BY <1>1, <2>1 DEF MockGet, Unread
<1>2. ASSUME NEW p \in Parameters \cup {"unknown"}, MockSetNamed(p, Empty) PROVE MockTyped'
  <2>1. texts' \in [Parameters -> Text]
    BY <1>2, NumberTexts DEF MockSetNamed
  <2> QED BY <1>2, <2>1 DEF MockSetNamed, Unread
<1>3. ASSUME NEW p \in Parameters \cup {"unknown"}, NEW input \in Inputs, MockSet(p, input)
      PROVE  MockTyped'
  <2>1. input \in Snapshot
    BY InputsTyped
  <2>2. texts' \in [Parameters -> Text]
    <3>1. CASE ValidateParameter(p, input) = "ok"
      <4>1. Len(input.fields) = 1
        BY <3>1 DEF ValidateParameter
      <4>2. input.fields[1].value \in Text
        <5>1. input.fields \in Seq(Field) /\ 1 \in 1..Len(input.fields)
          BY <2>1, <4>1 DEF Snapshot
        <5>2. input.fields[1] \in Field
          BY <5>1
        <5> QED BY <5>2 DEF Field
      <4>3. texts' = [texts EXCEPT ![p] = input.fields[1].value]
        BY <1>3, <3>1 DEF MockSet
      <4> QED BY <4>2, <4>3
    <3>2. CASE ValidateParameter(p, input) # "ok"
      BY <1>3, <3>2 DEF MockSet
    <3> QED BY <3>1, <3>2
  <2> QED BY <1>3, <2>2 DEF MockSet, Unread
<1>4. ASSUME NEW type, MockPrepare(type) PROVE MockTyped'
  <2> DEFINE zero == <<"number", 0>>
  <2>1. zero \in Text
    BY NumberTexts
  <2>2. form' \in Snapshot
    <3>1. CASE type = "request"
      <4>1. form' = Filled(Request, <<zero, zero>>)
        BY <1>4, <3>1, ResultFacts DEF MockPrepare, Answer
      <4> HIDE DEF zero
      <4> QED BY <2>1, <4>1, AnswersTyped
    <3>2. CASE type = "response"
      <4>1. form' = Filled(Response, <<zero>>)
        BY <1>4, <3>2, ResultFacts DEF MockPrepare, Answer
      <4> HIDE DEF zero
      <4> QED BY <2>1, <4>1, AnswersTyped
    <3>3. CASE type # "request" /\ type # "response"
      BY <1>4, <3>3, ResultFacts DEF MockPrepare, Answer
    <3> QED BY <3>1, <3>2, <3>3
  <2> QED BY <1>4, <2>2 DEF MockPrepare, Unread
<1>5. ASSUME NEW service, NEW request \in Inputs, MockCall(service, request) PROVE MockTyped'
  <2> DEFINE why == ValidateService(service, request)
             a == Operand(request, "a")
             b == Operand(request, "b")
             sum == IF service = "add" THEN a + b ELSE a - b
             text == <<"number", sum>>
  <2>1. request \in Snapshot
    BY InputsTyped
  <2>2. /\ IF why # "ok" THEN Answer(Result(why, form))
           ELSE IF ~InRange(Operands, Size[Operands], sum) THEN Answer(Result("ERANGE", form))
           ELSE Answer(Result("ok", Filled(Response, <<text>>)))
        /\ UNCHANGED <<descriptor, storage, texts>> /\ Unread
    BY <1>5 DEF MockCall
  <2>3. why = "ok" => a \in Int /\ b \in Int
    BY <2>1, OperandsAreIntegers
  <2>4. why = "ok" => text \in Text
    <3> HIDE DEF why, a, b
    <3> QED BY <2>3, NumberTexts
  <2> HIDE DEF why, text, sum
  <2>5. form' = form \/ (why = "ok" /\ form' = Filled(Response, <<text>>))
    BY <2>2, ResultFacts DEF Answer
  <2>6. form' \in Snapshot
    BY <2>4, <2>5, AnswersTyped
  <2> QED BY <2>2, <2>6 DEF Unread
<1>6. ASSUME Edit, Unread, UNCHANGED texts PROVE MockTyped'
  <2>1. form' \in Snapshot
    BY <1>6, EditTyped
  <2> QED BY <1>6, <2>1 DEF Edit, Unread
<1>7. ASSUME NEW t, StartTopicEcho(t) PROVE MockTyped'
  BY <1>7 DEF StartTopicEcho, Untouched
<1>8. ASSUME NEW t, ReadTopicLatest(t) PROVE MockTyped'
  <2>1. CASE t \in Topics
    <3>1. sequence' = [sequence EXCEPT ![t] = @ + 1]
      BY <1>8, <2>1 DEF ReadTopicLatest
    <3>2. sequence' \in [Topics -> Nat] /\ sequence'[t] \in Int
      BY <2>1, <3>1
    <3> DEFINE text == <<"number", sequence'[t]>>
    <3>3. text \in Text
      BY <3>2, NumberTexts
    <3>4. form' = Filled(Schema(t, Operands, <<"sequence">>), <<text>>)
      BY <1>8, <2>1, ResultFacts DEF ReadTopicLatest, Answer
    <3> HIDE DEF text
    <3>5. form' \in Snapshot
      BY <2>1, <3>3, <3>4, AnswersTyped
    <3> QED BY <1>8, <3>2, <3>5 DEF ReadTopicLatest
  <2>2. CASE t \notin Topics
    BY <1>8, <2>2, ResultFacts DEF ReadTopicLatest, Answer
  <2> QED BY <2>1, <2>2
<1>9. CASE StopTopicEcho
  BY <1>9 DEF StopTopicEcho, Untouched
<1>10. CASE ReadTopicEcho
  <2>1. CASE ReadTopicLatest(echo)
    BY <1>8, <2>1
  <2>2. CASE UNCHANGED <<sequence, echo, heartbeat>> /\ Untouched
    BY <2>2 DEF Untouched
  <2> QED BY <1>10, <2>1, <2>2 DEF ReadTopicEcho
<1>11. CASE Refresh
  BY <1>11 DEF Refresh, Untouched
<1>12. CASE UNCHANGED mockVars
  BY <1>12 DEF mockVars, valueVars
<1> USE DEF MockTyped
<1>13. ASSUME MockNext PROVE MockTyped'
  <2> HIDE DEF MockTyped
  <2> QED BY <1>1, <1>2, <1>3, <1>4, <1>5, <1>6, <1>7, <1>8, <1>9, <1>10, <1>11, <1>13 DEF MockNext
<1> QED BY <1>12, <1>13

LEMMA MockTypedInit == MockInit => MockTyped
<1> SUFFICES ASSUME MockInit PROVE MockTyped
  OBVIOUS
<1>1. ASSUME NEW kind PROVE Initial(kind) \in Text
  <2>1. <<"other">> \in Text /\ <<"number", 0>> \in Text /\ <<"number", 1>> \in Text
    <3>1. <<"other">> \in Text
      BY DEF Text
    <3> QED BY <3>1, NumberTexts
  <2> QED BY <2>1 DEF Initial
<1>2. texts \in [Parameters -> Text]
  BY <1>1 DEF MockInit
<1> QED BY <1>2, NoSnapshotTyped DEF MockInit, CallerInit, MockTyped

(* The checks the mock makes by hand take a value exactly when the encoder *)
(* of the real backend would (ValidateParameter and ValidateService of     *)
(* mock_backend.cpp), whatever the caller has made of it.                  *)
THEOREM MockIsATrueDouble ==
  ASSUME Caller
  PROVE  MockSpec => []MockAgrees
<1>1. MockTyped => MockAgrees
  <2> SUFFICES ASSUME MockTyped, NEW input \in Inputs
               PROVE  LET why == IF descriptor.type = "request" THEN ValidateService("add", input)
                                 ELSE ValidateParameter(descriptor.type, input)
                      IN why = "ok" <=> Encode(descriptor, input, Payload(<<>>), <<>>).error = "ok"
    BY DEF MockAgrees
  <2>1. input \in Snapshot
    BY InputsTyped DEF MockTyped
  <2>2. CASE descriptor = Request
    <3>1. descriptor.type = "request"
      BY <2>2, SchemasAre
    <3> QED BY <2>1, <2>2, <3>1, ServicesAgree
  <2>3. CASE \E p \in Parameters : HasType(p) /\ descriptor = SchemaOf(p)
    <3>1. PICK p \in Parameters : HasType(p) /\ descriptor = SchemaOf(p)
      BY <2>3
    <3>2. descriptor.type = p /\ p # "request"
      BY <3>1, SchemasAre, MockAssumption
    <3> QED BY <2>1, <3>1, <3>2, ParametersAgree
  <2> QED BY <2>2, <2>3 DEF MockTyped, Schemas
<1>2. MockTyped /\ [MockNext]_mockVars => MockTyped'
  BY MockTypedStep
<1> QED
  BY <1>1, <1>2, MockTypedInit, PTL DEF MockSpec

(* The same promise of the mock: a call that fails leaves its caller's     *)
(* snapshot alone.                                                         *)
THEOREM MockFailuresKeepOutput == MockSpec => FailureKeepsOutput
<1> DEFINE Step == error' # "ok" => UNCHANGED <<form, storage>>
<1>1. ASSUME MockNext PROVE Step
  <2>1. \A p : MockGet(p) => Step
    BY ResultFacts DEF MockGet, Answer
  <2>2. \A p, text : MockSetNamed(p, text) => Step
    BY DEF MockSetNamed
  <2>3. \A p, input : MockSet(p, input) => Step
    BY DEF MockSet
  <2>4. \A type : MockPrepare(type) => Step
    BY ResultFacts DEF MockPrepare, Answer
  <2>5. \A service, request : MockCall(service, request) => Step
    BY ResultFacts DEF MockCall, Answer
  <2>6. Edit => Step
    BY DEF Edit
  <2>7. \A t : StartTopicEcho(t) => Step
    BY DEF StartTopicEcho, Untouched
  <2>8. \A t : ReadTopicLatest(t) => Step
    BY ResultFacts DEF ReadTopicLatest, Answer
  <2>9. StopTopicEcho => Step
    BY DEF StopTopicEcho, Untouched
  <2>10. ReadTopicEcho => Step
    BY <2>8 DEF ReadTopicEcho, Untouched
  <2>11. Refresh => Step
    BY DEF Refresh, Untouched
  <2> HIDE DEF Step
  <2> QED BY <1>1, <2>1, <2>2, <2>3, <2>4, <2>5, <2>6, <2>7, <2>8, <2>9, <2>10, <2>11 DEF MockNext
<1>2. [MockNext]_mockVars => [Step]_valueVars
  BY <1>1 DEF mockVars
<1> HIDE DEF Step
<1>3. MockSpec => [][Step]_valueVars
  BY <1>2, PTL DEF MockSpec
<1> QED
  BY <1>3 DEF FailureKeepsOutput, Step

=============================================================================
