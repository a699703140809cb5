--------------------------- MODULE Msgpack_proofs ---------------------------
(***************************************************************************)
(* For all widths of a byte, sizes of the buffer and limits of the forms:   *)
(* the bytes are bytes, a message comes out of the compresser and of the    *)
(* cipher as it went in, and what is unpacked is what was packed.           *)
(***************************************************************************)
EXTENDS Msgpack, SequenceTheorems, WellFoundedInduction, TLAPS

-----------------------------------------------------------------------------
(* Induction and recursion.                                                *)

\* What holds of a number if it holds of the one before holds of all.
LEMMA Upwards ==
    ASSUME NEW S, NEW N \in Nat, 0 \in S, \A n \in 0..(N - 1) : n \in S => n + 1 \in S
    PROVE  \A n \in 0..N : n \in S
  <1> DEFINE T == (0..N) \ S
             R == {ss \in Nat \X Nat : ss[1] < ss[2]}
  <1>1. IsWellFoundedOn(R, Nat)
    BY NatLessThanWellFounded DEF OpToRel
  <1>2. SUFFICES ASSUME T # {} PROVE FALSE
    OBVIOUS
  <1>3. T \subseteq Nat
    OBVIOUS
  <1> HIDE DEF R, T
  <1>4. PICK x \in T : \A y \in T : ~(<<y, x>> \in R)
    BY <1>1, <1>2, <1>3, WFMin
  <1>5. x \in 0..N /\ x \notin S /\ x # 0
    BY <1>4 DEF T
  <1>6. x - 1 \notin T
    <2>1. <<x - 1, x>> \in R
      BY <1>5 DEF R
    <2> QED BY <1>4, <2>1
  <1>7. x - 1 \in S
    BY <1>5, <1>6 DEF T
  <1> QED BY <1>5, <1>7

\* A function may be defined by what it is at 0 and by a step from each number to
\* the next.
Recursive(f, N, a, step) ==
    f = [n \in 0..N |-> IF n = 0 THEN a ELSE step[n][f[n - 1]]]

LEMMA Recursion ==
    ASSUME NEW S, NEW a \in S, NEW N \in Nat, NEW step \in [1..N -> [S -> S]]
    PROVE  \E f \in [0..N -> S] : Recursive(f, N, a, step)
  <1> DEFINE Is(g, m) == /\ g \in [0..m -> S] /\ g[0] = a
                         /\ \A n \in 1..m : g[n] = step[n][g[n - 1]]
             T == {m \in Nat : m <= N => \E g : Is(g, m)}
  <1>1. 0 \in T
    <2>1. Is([n \in 0..0 |-> a], 0)
      OBVIOUS
    <2> QED BY <2>1
  <1>2. ASSUME NEW m \in 0..(N - 1), m \in T PROVE m + 1 \in T
    <2>1. PICK g : Is(g, m)
      BY <1>2
    <2>2. m \in Nat /\ m + 1 \in 1..N /\ m \in 0..m
      OBVIOUS
    <2>3. step[m + 1][g[m]] \in S
      BY <2>1, <2>2
    <2>4. PICK h : h = [n \in 0..(m + 1) |-> IF n = m + 1 THEN step[m + 1][g[m]] ELSE g[n]]
      OBVIOUS
    <2>5. h \in [0..(m + 1) -> S]
      BY <2>1, <2>2, <2>3, <2>4
    <2>6. h[m + 1] = step[m + 1][g[m]] /\ \A n \in 0..m : h[n] = g[n]
      BY <2>2, <2>4
    <2>7. \A n \in 1..(m + 1) : h[n] = step[n][h[n - 1]]
      <3> SUFFICES ASSUME NEW n \in 1..(m + 1) PROVE h[n] = step[n][h[n - 1]]
        OBVIOUS
      <3>1. CASE n = m + 1
        BY <2>2, <2>6, <3>1
      <3>2. CASE n # m + 1
        <4>1. n \in 1..m /\ n - 1 \in 0..m /\ n \in 0..m
          BY <2>2, <3>2
        <4> QED BY <2>1, <2>6, <4>1
      <3> QED BY <3>1, <3>2
    <2>8. Is(h, m + 1)
      BY <2>1, <2>2, <2>5, <2>6, <2>7
    <2> HIDE DEF Is
    <2> QED BY <2>2, <2>8
  <1>3. N \in T
    <2> HIDE DEF T
    <2>1. \A n \in 0..N : n \in T
      BY <1>1, <1>2, Upwards
    <2> QED BY <2>1
  <1>4. PICK g : Is(g, N)
    BY <1>3
  <1>5. g = [n \in 0..N |-> IF n = 0 THEN a ELSE step[n][g[n - 1]]]
    BY <1>4
  <1> QED BY <1>4, <1>5 DEF Recursive
-----------------------------------------------------------------------------
(* Powers.                                                                 *)

LEMMA BitsIs == Bits \in Nat /\ Bits >= 3
  BY MsgpackAssumption

LEMMA PowerIs ==
    /\ Power2[0] = 1
    /\ \A n \in 0..Bits : Power2[n] \in Nat
    /\ \A n \in 1..Bits : Power2[n] = 2 * Power2[n - 1]
  <1> DEFINE step == [n \in 1..Bits |-> [s \in Nat |-> 2 * s]]
  <1>1. step \in [1..Bits -> [Nat -> Nat]]
    OBVIOUS
  <1> HIDE DEF step
  <1>2. PICK f \in [0..Bits -> Nat] : Recursive(f, Bits, 1, step)
    BY <1>1, BitsIs, Recursion
  <1>3. f = [n \in 0..Bits |-> IF n = 0 THEN 1 ELSE 2 * f[n - 1]]
    <2>1. ASSUME NEW n \in 1..Bits PROVE step[n][f[n - 1]] = 2 * f[n - 1]
      <3>1. n - 1 \in 0..Bits
        BY BitsIs
      <3> QED BY <1>2, <3>1 DEF step
    <2>2. \A n \in 0..Bits : n # 0 => n \in 1..Bits
      BY BitsIs
    <2> QED BY <1>2, <2>1, <2>2 DEF Recursive
  <1>4. Power2 = [n \in 0..Bits |-> IF n = 0 THEN 1 ELSE 2 * Power2[n - 1]]
    BY <1>3 DEF Power2
  <1>5. 0 \in 0..Bits /\ \A n \in 1..Bits : n \in 0..Bits /\ n # 0
    BY BitsIs
  <1>6. Power2[0] = 1 /\ \A n \in 1..Bits : Power2[n] = 2 * Power2[n - 1]
    BY <1>4, <1>5
  <1> DEFINE T == {n \in Nat : Power2[n] \in Nat}
  <1>7. \A n \in 0..Bits : n \in T
    <2>1. 0 \in T
      BY <1>6
    <2>2. ASSUME NEW n \in 0..(Bits - 1), n \in T PROVE n + 1 \in T
      <3>1. n + 1 \in 1..Bits /\ (n + 1) - 1 = n
        BY BitsIs
      <3> QED BY <1>6, <2>2, <3>1
    <2> HIDE DEF T
    <2> QED BY <2>1, <2>2, BitsIs, Upwards
  <1> QED BY <1>6, <1>7

\* Every power is more than its exponent.
LEMMA PowerGrows == \A n \in 0..Bits : Power2[n] > n
  <1> DEFINE T == {n \in Nat : Power2[n] > n}
  <1>1. 0 \in T
    BY PowerIs
  <1>2. ASSUME NEW n \in 0..(Bits - 1), n \in T PROVE n + 1 \in T
    <2>1. n + 1 \in 1..Bits /\ (n + 1) - 1 = n /\ n \in 0..Bits /\ n \in Nat
      BY BitsIs
    <2>2. Power2[n + 1] = 2 * Power2[n] /\ Power2[n] \in Nat /\ Power2[n] > n
      BY <1>2, <2>1, PowerIs
    <2> QED BY <2>1, <2>2
  <1>3. \A n \in 0..Bits : n \in T
    <2> HIDE DEF T
    <2> QED BY <1>1, <1>2, BitsIs, Upwards
  <1> QED BY <1>3

\* A byte has a number of values that eight divides.
LEMMA BIs == B \in Nat /\ B >= 8 /\ B % 8 = 0 /\ Bits < B \div 2
  <1>1. /\ Bits \in 0..Bits /\ Bits \in 1..Bits /\ Bits - 1 \in 1..Bits /\ Bits - 2 \in 1..Bits
        /\ Bits - 3 \in 0..Bits /\ Bits - 1 \in 0..Bits
        /\ (Bits - 1) - 1 = Bits - 2 /\ (Bits - 2) - 1 = Bits - 3
    BY BitsIs
  <1>2. PICK a, b, c, d : a = Power2[Bits] /\ b = Power2[Bits - 1] /\ c = Power2[Bits - 2]
                          /\ d = Power2[Bits - 3]
    OBVIOUS
  <1>3. /\ a \in Nat /\ d \in Nat /\ d > 0 /\ a = 2 * b /\ b = 2 * c /\ c = 2 * d
        /\ d > Bits - 3
    BY <1>1, <1>2, PowerIs, PowerGrows, BitsIs
  <1>4. a = 8 * d /\ d >= 1 /\ d >= Bits - 2
    BY <1>3, BitsIs
  <1>5. a \div 2 = 4 * d /\ a % 8 = 0
    BY <1>3, <1>4
  <1> QED BY <1>2, <1>3, <1>4, <1>5, BitsIs DEF B

LEMMA ValuesIs ==
    /\ Values[0] = 1
    /\ \A k \in 0..8 : Values[k] \in Nat /\ Values[k] > 0
    /\ \A k \in 1..8 : Values[k] = B * Values[k - 1]
  <1> DEFINE step == [n \in 1..8 |-> [s \in Nat |-> B * s]]
  <1>1. step \in [1..8 -> [Nat -> Nat]]
    <2>1. \A s \in Nat : B * s \in Nat
      BY BIs
    <2> QED BY <2>1
  <1> HIDE DEF step
  <1>2. PICK f \in [0..8 -> Nat] : Recursive(f, 8, 1, step)
    BY <1>1, Recursion
  <1>3. f = [k \in 0..8 |-> IF k = 0 THEN 1 ELSE B * f[k - 1]]
    <2>1. \A n \in 1..8 : step[n][f[n - 1]] = B * f[n - 1]
      BY <1>2 DEF step
    <2> QED BY <1>2, <2>1 DEF Recursive
  <1>4. Values = [k \in 0..8 |-> IF k = 0 THEN 1 ELSE B * Values[k - 1]]
    BY <1>3 DEF Values
  <1>5. Values[0] = 1 /\ \A k \in 1..8 : Values[k] = B * Values[k - 1]
    BY <1>4
  <1> DEFINE T == {k \in Nat : Values[k] \in Nat /\ Values[k] > 0}
  <1>6. \A k \in 0..8 : k \in T
    <2>1. 0 \in T
      BY <1>5
    <2>2. ASSUME NEW k \in 0..(8 - 1), k \in T PROVE k + 1 \in T
      <3>1. k + 1 \in 1..8 /\ (k + 1) - 1 = k
        OBVIOUS
      <3>2. Values[k + 1] = B * Values[k]
        BY <1>5, <3>1
      <3>3. \A x, y \in Nat : x > 0 /\ y > 0 => x * y \in Nat /\ x * y > 0
        OBVIOUS
      <3> QED BY <2>2, <3>2, <3>3, BIs
    <2> HIDE DEF T
    <2>3. 8 \in Nat
      OBVIOUS
    <2> QED BY <2>1, <2>2, <2>3, Upwards
  <1> QED BY <1>5, <1>6
-----------------------------------------------------------------------------
(* Division.                                                               *)

LEMMA Product ==
    ASSUME NEW i \in Int, NEW j \in Int, NEW k \in Int
    PROVE  /\ i * k \in Int /\ (i + j) * k = i * k + j * k /\ (i - j) * k = i * k - j * k
           /\ i * (j * k) = (i * j) * k /\ i * k = k * i
  BY Z3

LEMMA Positive ==
    ASSUME NEW i \in Nat, NEW j \in Nat
    PROVE  i * j \in Nat /\ (i > 0 /\ j > 0 => i * j > 0)
  BY Z3

LEMMA Monotone ==
    ASSUME NEW i \in Int, NEW j \in Int, NEW d \in Nat \ {0}
    PROVE  i * d < j * d + d => i <= j
  BY Z3

LEMMA Division ==
    ASSUME NEW x \in Int, NEW d \in Nat \ {0}
    PROVE  x \div d \in Int /\ (x \div d) * d <= x /\ x < (x \div d) * d + d
  BY Z3

LEMMA Remainder ==
    ASSUME NEW x \in Int, NEW d \in Nat \ {0}
    PROVE  x % d \in 0..(d - 1) /\ x = (x \div d) * d + (x % d)
  BY Z3

LEMMA DivisionIs ==
    ASSUME NEW x \in Int, NEW d \in Nat \ {0}, NEW q \in Int, q * d <= x, x < q * d + d
    PROVE  x \div d = q
  <1>1. PICK p : p = x \div d
    OBVIOUS
  <1>2. p \in Int /\ p * d <= x /\ x < p * d + d
    BY <1>1, Division
  <1>3. p * d \in Int /\ q * d \in Int
    BY <1>2, Product
  <1>4. p * d < q * d + d /\ q * d < p * d + d
    BY <1>2, <1>3
  <1>5. p <= q /\ q <= p
    BY <1>2, <1>4, Monotone
  <1> QED BY <1>1, <1>2, <1>5

LEMMA RemainderIs ==
    ASSUME NEW x \in Int, NEW d \in Nat \ {0}, NEW q \in Int, NEW r \in 0..(d - 1), x = q * d + r
    PROVE  x \div d = q /\ x % d = r
  <1>1. q * d \in Int
    BY Product
  <1>2. q * d <= x /\ x < q * d + d
    BY <1>1
  <1>3. x \div d = q
    BY <1>2, DivisionIs
  <1>4. x = q * d + (x % d) /\ x % d \in 0..(d - 1)
    BY <1>3, Remainder
  <1> QED BY <1>1, <1>3, <1>4

\* A multiple of the divisor only adds to the quotient.
LEMMA DivisionAdd ==
    ASSUME NEW x \in Int, NEW m \in Int, NEW d \in Nat \ {0}
    PROVE  (x + m * d) \div d = x \div d + m /\ (x + m * d) % d = x % d
  <1>1. PICK q, r, y : q = x \div d /\ r = x % d /\ y = x + m * d
    OBVIOUS
  <1>2. q \in Int /\ r \in 0..(d - 1) /\ x = q * d + r
    BY <1>1, Division, Remainder
  <1>3. (q + m) * d = q * d + m * d /\ q * d \in Int /\ m * d \in Int /\ q + m \in Int
    BY <1>2, Product
  <1>4. y \in Int /\ y = (q + m) * d + r
    BY <1>1, <1>2, <1>3
  <1>5. y \div d = q + m /\ y % d = r
    BY <1>2, <1>3, <1>4, RemainderIs
  <1> QED BY <1>1, <1>5

\* To divide by a product is to divide twice.
LEMMA DivisionTwice ==
    ASSUME NEW x \in Int, NEW c \in Nat \ {0}, NEW d \in Nat \ {0}
    PROVE  x \div (c * d) = (x \div d) \div c
  <1>1. PICK q, p, e : q = x \div d /\ p = q \div c /\ e = c * d
    OBVIOUS
  <1>2. q \in Int /\ q * d <= x /\ x < q * d + d
    BY <1>1, Division
  <1>3. p \in Int /\ p * c <= q /\ q < p * c + c
    BY <1>1, <1>2, Division
  <1>4. p * c \in Int /\ q + 1 <= p * c + c
    BY <1>2, <1>3, Product
  <1>5. e \in Nat \ {0} /\ p * e = (p * c) * d
    BY <1>1, <1>3, Positive, Product
  <1>6. (p * c) * d <= q * d
    <2>1. PICK a : a = p * c
      OBVIOUS
    <2>2. a \in Int /\ a <= q
      BY <1>3, <1>4, <2>1
    <2>3. a * d <= q * d
      BY <1>2, <2>2, Z3
    <2> QED BY <2>1, <2>3
  <1>7. (q + 1) * d <= (p * c) * d + e
    <2>1. PICK a, b : a = p * c + c /\ b = q + 1
      OBVIOUS
    <2>2. a \in Int /\ b \in Int /\ b <= a
      BY <1>2, <1>4, <2>1
    <2>3. b * d <= a * d
      BY <2>2, Z3
    <2>4. a * d = (p * c) * d + c * d
      BY <1>4, <2>1, Product
    <2> QED BY <1>1, <2>1, <2>3, <2>4
  <1>8. (q + 1) * d = q * d + 1 * d /\ 1 * d = d /\ q * d \in Int /\ (p * c) * d \in Int
    BY <1>2, <1>4, Product
  <1>9. p * e <= x /\ x < p * e + e
    BY <1>2, <1>5, <1>6, <1>7, <1>8
  <1> QED BY <1>1, <1>3, <1>5, <1>9, DivisionIs
-----------------------------------------------------------------------------
(* The flag of a group of the compresser.                                  *)

HasBit(x, j) == (x \div Power2[j]) % 2 = 1

\* A power is an even multiple of all those below it.
LEMMA PowerSplit ==
    ASSUME NEW j \in 0..(Bits - 1), NEW n \in (j + 1)..Bits
    PROVE  \E m \in Nat \ {0} : Power2[n] = (2 * m) * Power2[j]
  <1> DEFINE T == {i \in Nat : \E m \in Nat \ {0} : Power2[j + 1 + i] = (2 * m) * Power2[j]}
  <1>1. j \in Nat /\ j + 1 \in 1..Bits /\ j \in 0..Bits /\ (j + 1) - 1 = j /\ n - 1 - j \in Nat
    BY BitsIs
  <1>2. 0 \in T
    <2>1. Power2[j + 1] = 2 * Power2[j]
      BY <1>1, PowerIs
    <2>2. 1 \in Nat \ {0} /\ Power2[j + 1 + 0] = (2 * 1) * Power2[j]
      BY <1>1, <2>1
    <2>3. \E m \in Nat \ {0} : Power2[j + 1 + 0] = (2 * m) * Power2[j]
      BY <2>2
    <2> QED BY <2>3
  <1>3. ASSUME NEW i \in 0..((n - 1 - j) - 1), i \in T PROVE i + 1 \in T
    <2>1. PICK m \in Nat \ {0} : Power2[j + 1 + i] = (2 * m) * Power2[j]
      BY <1>3
    <2>2. j + 1 + (i + 1) \in 1..Bits /\ (j + 1 + (i + 1)) - 1 = j + 1 + i /\ i + 1 \in Nat
      BY <1>1, BitsIs
    <2>3. Power2[j + 1 + (i + 1)] = 2 * Power2[j + 1 + i]
      BY <2>2, PowerIs
    <2>4. PICK p : p = Power2[j]
      OBVIOUS
    <2>5. p \in Nat /\ 2 * ((2 * m) * p) = (2 * (2 * m)) * p /\ 2 * m \in Nat \ {0}
      BY <1>1, <2>4, PowerIs, Product
    <2>6. Power2[j + 1 + (i + 1)] = (2 * (2 * m)) * p
      BY <2>1, <2>3, <2>4, <2>5
    <2>7. \E c \in Nat \ {0} : Power2[j + 1 + (i + 1)] = (2 * c) * Power2[j]
      BY <2>4, <2>5, <2>6
    <2> QED BY <2>2, <2>7
  <1>4. n - 1 - j \in T
    <2> HIDE DEF T
    <2>1. \A i \in 0..(n - 1 - j) : i \in T
      BY <1>1, <1>2, <1>3, Upwards
    <2> QED BY <1>1, <2>1
  <1>5. j + 1 + (n - 1 - j) = n
    BY <1>1
  <1> QED BY <1>4, <1>5

\* With a power added that is more than the flag, the flag has one bit more.
LEMMA BitAdded ==
    ASSUME NEW x \in Nat, NEW n \in 0..(Bits - 1), x < Power2[n], NEW j \in 0..(Bits - 1)
    PROVE  /\ HasBit(x + Power2[n], j) <=> j = n \/ (j < n /\ HasBit(x, j))
           /\ HasBit(x, j) => j < n
           /\ x + Power2[n] < Power2[n + 1] /\ x < Power2[n + 1]
  <1>1. PICK p, q : p = Power2[j] /\ q = Power2[n]
    OBVIOUS
  <1>2. /\ j \in 0..Bits /\ n \in 0..Bits /\ n + 1 \in 1..Bits /\ (n + 1) - 1 = n
        /\ j \in Nat /\ n \in Nat
    BY BitsIs
  <1>3. p \in Nat \ {0} /\ q \in Nat \ {0} /\ Power2[n + 1] = 2 * q
    BY <1>1, <1>2, PowerIs, PowerGrows
  <1>4. CASE j < n
    <2>1. n \in (j + 1)..Bits
      BY <1>2, <1>4
    <2>2. PICK m \in Nat \ {0} : q = (2 * m) * p
      BY <1>1, <2>1, PowerSplit
    <2>3. PICK k : k = 2 * m
      OBVIOUS
    <2>4. k \in Nat /\ q = k * p /\ k = m * 2
      BY <2>2, <2>3
    <2>5. (x + k * p) \div p = x \div p + k
      <3>1. x \in Int /\ k \in Int /\ p \in Nat \ {0}
        BY <1>3, <2>4
      <3> QED BY <3>1, DivisionAdd
    <2>6. PICK y : y = x \div p
      OBVIOUS
    <2>7. y \in Int
      BY <1>3, <2>6, Division
    <2>8. (y + m * 2) % 2 = y % 2
      BY <2>7, DivisionAdd
    <2>9. HasBit(x + q, j) <=> HasBit(x, j)
      BY <1>1, <2>4, <2>5, <2>6, <2>8 DEF HasBit
    <2> QED
      BY <1>1, <1>3, <1>4, <2>9
  <1>5. CASE j = n
    <2>1. x \div p = 0 /\ (x + p) \div p = 1
      <3>1. 0 * p = 0 /\ 1 * p = p
        BY <1>3
      <3> QED BY <1>1, <1>3, <1>5, <3>1, DivisionIs
    <2> QED BY <1>1, <1>3, <1>5, <2>1 DEF HasBit
  <1>6. CASE j > n
    <2>1. j \in (n + 1)..Bits
      BY <1>2, <1>6
    <2>2. PICK m \in Nat \ {0} : p = (2 * m) * q
      BY <1>1, <2>1, PowerSplit
    <2>3. p >= 2 * q
      <3>1. (2 * m) * q = 2 * (m * q) /\ m * q >= q
        BY <1>3, Z3
      <3> QED BY <1>3, <2>2, <3>1, Product
    <2>4. x \div p = 0 /\ (x + q) \div p = 0
      <3>1. 0 * p = 0 /\ x < p /\ x + q < p
        BY <1>1, <1>3, <2>3
      <3>2. x \div p = 0
        BY <1>3, <3>1, DivisionIs, SMTT(30)
      <3>3. PICK y : y = x + q
        OBVIOUS
      <3>4. y \in Nat /\ y < p /\ 0 <= y
        BY <1>3, <3>1, <3>3
      <3>5. y \div p = 0
        BY <1>3, <3>1, <3>4, DivisionIs, SMTT(30)
      <3> QED BY <3>2, <3>3, <3>5
    <2> QED BY <1>1, <1>2, <1>3, <1>6, <2>4 DEF HasBit
  <1> QED BY <1>2, <1>4, <1>5, <1>6
-----------------------------------------------------------------------------
(* A group of the compresser.                                              *)

LEMMA ByteIs ==
    /\ Zero \in Byte
    /\ \A n \in 0..(B - 1) : Data(n) \in Byte /\ Data(n).n = n /\ Data(n).of = "data"
    /\ \A b \in Byte : b.n \in Nat
  <1>1. \A n \in 0..(B - 1) : Data(n) \in Byte /\ Data(n).n = n /\ Data(n).of = "data"
    BY DEF Data, Byte
  <1>2. 0 \in 0..(B - 1)
    BY BIs
  <1>3. \A b \in Byte : b.n \in Nat
    BY BIs, MsgpackAssumption DEF Byte, Widths
  <1> QED BY <1>1, <1>2, <1>3 DEF Zero

\* The flag has a bit for each byte that is not zero, and c counts them: the byte at n,
\* when it is not zero, is the one of number c[n] that is kept.
IsGroup(bytes, flag, kept, c) ==
    /\ flag \in 0..(B - 1) /\ kept \in Seq(Byte)
    /\ \A j \in 0..(Bits - 1) : HasBit(flag, j) <=> j < Len(bytes) /\ bytes[j + 1] # Zero
    /\ c \in [0..Len(bytes) -> Nat] /\ c[0] = 0
    /\ \A n \in 1..Len(bytes) :
          /\ c[n] = IF bytes[n] = Zero THEN c[n - 1] ELSE c[n - 1] + 1
          /\ c[n] <= Len(kept) /\ (bytes[n] # Zero => kept[c[n]] = bytes[n])
    /\ c[Len(bytes)] = Len(kept)

GroupStates == [flag : Nat, kept : Seq(Byte)]
GroupStep(bytes, n, s) ==
    IF bytes[n] = Zero THEN s
    ELSE [flag |-> s.flag + Power2[n - 1], kept |-> Append(s.kept, bytes[n])]
GroupBy(bytes, f) ==
    f = [n \in 0..Len(bytes) |-> IF n = 0 THEN [flag |-> 0, kept |-> << >>]
                                 ELSE GroupStep(bytes, n, f[n - 1])]

\* The equation by which compress_group is defined has a solution.
LEMMA GroupDefined ==
    ASSUME NEW bytes \in Seq(Byte), Len(bytes) <= Bits
    PROVE  \E f \in [0..Len(bytes) -> GroupStates] :
              /\ GroupBy(bytes, f)
              /\ compress_group(bytes) = <<Data(f[Len(bytes)].flag)>> \o f[Len(bytes)].kept
  <1> DEFINE S == GroupStates
             N == Len(bytes)
             a == [flag |-> 0, kept |-> << >>]
             step == [n \in 1..N |-> [s \in S |-> GroupStep(bytes, n, s)]]
  <1>1. N \in Nat /\ \A n \in 1..N : bytes[n] \in Byte /\ n - 1 \in 0..Bits /\ n - 1 \in 0..N
    BY BitsIs
  <1>2. a \in S
    BY DEF GroupStates
  <1>3. ASSUME NEW n \in 1..N, NEW s \in S PROVE GroupStep(bytes, n, s) \in S
    <2>1. s.flag \in Nat /\ s.kept \in Seq(Byte) /\ Power2[n - 1] \in Nat /\ bytes[n] \in Byte
      BY <1>1, <1>3, PowerIs DEF GroupStates
    <2>2. Append(s.kept, bytes[n]) \in Seq(Byte) /\ s.flag + Power2[n - 1] \in Nat
      BY <2>1
    <2> QED BY <2>2, <1>3 DEF GroupStep, GroupStates
  <1>4. step \in [1..N -> [S -> S]]
    BY <1>3
  <1> HIDE DEF S, step, a
  <1>5. PICK f \in [0..N -> S] : Recursive(f, N, a, step)
    BY <1>1, <1>2, <1>4, Recursion
  <1>6. GroupBy(bytes, f)
    <2>1. ASSUME NEW n \in 1..N PROVE step[n][f[n - 1]] = GroupStep(bytes, n, f[n - 1])
      <3>1. f[n - 1] \in S
        BY <1>1, <1>5
      <3> QED BY <3>1 DEF step
    <2>2. \A n \in 0..N : n # 0 => n \in 1..N
      BY <1>1
    <2> QED BY <1>5, <2>1, <2>2 DEF Recursive, GroupBy, a
  <1>7. PICK g : g = CHOOSE h : GroupBy(bytes, h)
    OBVIOUS
  <1>8. GroupBy(bytes, g)
    BY <1>6, <1>7
  <1>9. compress_group(bytes) = <<Data(g[Len(bytes)].flag)>> \o g[Len(bytes)].kept
    BY <1>7 DEF compress_group, GroupBy, GroupStep
  <1>10. g \in [0..N -> S]
    <2> DEFINE T == {n \in Nat : g[n] \in S}
    <2>1. DOMAIN g = 0..N /\ g[0] = a /\ \A n \in 1..N : g[n] = GroupStep(bytes, n, g[n - 1])
      BY <1>1, <1>8 DEF GroupBy, a
    <2>2. 0 \in T
      BY <1>2, <2>1
    <2>3. ASSUME NEW n \in 0..(N - 1), n \in T PROVE n + 1 \in T
      <3>1. n + 1 \in 1..N /\ (n + 1) - 1 = n
        BY <1>1
      <3> QED BY <1>3, <2>1, <2>3, <3>1 DEF S
    <2> HIDE DEF T
    <2>4. \A n \in 0..N : n \in T
      BY <1>1, <2>2, <2>3, Upwards
    <2> USE DEF T
    <2>5. \A n \in 0..N : g[n] \in S
      BY <2>4
    <2> QED BY <1>8, <2>5 DEF GroupBy
  <1> QED BY <1>8, <1>9, <1>10 DEF S

\* A group is its flag and the bytes that are kept.
LEMMA GroupIs ==
    ASSUME NEW bytes \in Seq(Byte), Len(bytes) <= Bits
    PROVE  \E flag, kept, c : /\ compress_group(bytes) = <<Data(flag)>> \o kept
                              /\ IsGroup(bytes, flag, kept, c)
  <1> DEFINE N == Len(bytes)
  <1>1. PICK f \in [0..N -> GroupStates] :
              GroupBy(bytes, f) /\ compress_group(bytes) = <<Data(f[N].flag)>> \o f[N].kept
    BY GroupDefined
  <1>2. /\ N \in Nat /\ N <= Bits /\ N \in 0..N
        /\ \A n \in 1..N : bytes[n] \in Byte /\ n \in 0..N /\ n - 1 \in 0..N /\ n \in Nat
    OBVIOUS
  <1>3. \A n \in 0..N : f[n].flag \in Nat /\ f[n].kept \in Seq(Byte) /\ Len(f[n].kept) \in Nat
    BY <1>1 DEF GroupStates
  <1>4. f[0] = [flag |-> 0, kept |-> << >>] /\ \A n \in 1..N : f[n] = GroupStep(bytes, n, f[n - 1])
    BY <1>1, <1>2 DEF GroupBy
  <1>5. f[0].flag = 0 /\ f[0].kept = << >>
    BY <1>4
  <1>6. \A n \in 1..N : bytes[n] = Zero => f[n] = f[n - 1]
    BY <1>4 DEF GroupStep
  <1>7. ASSUME NEW n \in 1..N, bytes[n] # Zero
        PROVE  /\ f[n].flag = f[n - 1].flag + Power2[n - 1]
               /\ f[n].kept = Append(f[n - 1].kept, bytes[n])
    <2>1. f[n] = [flag |-> f[n - 1].flag + Power2[n - 1], kept |-> Append(f[n - 1].kept, bytes[n])]
      BY <1>4, <1>7 DEF GroupStep
    <2> QED BY <2>1
  <1> DEFINE Flags(n) == /\ f[n].flag < Power2[n]
                         /\ \A j \in 0..(Bits - 1) :
                               HasBit(f[n].flag, j) <=> j < n /\ bytes[j + 1] # Zero
             T == {n \in Nat : Flags(n)}
  <1>8. 0 \in T
    <2>1. ASSUME NEW j \in 0..(Bits - 1) PROVE ~HasBit(0, j)
      <3>1. PICK p : p = Power2[j]
        OBVIOUS
      <3>2. j \in 0..Bits /\ j \in Nat
        BY BitsIs
      <3>3. p \in Nat \ {0}
        BY <3>1, <3>2, PowerIs, PowerGrows
      <3>4. 0 * p = 0 /\ 0 <= 0 /\ 0 < 0 * p + p
        BY <3>3
      <3>5. 0 \div p = 0
        BY <3>3, <3>4, DivisionIs
      <3> QED BY <3>1, <3>5 DEF HasBit
    <2> QED BY <1>5, <2>1, PowerIs
  <1>9. ASSUME NEW n \in 0..(N - 1), n \in T PROVE n + 1 \in T
    <2>1. n + 1 \in 1..N /\ (n + 1) - 1 = n /\ n \in 0..(Bits - 1) /\ n \in 0..N /\ n + 1 \in Nat
      BY <1>2, BitsIs
    <2>2. PICK x : x = f[n].flag
      OBVIOUS
    <2>3. x \in Nat /\ x < Power2[n] /\
          \A j \in 0..(Bits - 1) : HasBit(x, j) <=> j < n /\ bytes[j + 1] # Zero
      BY <1>3, <1>9, <2>1, <2>2
    <2>4. \A j \in 0..(Bits - 1) : /\ HasBit(x + Power2[n], j) <=> j = n \/ (j < n /\ HasBit(x, j))
                                   /\ x + Power2[n] < Power2[n + 1] /\ x < Power2[n + 1]
      BY <2>1, <2>3, BitAdded
    <2>5. x + Power2[n] < Power2[n + 1] /\ x < Power2[n + 1]
      BY <2>1, <2>4
    <2>6. CASE bytes[n + 1] = Zero
      <3>1. f[n + 1].flag = x
        BY <1>6, <2>1, <2>2, <2>6
      <3>2. \A j \in 0..(Bits - 1) :
                j < n + 1 /\ bytes[j + 1] # Zero <=> j < n /\ bytes[j + 1] # Zero
        BY <2>1, <2>6
      <3> QED BY <2>1, <2>3, <2>5, <3>1, <3>2
    <2>7. CASE bytes[n + 1] # Zero
      <3>1. f[n + 1].flag = x + Power2[n]
        BY <1>7, <2>1, <2>2, <2>7
      <3>2. ASSUME NEW j \in 0..(Bits - 1)
            PROVE  j < n + 1 /\ bytes[j + 1] # Zero <=> j = n \/ (j < n /\ bytes[j + 1] # Zero)
        BY <2>1, <2>7
      <3>3. ASSUME NEW j \in 0..(Bits - 1)
            PROVE  HasBit(f[n + 1].flag, j) <=> j < n + 1 /\ bytes[j + 1] # Zero
        BY <2>3, <2>4, <3>1, <3>2
      <3> QED BY <2>1, <2>5, <3>1, <3>3
    <2> QED BY <2>6, <2>7
  <1>10. \A n \in 0..N : Flags(n)
    <2> HIDE DEF T
    <2>1. \A n \in 0..N : n \in T
      BY <1>2, <1>8, <1>9, Upwards
    <2> USE DEF T
    <2> QED BY <2>1
  <1> DEFINE Prefix(m, n) == /\ Len(f[m].kept) <= Len(f[n].kept)
                             /\ \A i \in 1..Len(f[m].kept) : f[n].kept[i] = f[m].kept[i]
             U == {n \in Nat : \A m \in 0..n : Prefix(m, n)}
  <1>11. 0 \in U
    <2>1. Prefix(0, 0)
      BY <1>3, <1>2
    <2> QED BY <2>1
  <1>12. ASSUME NEW n \in 0..(N - 1), n \in U PROVE n + 1 \in U
    <2>1. /\ n + 1 \in 1..N /\ (n + 1) - 1 = n /\ n \in 0..N /\ n + 1 \in Nat /\ n + 1 \in 0..N
          /\ \A m \in 0..(n + 1) : m = n + 1 \/ m \in 0..n
          /\ \A m \in 0..n : m \in 0..N
      BY <1>2
    <2>2. Prefix(n, n + 1)
      <3>1. CASE bytes[n + 1] = Zero
        <4>1. f[n + 1] = f[n]
          BY <1>6, <2>1, <3>1
        <4> QED BY <1>3, <2>1, <4>1
      <3>2. CASE bytes[n + 1] # Zero
        <4>1. f[n + 1].kept = Append(f[n].kept, bytes[n + 1]) /\ f[n].kept \in Seq(Byte)
          BY <1>3, <1>7, <2>1, <3>2
        <4> QED BY <1>2, <2>1, <4>1
      <3> QED BY <3>1, <3>2
    <2>3. ASSUME NEW m \in 0..n PROVE Prefix(m, n + 1)
      <3>1. Prefix(m, n) /\ m \in 0..N
        BY <1>12, <2>1
      <3>2. Len(f[m].kept) \in Nat /\ Len(f[n].kept) \in Nat /\ Len(f[n + 1].kept) \in Nat
        BY <1>3, <2>1, <3>1
      <3> QED BY <2>2, <3>1, <3>2
    <2>4. Prefix(n + 1, n + 1)
      BY <1>3, <2>1
    <2> HIDE DEF Prefix
    <2> QED BY <2>1, <2>3, <2>4
  <1>13. \A m \in 0..N : Prefix(m, N)
    <2> HIDE DEF U
    <2>1. \A n \in 0..N : n \in U
      BY <1>2, <1>11, <1>12, Upwards
    <2> USE DEF U
    <2> HIDE DEF Prefix
    <2> QED BY <1>2, <2>1
  <1>14. PICK flag, kept, c : /\ flag = f[N].flag /\ kept = f[N].kept
                              /\ c = [n \in 0..N |-> Len(f[n].kept)]
    OBVIOUS
  <1>15. flag \in 0..(B - 1)
    <2>1. flag \in Nat /\ flag < Power2[N] /\ N \in 0..Bits
      BY <1>2, <1>3, <1>10, <1>14
    <2>2. N # Bits => Power2[N] < Power2[Bits]
      <3>1. SUFFICES ASSUME N # Bits PROVE Power2[N] < Power2[Bits]
        OBVIOUS
      <3>2. N \in 0..(Bits - 1) /\ Bits \in (N + 1)..Bits
        BY <2>1, <3>1, BitsIs
      <3>3. PICK m \in Nat \ {0} : Power2[Bits] = (2 * m) * Power2[N]
        BY <3>2, PowerSplit
      <3>4. PICK p : p = Power2[N]
        OBVIOUS
      <3>5. p \in Nat \ {0}
        BY <2>1, <3>4, PowerIs, PowerGrows
      <3>6. (2 * m) * p > p
        BY <3>5, Z3
      <3> QED BY <3>3, <3>4, <3>6
    <2>3. Power2[Bits] = B /\ Power2[N] \in Nat /\ Power2[Bits] \in Nat
      BY <2>1, BIs, PowerIs DEF B
    <2> QED BY <2>1, <2>2, <2>3
  <1>16. ASSUME NEW n \in 1..N
         PROVE  /\ c[n] = IF bytes[n] = Zero THEN c[n - 1] ELSE c[n - 1] + 1
                /\ c[n] <= Len(kept) /\ (bytes[n] # Zero => kept[c[n]] = bytes[n])
    <2>1. n \in 0..N /\ n - 1 \in 0..N /\ bytes[n] \in Byte
      BY <1>2
    <2>2. c[n] = Len(f[n].kept) /\ c[n - 1] = Len(f[n - 1].kept)
      BY <1>14, <2>1
    <2>3. Prefix(n, N)
      BY <1>13, <2>1
    <2>4. CASE bytes[n] = Zero
      BY <1>6, <1>14, <2>2, <2>3, <2>4
    <2>5. CASE bytes[n] # Zero
      <3>1. f[n].kept = Append(f[n - 1].kept, bytes[n]) /\ f[n - 1].kept \in Seq(Byte)
        BY <1>3, <1>7, <2>1, <2>5
      <3>2. Len(f[n].kept) = Len(f[n - 1].kept) + 1 /\ Len(f[n - 1].kept) \in Nat
            /\ f[n].kept[Len(f[n].kept)] = bytes[n]
        BY <2>1, <3>1
      <3>3. f[N].kept[Len(f[n].kept)] = f[n].kept[Len(f[n].kept)]
        <4>1. PICK k : k = Len(f[n].kept)
          OBVIOUS
        <4>2. \A i \in 1..k : f[N].kept[i] = f[n].kept[i]
          BY <2>3, <4>1
        <4>3. k \in 1..k
          <5>1. PICK l : l = Len(f[n - 1].kept)
            OBVIOUS
          <5>2. k = l + 1 /\ l \in Nat
            BY <3>2, <4>1, <5>1
          <5> QED BY <5>2
        <4> HIDE DEF N, Prefix
        <4> QED BY <4>1, <4>2, <4>3
      <3>4. PICK k, l : k = Len(f[n].kept) /\ l = Len(f[n - 1].kept)
        OBVIOUS
      <3>5. c[n] = k /\ c[n - 1] = l
        BY <2>2, <3>4
      <3>6. k = l + 1 /\ f[n].kept[k] = bytes[n] /\ f[N].kept[k] = f[n].kept[k]
        BY <3>2, <3>3, <3>4
      <3>7. k <= Len(kept)
        BY <1>14, <2>3, <3>4
      <3>8. kept[k] = bytes[n]
        BY <1>14, <3>6
      <3> HIDE DEF N
      <3> QED BY <2>5, <3>5, <3>6, <3>7, <3>8
    <2> QED BY <2>4, <2>5
  <1>17. IsGroup(bytes, flag, kept, c)
    <2>1. kept \in Seq(Byte) /\ c \in [0..N -> Nat] /\ c[0] = 0 /\ c[N] = Len(kept)
      BY <1>2, <1>3, <1>5, <1>14
    <2>2. \A j \in 0..(Bits - 1) : HasBit(flag, j) <=> j < N /\ bytes[j + 1] # Zero
      BY <1>2, <1>10, <1>14
    <2> QED BY <1>15, <1>16, <2>1, <2>2 DEF IsGroup
  <1>18. compress_group(bytes) = <<Data(flag)>> \o kept
    BY <1>1, <1>14
  <1> QED BY <1>17, <1>18

FillStates == [at : Nat \ {0}, dest : Seq(Byte)]
FillStep(src, end, flag, j, s) ==
    IF (flag \div Power2[j - 1]) % 2 = 1 /\ s.at <= end
    THEN [at |-> s.at + 1, dest |-> Append(s.dest, src[s.at])]
    ELSE [at |-> s.at, dest |-> Append(s.dest, Zero)]
FillBy(src, end, flag, at, f) ==
    f = [j \in 0..Bits |-> IF j = 0 THEN [at |-> at, dest |-> << >>]
                           ELSE FillStep(src, end, flag, j, f[j - 1])]

\* The equation by which uncompress_group is defined has a solution.
LEMMA FillDefined ==
    ASSUME NEW src \in Seq(Byte), NEW end \in 0..Len(src), NEW flag \in Nat, NEW at \in Nat \ {0}
    PROVE  \E f \in [0..Bits -> FillStates] :
              FillBy(src, end, flag, at, f) /\ uncompress_group(src, end, flag, at) = f[Bits]
  <1> DEFINE S == FillStates
             N == Bits
             a == [at |-> at, dest |-> << >>]
             step == [j \in 1..N |-> [s \in S |-> FillStep(src, end, flag, j, s)]]
  <1>1. N \in Nat /\ N \in 0..N /\ \A n \in 1..N : n - 1 \in 0..N
    BY BitsIs
  <1>2. a \in S
    BY DEF FillStates
  <1>3. ASSUME NEW n \in 1..N, NEW s \in S PROVE FillStep(src, end, flag, n, s) \in S
    <2>1. s.at \in Nat \ {0} /\ s.dest \in Seq(Byte)
      BY <1>3 DEF FillStates
    <2>2. CASE (flag \div Power2[n - 1]) % 2 = 1 /\ s.at <= end
      <3>1. src[s.at] \in Byte
        BY <2>1, <2>2
      <3>2. Append(s.dest, src[s.at]) \in Seq(Byte) /\ s.at + 1 \in Nat \ {0}
        BY <2>1, <3>1
      <3> QED BY <2>2, <3>2 DEF FillStep, FillStates
    <2>3. CASE ~((flag \div Power2[n - 1]) % 2 = 1 /\ s.at <= end)
      <3>1. Append(s.dest, Zero) \in Seq(Byte)
        BY <2>1, ByteIs
      <3> QED BY <2>1, <2>3, <3>1 DEF FillStep, FillStates
    <2> QED BY <2>2, <2>3
  <1>4. step \in [1..N -> [S -> S]]
    BY <1>3
  <1> HIDE DEF S, step, a
  <1>5. PICK f \in [0..N -> S] : Recursive(f, N, a, step)
    BY <1>1, <1>2, <1>4, Recursion
  <1>6. FillBy(src, end, flag, at, f)
    <2>1. ASSUME NEW n \in 1..N PROVE step[n][f[n - 1]] = FillStep(src, end, flag, n, f[n - 1])
      <3>1. f[n - 1] \in S
        BY <1>1, <1>5
      <3> QED BY <3>1 DEF step
    <2>2. \A n \in 0..N : n # 0 => n \in 1..N
      BY <1>1
    <2> QED BY <1>5, <2>1, <2>2 DEF Recursive, FillBy, a
  <1>7. PICK g : g = CHOOSE h : FillBy(src, end, flag, at, h)
    OBVIOUS
  <1>8. FillBy(src, end, flag, at, g)
    BY <1>6, <1>7
  <1>9. uncompress_group(src, end, flag, at) = g[Bits]
    BY <1>7 DEF uncompress_group, FillBy, FillStep
  <1>10. g \in [0..N -> S]
    <2> DEFINE T == {n \in Nat : g[n] \in S}
    <2>1. /\ DOMAIN g = 0..N /\ g[0] = a
          /\ \A n \in 1..N : g[n] = FillStep(src, end, flag, n, g[n - 1])
      BY <1>1, <1>8 DEF FillBy, a
    <2>2. 0 \in T
      BY <1>2, <2>1
    <2>3. ASSUME NEW n \in 0..(N - 1), n \in T PROVE n + 1 \in T
      <3>1. n + 1 \in 1..N /\ (n + 1) - 1 = n
        BY <1>1
      <3> QED BY <1>3, <2>1, <2>3, <3>1 DEF S
    <2> HIDE DEF T
    <2>4. \A n \in 0..N : n \in T
      BY <1>1, <2>2, <2>3, Upwards
    <2> USE DEF T
    <2>5. \A n \in 0..N : g[n] \in S
      BY <2>4
    <2> QED BY <1>8, <2>5 DEF FillBy
  <1> QED BY <1>8, <1>9, <1>10 DEF S

\* What comes out of a group is bytes, whatever went in.
LEMMA FillTyped ==
    ASSUME NEW src \in Seq(Byte), NEW end \in 0..Len(src), NEW flag \in Nat, NEW at \in Nat \ {0}
    PROVE  uncompress_group(src, end, flag, at) \in FillStates
  <1>1. PICK f \in [0..Bits -> FillStates] : uncompress_group(src, end, flag, at) = f[Bits]
    BY FillDefined
  <1>2. Bits \in 0..Bits
    BY BitsIs
  <1> QED BY <1>1, <1>2

\* The bytes of a group, with zeros behind them when it is short.
Padded(bytes) == [i \in 1..Bits |-> IF i <= Len(bytes) THEN bytes[i] ELSE Zero]

\* A group begins with its flag before at and is wholly in front of end.
GroupAt(src, end, flag, at, bytes, kept, c) ==
    /\ src \in Seq(Byte) /\ end \in 0..Len(src) /\ at \in Nat \ {0}
    /\ bytes \in Seq(Byte) /\ Len(bytes) <= Bits /\ IsGroup(bytes, flag, kept, c)
    /\ at - 1 + Len(kept) <= end
    /\ \A i \in 1..Len(kept) : src[at - 1 + i] = kept[i]

\* A group comes out as it went in.
LEMMA FillIs ==
    ASSUME NEW src, NEW end, NEW flag, NEW at, NEW bytes, NEW kept, NEW c,
           GroupAt(src, end, flag, at, bytes, kept, c)
    PROVE  uncompress_group(src, end, flag, at) = [at |-> at + Len(kept), dest |-> Padded(bytes)]
  <1> DEFINE L == Len(bytes)
             Cut(j) == IF j <= L THEN j ELSE L
             Dest(j) == [i \in 1..j |-> IF i <= L THEN bytes[i] ELSE Zero]
  <1>0. /\ src \in Seq(Byte) /\ end \in 0..Len(src) /\ at \in Nat \ {0}
        /\ bytes \in Seq(Byte) /\ Len(bytes) <= Bits /\ IsGroup(bytes, flag, kept, c)
        /\ at - 1 + Len(kept) <= end
        /\ \A i \in 1..Len(kept) : src[at - 1 + i] = kept[i]
    BY DEF GroupAt
  <1>1. /\ flag \in Nat /\ kept \in Seq(Byte) /\ Len(kept) \in Nat
        /\ \A j \in 0..(Bits - 1) : HasBit(flag, j) <=> j < L /\ bytes[j + 1] # Zero
        /\ c \in [0..L -> Nat] /\ c[0] = 0 /\ c[L] = Len(kept)
    BY <1>0, BIs DEF IsGroup
  <1>2. \A n \in 1..L : /\ c[n] = IF bytes[n] = Zero THEN c[n - 1] ELSE c[n - 1] + 1
                        /\ c[n] <= Len(kept) /\ (bytes[n] # Zero => kept[c[n]] = bytes[n])
    BY <1>0 DEF IsGroup
  <1>3. L \in Nat /\ L <= Bits /\ Bits \in Nat /\ Len(src) \in Nat /\ end \in Nat
    BY <1>0, BitsIs
  <1>4. PICK f \in [0..Bits -> FillStates] :
            FillBy(src, end, flag, at, f) /\ uncompress_group(src, end, flag, at) = f[Bits]
    BY <1>0, <1>1, FillDefined
  <1>5. /\ f[0] = [at |-> at, dest |-> << >>]
        /\ \A j \in 1..Bits : f[j] = FillStep(src, end, flag, j, f[j - 1])
    BY <1>3, <1>4 DEF FillBy
  <1> DEFINE Is(j) == f[j] = [at |-> at + c[Cut(j)], dest |-> Dest(j)]
             T == {j \in Nat : Is(j)}
  <1>6. 0 \in T
    <2>1. Cut(0) = 0 /\ Dest(0) = << >>
      BY <1>3
    <2>2. at + c[0] = at
      BY <1>0, <1>1
    <2>3. Is(0)
      <3> HIDE DEF Dest
      <3> QED BY <1>5, <2>1, <2>2
    <2> HIDE DEF Is
    <2> QED BY <2>3
  <1>7. ASSUME NEW j \in 0..(Bits - 1), j \in T PROVE j + 1 \in T
    <2>1. /\ j \in Nat /\ j + 1 \in 1..Bits /\ (j + 1) - 1 = j /\ j \in 0..Bits
      BY <1>3
    <2>2. f[j] = [at |-> at + c[Cut(j)], dest |-> Dest(j)]
      BY <1>7
    <2>3. PICK s : s = f[j]
      OBVIOUS
    <2>4. s.at = at + c[Cut(j)] /\ s.dest = Dest(j)
      <3> HIDE DEF Cut, Dest
      <3> QED BY <2>2, <2>3
    <2>5. f[j + 1] = FillStep(src, end, flag, j + 1, s)
      BY <1>5, <2>1, <2>3
    <2>6. Dest(j) \in Seq(Byte) /\ Len(Dest(j)) = j
      <3>1. \A i \in 1..j : (IF i <= L THEN bytes[i] ELSE Zero) \in Byte
        BY <1>0, <1>3, ByteIs
      <3> QED BY <2>1, <3>1
    <2>7. CASE j < L /\ bytes[j + 1] # Zero
      <3>1. j + 1 \in 1..L /\ Cut(j) = j /\ Cut(j + 1) = j + 1
        BY <1>3, <2>1, <2>7
      <3>2. c[j + 1] = c[j] + 1 /\ c[j + 1] <= Len(kept) /\ kept[c[j + 1]] = bytes[j + 1]
            /\ c[j] \in Nat
        <4> HIDE DEF Cut, Dest, Is, T
        <4>1. /\ c[j + 1] = IF bytes[j + 1] = Zero THEN c[(j + 1) - 1] ELSE c[(j + 1) - 1] + 1
              /\ c[j + 1] <= Len(kept)
              /\ bytes[j + 1] # Zero => kept[c[j + 1]] = bytes[j + 1]
          BY <1>2, <3>1
        <4>2. c[j] \in Nat
          <5>1. PICK l : l = L
            OBVIOUS
          <5>2. l \in Nat /\ j \in Nat /\ j < l /\ c \in [0..l -> Nat]
            BY <1>1, <1>3, <2>1, <2>7, <5>1
          <5>3. j \in 0..l
            BY <5>2
          <5> QED BY <5>2, <5>3
        <4> QED BY <2>1, <2>7, <4>1, <4>2
      <3>3. c[j + 1] \in 1..Len(kept) /\ at - 1 + c[j + 1] = at + c[j]
        <4> HIDE DEF Cut, Dest, Is, T
        <4>1. PICK d, e, k : d = c[j] /\ e = c[j + 1] /\ k = Len(kept)
          OBVIOUS
        <4>2. e = d + 1 /\ e <= k /\ d \in Nat /\ k \in Nat /\ at \in Nat \ {0}
          BY <1>0, <1>1, <3>2, <4>1
        <4>3. e \in 1..k /\ at - 1 + e = at + d
          BY <4>2
        <4> QED BY <4>1, <4>3
      <3>4. s.at <= end /\ src[s.at] = bytes[j + 1]
        <4>1. src[at - 1 + c[j + 1]] = kept[c[j + 1]]
          BY <1>0, <3>3
        <4>2. s.at = at - 1 + c[j + 1]
          BY <2>4, <3>1, <3>3
        <4>3. at - 1 + c[j + 1] <= end
          <5> HIDE DEF Cut, Dest, Is, T
          <5>1. PICK e, k : e = c[j + 1] /\ k = Len(kept)
            OBVIOUS
          <5>2. e \in Nat /\ e <= k /\ k \in Nat
            <6>1. PICK d : d = c[j]
              OBVIOUS
            <6>2. d \in Nat /\ e = d + 1 /\ e <= k /\ k \in Nat
              BY <1>1, <3>2, <5>1, <6>1
            <6> QED BY <6>2
          <5>4. at \in Nat /\ at - 1 + k <= end
            BY <1>0, <5>1
          <5>3. at - 1 + e <= end
            BY <1>3, <5>2, <5>4
          <5> QED BY <5>1, <5>3
        <4> HIDE DEF Cut, Dest, Is, T
        <4> QED BY <3>2, <4>1, <4>2, <4>3
      <3>5. (flag \div Power2[(j + 1) - 1]) % 2 = 1
        BY <1>1, <2>1, <2>7 DEF HasBit
      <3>6. f[j + 1] = [at |-> s.at + 1, dest |-> Append(s.dest, bytes[j + 1])]
        BY <2>5, <3>4, <3>5 DEF FillStep
      <3>7. Append(Dest(j), bytes[j + 1]) = Dest(j + 1)
        BY <1>0, <2>1, <2>6, <2>7, <3>1
      <3>8. s.at + 1 = at + c[Cut(j + 1)]
        <4>1. s.at = at + c[j] /\ c[Cut(j + 1)] = c[j + 1]
          BY <2>4, <3>1
        <4> QED BY <1>0, <3>2, <4>1
      <3>9. Is(j + 1)
        <4> HIDE DEF Cut, Dest
        <4> QED BY <2>4, <3>6, <3>7, <3>8
      <3> HIDE DEF Is
      <3> QED BY <2>1, <3>9
    <2>8. CASE ~(j < L /\ bytes[j + 1] # Zero)
      <3>1. (flag \div Power2[(j + 1) - 1]) % 2 # 1
        BY <1>1, <2>1, <2>8 DEF HasBit
      <3>3. f[j + 1] = [at |-> s.at, dest |-> Append(s.dest, Zero)]
        BY <2>5, <3>1 DEF FillStep
      <3>4. c[Cut(j + 1)] = c[Cut(j)]
        <4>1. CASE j < L
          <5>1. j + 1 \in 1..L /\ Cut(j) = j /\ Cut(j + 1) = j + 1 /\ bytes[j + 1] = Zero
            BY <1>3, <2>1, <2>8, <4>1
          <5> QED BY <1>2, <2>1, <5>1
        <4>2. CASE ~(j < L)
          <5>1. Cut(j) = L /\ Cut(j + 1) = L
            BY <1>3, <2>1, <4>2
          <5> QED BY <5>1
        <4> QED BY <4>1, <4>2
      <3>5. Append(Dest(j), Zero) = Dest(j + 1)
        <4>1. (IF j + 1 <= L THEN bytes[j + 1] ELSE Zero) = Zero
          BY <1>3, <2>1, <2>8
        <4> QED BY <2>1, <2>6, <4>1
      <3>6. Is(j + 1)
        <4> HIDE DEF Cut, Dest
        <4> QED BY <2>4, <3>3, <3>4, <3>5
      <3> HIDE DEF Is
      <3> QED BY <2>1, <3>6
    <2> QED BY <2>7, <2>8
  <1>8. Is(Bits)
    <2> HIDE DEF T
    <2>1. \A j \in 0..Bits : j \in T
      BY <1>3, <1>6, <1>7, Upwards
    <2> USE DEF T
    <2>2. Bits \in T
      BY <1>3, <2>1
    <2> QED BY <2>2
  <1>9. c[Cut(Bits)] = Len(kept)
    <2>1. Cut(Bits) = L
      BY <1>3
    <2> QED BY <1>1, <2>1
  <1>10. Dest(Bits) = Padded(bytes)
    BY DEF Padded
  <1> QED BY <1>4, <1>8, <1>9, <1>10
-----------------------------------------------------------------------------
(* The compresser, there and back.                                         *)

CountOf(src) == (Len(src) + Bits - 1) \div Bits
PartOf(src, g) == Part(src, (g - 1) * Bits + 1, g * Bits)

\* How many groups there are, and where they begin.
LEMMA CountIs ==
    ASSUME NEW src \in Seq(Byte)
    PROVE  /\ CountOf(src) \in Nat
           /\ \A g \in 1..CountOf(src) : (g - 1) * Bits < Len(src)
           /\ Len(src) <= CountOf(src) * Bits
           /\ Len(src) % Bits \in 0..(Bits - 1)
           /\ Len(src) % Bits > 0 => /\ CountOf(src) > 0
                                     /\ CountOf(src) * Bits - (Bits - (Len(src) % Bits)) = Len(src)
  <1>1. PICK n, q, r, k : n = Len(src) /\ q = n \div Bits /\ r = n % Bits /\ k = CountOf(src)
    OBVIOUS
  <1>2. n \in Nat /\ Bits \in Nat \ {0} /\ Bits >= 3
    BY <1>1, BitsIs
  <1>3. q \in Int /\ r \in 0..(Bits - 1) /\ n = q * Bits + r
    BY <1>1, <1>2, Division, Remainder
  <1>4. q * Bits \in Int /\ (q + 1) * Bits = q * Bits + 1 * Bits /\ 1 * Bits = Bits
    BY <1>2, <1>3, Product
  <1>5. q >= 0
    <2>1. 0 * Bits = 0 /\ 0 * Bits < q * Bits + Bits
      BY <1>2, <1>3, <1>4
    <2> QED BY <1>2, <1>3, <2>1, Monotone
  <1>6. k = IF r = 0 THEN q ELSE q + 1
    <2>1. k = (n + Bits - 1) \div Bits
      BY <1>1 DEF CountOf
    <2>2. CASE r = 0
      <3>1. n + Bits - 1 = q * Bits + (Bits - 1) /\ Bits - 1 \in 0..(Bits - 1)
        BY <1>2, <1>3, <1>4, <2>2
      <3>2. (n + Bits - 1) \div Bits = q
        BY <1>2, <1>3, <1>4, <3>1, RemainderIs
      <3> QED BY <2>1, <2>2, <3>2
    <2>3. CASE r # 0
      <3>1. n + Bits - 1 = (q + 1) * Bits + (r - 1) /\ r - 1 \in 0..(Bits - 1) /\ q + 1 \in Int
        BY <1>2, <1>3, <1>4, <2>3
      <3>2. (n + Bits - 1) \div Bits = q + 1
        BY <1>2, <1>3, <1>4, <3>1, RemainderIs
      <3> QED BY <2>1, <2>3, <3>2
    <2> QED BY <2>2, <2>3
  <1>7. k \in Nat /\ k * Bits = IF r = 0 THEN q * Bits ELSE q * Bits + Bits
    BY <1>3, <1>4, <1>5, <1>6
  <1>8. ASSUME NEW g \in 1..k PROVE (g - 1) * Bits < n
    <2>1. PICK x, y : x = (g - 1) * Bits /\ y = (k - 1) * Bits
      OBVIOUS
    <2>2. x <= y
      <3>1. g - 1 <= k - 1 /\ g - 1 \in Int /\ k - 1 \in Int
        BY <1>7
      <3> QED BY <1>2, <2>1, <3>1, Z3
    <2>3. y = k * Bits - Bits /\ x \in Int
      <3>1. (k - 1) * Bits = k * Bits - 1 * Bits /\ g - 1 \in Int /\ (g - 1) * Bits \in Int
        BY <1>2, <1>7, Product
      <3> QED BY <1>4, <2>1, <3>1
    <2>4. k * Bits - Bits < n
      BY <1>2, <1>3, <1>4, <1>7
    <2> QED BY <1>2, <1>4, <1>7, <2>1, <2>2, <2>3, <2>4
  <1>9. n <= k * Bits /\ (r > 0 => k > 0 /\ k * Bits - (Bits - r) = n)
    BY <1>2, <1>3, <1>4, <1>5, <1>6, <1>7
  <1> QED BY <1>1, <1>3, <1>7, <1>8, <1>9

\* The bytes of a group are those of the message.
LEMMA PartIs ==
    ASSUME NEW src \in Seq(Byte), NEW g \in 1..CountOf(src)
    PROVE  /\ PartOf(src, g) \in Seq(Byte)
           /\ Len(PartOf(src, g)) <= Bits
           /\ \A i \in 1..Bits : i <= Len(PartOf(src, g)) <=> (g - 1) * Bits + i <= Len(src)
           /\ \A i \in 1..Len(PartOf(src, g)) : PartOf(src, g)[i] = src[(g - 1) * Bits + i]
  <1>1. PICK n, a, b : /\ n = Len(src) /\ a = (g - 1) * Bits
                       /\ b = IF a + Bits <= n THEN a + Bits ELSE n
    OBVIOUS
  <1>2. n \in Nat /\ CountOf(src) \in Nat /\ a < n /\ Bits \in Nat \ {0}
    BY <1>1, CountIs, BitsIs
  <1>3. a \in Nat /\ g * Bits = a + Bits
    <2>1. g - 1 \in Nat /\ g \in Int /\ 1 * Bits = Bits
      BY <1>2
    <2>2. (g - 1) * Bits \in Nat /\ (g - 1) * Bits = g * Bits - 1 * Bits /\ g * Bits \in Int
      BY <1>2, <2>1, Positive, Product
    <2> QED BY <1>1, <1>2, <2>1, <2>2
  <1>4. b \in Nat /\ b <= n /\ a < b
    BY <1>1, <1>2, <1>3
  <1>5. PICK s : s = PartOf(src, g)
    OBVIOUS
  <1>6. s = SubSeq(src, a + 1, b)
    BY <1>1, <1>3, <1>5 DEF PartOf, Part
  <1>7. s \in Seq(Byte) /\ Len(s) = b - a /\ \A i \in 1..(b - a) : s[i] = src[a + i]
    <2>1. a + 1 \in Int /\ b \in Int /\ a + 1 <= b /\ b - (a + 1) + 1 = b - a
      BY <1>3, <1>4
    <2>2. \A i \in (a + 1)..b : src[i] \in Byte
      BY <1>1, <1>2, <1>3, <1>4
    <2>3. /\ s \in Seq(Byte) /\ Len(s) = b - a
          /\ \A i \in 1..(b - (a + 1) + 1) : s[i] = src[(a + 1) + i - 1]
      BY <1>6, <2>1, <2>2, SubSeqProperties
    <2>4. \A i \in 1..(b - a) : (a + 1) + i - 1 = a + i
      BY <1>3, <1>4
    <2> QED BY <2>1, <2>3, <2>4
  <1>8. \A i \in 1..Bits : i <= b - a <=> a + i <= n
    BY <1>1, <1>2, <1>3, <1>4
  <1>9. b - a <= Bits
    BY <1>1, <1>2, <1>3, <1>4
  <1> QED BY <1>1, <1>5, <1>7, <1>8, <1>9

CompressedBy(src, f) ==
    f = [g \in 0..CountOf(src) |->
            IF g = 0 THEN << >> ELSE f[g - 1] \o compress_group(PartOf(src, g))]

\* A group is at least its flag.
LEMMA GroupTyped ==
    ASSUME NEW bytes \in Seq(Byte), Len(bytes) <= Bits
    PROVE  compress_group(bytes) \in Seq(Byte) /\ Len(compress_group(bytes)) >= 1
  <1>1. PICK flag, kept, c : /\ compress_group(bytes) = <<Data(flag)>> \o kept
                             /\ IsGroup(bytes, flag, kept, c)
    BY GroupIs
  <1>2. PICK d : d = Data(flag)
    OBVIOUS
  <1>3. d \in Byte /\ kept \in Seq(Byte)
    BY <1>1, <1>2, ByteIs DEF IsGroup
  <1>4. <<d>> \in Seq(Byte) /\ Len(<<d>>) = 1
    BY <1>3
  <1>5. <<d>> \o kept \in Seq(Byte) /\ Len(<<d>> \o kept) = 1 + Len(kept) /\ Len(kept) \in Nat
    BY <1>3, <1>4
  <1> QED BY <1>1, <1>2, <1>5

LEMMA CompressDefined ==
    ASSUME NEW src \in Seq(Byte)
    PROVE  \E f \in [0..CountOf(src) -> Seq(Byte)] :
              CompressedBy(src, f) /\ compress_groups(src) = f[CountOf(src)]
  <1> DEFINE S == Seq(Byte)
             N == CountOf(src)
             Joined(g, s) == s \o compress_group(PartOf(src, g))
             step == [g \in 1..N |-> [s \in S |-> Joined(g, s)]]
  <1>1. N \in Nat /\ N \in 0..N /\ \A n \in 1..N : n - 1 \in 0..N
    BY CountIs
  <1>2. << >> \in S
    OBVIOUS
  <1>3. ASSUME NEW n \in 1..N, NEW s \in S PROVE Joined(n, s) \in S
    <2>1. PICK t : t = compress_group(PartOf(src, n))
      OBVIOUS
    <2>2. t \in Seq(Byte)
      BY <2>1, PartIs, GroupTyped
    <2>3. s \o t \in Seq(Byte)
      BY <1>3, <2>2
    <2> QED BY <2>1, <2>3
  <1> HIDE DEF Joined
  <1>4. step \in [1..N -> [S -> S]]
    BY <1>3
  <1> HIDE DEF S, step, N
  <1>5. PICK f \in [0..N -> S] : Recursive(f, N, << >>, step)
    BY <1>1, <1>2, <1>4, Recursion
  <1>6. CompressedBy(src, f)
    <2>1. ASSUME NEW n \in 1..N PROVE step[n][f[n - 1]] = Joined(n, f[n - 1])
      <3>1. f[n - 1] \in S
        BY <1>1, <1>5
      <3> QED BY <3>1 DEF step
    <2>2. \A n \in 0..N : n # 0 => n \in 1..N
      BY <1>1
    <2>3. f = [n \in 0..N |-> IF n = 0 THEN << >> ELSE Joined(n, f[n - 1])]
      BY <1>5, <2>1, <2>2 DEF Recursive
    <2> QED BY <2>3 DEF CompressedBy, Joined, N
  <1>7. PICK g : g = CHOOSE h : CompressedBy(src, h)
    OBVIOUS
  <1>8. CompressedBy(src, g)
    BY <1>6, <1>7
  <1>9. compress_groups(src) = g[N]
    BY <1>7 DEF compress_groups, CompressedBy, N, CountOf, PartOf
  <1>10. g \in [0..N -> S]
    <2> DEFINE T == {n \in Nat : g[n] \in S}
    <2>1. DOMAIN g = 0..N /\ g[0] = << >> /\ \A n \in 1..N : g[n] = Joined(n, g[n - 1])
      <3>1. g = [n \in 0..N |-> IF n = 0 THEN << >> ELSE Joined(n, g[n - 1])]
        BY <1>8 DEF CompressedBy, Joined, N
      <3> QED BY <1>1, <3>1
    <2>2. 0 \in T
      BY <1>2, <2>1
    <2>3. ASSUME NEW n \in 0..(N - 1), n \in T PROVE n + 1 \in T
      <3>1. n + 1 \in 1..N /\ (n + 1) - 1 = n
        BY <1>1
      <3> QED BY <1>3, <2>1, <2>3, <3>1
    <2> HIDE DEF T
    <2>4. \A n \in 0..N : n \in T
      BY <1>1, <2>2, <2>3, Upwards
    <2> USE DEF T
    <2>5. \A n \in 0..N : g[n] \in S
      BY <2>4
    <2> QED BY <1>8, <2>5 DEF CompressedBy, N
  <1> QED BY <1>8, <1>9, <1>10 DEF S, N

LoopStep(src, end, s) ==
    IF s.at >= end THEN s
    ELSE LET g == uncompress_group(src, end, src[s.at].n, s.at + 1)
         IN  [at |-> g.at, dest |-> s.dest \o g.dest]
LoopBy(src, end, f) ==
    f = [n \in 0..end |->
            IF n = 0 THEN [at |-> 1, dest |-> << >>] ELSE LoopStep(src, end, f[n - 1])]

\* The loop of uncompress is defined, whatever it is given.
LEMMA LoopDefined ==
    ASSUME NEW src \in Seq(Byte), NEW end \in 0..Len(src)
    PROVE  \E f \in [0..end -> FillStates] : LoopBy(src, end, f) /\ Groups(src, end) = f[end].dest
  <1> DEFINE S == FillStates
             N == end
             a == [at |-> 1, dest |-> << >>]
             step == [g \in 1..N |-> [s \in S |-> LoopStep(src, end, s)]]
  <1>1. N \in Nat /\ N \in 0..N /\ \A n \in 1..N : n - 1 \in 0..N
    OBVIOUS
  <1>2. a \in S
    BY DEF FillStates
  <1>3. ASSUME NEW s \in S PROVE LoopStep(src, end, s) \in S
    <2>1. s.at \in Nat \ {0} /\ s.dest \in Seq(Byte)
      BY <1>3 DEF FillStates
    <2>2. CASE s.at >= end
      BY <1>3, <2>2 DEF LoopStep
    <2>3. CASE ~(s.at >= end)
      <3>1. PICK g : g = uncompress_group(src, end, src[s.at].n, s.at + 1)
        OBVIOUS
      <3>2. src[s.at] \in Byte
        BY <2>1, <2>3
      <3>3. src[s.at].n \in Nat /\ s.at + 1 \in Nat \ {0}
        BY <2>1, <3>2, ByteIs
      <3>4. g \in FillStates
        BY <3>1, <3>3, FillTyped
      <3>5. g.at \in Nat \ {0} /\ g.dest \in Seq(Byte)
        BY <3>4 DEF FillStates
      <3>6. s.dest \o g.dest \in Seq(Byte)
        BY <2>1, <3>5
      <3>7. LoopStep(src, end, s) = [at |-> g.at, dest |-> s.dest \o g.dest]
        BY <2>3, <3>1 DEF LoopStep
      <3> QED BY <3>5, <3>6, <3>7 DEF FillStates
    <2> QED BY <2>2, <2>3
  <1>4. step \in [1..N -> [S -> S]]
    BY <1>3
  <1> HIDE DEF S, step, a
  <1>5. PICK f \in [0..N -> S] : Recursive(f, N, a, step)
    BY <1>1, <1>2, <1>4, Recursion
  <1>6. LoopBy(src, end, f)
    <2>1. ASSUME NEW n \in 1..N PROVE step[n][f[n - 1]] = LoopStep(src, end, f[n - 1])
      <3>1. f[n - 1] \in S
        BY <1>1, <1>5
      <3> QED BY <3>1 DEF step
    <2>2. \A n \in 0..N : n # 0 => n \in 1..N
      BY <1>1
    <2> QED BY <1>5, <2>1, <2>2 DEF Recursive, LoopBy, a
  <1>7. PICK g : g = CHOOSE h : LoopBy(src, end, h)
    OBVIOUS
  <1>8. LoopBy(src, end, g)
    BY <1>6, <1>7
  <1>9. Groups(src, end) = g[N].dest
    BY <1>7 DEF Groups, LoopBy, LoopStep
  <1>10. g \in [0..N -> S]
    <2> DEFINE T == {n \in Nat : g[n] \in S}
    <2>1. /\ DOMAIN g = 0..N /\ g[0] = a
          /\ \A n \in 1..N : g[n] = LoopStep(src, end, g[n - 1])
      BY <1>1, <1>8 DEF LoopBy, a
    <2>2. 0 \in T
      BY <1>2, <2>1
    <2>3. ASSUME NEW n \in 0..(N - 1), n \in T PROVE n + 1 \in T
      <3>1. n + 1 \in 1..N /\ (n + 1) - 1 = n
        BY <1>1
      <3> QED BY <1>3, <2>1, <2>3, <3>1 DEF S
    <2> HIDE DEF T
    <2>4. \A n \in 0..N : n \in T
      BY <1>1, <2>2, <2>3, Upwards
    <2> USE DEF T
    <2>5. \A n \in 0..N : g[n] \in S
      BY <2>4
    <2> QED BY <1>8, <2>5 DEF LoopBy
  <1> QED BY <1>8, <1>9, <1>10 DEF S

LEMMA GroupsTyped ==
    ASSUME NEW src \in Seq(Byte), NEW end \in 0..Len(src)
    PROVE  Groups(src, end) \in Seq(Byte)
  <1>1. PICK f \in [0..end -> FillStates] : Groups(src, end) = f[end].dest
    BY LoopDefined
  <1>2. f[end] \in FillStates
    BY <1>1
  <1> QED BY <1>1, <1>2 DEF FillStates

\* What the groups of a message are, one behind the other: where each begins in z, and
\* what it is.
LEMMA GroupsAre ==
    ASSUME NEW src \in Seq(Byte)
    PROVE  \E f \in [0..CountOf(src) -> Seq(Byte)] :
              /\ f[0] = << >> /\ compress_groups(src) = f[CountOf(src)]
              /\ \A g \in 1..CountOf(src) : f[g] = f[g - 1] \o compress_group(PartOf(src, g))
              /\ \A g \in 1..CountOf(src) : Len(f[g]) > Len(f[g - 1])
              /\ \A g \in 0..CountOf(src) :
                     \A i \in 1..Len(f[g]) : compress_groups(src)[i] = f[g][i]
              /\ \A g \in 0..CountOf(src) : g <= Len(f[g]) /\ Len(f[g]) <= Len(compress_groups(src))
  <1> DEFINE N == CountOf(src)
  <1>1. PICK f \in [0..N -> Seq(Byte)] : CompressedBy(src, f) /\ compress_groups(src) = f[N]
    BY CompressDefined
  <1>2. N \in Nat /\ N \in 0..N
    BY CountIs
  <1>3. f[0] = << >> /\ \A g \in 1..N : f[g] = f[g - 1] \o compress_group(PartOf(src, g))
    <2> DEFINE G(g) == compress_group(PartOf(src, g))
    <2> HIDE DEF G, N
    <2>1. f = [g \in 0..N |-> IF g = 0 THEN << >> ELSE f[g - 1] \o G(g)]
      BY <1>1 DEF CompressedBy, G, N
    <2>2. 0 \in 0..N /\ \A g \in 1..N : g \in 0..N /\ g # 0
      BY <1>2
    <2>3. f[0] = << >> /\ \A g \in 1..N : f[g] = f[g - 1] \o G(g)
      BY <2>1, <2>2
    <2> QED BY <2>3 DEF G
  <1> DEFINE Prefix(m, n) == /\ Len(f[m]) <= Len(f[n])
                             /\ \A i \in 1..Len(f[m]) : f[n][i] = f[m][i]
             U == {n \in Nat : n <= Len(f[n]) /\ \A m \in 0..n : Prefix(m, n)}
  <1>4. \A n \in 0..N : f[n] \in Seq(Byte) /\ Len(f[n]) \in Nat
    BY <1>1
  <1>5. ASSUME NEW n \in 0..(N - 1) PROVE Len(f[n + 1]) > Len(f[n]) /\ Prefix(n, n + 1)
    <2>1. n + 1 \in 1..N /\ (n + 1) - 1 = n /\ n \in 0..N /\ n + 1 \in 0..N
      BY <1>2
    <2>2. PICK t : t = compress_group(PartOf(src, n + 1))
      OBVIOUS
    <2>3. t \in Seq(Byte) /\ Len(t) >= 1 /\ Len(t) \in Nat
      <3>1. t \in Seq(Byte) /\ Len(t) >= 1
        BY <2>1, <2>2, PartIs, GroupTyped
      <3> QED BY <3>1
    <2>4. f[n + 1] = f[n] \o t /\ f[n] \in Seq(Byte)
      BY <1>3, <1>4, <2>1, <2>2
    <2>5. Len(f[n] \o t) = Len(f[n]) + Len(t) /\ Len(f[n]) \in Nat
          /\ \A i \in 1..Len(f[n]) : (f[n] \o t)[i] = f[n][i]
      BY <2>3, <2>4
    <2> QED BY <2>3, <2>4, <2>5
  <1>6. 0 \in U
    <2>1. Prefix(0, 0) /\ 0 <= Len(f[0])
      BY <1>2, <1>4
    <2> QED BY <2>1
  <1>7. ASSUME NEW n \in 0..(N - 1), n \in U PROVE n + 1 \in U
    <2>1. /\ n \in 0..N /\ n + 1 \in Nat /\ n + 1 \in 0..N /\ n \in Nat
          /\ \A m \in 0..(n + 1) : m = n + 1 \/ m \in 0..n
          /\ \A m \in 0..n : m \in 0..N
      BY <1>2
    <2>2. Prefix(n, n + 1) /\ Len(f[n + 1]) > Len(f[n])
      BY <1>5
    <2>3. ASSUME NEW m \in 0..n PROVE Prefix(m, n + 1)
      <3>1. Prefix(m, n) /\ m \in 0..N
        BY <1>7, <2>1
      <3>2. Len(f[m]) \in Nat /\ Len(f[n]) \in Nat /\ Len(f[n + 1]) \in Nat
        BY <1>4, <2>1, <3>1
      <3> QED BY <2>2, <3>1, <3>2
    <2>4. Prefix(n + 1, n + 1)
      BY <1>4, <2>1
    <2>5. n + 1 <= Len(f[n + 1])
      <3>1. Len(f[n]) \in Nat /\ Len(f[n + 1]) \in Nat /\ n <= Len(f[n])
        BY <1>4, <1>7, <2>1
      <3> QED BY <2>1, <2>2, <3>1
    <2> HIDE DEF Prefix
    <2> QED BY <2>1, <2>3, <2>4, <2>5
  <1>8. \A n \in 0..N : n \in U
    <2> HIDE DEF U, N
    <2> QED BY <1>2, <1>6, <1>7, Upwards
  <1>9. \A m \in 0..N : m <= Len(f[m]) /\ Prefix(m, N)
    <2> HIDE DEF Prefix
    <2> QED BY <1>2, <1>8
  <1>10. \A g \in 1..N : Len(f[g]) > Len(f[g - 1])
    <2>1. ASSUME NEW g \in 1..N PROVE Len(f[g]) > Len(f[g - 1])
      <3>1. g - 1 \in 0..(N - 1) /\ (g - 1) + 1 = g
        BY <1>2
      <3> QED BY <1>5, <3>1, SMTT(30)
    <2> QED BY <2>1
  <1>11. \A m \in 0..N : m <= Len(f[m]) /\ \A i \in 1..Len(f[m]) : f[N][i] = f[m][i]
    BY <1>9
  <1>12. f \in [0..CountOf(src) -> Seq(Byte)]
    OBVIOUS
  <1>13. \A g \in 0..CountOf(src) : \A i \in 1..Len(f[g]) : compress_groups(src)[i] = f[g][i]
    BY <1>1, <1>11
  <1>14. \A g \in 0..CountOf(src) : g <= Len(f[g]) /\ Len(f[g]) <= Len(compress_groups(src))
    BY <1>1, <1>9
  <1> WITNESS <1>12
  <1>15. /\ f[0] = << >> /\ compress_groups(src) = f[CountOf(src)]
         /\ \A g \in 1..CountOf(src) : f[g] = f[g - 1] \o compress_group(PartOf(src, g))
    BY <1>1, <1>3
  <1> HIDE DEF Prefix, U
  <1> QED BY <1>10, <1>13, <1>14, <1>15, Zenon

\* The first n groups of a message, with zeros behind it.
Pad(src, n) == [i \in 1..(n * Bits) |-> IF i <= Len(src) THEN src[i] ELSE Zero]

\* One group more.
LEMMA PadNext ==
    ASSUME NEW src \in Seq(Byte), NEW n \in 0..(CountOf(src) - 1)
    PROVE  Pad(src, n) \o Padded(PartOf(src, n + 1)) = Pad(src, n + 1)
  <1>1. PICK m, s, N : m = n * Bits /\ s = PartOf(src, n + 1) /\ N = Len(src)
    OBVIOUS
  <1>2. n + 1 \in 1..CountOf(src) /\ (n + 1) - 1 = n /\ Bits \in Nat /\ n \in Nat /\ N \in Nat
    BY <1>1, CountIs, BitsIs
  <1>3. m \in Nat /\ (n + 1) * Bits = m + Bits
    <2>1. (n + 1) * Bits = n * Bits + 1 * Bits /\ 1 * Bits = Bits /\ n * Bits \in Nat
      BY <1>2, Product, Positive
    <2> QED BY <1>1, <2>1
  <1>4. /\ s \in Seq(Byte) /\ Len(s) \in Nat
        /\ \A i \in 1..Bits : i <= Len(s) <=> m + i <= N
        /\ \A i \in 1..Len(s) : s[i] = src[m + i]
    <2>1. /\ s \in Seq(Byte) /\ \A i \in 1..Bits : i <= Len(s) <=> ((n + 1) - 1) * Bits + i <= N
          /\ \A i \in 1..Len(s) : s[i] = src[((n + 1) - 1) * Bits + i]
      BY <1>1, <1>2, PartIs
    <2> QED BY <1>1, <1>2, <2>1
  <1>5. PICK p, q, r : p = Pad(src, n) /\ q = Padded(s) /\ r = Pad(src, n + 1)
    OBVIOUS
  <1>6. /\ p = [i \in 1..m |-> IF i <= N THEN src[i] ELSE Zero]
        /\ q = [i \in 1..Bits |-> IF i <= Len(s) THEN s[i] ELSE Zero]
        /\ r = [i \in 1..(m + Bits) |-> IF i <= N THEN src[i] ELSE Zero]
    BY <1>1, <1>3, <1>5 DEF Pad, Padded
  <1>7. p \in Seq(Byte) /\ q \in Seq(Byte) /\ r \in Seq(Byte)
    <2>1. \A i \in Nat \ {0} : (IF i <= N THEN src[i] ELSE Zero) \in Byte
      BY <1>1, ByteIs
    <2>2. \A i \in Nat \ {0} : (IF i <= Len(s) THEN s[i] ELSE Zero) \in Byte
      BY <1>4, ByteIs
    <2>3. p \in [1..m -> Byte] /\ q \in [1..Bits -> Byte] /\ r \in [1..(m + Bits) -> Byte]
      BY <1>2, <1>3, <1>6, <2>1, <2>2
    <2> QED BY <1>2, <1>3, <2>3
  <1>8. Len(p) = m /\ Len(q) = Bits /\ Len(r) = m + Bits
    BY <1>2, <1>3, <1>6
  <1>9. ASSUME NEW i \in 1..(m + Bits) PROVE (p \o q)[i] = r[i]
    <2>1. CASE i <= m
      <3>1. (p \o q)[i] = p[i] /\ i \in 1..m
        BY <1>2, <1>3, <1>7, <1>8, <2>1
      <3> QED BY <1>6, <3>1
    <2>2. CASE ~(i <= m)
      <3>1. i - m \in 1..Bits /\ i \in 1..(m + Bits) /\ m + (i - m) = i
        BY <1>2, <1>3, <2>2
      <3>2. (p \o q)[i] = q[i - m]
        BY <1>2, <1>3, <1>7, <1>8, <2>2, <3>1, SMTT(30)
      <3>3. i - m <= Len(s) <=> i <= N
        BY <1>4, <3>1
      <3>4. i - m <= Len(s) => i - m \in 1..Len(s)
        BY <1>4, <3>1
      <3>5. i - m <= Len(s) => s[i - m] = src[i]
        BY <1>4, <3>1, <3>4
      <3> QED BY <1>6, <3>1, <3>2, <3>3, <3>5
    <2> QED BY <2>1, <2>2
  <1>10. p \o q \in Seq(Byte) /\ Len(p \o q) = m + Bits
    BY <1>7, <1>8, ConcatProperties
  <1>11. p \o q = r
    BY <1>7, <1>8, <1>9, <1>10, SeqEqual
  <1> QED BY <1>1, <1>5, <1>11

\* The last group has a byte that is not zero.
LastKept(src) ==
    \E i \in 1..Len(PartOf(src, CountOf(src))) : PartOf(src, CountOf(src))[i] # Zero

\* uncompress undoes the groups of z, which are those of src, wherever its end is said to be:
\* behind the last group, or the last byte of it if there is one that is not its flag.
LEMMA GroupsBack ==
    ASSUME NEW src \in Seq(Byte), NEW z \in Seq(Byte), NEW end \in 0..Len(z),
           CountOf(src) > 0, Len(compress_groups(src)) <= Len(z),
           \A i \in 1..Len(compress_groups(src)) : z[i] = compress_groups(src)[i],
           \/ end = Len(compress_groups(src)) + 1
           \/ end = Len(compress_groups(src)) /\ LastKept(src)
    PROVE  Groups(z, end) = Pad(src, CountOf(src))
  <1> DEFINE N == CountOf(src)
             all == compress_groups(src)
  <1>1. PICK F \in [0..N -> Seq(Byte)] :
            /\ F[0] = << >> /\ all = F[N]
            /\ \A g \in 1..N : F[g] = F[g - 1] \o compress_group(PartOf(src, g))
            /\ \A g \in 1..N : Len(F[g]) > Len(F[g - 1])
            /\ \A g \in 0..N : \A i \in 1..Len(F[g]) : all[i] = F[g][i]
            /\ \A g \in 0..N : g <= Len(F[g]) /\ Len(F[g]) <= Len(all)
    BY GroupsAre
  <1>2. N \in Nat /\ N > 0 /\ N \in 0..N /\ \A g \in 0..N : F[g] \in Seq(Byte) /\ Len(F[g]) \in Nat
    <2>1. N \in Nat
      BY CountIs
    <2>2. ASSUME NEW g \in 0..N PROVE F[g] \in Seq(Byte) /\ Len(F[g]) \in Nat
      <3>1. F[g] \in Seq(Byte)
        BY <1>1
      <3> QED BY <3>1
    <2> QED BY <2>1, <2>2
  <1>3. all \in Seq(Byte) /\ Len(all) \in Nat /\ N <= Len(all) /\ Len(z) \in Nat /\ end \in Nat
    BY <1>1, <1>2
  <1>4. PICK f \in [0..end -> FillStates] : LoopBy(z, end, f) /\ Groups(z, end) = f[end].dest
    BY LoopDefined
  <1>5. /\ f[0] = [at |-> 1, dest |-> << >>]
        /\ \A n \in 1..end : f[n] = LoopStep(z, end, f[n - 1])
    <2>1. 0 \in 0..end /\ \A n \in 1..end : n \in 0..end /\ n # 0
      BY <1>3
    <2> QED BY <1>4, <2>1 DEF LoopBy
  <1> DEFINE Cut(n) == IF n <= N THEN n ELSE N
             At(n) == Len(F[Cut(n)]) + 1
             Dest(n) == Pad(src, Cut(n))
             Is(n) == f[n] = [at |-> At(n), dest |-> Dest(n)]
             T == {n \in Nat : Is(n)}
  <1>6. 0 \in T
    <2>1. Cut(0) = 0
      BY <1>2
    <2>2. At(0) = 1
      BY <1>1, <2>1
    <2>3. Dest(0) = << >>
      <3>1. 0 * Bits = 0
        BY BitsIs
      <3> QED BY <2>1, <3>1 DEF Pad
    <2>4. Is(0)
      <3> HIDE DEF At, Dest
      <3> QED BY <1>5, <2>2, <2>3
    <2> HIDE DEF Is
    <2> QED BY <2>4
  <1>7. ASSUME NEW n \in 0..(end - 1), n \in T PROVE n + 1 \in T
    <2> HIDE DEF T
    <2>0. Is(n)
      BY <1>7 DEF T
    <2>1. n + 1 \in 1..end /\ (n + 1) - 1 = n /\ n \in Nat /\ n + 1 \in Nat
      <3> HIDE DEF N, all, Is
      <3>1. end \in Nat /\ n \in 0..(end - 1)
        BY <1>3
      <3> QED BY <3>1
    <2>2. PICK s : s = f[n]
      OBVIOUS
    <2>3. f[n + 1] = LoopStep(z, end, s) /\ s = [at |-> At(n), dest |-> Dest(n)]
      <3> HIDE DEF At, Dest
      <3> QED BY <1>5, <2>0, <2>1, <2>2
    <2>4. s.at = At(n) /\ s.dest = Dest(n)
      <3> HIDE DEF At, Dest
      <3> QED BY <2>3
    <2>5. CASE n >= N
      <3>1. Cut(n) = N /\ Cut(n + 1) = N
        <4> HIDE DEF N, all, Is, At, Dest
        <4>1. PICK m : m = N
          OBVIOUS
        <4>2. m \in Nat /\ n \in Nat /\ n >= m
          BY <1>2, <2>1, <2>5, <4>1
        <4>3. (IF n <= m THEN n ELSE m) = m /\ (IF n + 1 <= m THEN n + 1 ELSE m) = m
          BY <4>2
        <4> QED BY <4>1, <4>3
      <3>2. s.at >= end
        BY <1>1, <1>3, <2>4, <3>1
      <3>3. f[n + 1] = s
        BY <2>3, <3>2 DEF LoopStep
      <3>4. Is(n + 1)
        <4>1. At(n + 1) = At(n) /\ Dest(n + 1) = Dest(n)
          BY <3>1
        <4> HIDE DEF At, Dest
        <4> QED BY <2>3, <3>3, <4>1
      <3> HIDE DEF Is
      <3> QED BY <2>1, <3>4 DEF T
    <2>6. CASE n < N
      <3>1. /\ Cut(n) = n /\ Cut(n + 1) = n + 1 /\ n \in 0..N /\ n + 1 \in 0..N /\ n + 1 \in 1..N
            /\ n \in 0..(N - 1)
        BY <1>2, <2>1, <2>6
      <3>2. PICK part, len : part = PartOf(src, n + 1) /\ len = Len(F[n])
        OBVIOUS
      <3>3. part \in Seq(Byte) /\ Len(part) <= Bits /\ len \in Nat
        BY <1>2, <3>1, <3>2, PartIs
      <3>4. PICK flag, kept, c : /\ compress_group(part) = <<Data(flag)>> \o kept
                                 /\ IsGroup(part, flag, kept, c)
        BY <3>3, GroupIs
      <3>5. PICK d : d = Data(flag)
        OBVIOUS
      <3>6. d \in Byte /\ d.n = flag /\ kept \in Seq(Byte) /\ Len(kept) \in Nat /\ flag \in Nat
        <4>1. flag \in 0..(B - 1) /\ kept \in Seq(Byte)
          BY <3>4 DEF IsGroup
        <4> QED BY <3>5, <4>1, ByteIs, BIs
      <3>7. F[n + 1] = F[n] \o (<<d>> \o kept) /\ F[n] \in Seq(Byte)
        BY <1>1, <1>2, <2>1, <3>1, <3>2, <3>4, <3>5
      <3>8. /\ Len(F[n + 1]) = len + 1 + Len(kept)
            /\ F[n + 1][len + 1] = d
            /\ \A i \in 1..Len(kept) : F[n + 1][len + 1 + i] = kept[i]
        <4>1. PICK t : t = <<d>> \o kept
          OBVIOUS
        <4>2. /\ t \in Seq(Byte) /\ Len(t) = 1 + Len(kept) /\ t[1] = d
              /\ \A i \in 1..Len(kept) : t[1 + i] = kept[i]
          BY <3>6, <4>1
        <4>3. F[n + 1] = F[n] \o t
          BY <3>7, <4>1
        <4>4. Len(F[n] \o t) = len + Len(t) /\ \A i \in 1..Len(t) : (F[n] \o t)[len + i] = t[i]
          <5>1. F[n] \in Seq(Byte) /\ t \in Seq(Byte)
            BY <3>7, <4>2
          <5>2. /\ Len(F[n] \o t) = Len(F[n]) + Len(t)
                /\ \A i \in 1..Len(F[n]) + Len(t) :
                      (F[n] \o t)[i] = IF i <= Len(F[n]) THEN F[n][i] ELSE t[i - Len(F[n])]
            BY <5>1, ConcatProperties
          <5>3. \A i \in 1..Len(t) : /\ len + i \in 1..len + Len(t) /\ ~(len + i <= len)
                                     /\ (len + i) - len = i
            BY <3>3, <4>2
          <5> QED BY <3>2, <5>2, <5>3
        <4>5. /\ 1 \in 1..Len(t)
              /\ \A i \in 1..Len(kept) : 1 + i \in 1..Len(t) /\ len + (1 + i) = len + 1 + i
          BY <3>3, <3>6, <4>2
        <4>6. Len(F[n + 1]) = len + 1 + Len(kept)
          BY <3>3, <3>6, <4>2, <4>3, <4>4
        <4>7. F[n + 1][len + 1] = d
          BY <4>2, <4>3, <4>4, <4>5
        <4>8. ASSUME NEW i \in 1..Len(kept) PROVE F[n + 1][len + 1 + i] = kept[i]
          <5>1. 1 + i \in 1..Len(t) /\ len + (1 + i) = len + 1 + i
            BY <4>5
          <5>2. F[n + 1][len + (1 + i)] = t[1 + i]
            BY <4>3, <4>4, <5>1
          <5> QED BY <4>2, <5>1, <5>2
        <4> QED BY <4>6, <4>7, <4>8
      <3>9. Len(F[n + 1]) <= Len(all) /\ \A i \in 1..Len(F[n + 1]) : z[i] = F[n + 1][i]
        <4>1. Len(F[n + 1]) <= Len(all) /\ \A i \in 1..Len(F[n + 1]) : all[i] = F[n + 1][i]
          BY <1>1, <3>1
        <4>2. \A i \in 1..Len(F[n + 1]) : i \in 1..Len(all)
          BY <1>2, <1>3, <3>1, <4>1
        <4> QED BY <4>1, <4>2
      <3>10. len + 1 < end
        <4>1. CASE end = Len(all) + 1
          BY <1>3, <3>3, <3>6, <3>8, <3>9, <4>1
        <4>2. CASE end = Len(all) /\ LastKept(src)
          <5>1. CASE n + 1 < N
            <6>1. n + 2 \in 1..N /\ (n + 2) - 1 = n + 1 /\ n + 2 \in 0..N
              BY <1>2, <2>1, <5>1
            <6>2. /\ Len(F[n + 2]) > Len(F[n + 1]) /\ Len(F[n + 2]) <= Len(all)
                  /\ Len(F[n + 2]) \in Nat
              BY <1>1, <1>2, <6>1
            <6> QED BY <1>3, <3>3, <3>6, <3>8, <4>2, <6>2
          <5>2. CASE ~(n + 1 < N)
            <6>1. n + 1 = N
              BY <1>2, <2>1, <2>6, <5>2
            <6>2. PICK i \in 1..Len(part) : part[i] # Zero
              BY <3>2, <4>2, <6>1 DEF LastKept
            <6>3. c[i] = c[i - 1] + 1 /\ c[i] <= Len(kept) /\ c[i - 1] \in Nat
              <7>1. i - 1 \in 0..Len(part)
                BY <3>3
              <7> QED BY <3>4, <6>2, <7>1 DEF IsGroup
            <6> QED BY <1>3, <3>3, <3>6, <3>8, <3>9, <4>2, <6>3
          <5> QED BY <5>1, <5>2
        <4> QED BY <4>1, <4>2
      <3>11. s.at = len + 1 /\ ~(s.at >= end)
        BY <1>3, <2>4, <3>1, <3>2, <3>3, <3>10
      <3>12. z[s.at] = d
        <4>1. len + 1 \in 1..Len(F[n + 1])
          BY <3>3, <3>6, <3>8
        <4> QED BY <3>8, <3>9, <3>11, <4>1
      <3>13. PICK at : at = s.at + 1
        OBVIOUS
      <3>14. at \in Nat \ {0} /\ at - 1 + Len(kept) <= end /\ at = len + 2
        <4>1. Len(all) <= end
          BY <1>3
        <4> QED BY <1>3, <3>3, <3>6, <3>8, <3>9, <3>11, <3>13, <4>1
      <3>15. \A i \in 1..Len(kept) : z[at - 1 + i] = kept[i]
        <4>1. ASSUME NEW i \in 1..Len(kept) PROVE z[at - 1 + i] = kept[i]
          <5>1. at - 1 + i = len + 1 + i /\ len + 1 + i \in 1..Len(F[n + 1])
            BY <3>3, <3>6, <3>8, <3>14
          <5> QED BY <3>8, <3>9, <5>1
        <4> QED BY <4>1
      <3>16. uncompress_group(z, end, flag, at) = [at |-> at + Len(kept), dest |-> Padded(part)]
        <4>1. GroupAt(z, end, flag, at, part, kept, c)
          BY <3>3, <3>4, <3>14, <3>15 DEF GroupAt
        <4> QED BY <4>1, FillIs
      <3>17. f[n + 1] = [at |-> at + Len(kept), dest |-> s.dest \o Padded(part)]
        <4>1. PICK g : g = uncompress_group(z, end, flag, at)
          OBVIOUS
        <4>2. g.at = at + Len(kept) /\ g.dest = Padded(part)
          BY <3>16, <4>1
        <4>3. LoopStep(z, end, s) = [at |-> g.at, dest |-> s.dest \o g.dest]
          BY <3>6, <3>11, <3>12, <3>13, <4>1 DEF LoopStep
        <4> QED BY <2>3, <4>2, <4>3
      <3>18. At(n + 1) = at + Len(kept)
        <4> HIDE DEF Cut, Dest, Is, N, all
        <4>1. At(n + 1) = Len(F[n + 1]) + 1
          BY <3>1
        <4>2. PICK k, l : k = Len(kept) /\ l = Len(F[n + 1])
          OBVIOUS
        <4>3. k \in Nat /\ len \in Nat /\ l = len + 1 + k /\ at = len + 2
          BY <3>3, <3>6, <3>8, <3>14, <4>2
        <4>4. l + 1 = at + k
          BY <4>3
        <4> HIDE DEF At
        <4> QED BY <4>1, <4>2, <4>4
      <3>19. Dest(n + 1) = s.dest \o Padded(part)
        <4>1. Pad(src, n) \o Padded(part) = Pad(src, n + 1)
          BY <3>1, <3>2, PadNext
        <4> QED BY <2>4, <3>1, <4>1
      <3>20. Is(n + 1)
        <4> HIDE DEF At, Dest
        <4> QED BY <3>17, <3>18, <3>19
      <3> HIDE DEF Is
      <3> QED BY <2>1, <3>20 DEF T
    <2> QED BY <1>2, <2>1, <2>5, <2>6
  <1>8. Is(end)
    <2> HIDE DEF T
    <2>1. \A n \in 0..end : n \in T
      BY <1>3, <1>6, <1>7, Upwards
    <2> USE DEF T
    <2> HIDE DEF Is
    <2> QED BY <1>3, <2>1
  <1>9. Cut(end) = N
    BY <1>2, <1>3
  <1>10. f[end].dest = Dest(end)
    <2> HIDE DEF At, Dest
    <2> QED BY <1>8
  <1> QED BY <1>4, <1>9, <1>10
-----------------------------------------------------------------------------
(* A message carried.                                                      *)

LEMMA CharIs ==
    /\ \A n \in 0..(B - 1) : 2 * n < B => Char(Data(n)) = n
    /\ \A b \in Byte : Char(b) \in Int
  <1>1. Values[1] = B
    <2>1. 1 \in 1..8 /\ 1 - 1 = 0 /\ B * 1 = B
      BY BIs
    <2> QED BY <2>1, ValuesIs
  <1>2. PICK h : h = B \div 2
    OBVIOUS
  <1>3. h \in Nat /\ 2 * h <= B /\ B < 2 * h + 2 /\ B \in Nat /\ B % 8 = 0
    BY <1>2, BIs
  <1>4. B = 2 * h
    BY <1>3
  <1>5. ASSUME NEW n \in 0..(B - 1), 2 * n < B PROVE Char(Data(n)) = n
    <2>1. ~(n >= h)
      BY <1>3, <1>4, <1>5
    <2>2. Data(n).of = "data" /\ Data(n).n = n
      BY DEF Data
    <2> QED BY <1>1, <1>2, <2>1, <2>2 DEF Char, Signed
  <1>6. ASSUME NEW b \in Byte PROVE Char(b) \in Int
    <2>1. b.n \in Nat
      BY ByteIs
    <2>2. Signed(b.n, 1) \in Int
      <3>1. Signed(b.n, 1) = IF b.n >= h THEN b.n - B ELSE b.n
        BY <1>1, <1>2 DEF Signed
      <3>2. PICK m : m = b.n
        OBVIOUS
      <3>3. m \in Nat /\ Signed(b.n, 1) = IF m >= h THEN m - B ELSE m
        BY <2>1, <3>1, <3>2
      <3>4. (IF m >= h THEN m - B ELSE m) \in Int
        BY <1>3, <3>3
      <3> QED BY <3>3, <3>4
    <2>3. -h \in Int
      BY <1>3
    <2> QED BY <1>2, <2>2, <2>3 DEF Char
  <1> QED BY <1>5, <1>6

\* What compress makes, with its last byte.
LEMMA CompressIs ==
    ASSUME NEW src \in Seq(Byte), NEW all, all = compress_groups(src),
           NEW mod, mod = Len(src) % Bits
    PROVE  /\ compress(src) \in Seq(Byte) /\ all \in Seq(Byte)
           /\ mod \in 0..(Bits - 1)
           /\ (src # << >> => Len(compress(src)) >= 1)
           /\ mod > 0 => /\ Len(compress(src)) = Len(all) + 1
                         /\ compress(src)[Len(all) + 1] = Data(mod)
                         /\ \A i \in 1..Len(all) : compress(src)[i] = all[i]
  <1> DEFINE N == CountOf(src)
  <1>1. PICK F \in [0..N -> Seq(Byte)] :
            all = F[N] /\ \A g \in 0..N : g <= Len(F[g]) /\ Len(F[g]) <= Len(all)
    BY GroupsAre
  <1>2. N \in Nat /\ mod \in 0..(Bits - 1) /\ Len(src) <= N * Bits /\ Bits \in Nat
    BY CountIs, BitsIs
  <1>3. all \in Seq(Byte) /\ Len(all) \in Nat /\ N <= Len(all)
    <2>1. N \in 0..N
      BY <1>2
    <2> QED BY <1>1, <2>1
  <1>4. compress(src) = all \o IF mod > 0 THEN <<Data(mod)>> ELSE << >>
    BY DEF compress
  <1>5. CASE mod > 0
    <2>1. PICK d : d = Data(mod)
      OBVIOUS
    <2>2. d \in Byte
      <3>1. mod \in 0..(B - 1)
        BY <1>2, BIs
      <3> QED BY <2>1, <3>1, ByteIs
    <2>3. compress(src) = Append(all, d)
      <3>1. compress(src) = all \o <<d>>
        BY <1>4, <1>5, <2>1
      <3>2. all \o <<d>> = Append(all, d)
        BY <1>3, <2>2
      <3> QED BY <3>1, <3>2
    <2>4. /\ Append(all, d) \in Seq(Byte) /\ Len(Append(all, d)) = Len(all) + 1
          /\ Append(all, d)[Len(all) + 1] = d
          /\ \A i \in 1..Len(all) : Append(all, d)[i] = all[i]
      BY <1>3, <2>2
    <2> QED BY <1>2, <1>3, <1>5, <2>1, <2>3, <2>4
  <1>6. CASE ~(mod > 0)
    <2>1. compress(src) = all
      BY <1>3, <1>4, <1>6
    <2>2. src # << >> => N >= 1
      <3>1. SUFFICES ASSUME src # << >>, N = 0 PROVE FALSE
        BY <1>2
      <3>2. Len(src) \in Nat /\ Len(src) > 0
        BY <3>1
      <3>3. 0 * Bits = 0
        BY <1>2
      <3> QED BY <1>2, <3>1, <3>2, <3>3
    <2> QED BY <1>2, <1>3, <1>6, <2>1, <2>2
  <1> QED BY <1>2, <1>5, <1>6

\* What uncompress makes of bytes is bytes.
LEMMA UncompressTyped ==
    ASSUME NEW z \in Seq(Byte), Len(z) >= 1, NEW end \in 0..Len(z)
    PROVE  uncompress(z, end) \in Seq(Byte)
  <1>1. PICK dest : dest = Groups(z, end)
    OBVIOUS
  <1>2. dest \in Seq(Byte)
    BY <1>1, GroupsTyped
  <1>3. PICK len : len = Len(dest) - (Bits - Char(z[Len(z)]))
    OBVIOUS
  <1>4. uncompress(z, end) = IF len \in 0..Len(dest) THEN SubSeq(dest, 1, len) ELSE dest
    BY <1>1, <1>3 DEF uncompress
  <1>5. len \in 0..Len(dest) => SubSeq(dest, 1, len) \in Seq(Byte)
    BY <1>2
  <1> QED BY <1>2, <1>4, <1>5

\* A message comes out of the compresser as it went in.
LEMMA UncompressIs ==
    ASSUME NEW src \in Seq(Byte), Len(src) % Bits > 0, NEW end,
           \/ end = Len(compress(src))
           \/ end = Len(compress(src)) - 1 /\ LastKept(src)
    PROVE  uncompress(compress(src), end) = src
  <1>1. PICK z, all, mod, N, n : /\ z = compress(src) /\ all = compress_groups(src)
                                 /\ mod = Len(src) % Bits /\ N = CountOf(src) /\ n = Len(src)
    OBVIOUS
  <1>2. /\ z \in Seq(Byte) /\ all \in Seq(Byte) /\ mod \in 1..(Bits - 1) /\ Len(z) = Len(all) + 1
        /\ z[Len(all) + 1] = Data(mod) /\ \A i \in 1..Len(all) : z[i] = all[i]
    <2>1. /\ z \in Seq(Byte) /\ all \in Seq(Byte) /\ mod \in 0..(Bits - 1)
          /\ mod > 0 => /\ Len(z) = Len(all) + 1 /\ z[Len(all) + 1] = Data(mod)
                        /\ \A i \in 1..Len(all) : z[i] = all[i]
      BY <1>1, CompressIs
    <2>2. mod > 0
      BY <1>1
    <2> QED BY <2>1, <2>2, BitsIs
  <1>3. /\ N \in Nat /\ N > 0 /\ n \in Nat /\ Bits \in Nat
        /\ N * Bits - (Bits - mod) = n /\ N * Bits \in Nat
    <2>1. N \in Nat /\ N > 0 /\ N * Bits - (Bits - mod) = n
      BY <1>1, <1>2, CountIs
    <2> QED BY <1>1, <2>1, BitsIs, Positive
  <1>4. end \in 0..Len(z) /\ (end = Len(all) + 1 \/ (end = Len(all) /\ LastKept(src)))
    <2>1. Len(all) \in Nat
      BY <1>2
    <2> QED BY <1>1, <1>2, <2>1
  <1>5. PICK p : p = Pad(src, N)
    OBVIOUS
  <1>6. Groups(z, end) = p
    <2>1. all = compress_groups(src) /\ N = CountOf(src)
      BY <1>1
    <2>2. Len(all) <= Len(z)
      <3>1. Len(all) \in Nat
        BY <1>2
      <3> QED BY <1>2, <3>1
    <2>3. /\ CountOf(src) > 0 /\ Len(compress_groups(src)) <= Len(z)
          /\ \A i \in 1..Len(compress_groups(src)) : z[i] = compress_groups(src)[i]
          /\ \/ end = Len(compress_groups(src)) + 1
             \/ end = Len(compress_groups(src)) /\ LastKept(src)
      BY <1>2, <1>3, <1>4, <2>1, <2>2
    <2>4. Groups(z, end) = Pad(src, CountOf(src))
      BY <1>2, <1>4, <2>3, GroupsBack
    <2> QED BY <1>5, <2>1, <2>4
  <1>7. p = [i \in 1..(N * Bits) |-> IF i <= n THEN src[i] ELSE Zero]
    BY <1>1, <1>5 DEF Pad
  <1>8. p \in Seq(Byte) /\ Len(p) = N * Bits
    <2>1. \A i \in Nat \ {0} : (IF i <= n THEN src[i] ELSE Zero) \in Byte
      BY <1>1, ByteIs
    <2>2. p \in [1..(N * Bits) -> Byte]
      BY <1>3, <1>7, <2>1
    <2> QED BY <1>3, <1>7, <2>2
  <1>9. Char(z[Len(z)]) = mod
    <2>1. mod \in 0..(B - 1) /\ 2 * mod < B
      BY <1>2, BIs, BitsIs
    <2> QED BY <1>2, <2>1, CharIs
  <1>10. Len(p) - (Bits - Char(z[Len(z)])) = n /\ n \in 0..Len(p)
    BY <1>2, <1>3, <1>8, <1>9
  <1>11. uncompress(z, end) = SubSeq(p, 1, n)
    BY <1>6, <1>10 DEF uncompress
  <1>12. SubSeq(p, 1, n) = src
    <2>1. SubSeq(p, 1, n) \in Seq(Byte) /\ Len(SubSeq(p, 1, n)) = n
      BY <1>3, <1>8, <1>10
    <2>2. ASSUME NEW i \in 1..n PROVE SubSeq(p, 1, n)[i] = src[i]
      <3>1. SubSeq(p, 1, n)[i] = p[i]
        BY <1>3, <1>8, <1>10, <2>2
      <3>2. i \in 1..(N * Bits)
        BY <1>3, <1>8, <1>10, <2>2
      <3>3. i <= n
        BY <1>3, <2>2
      <3> QED BY <1>7, <3>1, <3>2, <3>3
    <2> QED BY <1>1, <2>1, <2>2, SeqEqual
  <1> QED BY <1>1, <1>11, <1>12

\* A short last group that is not all zero has a byte that is kept.
LEMMA LastKeptIs ==
    ASSUME NEW src \in Seq(Byte), Len(src) % Bits > 0,
           NEW i \in 0..((Len(src) % Bits) - 1), src[Len(src) - i] # Zero
    PROVE  LastKept(src)
  <1>1. PICK n, mod, N, s : /\ n = Len(src) /\ mod = Len(src) % Bits /\ N = CountOf(src)
                            /\ s = PartOf(src, N)
    OBVIOUS
  <1>2. /\ n \in Nat /\ mod \in 1..(Bits - 1) /\ N \in Nat /\ N > 0 /\ Bits \in Nat
        /\ N * Bits - (Bits - mod) = n
    <2>1. mod \in 0..(Bits - 1) /\ mod > 0
      BY <1>1, CountIs
    <2> QED BY <1>1, <2>1, CountIs, BitsIs
  <1>3. (N - 1) * Bits = n - mod
    <2>1. (N - 1) * Bits = N * Bits - 1 * Bits /\ 1 * Bits = Bits /\ N * Bits \in Int
      BY <1>2, Product
    <2>2. PICK x, y : x = N * Bits /\ y = (N - 1) * Bits
      OBVIOUS
    <2>3. y = x - Bits /\ x - (Bits - mod) = n /\ x \in Int
      BY <1>2, <2>1, <2>2
    <2>4. y = n - mod
      BY <1>2, <2>3
    <2> QED BY <2>2, <2>4
  <1>4. i \in 0..(mod - 1) /\ src[n - i] # Zero
    BY <1>1
  <1>5. /\ s \in Seq(Byte) /\ \A j \in 1..Bits : j <= Len(s) <=> (N - 1) * Bits + j <= n
        /\ \A j \in 1..Len(s) : s[j] = src[(N - 1) * Bits + j]
    <2>1. N \in 1..CountOf(src)
      BY <1>1, <1>2
    <2> QED BY <1>1, <2>1, PartIs
  <1>6. mod - i \in 1..Bits /\ (N - 1) * Bits + (mod - i) = n - i /\ n - i <= n
    BY <1>2, <1>3, <1>4
  <1>7. mod - i \in 1..Len(s)
    <2>1. mod - i <= Len(s)
      BY <1>5, <1>6
    <2> QED BY <1>5, <1>6, <2>1
  <1>8. s[mod - i] # Zero
    BY <1>4, <1>5, <1>6, <1>7
  <1> QED BY <1>1, <1>7, <1>8 DEF LastKept

\* What the cipher adds is taken away unless it is more than a word.
LEMMA DecryptIs ==
    ASSUME NEW src \in Seq(Byte), Len(src) >= 1
    PROVE  /\ decrypt(encrypt(src)) \in Seq(Byte)
           /\ Len(src) >= Word => decrypt(encrypt(src)) = src
  <1>1. PICK l, q, n, rest : /\ l = Len(src) /\ q = l \div Word /\ n = q + 1
                             /\ rest = (IF n <= 1 THEN 2 ELSE n) * Word - l
    OBVIOUS
  <1>2. Word \in Nat \ {0} /\ 2 * Word <= B \div 2 /\ B \in Nat /\ l \in Nat /\ l >= 1
    BY <1>1, BIs, MsgpackAssumption
  <1>3. q \in Int /\ q * Word <= l /\ l < q * Word + Word /\ q * Word \in Int
        /\ n * Word = q * Word + Word
    <2>1. q \in Int /\ q * Word <= l /\ l < q * Word + Word
      BY <1>1, <1>2, Division
    <2>2. q * Word \in Int /\ n * Word = q * Word + 1 * Word /\ 1 * Word = Word
      BY <1>1, <1>2, <2>1, Product
    <2> QED BY <2>1, <2>2
  <1>4. q >= 0
    <2>1. 0 * Word = 0 /\ 0 * Word < q * Word + Word
      BY <1>2, <1>3
    <2> QED BY <1>2, <1>3, <2>1, Monotone
  <1>5. rest \in 1..(2 * Word - 1) /\ (l >= Word => rest <= Word)
    <2>1. CASE n <= 1
      <3>1. q = 0 /\ rest = 2 * Word - l /\ 0 * Word = 0
        BY <1>1, <1>2, <1>3, <1>4, <2>1
      <3> QED BY <1>2, <1>3, <3>1
    <2>2. CASE ~(n <= 1)
      <3>1. rest = n * Word - l
        BY <1>1, <2>2
      <3> QED BY <1>2, <1>3, <3>1
    <2> QED BY <2>1, <2>2
  <1>6. PICK d : d = Data(rest)
    OBVIOUS
  <1>7. rest \in 0..(B - 1) /\ 2 * rest < B
    BY <1>2, <1>5
  <1>8. d \in Byte /\ Char(d) = rest
    BY <1>6, <1>7, ByteIs, CharIs
  <1>9. PICK t, e : t = [i \in 1..rest |-> d] /\ e = src \o t
    OBVIOUS
  <1>10. t \in Seq(Byte) /\ Len(t) = rest /\ t[rest] = d
    BY <1>5, <1>8, <1>9
  <1>11. /\ e \in Seq(Byte) /\ Len(e) = l + rest /\ e[l + rest] = d
         /\ \A i \in 1..l : e[i] = src[i]
    <2>1. /\ src \o t \in Seq(Byte) /\ Len(src \o t) = l + rest
          /\ \A i \in 1..l + rest : (src \o t)[i] = IF i <= l THEN src[i] ELSE t[i - l]
      <3>1. /\ src \o t \in Seq(Byte) /\ Len(src \o t) = Len(src) + Len(t)
            /\ \A i \in 1..Len(src) + Len(t) :
                  (src \o t)[i] = IF i <= Len(src) THEN src[i] ELSE t[i - Len(src)]
        BY <1>10, ConcatProperties
      <3>2. Len(src) = l /\ Len(t) = rest
        BY <1>1, <1>10
      <3> QED BY <3>1, <3>2
    <2>2. \A i \in 1..l : i \in 1..l + rest /\ i <= l
      BY <1>2, <1>5
    <2>3. l + rest \in 1..l + rest /\ ~(l + rest <= l) /\ (l + rest) - l = rest
      BY <1>2, <1>5
    <2>4. e[l + rest] = t[rest]
      BY <1>9, <2>1, <2>3
    <2> QED BY <1>9, <1>10, <2>1, <2>2, <2>4
  <1>12. encrypt(src) = e
    <2>1. [i \in 1..rest |-> Data(rest)] = t
      BY <1>6, <1>9
    <2> QED BY <1>1, <1>9, <2>1 DEF encrypt
  <1>13. decrypt(e) = IF rest > Word THEN << >> ELSE SubSeq(e, 1, l)
    <2>1. Char(e[Len(e)]) = rest /\ Len(e) - rest = l
      BY <1>2, <1>5, <1>8, <1>11
    <2> QED BY <2>1 DEF decrypt
  <1>14. SubSeq(e, 1, l) = src
    <2>1. SubSeq(e, 1, l) \in Seq(Byte) /\ Len(SubSeq(e, 1, l)) = l
      BY <1>2, <1>5, <1>11
    <2>2. ASSUME NEW i \in 1..l PROVE SubSeq(e, 1, l)[i] = src[i]
      BY <1>2, <1>5, <1>11
    <2> QED BY <1>1, <2>1, <2>2, SeqEqual
  <1> QED BY <1>1, <1>2, <1>5, <1>12, <1>13, <1>14

\* What a message becomes on its way, whatever the way.
LEMMA CarryTyped ==
    ASSUME NEW src \in Seq(Byte), NEW via \in {"plain", "buffer", "pointer", "xxtea"},
           via # "plain" => src # << >>
    PROVE  Carry(via, src) \in Seq(Byte)
  <1>1. CASE via = "plain"
    BY <1>1 DEF Carry
  <1>2. CASE via # "plain"
    <2>1. Len(src) >= 1
      BY <1>2
    <2>2. PICK c : c = compress(src)
      OBVIOUS
    <2>3. c \in Seq(Byte) /\ Len(c) >= 1
      BY <1>2, <2>2, CompressIs
    <2>4. Len(c) \in 0..Len(c) /\ Len(c) - 1 \in 0..Len(c)
      BY <2>3
    <2>5. uncompress(c, Len(c)) \in Seq(Byte) /\ uncompress(c, Len(c) - 1) \in Seq(Byte)
      BY <2>3, <2>4, UncompressTyped
    <2>6. decrypt(encrypt(src)) \in Seq(Byte)
      BY <2>1, DecryptIs
    <2> QED BY <1>2, <2>2, <2>5, <2>6 DEF Carry
  <1> QED BY <1>1, <1>2

\* A message that is carried comes out as it went in, with the exceptions.
LEMMA CarryIs ==
    ASSUME NEW src \in Seq(Byte), NEW via \in {"plain", "buffer", "pointer", "xxtea"},
           via # "plain" => src # << >>
    PROVE  \/ via = "plain" \/ Carry(via, src) = src
           \/ via = "xxtea" /\ Len(src) < Word
           \/ via \in {"buffer", "pointer"} /\ Len(src) % Bits = 0
           \/ via = "pointer" /\ \A i \in 0..((Len(src) % Bits) - 1) : src[Len(src) - i] = Zero
  <1>1. Len(src) % Bits \in 0..(Bits - 1) /\ Word \in Nat /\ Len(src) \in Nat /\ Bits \in Nat
    BY CountIs, BitsIs, MsgpackAssumption
  <1>2. CASE via = "xxtea"
    <2>1. Len(src) >= 1
      BY <1>2
    <2>2. Len(src) >= Word => decrypt(encrypt(src)) = src
      BY <2>1, DecryptIs
    <2>3. Carry(via, src) = decrypt(encrypt(src))
      BY <1>2 DEF Carry
    <2>4. Len(src) >= Word \/ Len(src) < Word
      BY <1>1
    <2> QED BY <1>2, <2>2, <2>3, <2>4
  <1>3. CASE via = "buffer"
    <2>1. CASE Len(src) % Bits > 0
      <3>1. uncompress(compress(src), Len(compress(src))) = src
        BY <2>1, UncompressIs
      <3> QED BY <1>3, <3>1 DEF Carry
    <2>2. Len(src) % Bits > 0 \/ Len(src) % Bits = 0
      BY <1>1
    <2> QED BY <1>3, <2>1, <2>2
  <1>4. CASE via = "pointer"
    <2>1. SUFFICES ASSUME Len(src) % Bits > 0, NEW i \in 0..((Len(src) % Bits) - 1),
                          src[Len(src) - i] # Zero
                   PROVE  Carry(via, src) = src
      <3>1. Len(src) % Bits > 0 \/ Len(src) % Bits = 0
        BY <1>1
      <3> QED BY <1>4, <3>1
    <2>2. LastKept(src)
      BY <2>1, LastKeptIs
    <2>3. uncompress(compress(src), Len(compress(src)) - 1) = src
      BY <2>1, <2>2, UncompressIs
    <2> QED BY <1>4, <2>3 DEF Carry
  <1> QED BY <1>2, <1>3, <1>4
-----------------------------------------------------------------------------
(* Integers of a width.                                                    *)

LEMMA ValuesGrow ==
    /\ Values[1] = B
    /\ \A k \in 1..8 : Values[k] \div 2 \in Nat \ {0} /\ Values[k] = 2 * (Values[k] \div 2)
    /\ \A j, k \in Widths : j <= k => Values[j] <= Values[k]
  <1>1. Values[1] = B
    <2>1. 1 \in 1..8 /\ 1 - 1 = 0 /\ B * 1 = B
      BY BIs
    <2> QED BY <2>1, ValuesIs
  <1>2. ASSUME NEW k \in 1..8
        PROVE  /\ Values[k] \div 2 \in Nat \ {0} /\ Values[k] = 2 * (Values[k] \div 2)
               /\ Values[k - 1] <= Values[k]
    <2>1. PICK h, w, x : h = B \div 2 /\ w = Values[k - 1] /\ x = Values[k]
      OBVIOUS
    <2>2. h \in Nat \ {0} /\ B = 2 * h
      BY <2>1, BIs
    <2>3. w \in Nat \ {0} /\ x = B * w
      <3>1. k - 1 \in 0..8
        OBVIOUS
      <3> QED BY <2>1, <3>1, ValuesIs
    <2>4. h * w \in Nat \ {0} /\ (2 * h) * w = 2 * (h * w)
      BY <2>2, <2>3, Z3
    <2>5. h * w >= w
      BY <2>2, <2>3, Z3
    <2>6. x = 2 * (h * w)
      BY <2>2, <2>3, <2>4
    <2> QED BY <2>1, <2>3, <2>4, <2>5, <2>6
  <1>3. /\ Values[1] <= Values[2] /\ Values[2] <= Values[3] /\ Values[3] <= Values[4]
        /\ Values[4] <= Values[5] /\ Values[5] <= Values[6] /\ Values[6] <= Values[7]
        /\ Values[7] <= Values[8]
    <2>1. /\ 2 \in 1..8 /\ 3 \in 1..8 /\ 4 \in 1..8 /\ 5 \in 1..8 /\ 6 \in 1..8 /\ 7 \in 1..8
          /\ 8 \in 1..8 /\ 2 - 1 = 1 /\ 3 - 1 = 2 /\ 4 - 1 = 3 /\ 5 - 1 = 4 /\ 6 - 1 = 5
          /\ 7 - 1 = 6 /\ 8 - 1 = 7
      OBVIOUS
    <2> QED BY <1>2, <2>1
  <1>4. \A k \in 1..8 : Values[k] \in Nat
    BY ValuesIs
  <1>5. \A j, k \in Widths : j <= k => Values[j] <= Values[k]
    <2>1. Values[1] <= Values[4] /\ Values[1] <= Values[8] /\ Values[2] <= Values[4]
          /\ Values[2] <= Values[8] /\ Values[4] <= Values[8]
      BY <1>3, <1>4
    <2> QED BY <1>3, <1>4, <2>1 DEF Widths
  <1> QED BY <1>1, <1>2, <1>5

LEMMA Widens ==
    ASSUME NEW v \in Int, NEW s \in BOOLEAN, NEW j \in Widths, NEW k \in Widths, j <= k,
           HasValue([signed |-> s, width |-> j], v)
    PROVE  HasValue([signed |-> s, width |-> k], v)
  <1>1. PICK a, b, c, d : /\ a = Values[j] /\ b = Values[k]
                          /\ c = Values[j] \div 2 /\ d = Values[k] \div 2
    OBVIOUS
  <1>2. c \in Nat /\ d \in Nat /\ a = 2 * c /\ b = 2 * d /\ a <= b
    <2>1. j \in 1..8 /\ k \in 1..8
      BY DEF Widths
    <2> QED BY <1>1, <2>1, ValuesGrow
  <1>3. IF s THEN -c <= v /\ v < c ELSE 0 <= v /\ v < a
    BY <1>1 DEF HasValue
  <1>4. IF s THEN -d <= v /\ v < d ELSE 0 <= v /\ v < b
    BY <1>2, <1>3
  <1> QED BY <1>1, <1>4 DEF HasValue

\* The width of the shortest form.
Shortest(v, k) ==
    k \in Widths /\ \A x \in Widths : HasValue([signed |-> v < 0, width |-> x], v) <=> k <= x
Narrowest(v) ==
    CHOOSE w \in Widths : \A x \in Widths : HasValue([signed |-> v < 0, width |-> x], v) <=> w <= x

LEMMA NarrowestIs ==
    ASSUME NEW v \in Int, NEW t \in Type, HasValue(t, v)
    PROVE  Shortest(v, Narrowest(v))
  <1> DEFINE Fits1(x) == HasValue([signed |-> v < 0, width |-> x], v)
  <1>1. t.width \in Widths /\ t.signed \in BOOLEAN /\ t = [signed |-> t.signed, width |-> t.width]
    BY DEF Type
  <1>2. Fits1(t.width)
    <2>1. PICK a, c : a = Values[t.width] /\ c = Values[t.width] \div 2
      OBVIOUS
    <2>2. c \in Nat /\ a = 2 * c
      <3>1. t.width \in 1..8
        BY <1>1 DEF Widths
      <3> QED BY <2>1, <3>1, ValuesGrow
    <2>3. IF t.signed THEN -c <= v /\ v < c ELSE 0 <= v /\ v < a
      BY <2>1 DEF HasValue
    <2>4. IF v < 0 THEN -c <= v /\ v < c ELSE 0 <= v /\ v < a
      BY <1>1, <2>2, <2>3
    <2> QED BY <2>1, <2>4 DEF HasValue
  <1>3. \A j, k \in Widths : Fits1(j) /\ j <= k => Fits1(k)
    <2>1. (v < 0) \in BOOLEAN
      OBVIOUS
    <2> QED BY <2>1, Widens
  <1> HIDE DEF Fits1
  <1>4. \E w \in Widths : \A x \in Widths : Fits1(x) <=> w <= x
    <2>1. 1 \in Widths /\ 2 \in Widths /\ 4 \in Widths /\ 8 \in Widths
          /\ \A x \in Widths : x = 1 \/ x = 2 \/ x = 4 \/ x = 8
      BY DEF Widths
    <2>2. Fits1(8)
      <3>1. t.width <= 8
        BY <1>1, <2>1
      <3> QED BY <1>1, <1>2, <1>3, <2>1, <3>1
    <2>3. (Fits1(1) => Fits1(2)) /\ (Fits1(2) => Fits1(4))
      BY <1>3, <2>1
    <2>4. CASE Fits1(1)
      <3>1. \A x \in Widths : Fits1(x) <=> 1 <= x
        BY <2>1, <2>2, <2>3, <2>4
      <3> QED BY <2>1, <3>1
    <2>5. CASE ~Fits1(1) /\ Fits1(2)
      <3>1. \A x \in Widths : Fits1(x) <=> 2 <= x
        BY <2>1, <2>2, <2>3, <2>5
      <3> QED BY <2>1, <3>1
    <2>6. CASE ~Fits1(1) /\ ~Fits1(2) /\ Fits1(4)
      <3>1. \A x \in Widths : Fits1(x) <=> 4 <= x
        BY <2>1, <2>2, <2>3, <2>6
      <3> QED BY <2>1, <3>1
    <2>7. CASE ~Fits1(1) /\ ~Fits1(2) /\ ~Fits1(4)
      <3>1. \A x \in Widths : Fits1(x) <=> 8 <= x
        BY <2>1, <2>2, <2>3, <2>7
      <3> QED BY <2>1, <3>1
    <2> QED BY <2>4, <2>5, <2>6, <2>7
  <1> QED BY <1>4 DEF Narrowest, Shortest, Fits1

\* The width of the length of a string.
LengthWidth(l) == CHOOSE w \in {1, 2, 4} : \A x \in {1, 2, 4} : l < Values[x] <=> w <= x

LEMMA LengthWidthIs ==
    ASSUME NEW l \in Nat, l < Values[4]
    PROVE  LengthWidth(l) \in {1, 2, 4} /\ l < Values[LengthWidth(l)]
  <1>1. PICK a, b, c : a = Values[1] /\ b = Values[2] /\ c = Values[4]
    OBVIOUS
  <1>2. a \in Nat /\ b \in Nat /\ c \in Nat /\ a <= b /\ b <= c /\ l < c
    <2>1. 1 \in Widths /\ 2 \in Widths /\ 4 \in Widths /\ 1 \in 0..8 /\ 2 \in 0..8 /\ 4 \in 0..8
      BY DEF Widths
    <2> QED BY <1>1, <2>1, ValuesGrow, ValuesIs
  <1>3. \E w \in {1, 2, 4} : \A x \in {1, 2, 4} : l < Values[x] <=> w <= x
    <2>1. CASE l < a
      <3>1. \A x \in {1, 2, 4} : l < Values[x] <=> 1 <= x
        BY <1>1, <1>2, <2>1
      <3> QED BY <3>1
    <2>2. CASE ~(l < a) /\ l < b
      <3>1. \A x \in {1, 2, 4} : l < Values[x] <=> 2 <= x
        BY <1>1, <1>2, <2>2
      <3> QED BY <3>1
    <2>3. CASE ~(l < a) /\ ~(l < b)
      <3>1. \A x \in {1, 2, 4} : l < Values[x] <=> 4 <= x
        BY <1>1, <1>2, <2>3
      <3> QED BY <3>1
    <2> QED BY <2>1, <2>2, <2>3
  <1>4. PICK k : k = LengthWidth(l)
    OBVIOUS
  <1>5. k \in {1, 2, 4} /\ \A x \in {1, 2, 4} : l < Values[x] <=> k <= x
    BY <1>3, <1>4 DEF LengthWidth
  <1> QED BY <1>4, <1>5

\* The bytes of an integer.
LEMMA StoreIs ==
    ASSUME NEW v \in Int, NEW k \in 0..8
    PROVE  /\ Store(v, k) \in Seq(Byte) /\ Len(Store(v, k)) = k
           /\ \A i \in 1..k : Store(v, k)[i].n = (v \div Values[k - i]) % B
  <1>1. ASSUME NEW i \in 1..k
        PROVE  /\ Data((v \div Values[k - i]) % B) \in Byte
               /\ Data((v \div Values[k - i]) % B).n = (v \div Values[k - i]) % B
    <2>1. PICK w, x : w = Values[k - i] /\ x = (v \div w) % B
      OBVIOUS
    <2>2. w \in Nat \ {0}
      <3>1. k - i \in 0..8
        OBVIOUS
      <3> QED BY <2>1, <3>1, ValuesIs
    <2>3. x \in 0..(B - 1)
      <3>1. PICK y : y = v \div w
        OBVIOUS
      <3>2. y \in Int /\ B \in Nat \ {0} /\ x = y % B
        BY <2>1, <2>2, <3>1, Division, BIs
      <3>3. y % B \in 0..(B - 1)
        BY <3>2, Remainder
      <3> QED BY <3>2, <3>3
    <2> QED BY <2>1, <2>3, ByteIs
  <1>2. PICK s : s = [i \in 1..k |-> Data((v \div Values[k - i]) % B)]
    OBVIOUS
  <1>3. k \in Nat /\ s \in [1..k -> Byte]
    BY <1>1, <1>2
  <1>4. s \in Seq(Byte) /\ Len(s) = k
    BY <1>3
  <1>5. Store(v, k) = s
    BY <1>2 DEF Store
  <1>6. ASSUME NEW i \in 1..k PROVE s[i].n = (v \div Values[k - i]) % B
    BY <1>1, <1>2
  <1> QED BY <1>4, <1>5, <1>6

\* A head with what it says behind it.
Headed(of, k, v) == <<Mark(of, k)>> \o Store(v, k)

LEMMA HeadedIs ==
    ASSUME NEW of \in {"int", "uint", "float", "double", "str", "array", "map"},
           NEW k \in Widths, NEW v \in Int
    PROVE  /\ Headed(of, k, v) \in Seq(Byte) /\ Len(Headed(of, k, v)) = 1 + k
           /\ Headed(of, k, v)[1] = Mark(of, k)
           /\ \A i \in 1..k : Headed(of, k, v)[1 + i] = Store(v, k)[i]
  <1>1. k \in 0..8 /\ k \in Nat
    BY DEF Widths
  <1>2. PICK h, s : h = Mark(of, k) /\ s = Store(v, k)
    OBVIOUS
  <1>3. h \in Byte
    BY <1>2 DEF Byte, Mark
  <1>4. s \in Seq(Byte) /\ Len(s) = k
    BY <1>1, <1>2, StoreIs
  <1>5. /\ <<h>> \o s \in Seq(Byte) /\ Len(<<h>> \o s) = 1 + k /\ (<<h>> \o s)[1] = h
        /\ \A i \in 1..k : (<<h>> \o s)[1 + i] = s[i]
    BY <1>1, <1>3, <1>4
  <1> QED BY <1>2, <1>5 DEF Headed

\* A function on the numbers up to N stays in a set if every step does.
LEMMA Stepwise ==
    ASSUME NEW S, NEW N \in Nat, NEW g, g = [n \in 0..N |-> g[n]], g[0] \in S,
           \A n \in 1..N : g[n - 1] \in S => g[n] \in S
    PROVE  g \in [0..N -> S]
  <1> DEFINE T == {n \in Nat : g[n] \in S}
  <1>1. 0 \in T
    OBVIOUS
  <1>2. ASSUME NEW n \in 0..(N - 1), n \in T PROVE n + 1 \in T
    <2>1. n + 1 \in 1..N /\ (n + 1) - 1 = n /\ n + 1 \in Nat
      OBVIOUS
    <2> QED BY <1>2, <2>1
  <1>3. \A n \in 0..N : n \in T
    <2> HIDE DEF T
    <2> QED BY <1>1, <1>2, Upwards
  <1> QED BY <1>3

LoadStep(bytes, n, s) == s * B + bytes[n].n
LoadBy(bytes, f) ==
    f = [n \in 0..Len(bytes) |-> IF n = 0 THEN 0 ELSE LoadStep(bytes, n, f[n - 1])]

\* The equation by which Load is defined has a solution.
LEMMA LoadDefined ==
    ASSUME NEW bytes \in Seq(Byte)
    PROVE  \E f \in [0..Len(bytes) -> Nat] :
              /\ f[0] = 0 /\ \A n \in 1..Len(bytes) : f[n] = LoadStep(bytes, n, f[n - 1])
              /\ Load(bytes) = f[Len(bytes)]
  <1> DEFINE N == Len(bytes)
             step == [n \in 1..N |-> [s \in Nat |-> LoadStep(bytes, n, s)]]
  <1>1. N \in Nat /\ 0 \in 0..N /\ \A n \in 1..N : n - 1 \in 0..N /\ n \in 0..N /\ n # 0
    OBVIOUS
  <1>2. ASSUME NEW n \in 1..N, NEW s \in Nat PROVE LoadStep(bytes, n, s) \in Nat
    <2>1. PICK x, y : x = bytes[n].n /\ y = s * B
      OBVIOUS
    <2>2. x \in Nat /\ y \in Nat
      <3>1. bytes[n] \in Byte
        OBVIOUS
      <3> QED BY <2>1, <3>1, ByteIs, BIs, Positive
    <2> QED BY <2>1, <2>2 DEF LoadStep
  <1>3. step \in [1..N -> [Nat -> Nat]]
    BY <1>2
  <1> HIDE DEF step
  <1>4. PICK f \in [0..N -> Nat] : Recursive(f, N, 0, step)
    BY <1>1, <1>3, Recursion
  <1>5. LoadBy(bytes, f)
    <2>1. ASSUME NEW n \in 1..N PROVE step[n][f[n - 1]] = LoadStep(bytes, n, f[n - 1])
      <3>1. f[n - 1] \in Nat
        BY <1>1, <1>4
      <3> QED BY <3>1 DEF step
    <2>2. \A n \in 0..N : n # 0 => n \in 1..N
      BY <1>1
    <2> QED BY <1>4, <2>1, <2>2 DEF Recursive, LoadBy
  <1>6. PICK g : g = CHOOSE h : LoadBy(bytes, h)
    OBVIOUS
  <1>7. LoadBy(bytes, g)
    BY <1>5, <1>6
  <1>8. Load(bytes) = g[N]
    BY <1>6 DEF Load, LoadBy, LoadStep
  <1>9. g[0] = 0 /\ \A n \in 1..N : g[n] = LoadStep(bytes, n, g[n - 1])
    BY <1>1, <1>7 DEF LoadBy
  <1>10. g \in [0..N -> Nat]
    <2>1. g = [n \in 0..N |-> g[n]]
      BY <1>7 DEF LoadBy
    <2>2. g[0] \in Nat
      BY <1>9
    <2>3. ASSUME NEW n \in 1..N, g[n - 1] \in Nat PROVE g[n] \in Nat
      <3>1. g[n] = LoadStep(bytes, n, g[n - 1])
        BY <1>9
      <3> HIDE DEF N
      <3> QED BY <1>2, <2>3, <3>1
    <2> QED BY <1>1, <2>1, <2>2, <2>3, Stepwise
  <1> QED BY <1>8, <1>9, <1>10

\* What is stored comes back, without what its width has no room for.
Stored(bytes, v, k) ==
    bytes \in Seq(Byte) /\ Len(bytes) = k /\ \A i \in 1..k : bytes[i].n = Store(v, k)[i].n

LEMMA LoadIs ==
    ASSUME NEW v \in Int, NEW k \in 0..8, NEW bytes, Stored(bytes, v, k)
    PROVE  Load(bytes) = v % Values[k]
  <1>0. \A m \in 0..8 : Values[m] \in Nat \ {0}
    <2>1. ASSUME NEW m \in 0..8 PROVE Values[m] \in Nat \ {0}
      <3>1. Values[m] \in Nat /\ Values[m] > 0
        BY ValuesIs
      <3> QED BY <3>1
    <2> QED BY <2>1
  <1>1. PICK f \in [0..k -> Nat] :
            /\ f[0] = 0 /\ \A n \in 1..k : f[n] = LoadStep(bytes, n, f[n - 1])
            /\ Load(bytes) = f[k]
    BY LoadDefined DEF Stored
  <1>2. \A i \in 1..k : bytes[i].n = (v \div Values[k - i]) % B
    BY StoreIs DEF Stored
  <1> DEFINE Is(n) == f[n] = (v \div Values[k - n]) % Values[n]
             T == {n \in Nat : Is(n)}
  <1>3. 0 \in T
    <2>1. PICK x : x = v \div Values[k]
      OBVIOUS
    <2>2. x \in Int
      BY <2>1, ValuesIs, Division
    <2>3. x % 1 = 0
      BY <2>2
    <2>4. k - 0 = k
      OBVIOUS
    <2>5. Is(0)
      BY <1>1, <2>1, <2>3, <2>4, ValuesIs
    <2> QED BY <2>5
  <1>4. ASSUME NEW n \in 0..(k - 1), n \in T PROVE n + 1 \in T
    <2>1. /\ n + 1 \in 1..k /\ (n + 1) - 1 = n /\ n \in 0..k /\ n + 1 \in Nat
          /\ n \in 0..8 /\ n + 1 \in 1..8
          /\ k - n \in 1..8 /\ (k - n) - 1 = k - (n + 1) /\ k - (n + 1) \in 0..8
      OBVIOUS
    <2>2. PICK w, d, q : w = Values[n] /\ d = Values[k - (n + 1)] /\ q = v \div d
      OBVIOUS
    <2>3. w \in Nat \ {0} /\ d \in Nat \ {0} /\ B \in Nat \ {0} /\ q \in Int
      <3>1. w \in Nat \ {0} /\ d \in Nat \ {0}
        <4>2. \A m \in 0..8 : m = k - (n + 1) => Values[m] = d
          BY <2>2
        <4>3. k - (n + 1) \in 0..8
          BY <2>1
        <4>4. w \in Nat \ {0}
          BY <1>0, <2>1, <2>2
        <4> HIDE DEF Is, T
        <4>5. d \in Nat \ {0}
          <5>1. PICK m : m = k - (n + 1)
            OBVIOUS
          <5>2. m \in 0..8 /\ Values[m] = d
            BY <4>2, <4>3, <5>1
          <5> QED BY <1>0, <5>2
        <4> QED BY <4>4, <4>5
      <3>2. B \in Nat \ {0}
        BY BIs
      <3>3. v \div d \in Int
        BY <3>1, Division
      <3> HIDE DEF Is, T
      <3> QED BY <2>2, <3>1, <3>2, <3>3
    <2>4. v \div Values[k - n] = q \div B
      <3>1. Values[k - n] = B * d
        BY <2>1, <2>2, ValuesIs
      <3>2. v \div (B * d) = (v \div d) \div B
        BY <2>3, DivisionTwice
      <3> QED BY <2>2, <3>1, <3>2
    <2>5. PICK a, b, c, e : a = q \div B /\ b = q % B /\ c = a \div w /\ e = a % w
      OBVIOUS
    <2>6. a \in Int /\ b \in 0..(B - 1) /\ q = a * B + b
      BY <2>3, <2>5, Division, Remainder
    <2>7. c \in Int /\ e \in 0..(w - 1) /\ a = c * w + e
      BY <2>3, <2>5, <2>6, Division, Remainder
    <2>8. f[n + 1] = e * B + b
      <3>1. Is(n)
        BY <1>4
      <3>2. f[n] = e
        BY <2>2, <2>4, <2>5, <3>1
      <3>3. bytes[n + 1].n = b
        BY <1>2, <2>1, <2>2, <2>5
      <3> QED BY <1>1, <2>1, <3>2, <3>3 DEF LoadStep
    <2>9. q = c * (B * w) + (e * B + b)
      <3>1. (c * w + e) * B = (c * w) * B + e * B /\ c * (w * B) = (c * w) * B /\ w * B = B * w
            /\ c * w \in Int /\ e * B \in Int /\ (c * w) * B \in Int
        BY <2>3, <2>7, Product
      <3> QED BY <2>6, <2>7, <3>1
    <2>10. e * B + b \in 0..(B * w - 1) /\ B * w \in Nat \ {0}
      <3>1. B * w \in Nat \ {0} /\ e * B \in Nat
        BY <2>3, <2>7, Positive
      <3>2. e * B <= (w - 1) * B
        BY <2>3, <2>7, Z3
      <3>3. (w - 1) * B = w * B - 1 * B /\ 1 * B = B /\ w * B = B * w
        BY <2>3, Product
      <3> QED BY <2>3, <2>6, <3>1, <3>2, <3>3
    <2>11. q % (B * w) = e * B + b
      BY <2>3, <2>7, <2>9, <2>10, RemainderIs
    <2>12. Values[n + 1] = B * w
      BY <2>1, <2>2, ValuesIs
    <2>13. Is(n + 1)
      BY <2>2, <2>8, <2>11, <2>12
    <2> HIDE DEF Is
    <2> QED BY <2>1, <2>13
  <1>5. Is(k)
    <2> HIDE DEF T
    <2>0. k \in Nat
      OBVIOUS
    <2>1. \A n \in 0..k : n \in T
      BY <2>0, <1>3, <1>4, Upwards
    <2> USE DEF T
    <2> HIDE DEF Is
    <2> QED BY <2>1
  <1>6. v \div Values[k - k] = v
    <2>1. v \div 1 = v
      OBVIOUS
    <2>2. k - k = 0
      OBVIOUS
    <2> QED BY <2>1, <2>2, ValuesIs
  <1> QED BY <1>1, <1>5, <1>6
-----------------------------------------------------------------------------
(* Sequences one after the other.                                          *)

\* F has what the first n of w are together.
Joins(F, w) ==
    /\ F \in [0..Len(w) -> Seq(Byte)] /\ F[0] = << >>
    /\ \A n \in 1..Len(w) : F[n] = F[n - 1] \o w[n]
JoinBy(w, f) == f = [i \in 1..Len(w) |-> IF i = 1 THEN w[i] ELSE f[i - 1] \o w[i]]

LEMMA JoinsExist ==
    ASSUME NEW w \in Seq(Seq(Byte))
    PROVE  \E F : Joins(F, w)
  <1> DEFINE S == Seq(Byte)
             N == Len(w)
             step == [n \in 1..N |-> [s \in S |-> s \o w[n]]]
  <1>1. N \in Nat /\ 0 \in 0..N /\ << >> \in S
        /\ \A n \in 1..N : n - 1 \in 0..N /\ n \in 0..N /\ n # 0
    OBVIOUS
  <1>2. ASSUME NEW n \in 1..N, NEW s \in S PROVE s \o w[n] \in S
    <2>1. PICK t : t = w[n]
      OBVIOUS
    <2>2. t \in S
      BY <2>1
    <2> QED BY <2>1, <2>2
  <1>3. step \in [1..N -> [S -> S]]
    BY <1>2
  <1> HIDE DEF step, S
  <1>4. PICK F \in [0..N -> S] : Recursive(F, N, << >>, step)
    BY <1>1, <1>3, Recursion
  <1>5. F[0] = << >> /\ \A n \in 1..N : F[n] = step[n][F[n - 1]]
    BY <1>1, <1>4 DEF Recursive
  <1>6. ASSUME NEW n \in 1..N PROVE F[n] = F[n - 1] \o w[n]
    <2>1. F[n - 1] \in S
      BY <1>1, <1>4
    <2> QED BY <1>5, <2>1 DEF step
  <1> QED BY <1>4, <1>5, <1>6 DEF Joins, S

LEMMA JoinsTyped ==
    ASSUME NEW w \in Seq(Seq(Byte)), NEW F, Joins(F, w)
    PROVE  /\ \A n \in 0..Len(w) : F[n] \in Seq(Byte) /\ Len(F[n]) \in Nat
           /\ \A n \in 1..Len(w) :
                 w[n] \in Seq(Byte) /\ Len(w[n]) \in Nat /\ Len(F[n]) = Len(F[n - 1]) + Len(w[n])
  <1>1. ASSUME NEW n \in 0..Len(w) PROVE F[n] \in Seq(Byte) /\ Len(F[n]) \in Nat
    <2>1. F[n] \in Seq(Byte)
      BY DEF Joins
    <2> QED BY <2>1
  <1>2. ASSUME NEW n \in 1..Len(w)
        PROVE  w[n] \in Seq(Byte) /\ Len(w[n]) \in Nat /\ Len(F[n]) = Len(F[n - 1]) + Len(w[n])
    <2>1. PICK a, b : a = F[n - 1] /\ b = w[n]
      OBVIOUS
    <2>2. a \in Seq(Byte) /\ b \in Seq(Byte)
      <3>1. n - 1 \in 0..Len(w)
        OBVIOUS
      <3> QED BY <1>1, <2>1, <3>1
    <2>3. F[n] = a \o b
      BY <2>1 DEF Joins
    <2> QED BY <2>1, <2>2, <2>3
  <1> QED BY <1>1, <1>2

\* The first n of w flattened are what F says.
LEMMA FlattenIs ==
    ASSUME NEW w \in Seq(Seq(Byte)), NEW F, Joins(F, w), NEW n \in 0..Len(w),
           NEW x, x = [i \in 1..n |-> w[i]]
    PROVE  FlattenSeq(x) = F[n]
  <1>1. n \in Nat /\ Len(w) \in Nat /\ \A i \in 1..n : i \in 1..Len(w)
    OBVIOUS
  <1>2. x \in [1..n -> Seq(Byte)]
    BY <1>1
  <1>3. x \in Seq(Seq(Byte)) /\ Len(x) = n /\ DOMAIN x = 1..n
    BY <1>1, <1>2
  <1>4. CASE n = 0
    <2>1. x = << >>
      BY <1>3, <1>4
    <2>2. FlattenSeq(x) = x
      BY <1>3, <1>4 DEF FlattenSeq
    <2> QED BY <1>4, <2>1, <2>2 DEF Joins
  <1>5. CASE n # 0
    <2>1. PICK h : h = [i \in 1..n |-> F[i]]
      OBVIOUS
    <2>2. h = [i \in 1..n |-> IF i = 1 THEN x[i] ELSE h[i - 1] \o x[i]]
      <3>1. ASSUME NEW i \in 1..n PROVE F[i] = IF i = 1 THEN x[i] ELSE h[i - 1] \o x[i]
        <4>1. i \in 1..Len(w) /\ F[i] = F[i - 1] \o w[i] /\ x[i] = w[i]
          BY <1>1 DEF Joins
        <4>2. CASE i = 1
          <5>1. w[i] \in Seq(Byte)
            BY <4>1, JoinsTyped
          <5>2. F[i - 1] = << >>
            BY <4>2 DEF Joins
          <5>3. << >> \o w[i] = w[i]
            BY <5>1
          <5> QED BY <4>1, <4>2, <5>2, <5>3
        <4>3. CASE i # 1
          <5>1. i - 1 \in 1..n
            BY <1>1, <4>3
          <5>2. h[i - 1] = F[i - 1]
            BY <2>1, <5>1
          <5> QED BY <4>1, <4>3, <5>2
        <4> QED BY <4>2, <4>3
      <3> QED BY <2>1, <3>1
    <2>3. JoinBy(x, h)
      BY <1>3, <2>2 DEF JoinBy
    <2>4. PICK g : g = CHOOSE f : JoinBy(x, f)
      OBVIOUS
    <2>5. JoinBy(x, g)
      BY <2>3, <2>4
    <2>6. FlattenSeq(x) = g[Len(x)]
      BY <1>3, <1>5, <2>4 DEF FlattenSeq, JoinBy
    <2>7. \A i \in 1..n : g[i] = IF i = 1 THEN x[i] ELSE g[i - 1] \o x[i]
      BY <1>3, <2>5 DEF JoinBy
    <2> DEFINE T == {i \in Nat : i # 0 => g[i] = F[i]}
    <2>8. 0 \in T
      OBVIOUS
    <2>9. ASSUME NEW i \in 0..(n - 1), i \in T PROVE i + 1 \in T
      <3>1. i + 1 \in 1..n /\ (i + 1) - 1 = i /\ i + 1 \in 1..Len(w) /\ i + 1 \in Nat
        BY <1>1
      <3>2. F[i + 1] = F[i] \o w[i + 1] /\ x[i + 1] = w[i + 1]
        BY <3>1 DEF Joins
      <3>3. CASE i = 0
        <4>1. w[1] \in Seq(Byte) /\ F[0] = << >>
          BY <3>1, <3>3, JoinsTyped DEF Joins
        <4>2. << >> \o w[1] = w[1]
          BY <4>1
        <4>3. g[1] = x[1]
          BY <2>7, <3>1, <3>3
        <4> QED BY <3>1, <3>2, <3>3, <4>1, <4>2, <4>3
      <3>4. CASE i # 0
        <4>1. g[i] = F[i]
          BY <2>9, <3>4
        <4>2. g[i + 1] = g[i] \o x[i + 1]
          <5>1. i + 1 # 1
            BY <3>4
          <5> QED BY <2>7, <3>1, <5>1
        <4> QED BY <3>1, <3>2, <4>1, <4>2
      <3> QED BY <3>3, <3>4
    <2>10. \A i \in 0..n : i \in T
      <3> HIDE DEF T
      <3> QED BY <1>1, <2>8, <2>9, Upwards
    <2>11. g[n] = F[n]
      <3>1. n \in T
        BY <1>1, <2>10
      <3> QED BY <1>5, <3>1
    <2> QED BY <1>3, <2>6, <2>11
  <1> QED BY <1>4, <1>5

\* All of w flattened.
LEMMA FlattenAll ==
    ASSUME NEW w \in Seq(Seq(Byte)), NEW F, Joins(F, w)
    PROVE  FlattenSeq(w) = F[Len(w)] /\ F[Len(w)] \in Seq(Byte)
  <1>1. Len(w) \in 0..Len(w) /\ w = [i \in 1..Len(w) |-> w[i]]
    OBVIOUS
  <1>2. FlattenSeq(w) = F[Len(w)]
    BY <1>1, FlattenIs
  <1> QED BY <1>1, <1>2, JoinsTyped

\* src has bytes behind p.
Held(src, p, bytes) ==
    /\ src \in Seq(Byte) /\ bytes \in Seq(Byte) /\ p \in Nat /\ p + Len(bytes) <= Len(src)
    /\ \A i \in 1..Len(bytes) : src[p + i] = bytes[i]

LEMMA HeldSplit ==
    ASSUME NEW src, NEW p, NEW a \in Seq(Byte), NEW b \in Seq(Byte), Held(src, p, a \o b)
    PROVE  Held(src, p, a) /\ Held(src, p + Len(a), b)
  <1>1. PICK m, n, c : m = Len(a) /\ n = Len(b) /\ c = a \o b
    OBVIOUS
  <1>2. /\ m \in Nat /\ n \in Nat /\ c \in Seq(Byte) /\ Len(c) = m + n
        /\ \A i \in 1..m : c[i] = a[i]
        /\ \A i \in 1..n : c[m + i] = b[i]
    <2>1. /\ c \in Seq(Byte) /\ Len(c) = m + n
          /\ \A i \in 1..m + n : c[i] = IF i <= m THEN a[i] ELSE b[i - m]
      <3>1. /\ a \o b \in Seq(Byte) /\ Len(a \o b) = Len(a) + Len(b)
            /\ \A i \in 1..Len(a) + Len(b) :
                  (a \o b)[i] = IF i <= Len(a) THEN a[i] ELSE b[i - Len(a)]
        BY ConcatProperties
      <3> QED BY <1>1, <3>1
    <2>2. m \in Nat /\ n \in Nat
      BY <1>1
    <2>3. ASSUME NEW i \in 1..m PROVE c[i] = a[i]
      <3>1. i \in 1..m + n /\ i <= m
        BY <2>2
      <3> QED BY <2>1, <3>1
    <2>4. ASSUME NEW i \in 1..n PROVE c[m + i] = b[i]
      <3>1. m + i \in 1..m + n /\ ~(m + i <= m) /\ (m + i) - m = i
        BY <2>2
      <3> QED BY <2>1, <3>1
    <2> QED BY <2>1, <2>2, <2>3, <2>4
  <1>3. /\ src \in Seq(Byte) /\ p \in Nat /\ p + (m + n) <= Len(src) /\ Len(src) \in Nat
        /\ \A i \in 1..m + n : src[p + i] = c[i]
    BY <1>1, <1>2 DEF Held
  <1>4. Held(src, p, a)
    <2>1. ASSUME NEW i \in 1..m PROVE src[p + i] = a[i]
      <3>1. i \in 1..m + n
        BY <1>2
      <3> QED BY <1>2, <1>3, <3>1
    <2>2. p + m <= Len(src)
      BY <1>2, <1>3
    <2> QED BY <1>1, <1>3, <2>1, <2>2 DEF Held
  <1>5. Held(src, p + m, b)
    <2>1. ASSUME NEW i \in 1..n PROVE src[(p + m) + i] = b[i]
      <3>1. m + i \in 1..m + n /\ p + (m + i) = (p + m) + i
        BY <1>2, <1>3
      <3> QED BY <1>2, <1>3, <3>1
    <2>2. (p + m) + n <= Len(src) /\ p + m \in Nat
      BY <1>2, <1>3
    <2> QED BY <1>1, <1>3, <2>1, <2>2 DEF Held
  <1> QED BY <1>1, <1>4, <1>5

\* Where the whole is, each of its parts is at its place.
LEMMA HeldEach ==
    ASSUME NEW w \in Seq(Seq(Byte)), NEW F, Joins(F, w), NEW src, NEW p, Held(src, p, F[Len(w)])
    PROVE  /\ \A i \in 0..Len(w) : Held(src, p, F[i])
           /\ \A i \in 1..Len(w) : Held(src, p + Len(F[i - 1]), w[i])
  <1> DEFINE N == Len(w)
             T == {j \in Nat : Held(src, p, F[N - j])}
  <1>1. N \in Nat /\ \A i \in 1..N : F[i] = F[i - 1] \o w[i]
    <2>1. N \in Nat
      OBVIOUS
    <2>2. \A i \in 1..N : F[i] = F[i - 1] \o w[i]
      BY DEF Joins
    <2> QED BY <2>1, <2>2
  <1>2. ASSUME NEW i \in 1..N, Held(src, p, F[i])
        PROVE  Held(src, p, F[i - 1]) /\ Held(src, p + Len(F[i - 1]), w[i])
    <2>1. PICK a, b : a = F[i - 1] /\ b = w[i]
      OBVIOUS
    <2>2. a \in Seq(Byte) /\ b \in Seq(Byte)
      <3>1. i - 1 \in 0..N
        BY <1>1
      <3> QED BY <2>1, <3>1, JoinsTyped
    <2>3. Held(src, p, a \o b)
      BY <1>1, <1>2, <2>1
    <2> QED BY <2>1, <2>2, <2>3, HeldSplit
  <1>3. 0 \in T
    <2>1. N - 0 = N
      BY <1>1
    <2> QED BY <2>1
  <1>4. ASSUME NEW j \in 0..(N - 1), j \in T PROVE j + 1 \in T
    <2>1. N - j \in 1..N /\ (N - j) - 1 = N - (j + 1) /\ j + 1 \in Nat
      BY <1>1
    <2>2. Held(src, p, F[N - j])
      BY <1>4
    <2>3. Held(src, p, F[(N - j) - 1])
      BY <1>2, <2>1, <2>2
    <2> QED BY <2>1, <2>3
  <1>5. \A j \in 0..N : j \in T
    <2> HIDE DEF T, N
    <2> QED BY <1>1, <1>3, <1>4, Upwards
  <1>6. ASSUME NEW i \in 0..N PROVE Held(src, p, F[i])
    <2>1. N - i \in 0..N /\ N - (N - i) = i
      BY <1>1
    <2>2. N - i \in T
      BY <1>5, <2>1
    <2> QED BY <2>1, <2>2
  <1>7. ASSUME NEW i \in 1..N PROVE Held(src, p + Len(F[i - 1]), w[i])
    <2>1. i \in 0..N
      BY <1>1
    <2> QED BY <1>2, <1>6, <2>1
  <1> QED BY <1>6, <1>7
-----------------------------------------------------------------------------
(* What is packed.                                                         *)

LEMMA KindIs ==
    /\ Kinds = {"nil", "bool", "int", "fix", "float", "double", "args", "str", "array", "map"}
    /\ DOMAIN Fixed = {"nil", "bool", "int", "fix", "float", "double", "args"}
    /\ Fixed["nil"] = 0 /\ Fixed["bool"] = 1 /\ Fixed["int"] = 1 /\ Fixed["fix"] = 1
    /\ Fixed["float"] = 1 /\ Fixed["double"] = 1 /\ Fixed["args"] = Members
    /\ TypeOf("str") = [signed |-> FALSE, width |-> 1]
    /\ TypeOf("float") = [signed |-> FALSE, width |-> 4]
    /\ TypeOf("double") = [signed |-> FALSE, width |-> 8]
  <1>1. DOMAIN Fixed = {"nil", "bool", "int", "fix", "float", "double", "args"}
    BY DEF Fixed
  <1>2. /\ Fixed["nil"] = 0 /\ Fixed["bool"] = 1 /\ Fixed["int"] = 1 /\ Fixed["fix"] = 1
        /\ Fixed["float"] = 1 /\ Fixed["double"] = 1 /\ Fixed["args"] = Members
    BY DEF Fixed
  <1>3. /\ TypeOf("str") = [signed |-> FALSE, width |-> 1]
        /\ TypeOf("float") = [signed |-> FALSE, width |-> 4]
        /\ TypeOf("double") = [signed |-> FALSE, width |-> 8]
    BY DEF TypeOf
  <1> QED BY <1>1, <1>2, <1>3 DEF Kinds

OfInt(v) == IF v < 0 THEN "int" ELSE "uint"
OfType(t) == IF t.signed THEN "int" ELSE "uint"
IsFixint(v) == v \in NegativeFix \cup PositiveFix

\* An integer is a fixint or in the shortest form.
LEMMA PackIntIs ==
    ASSUME NEW v \in Int, NEW t \in Type, HasValue(t, v)
    PROVE  /\ IsFixint(v) => pack_int(v) = <<Data(v % B)>>
           /\ ~IsFixint(v) => pack_int(v) = Headed(OfInt(v), Narrowest(v), v)
           /\ Shortest(v, Narrowest(v)) /\ v % B \in 0..(B - 1)
           /\ OfInt(v) \in {"int", "uint"}
           /\ pack_int(v) \in Seq(Byte)
  <1>1. IsFixint(v) => pack_int(v) = <<Data(v % B)>>
    BY DEF IsFixint, pack_int
  <1>2. ~IsFixint(v) => pack_int(v) = Headed(OfInt(v), Narrowest(v), v)
    BY DEF IsFixint, pack_int, Headed, OfInt, Narrowest
  <1>3. Shortest(v, Narrowest(v))
    BY NarrowestIs
  <1>4. v % B \in 0..(B - 1)
    BY BIs, Remainder
  <1>5. OfInt(v) \in {"int", "uint"}
    BY DEF OfInt
  <1>6. Headed(OfInt(v), Narrowest(v), v) \in Seq(Byte)
    <2>1. Narrowest(v) \in Widths
      BY <1>3 DEF Shortest
    <2> QED BY <1>5, <2>1, HeadedIs
  <1>7. <<Data(v % B)>> \in Seq(Byte)
    <2>1. PICK d : d = Data(v % B)
      OBVIOUS
    <2>2. d \in Byte
      BY <1>4, <2>1, ByteIs
    <2>3. <<d>> \in Seq(Byte)
      BY <2>2
    <2> QED BY <2>1, <2>3
  <1> QED BY <1>1, <1>2, <1>3, <1>4, <1>5, <1>6, <1>7

Ints(v) == [i \in DOMAIN v |-> pack_int(v[i])]

LEMMA IntsTyped ==
    ASSUME NEW v \in Seq(Int), NEW t \in Type, \A i \in DOMAIN v : HasValue(t, v[i])
    PROVE  /\ Ints(v) \in Seq(Seq(Byte)) /\ Len(Ints(v)) = Len(v)
           /\ \A i \in 1..Len(v) : Ints(v)[i] = pack_int(v[i])
  <1>1. DOMAIN v = 1..Len(v) /\ Len(v) \in Nat
    OBVIOUS
  <1>2. ASSUME NEW i \in 1..Len(v) PROVE pack_int(v[i]) \in Seq(Byte)
    <2>1. v[i] \in Int /\ HasValue(t, v[i])
      BY <1>1
    <2> QED BY <2>1, PackIntIs
  <1>3. PICK s : s = Ints(v)
    OBVIOUS
  <1>4. s \in [1..Len(v) -> Seq(Byte)] /\ \A i \in 1..Len(v) : s[i] = pack_int(v[i])
    BY <1>1, <1>2, <1>3 DEF Ints
  <1>5. s \in Seq(Seq(Byte)) /\ Len(s) = Len(v)
    BY <1>1, <1>4
  <1> QED BY <1>3, <1>4, <1>5

\* The lengths of strings, vectors and maps, as their heads say them: fix is the head
\* when it is short.
Length(kind, fix, k, l, h) ==
    \/ h = <<Mark(fix, l)>> /\ Mark(fix, l) \in Byte
    \/ h = Headed(kind, k, l) /\ k \in Widths /\ l < Values[k]

LEMMA LengthIs ==
    ASSUME NEW l \in Nat, l < Values[4]
    PROVE  /\ \E k : Length("str", "fixstr", k, l, pack_str(l))
           /\ \E k : Length("array", "fixarray", k, l, pack_array(l))
           /\ \E k : Length("map", "fixmap", k, l, pack_map(l))
           /\ pack_str(l) \in Seq(Byte) /\ pack_array(l) \in Seq(Byte) /\ pack_map(l) \in Seq(Byte)
  <1>1. FixStr \in Nat /\ FixArray \in Nat
    BY MsgpackAssumption
  <1>2. PICK k1, k2 : k1 = LengthWidth(l) /\ k2 = IF l < Values[2] THEN 2 ELSE 4
    OBVIOUS
  <1>3. k1 \in Widths /\ l < Values[k1]
    BY <1>2, LengthWidthIs DEF Widths
  <1>4. k2 \in Widths /\ l < Values[k2]
    BY <1>2 DEF Widths
  <1>5. Length("str", "fixstr", k1, l, pack_str(l))
    <2>1. CASE l < FixStr
      <3>1. Mark("fixstr", l) \in Byte
        BY <1>1, <2>1 DEF Mark, Byte
      <3> QED BY <2>1, <3>1 DEF Length, pack_str
    <2>2. CASE ~(l < FixStr)
      <3>1. pack_str(l) = Headed("str", k1, l)
        BY <1>2, <2>2 DEF pack_str, Headed, LengthWidth
      <3> QED BY <1>3, <3>1 DEF Length
    <2> QED BY <2>1, <2>2
  <1>6. Length("array", "fixarray", k2, l, pack_array(l))
    <2>1. CASE l < FixArray
      <3>1. Mark("fixarray", l) \in Byte
        BY <1>1, <2>1 DEF Mark, Byte
      <3> QED BY <2>1, <3>1 DEF Length, pack_array
    <2>2. CASE ~(l < FixArray)
      <3>1. pack_array(l) = Headed("array", k2, l)
        BY <1>2, <2>2 DEF pack_array, Headed
      <3> QED BY <1>4, <3>1 DEF Length
    <2> QED BY <2>1, <2>2
  <1>7. Length("map", "fixmap", k2, l, pack_map(l))
    <2>1. CASE l < FixArray
      <3>1. Mark("fixmap", l) \in Byte
        BY <1>1, <2>1 DEF Mark, Byte
      <3> QED BY <2>1, <3>1 DEF Length, pack_map
    <2>2. CASE ~(l < FixArray)
      <3>1. pack_map(l) = Headed("map", k2, l)
        BY <1>2, <2>2 DEF pack_map, Headed
      <3> QED BY <1>4, <3>1 DEF Length
    <2> QED BY <2>1, <2>2
  <1>8. ASSUME NEW kind \in {"str", "array", "map"}, NEW fix, NEW k, NEW h,
               Length(kind, fix, k, l, h)
        PROVE  h \in Seq(Byte)
    <2>1. CASE h = <<Mark(fix, l)>> /\ Mark(fix, l) \in Byte
      <3>1. PICK m : m = Mark(fix, l)
        OBVIOUS
      <3>2. m \in Byte /\ h = <<m>>
        BY <2>1, <3>1
      <3> QED BY <3>2
    <2>2. CASE h = Headed(kind, k, l) /\ k \in Widths
      BY <2>2, HeadedIs
    <2> QED BY <1>8, <2>1, <2>2 DEF Length
  <1> QED BY <1>5, <1>6, <1>7, <1>8

\* Everything that is packed, write by write.
LEMMA WritesTyped ==
    ASSUME NEW item, Packable(item)
    PROVE  Writes(item) \in Seq(Seq(Byte))
  <1> DEFINE v == item.v
             kind == item.kind
  <1>1. /\ kind \in Kinds /\ item.type \in Type /\ v \in Seq(Int) /\ Len(v) < Values[4]
        /\ kind \in DOMAIN Fixed => Len(v) = Fixed[kind]
        /\ \A i \in DOMAIN v : HasValue(item.type, v[i])
        /\ kind \in {"str", "float", "double"} => item.type = TypeOf(kind)
        /\ kind = "bool" => v[1] \in {0, 1}
        /\ kind = "map" => Len(v) % 2 = 0
    BY DEF Packable
  <1>2. kind \in {"nil", "bool", "int", "fix", "float", "double", "args", "str", "array", "map"}
    BY <1>1, KindIs
  <1>3. ASSUME NEW x \in Seq(Byte) PROVE <<x>> \in Seq(Seq(Byte))
    OBVIOUS
  <1>4. DOMAIN v = 1..Len(v) /\ Len(v) \in Nat
    BY <1>1
  <1>5. kind \in {"bool", "int", "fix", "float", "double"} =>
            v[1] \in Int /\ HasValue(item.type, v[1])
    <2>1. SUFFICES ASSUME kind \in {"bool", "int", "fix", "float", "double"}
                   PROVE  v[1] \in Int /\ HasValue(item.type, v[1])
      OBVIOUS
    <2>2. Len(v) = 1
      BY <1>1, <2>1, KindIs
    <2> QED BY <1>1, <1>4, <2>2
  <1>6. item.type.width \in Widths /\ OfType(item.type) \in {"int", "uint"}
    BY <1>1 DEF Type, OfType
  <1>7. Ints(v) \in Seq(Seq(Byte))
    BY <1>1, IntsTyped
  <1>8. CASE kind = "int"
    <2>1. pack_int(v[1]) \in Seq(Byte)
      BY <1>1, <1>5, <1>8, PackIntIs
    <2> QED BY <1>3, <1>8, <2>1 DEF Writes
  <1>9. CASE kind = "fix"
    <2>1. pack_fix(item.type, v[1]) = Headed(OfType(item.type), item.type.width, v[1])
      BY DEF pack_fix, Headed, OfType
    <2>2. Headed(OfType(item.type), item.type.width, v[1]) \in Seq(Byte)
      BY <1>5, <1>6, <1>9, HeadedIs
    <2> QED BY <1>3, <1>9, <2>1, <2>2 DEF Writes
  <1>10. CASE kind = "nil"
    <2>1. PICK m : m = Mark("nil", 0)
      OBVIOUS
    <2>2. m \in Byte
      BY <2>1 DEF Mark, Byte
    <2>3. <<m>> \in Seq(Byte)
      BY <2>2
    <2> QED BY <1>3, <1>10, <2>1, <2>3 DEF Writes
  <1>11. CASE kind = "bool"
    <2>1. PICK m : m = Mark("bool", v[1])
      OBVIOUS
    <2>2. m \in Byte
      BY <1>1, <1>11, <2>1 DEF Mark, Byte
    <2>3. <<m>> \in Seq(Byte)
      BY <2>2
    <2> QED BY <1>3, <1>11, <2>1, <2>3 DEF Writes
  <1>12. CASE kind \in {"float", "double"}
    <2>1. Headed(kind, item.type.width, v[1]) \in Seq(Byte)
      BY <1>5, <1>6, <1>12, HeadedIs
    <2>2. Writes(item) = <<Headed(kind, item.type.width, v[1])>>
      BY <1>12 DEF Writes, Headed
    <2> QED BY <1>3, <2>1, <2>2
  <1>13. CASE kind = "str"
    <2>1. pack_str(Len(v)) \in Seq(Byte)
      BY <1>1, <1>4, LengthIs
    <2>2. PICK s : s = [i \in DOMAIN v |-> Data(v[i])]
      OBVIOUS
    <2>3. ASSUME NEW i \in 1..Len(v) PROVE Data(v[i]) \in Byte
      <3>1. PICK t, x : t = item.type /\ x = v[i]
        OBVIOUS
      <3>2. t = [signed |-> FALSE, width |-> 1]
        BY <1>1, <1>13, <3>1, KindIs
      <3>3. t.signed = FALSE /\ t.width = 1
        BY <3>2
      <3>4. x \in Int /\ HasValue(t, x)
        <4>1. i \in DOMAIN v
          BY <1>4
        <4> QED BY <1>1, <3>1, <4>1
      <3>5. 0 <= x /\ x < Values[1]
        BY <3>3, <3>4 DEF HasValue
      <3>6. x \in 0..(B - 1)
        BY <3>4, <3>5, ValuesGrow, BIs
      <3> QED BY <3>1, <3>6, ByteIs
    <2>4. s \in Seq(Byte)
      BY <1>4, <2>2, <2>3
    <2>5. PICK h : h = pack_str(Len(v))
      OBVIOUS
    <2>6. <<h, s>> \in Seq(Seq(Byte))
      BY <2>1, <2>4, <2>5
    <2>7. Writes(item) = <<h, s>>
      BY <1>13, <2>2, <2>5 DEF Writes
    <2> QED BY <2>6, <2>7
  <1>14. CASE kind = "args"
    BY <1>7, <1>14 DEF Writes, Ints
  <1>15. CASE kind = "array"
    <2>1. PICK h : h = pack_array(Len(v))
      OBVIOUS
    <2>2. h \in Seq(Byte)
      BY <1>1, <1>4, <2>1, LengthIs
    <2>3. <<h>> \o Ints(v) \in Seq(Seq(Byte))
      BY <1>3, <1>7, <2>2
    <2> QED BY <1>15, <2>1, <2>3 DEF Writes, Ints
  <1>16. CASE kind = "map"
    <2>1. PICK h, n : h = pack_map(n) /\ n = Len(v) \div 2
      OBVIOUS
    <2>2. n \in Nat /\ n < Values[4]
      <3>1. PICK x, c : x = Len(v) /\ c = Values[4]
        OBVIOUS
      <3>2. x \in Nat /\ c \in Nat /\ x < c /\ n = x \div 2
        BY <1>1, <1>4, <2>1, <3>1, ValuesIs
      <3>3. n \in Nat /\ n < c
        BY <3>2
      <3> QED BY <3>1, <3>3
    <2>3. h \in Seq(Byte)
      BY <2>1, <2>2, LengthIs
    <2>4. <<h>> \o Ints(v) \in Seq(Seq(Byte))
      BY <1>3, <1>7, <2>3
    <2> QED BY <1>16, <2>1, <2>4 DEF Writes, Ints
  <1> QED BY <1>2, <1>8, <1>9, <1>10, <1>11, <1>12, <1>13, <1>14, <1>15, <1>16
-----------------------------------------------------------------------------
(* What is written.                                                        *)

WriteStates == [buf : Seq(Byte), ok : BOOLEAN]
WriteStep(w, n, s) ==
    IF s.ok /\ CanWrite(s.buf, w[n]) THEN [s EXCEPT !.buf = @ \o w[n]] ELSE [s EXCEPT !.ok = FALSE]
WriteBy(w, f) ==
    f = [n \in 0..Len(w) |->
            IF n = 0 THEN [buf |-> buf, ok |-> TRUE] ELSE WriteStep(w, n, f[n - 1])]

\* A write is done or is not, and none is after one that is not.
LEMMA WriteStepIs ==
    ASSUME NEW w \in Seq(Seq(Byte)), NEW n \in 1..Len(w), NEW s \in WriteStates
    PROVE  /\ WriteStep(w, n, s) \in WriteStates
           /\ \/ s.ok /\ WriteStep(w, n, s) = [buf |-> s.buf \o w[n], ok |-> TRUE]
                      /\ Len(s.buf) + Len(w[n]) <= FixLen
              \/ WriteStep(w, n, s) = [buf |-> s.buf, ok |-> FALSE]
  <1>1. PICK b, k, x : b = s.buf /\ k = s.ok /\ x = w[n]
    OBVIOUS
  <1>2. b \in Seq(Byte) /\ k \in BOOLEAN /\ s = [buf |-> b, ok |-> k] /\ x \in Seq(Byte)
    BY <1>1 DEF WriteStates
  <1>3. b \o x \in Seq(Byte)
    BY <1>2
  <1>4. CASE k /\ CanWrite(b, x)
    <2>1. WriteStep(w, n, s) = [buf |-> b \o x, ok |-> TRUE]
      BY <1>1, <1>2, <1>4 DEF WriteStep
    <2>2. Len(b) + Len(x) <= FixLen
      BY <1>4 DEF CanWrite
    <2>3. [buf |-> b \o x, ok |-> TRUE] \in WriteStates
      BY <1>3 DEF WriteStates
    <2>4. s.ok /\ s.buf = b /\ w[n] = x
      BY <1>1, <1>4
    <2> QED BY <2>1, <2>2, <2>3, <2>4
  <1>5. CASE ~(k /\ CanWrite(b, x))
    <2>1. WriteStep(w, n, s) = [buf |-> b, ok |-> FALSE]
      BY <1>1, <1>2, <1>5 DEF WriteStep
    <2>2. [buf |-> b, ok |-> FALSE] \in WriteStates
      BY <1>2 DEF WriteStates
    <2> QED BY <1>1, <2>1, <2>2
  <1> QED BY <1>4, <1>5

\* The equation by which Written is defined has a solution.
LEMMA WrittenDefined ==
    ASSUME NEW item, Writes(item) \in Seq(Seq(Byte)), buf \in Seq(Byte)
    PROVE  \E f \in [0..Len(Writes(item)) -> WriteStates] :
              /\ f[0] = [buf |-> buf, ok |-> TRUE]
              /\ \A n \in 1..Len(Writes(item)) : f[n] = WriteStep(Writes(item), n, f[n - 1])
              /\ Written(item) = f[Len(Writes(item))]
  <1> DEFINE w == Writes(item)
             N == Len(w)
             S == WriteStates
             a == [buf |-> buf, ok |-> TRUE]
             step == [n \in 1..N |-> [s \in S |-> WriteStep(w, n, s)]]
  <1>1. N \in Nat /\ 0 \in 0..N /\ \A n \in 1..N : n - 1 \in 0..N /\ n \in 0..N /\ n # 0
    OBVIOUS
  <1>2. a \in S
    BY DEF WriteStates
  <1>3. ASSUME NEW n \in 1..N, NEW s \in S PROVE WriteStep(w, n, s) \in S
    BY WriteStepIs
  <1>4. step \in [1..N -> [S -> S]]
    BY <1>3
  <1> HIDE DEF step, S, a
  <1>5. PICK f \in [0..N -> S] : Recursive(f, N, a, step)
    BY <1>1, <1>2, <1>4, Recursion
  <1>6. WriteBy(w, f)
    <2>1. ASSUME NEW n \in 1..N PROVE step[n][f[n - 1]] = WriteStep(w, n, f[n - 1])
      <3>1. f[n - 1] \in S
        BY <1>1, <1>5
      <3> QED BY <3>1 DEF step
    <2>2. \A n \in 0..N : n # 0 => n \in 1..N
      BY <1>1
    <2> QED BY <1>5, <2>1, <2>2 DEF Recursive, WriteBy, a
  <1>7. PICK g : g = CHOOSE h : WriteBy(w, h)
    OBVIOUS
  <1>8. WriteBy(w, g)
    BY <1>6, <1>7
  <1>9. Written(item) = g[N]
    BY <1>7 DEF Written, WriteBy, WriteStep
  <1>10. g[0] = a /\ \A n \in 1..N : g[n] = WriteStep(w, n, g[n - 1])
    BY <1>1, <1>8 DEF WriteBy, a
  <1>11. g \in [0..N -> S]
    <2>1. g = [n \in 0..N |-> g[n]]
      BY <1>8 DEF WriteBy
    <2>2. g[0] \in S
      BY <1>2, <1>10
    <2>3. ASSUME NEW n \in 1..N, g[n - 1] \in S PROVE g[n] \in S
      <3> HIDE DEF N, w
      <3> QED BY <1>3, <1>10, <2>3
    <2> QED BY <1>1, <2>1, <2>2, <2>3, Stepwise
  <1> QED BY <1>9, <1>10, <1>11 DEF S, a

LEMMA BytesApart ==
    \A d, a, b \in Seq(Byte) : (d \o a) \o b = d \o (a \o b)
  <1> SUFFICES ASSUME NEW d \in Seq(Byte), NEW a \in Seq(Byte), NEW b \in Seq(Byte)
               PROVE  (d \o a) \o b = d \o (a \o b)
    OBVIOUS
  <1>1. PICK S : S = Byte
    OBVIOUS
  <1>2. d \in Seq(S) /\ a \in Seq(S) /\ b \in Seq(S)
    BY <1>1
  <1> QED BY <1>2, ConcatAssociative, SMTT(30)

\* What a pack writes fits, and when all of it does it is all there.
LEMMA WrittenIs ==
    ASSUME NEW item, Packable(item), buf \in Seq(Byte), Len(buf) <= FixLen
    PROVE  /\ Written(item) \in WriteStates /\ Len(Written(item).buf) <= FixLen
           /\ Written(item).ok => Written(item).buf = buf \o Bytes(item)
           /\ Bytes(item) \in Seq(Byte)
  <1> DEFINE w == Writes(item)
             N == Len(w)
  <1>1. w \in Seq(Seq(Byte)) /\ N \in Nat
    BY WritesTyped
  <1>2. PICK f \in [0..N -> WriteStates] :
            /\ f[0] = [buf |-> buf, ok |-> TRUE]
            /\ \A n \in 1..N : f[n] = WriteStep(w, n, f[n - 1])
            /\ Written(item) = f[N]
    BY <1>1, WrittenDefined
  <1>3. PICK F : Joins(F, w)
    BY <1>1, JoinsExist
  <1>4. Bytes(item) = F[N] /\ F[N] \in Seq(Byte)
    BY <1>1, <1>3, FlattenAll DEF Bytes
  <1> DEFINE Is(n) == Len(f[n].buf) <= FixLen /\ (f[n].ok => f[n].buf = buf \o F[n])
             T == {n \in Nat : Is(n)}
  <1>5. 0 \in T
    <2>1. F[0] = << >> /\ buf \o << >> = buf
      BY <1>3 DEF Joins
    <2>2. f[0].buf = buf
      BY <1>2
    <2>3. Is(0)
      BY <2>1, <2>2
    <2> HIDE DEF Is
    <2> QED BY <2>3
  <1>6. ASSUME NEW n \in 0..(N - 1), n \in T PROVE n + 1 \in T
    <2>0. Is(n)
      BY <1>6
    <2> HIDE DEF T
    <2>1. n + 1 \in 1..N /\ (n + 1) - 1 = n /\ n \in 0..N /\ n + 1 \in Nat
      BY <1>1
    <2>2. PICK s, r, x : s = f[n] /\ r = f[n + 1] /\ x = w[n + 1]
      OBVIOUS
    <2>3. s \in WriteStates /\ r = WriteStep(w, n + 1, s)
      BY <1>2, <2>1, <2>2
    <2>4. \/ s.ok /\ r = [buf |-> s.buf \o x, ok |-> TRUE] /\ Len(s.buf) + Len(x) <= FixLen
          \/ r = [buf |-> s.buf, ok |-> FALSE]
      BY <1>1, <2>1, <2>2, <2>3, WriteStepIs
    <2>5. s.buf \in Seq(Byte) /\ x \in Seq(Byte) /\ F[n] \in Seq(Byte) /\ F[n + 1] = F[n] \o x
      BY <1>1, <1>3, <2>1, <2>2, <2>3, JoinsTyped DEF WriteStates, Joins
    <2>6. CASE s.ok /\ r = [buf |-> s.buf \o x, ok |-> TRUE] /\ Len(s.buf) + Len(x) <= FixLen
      <3>1. r.buf = s.buf \o x
        BY <2>6
      <3>2. Len(r.buf) <= FixLen
        BY <2>5, <2>6, <3>1
      <3>3. s.buf = buf \o F[n]
        BY <2>0, <2>2, <2>6
      <3>4. (buf \o F[n]) \o x = buf \o (F[n] \o x)
        <4>1. PICK b, y : b = buf /\ y = F[n]
          OBVIOUS
        <4>2. b \in Seq(Byte) /\ y \in Seq(Byte) /\ x \in Seq(Byte)
          BY <2>5, <4>1
        <4>3. (b \o y) \o x = b \o (y \o x)
          BY <4>2, BytesApart
        <4> QED BY <4>1, <4>3
      <3>5. Is(n + 1)
        BY <2>2, <2>5, <3>1, <3>2, <3>3, <3>4
      <3> HIDE DEF Is
      <3> QED BY <2>1, <3>5 DEF T
    <2>7. CASE r = [buf |-> s.buf, ok |-> FALSE]
      <3>1. r.buf = s.buf /\ r.ok = FALSE
        BY <2>7
      <3>2. Is(n + 1)
        BY <2>0, <2>2, <3>1
      <3> HIDE DEF Is
      <3> QED BY <2>1, <3>2 DEF T
    <2> QED BY <2>4, <2>6, <2>7
  <1>7. Is(N)
    <2> HIDE DEF T
    <2>1. \A n \in 0..N : n \in T
      <3> HIDE DEF N
      <3> QED BY <1>1, <1>5, <1>6, Upwards
    <2> USE DEF T
    <2> HIDE DEF Is
    <2>2. N \in T
      BY <1>1, <2>1
    <2> QED BY <2>2
  <1>8. Written(item) \in WriteStates
    BY <1>1, <1>2
  <1> QED BY <1>2, <1>4, <1>7, <1>8
-----------------------------------------------------------------------------
(* What is read.                                                           *)

LEMMA CastTyped ==
    /\ \A u \in Int, k \in Widths : Signed(u, k) \in Int
    /\ \A v \in Int, t \in Type : Cast(v, t) \in Int
  <1>1. ASSUME NEW u \in Int, NEW k \in Widths PROVE Signed(u, k) \in Int
    <2>1. k \in 0..8
      BY DEF Widths
    <2>2. Values[k] \in Nat
      BY <2>1, ValuesIs
    <2>3. PICK w, h : w = Values[k] /\ h = (u >= Values[k] \div 2)
      OBVIOUS
    <2>4. Signed(u, k) = IF h THEN u - w ELSE u
      BY <2>3 DEF Signed
    <2>5. w \in Int /\ u - w \in Int
      BY <2>2, <2>3
    <2> QED BY <2>4, <2>5
  <1>2. ASSUME NEW v \in Int, NEW t \in Type PROVE Cast(v, t) \in Int
    <2>1. PICK w, x : w = Values[t.width] /\ x = v % w
      OBVIOUS
    <2>2. t.width \in Widths /\ t.width \in 0..8
      BY DEF Type, Widths
    <2>3. w \in Nat \ {0}
      <3>1. w \in Nat /\ w > 0
        BY <2>1, <2>2, ValuesIs
      <3> QED BY <3>1
    <2>4. x \in Int
      <3>1. v % w \in 0..(w - 1)
        BY <2>3, Remainder
      <3> QED BY <2>1, <2>3, <3>1
    <2>5. Cast(v, t) = IF t.signed THEN Signed(x, t.width) ELSE x
      BY <2>1 DEF Cast
    <2>6. Signed(x, t.width) \in Int
      BY <1>1, <2>2, <2>4
    <2> QED BY <2>4, <2>5, <2>6
  <1> QED BY <1>1, <1>2

\* What a value is read from.
LEMMA SpanIs ==
    ASSUME NEW src \in Seq(Byte), NEW p \in Nat, NEW k \in Widths, p + 1 + k <= Len(src)
    PROVE  /\ SubSeq(src, p + 2, p + 1 + k) \in Seq(Byte)
           /\ Len(SubSeq(src, p + 2, p + 1 + k)) = k
           /\ \A i \in 1..k : SubSeq(src, p + 2, p + 1 + k)[i] = src[p + 1 + i]
           /\ Load(SubSeq(src, p + 2, p + 1 + k)) \in Nat
  <1>1. PICK a, b, s : a = p + 2 /\ b = p + 1 + k /\ s = SubSeq(src, a, b)
    OBVIOUS
  <1>2. k \in 1..8 /\ a \in Int /\ b \in Int /\ a <= b /\ b - a + 1 = k /\ Len(src) \in Nat
    BY <1>1 DEF Widths
  <1>3. \A i \in a..b : src[i] \in Byte
    BY <1>1, <1>2
  <1>4. /\ s \in Seq(Byte) /\ Len(s) = IF a <= b THEN b - a + 1 ELSE 0
        /\ \A i \in 1..(b - a + 1) : s[i] = src[a + i - 1]
    BY <1>1, <1>2, <1>3, SubSeqProperties
  <1>5. s \in Seq(Byte) /\ Len(s) = k
    BY <1>2, <1>4
  <1>6. ASSUME NEW i \in 1..k PROVE s[i] = src[p + 1 + i]
    <2>1. i \in 1..(b - a + 1) /\ a + i - 1 = p + 1 + i
      BY <1>1, <1>2
    <2> QED BY <1>4, <2>1
  <1>7. Load(s) \in Nat
    <2>1. PICK f \in [0..Len(s) -> Nat] : Load(s) = f[Len(s)]
      BY <1>5, LoadDefined
    <2>2. Len(s) \in 0..Len(s)
      BY <1>5
    <2> QED BY <2>1, <2>2
  <1> QED BY <1>1, <1>5, <1>6, <1>7

Results == [pos : 0..Len(buf), ok : BOOLEAN, v : Seq(Int)]

LEMMA ResultIs ==
    ASSUME NEW p \in 0..Len(buf), NEW ok \in BOOLEAN, NEW v \in Seq(Int)
    PROVE  Result(p, ok, v) \in Results
  BY DEF Result, Results

\* The heads.
LEMMA HeadIs ==
    ASSUME NEW h \in Byte
    PROVE  /\ h.of \in {"int", "uint", "float", "double", "str", "array", "map"} => h.n \in Widths
           /\ h.of = "bool" => h.n \in Int
           /\ h.n \in Nat
  <1>1. h.n \in Nat
    BY ByteIs
  <1>2. h.of \in {"int", "uint", "float", "double", "str", "array", "map"} => h.n \in Widths
    BY DEF Byte
  <1> QED BY <1>1, <1>2

LEMMA HeadAt ==
    ASSUME buf \in Seq(Byte), NEW p \in 0..Len(buf), Has(p, 1)
    PROVE  buf[p + 1] \in Byte /\ p + 1 \in 0..Len(buf) /\ p \in Nat
  <1>1. p \in Nat /\ Len(buf) \in Nat /\ p + 1 <= Len(buf)
    BY DEF Has
  <1> QED BY <1>1

LEMMA UnpackIntTyped ==
    ASSUME buf \in Seq(Byte), NEW t \in Type, NEW p \in 0..Len(buf)
    PROVE  unpack_int(t, p) \in Results
  <1>1. PICK h : h = buf[p + 1]
    OBVIOUS
  <1>2. PICK u : u = Load(SubSeq(buf, p + 2, p + 1 + h.n))
    OBVIOUS
  <1>3. << >> \in Seq(Int) /\ FALSE \in BOOLEAN /\ TRUE \in BOOLEAN
        /\ \A x \in Int : <<x>> \in Seq(Int)
    OBVIOUS
  <1>4. CASE ~Has(p, 1)
    <2>1. unpack_int(t, p) = Result(p, FALSE, << >>)
      BY <1>4 DEF unpack_int
    <2> QED BY <1>3, <2>1, ResultIs
  <1>5. CASE Has(p, 1)
    <2>1. h \in Byte /\ p + 1 \in 0..Len(buf) /\ p \in Nat
      BY <1>1, <1>5, HeadAt
    <2>2. CASE h.of = "data" /\ TakesFixint(t, h.n)
      <3>1. PICK x : x = Cast(Signed(h.n, 1), t)
        OBVIOUS
      <3>2. x \in Int
        <4>1. h.n \in Int /\ 1 \in Widths
          BY <2>1, HeadIs DEF Widths
        <4> QED BY <3>1, <4>1, CastTyped
      <3>3. unpack_int(t, p) = Result(p + 1, TRUE, <<x>>)
        BY <1>1, <1>5, <2>2, <3>1 DEF unpack_int
      <3> QED BY <1>3, <2>1, <3>2, <3>3, ResultIs
    <2>3. CASE ~(h.of = "data" /\ TakesFixint(t, h.n)) /\ TakesHead(t, h) /\ Has(p + 1, h.n)
      <3>1. h.of \in {"int", "uint"}
        BY <2>3 DEF TakesHead
      <3>2. h.n \in Widths /\ h.n \in Nat
        BY <2>1, <3>1, HeadIs
      <3>3. p + 1 + h.n <= Len(buf)
        BY <2>3 DEF Has
      <3>4. u \in Nat
        BY <1>2, <2>1, <3>2, <3>3, SpanIs
      <3>5. PICK x : x = Cast(IF h.of = "int" THEN Signed(u, h.n) ELSE u, t)
        OBVIOUS
      <3>6. x \in Int
        <4>1. PICK y : y = IF h.of = "int" THEN Signed(u, h.n) ELSE u
          OBVIOUS
        <4>2. Signed(u, h.n) \in Int /\ u \in Int
          BY <3>2, <3>4, CastTyped
        <4>3. y \in Int
          BY <4>1, <4>2
        <4> QED BY <3>5, <4>1, <4>3, CastTyped
      <3>7. unpack_int(t, p) = Result(p + 1 + h.n, TRUE, <<x>>)
        BY <1>1, <1>2, <1>5, <2>3, <3>5 DEF unpack_int
      <3>8. p + 1 + h.n \in 0..Len(buf)
        <4>1. Len(buf) \in Nat
          OBVIOUS
        <4> QED BY <2>1, <3>2, <3>3, <4>1
      <3> QED BY <1>3, <3>6, <3>7, <3>8, ResultIs
    <2>4. CASE ~(h.of = "data" /\ TakesFixint(t, h.n)) /\ ~(TakesHead(t, h) /\ Has(p + 1, h.n))
      <3>1. unpack_int(t, p) = Result(p + 1, FALSE, << >>)
        BY <1>1, <1>5, <2>4 DEF unpack_int
      <3> QED BY <1>3, <2>1, <3>1, ResultIs
    <2> QED BY <2>2, <2>3, <2>4
  <1> QED BY <1>4, <1>5

\* Nothing, a truth value and a float.
LEMMA UnpackOneTyped ==
    ASSUME buf \in Seq(Byte), NEW p \in 0..Len(buf)
    PROVE  /\ unpack_nil(p) \in Results /\ unpack_bool(p) \in Results
           /\ \A kind \in {"float", "double"} : unpack_float(kind, p) \in Results
  <1>1. PICK h : h = buf[p + 1]
    OBVIOUS
  <1>2. << >> \in Seq(Int) /\ FALSE \in BOOLEAN /\ TRUE \in BOOLEAN
        /\ \A x \in Int : <<x>> \in Seq(Int)
    OBVIOUS
  <1>3. Has(p, 1) => h \in Byte /\ p + 1 \in 0..Len(buf) /\ p \in Nat
    BY <1>1, HeadAt
  <1>4. unpack_nil(p) \in Results
    <2>1. PICK q, k : q = (IF Has(p, 1) THEN p + 1 ELSE p) /\ k = (Has(p, 1) /\ h.of = "nil")
      OBVIOUS
    <2>2. q \in 0..Len(buf)
      BY <1>3, <2>1
    <2>3. k \in BOOLEAN
      BY <2>1 DEF Has
    <2>4. unpack_nil(p) = Result(q, k, << >>)
      BY <1>1, <2>1 DEF unpack_nil
    <2> QED BY <1>2, <2>2, <2>3, <2>4, ResultIs
  <1>5. unpack_bool(p) \in Results
    <2>1. PICK q : q = IF Has(p, 1) THEN p + 1 ELSE p
      OBVIOUS
    <2>2. q \in 0..Len(buf)
      BY <1>3, <2>1
    <2>3. CASE Has(p, 1) /\ h.of = "bool"
      <3>1. PICK x : x = h.n
        OBVIOUS
      <3>2. x \in Int
        BY <1>3, <2>3, <3>1, HeadIs
      <3>3. unpack_bool(p) = Result(p + 1, TRUE, <<x>>)
        BY <1>1, <2>3, <3>1 DEF unpack_bool
      <3> QED BY <1>2, <1>3, <2>3, <3>2, <3>3, ResultIs
    <2>4. CASE ~(Has(p, 1) /\ h.of = "bool")
      <3>1. unpack_bool(p) = Result(q, FALSE, << >>)
        BY <1>1, <2>1, <2>4 DEF unpack_bool
      <3> QED BY <1>2, <2>2, <3>1, ResultIs
    <2> QED BY <2>3, <2>4
  <1>6. ASSUME NEW kind \in {"float", "double"} PROVE unpack_float(kind, p) \in Results
    <2>1. PICK k : k = TypeOf(kind).width
      OBVIOUS
    <2>2. k \in Widths /\ k \in Nat
      BY <2>1, KindIs DEF Widths
    <2>3. CASE ~Has(p, 1)
      <3>1. unpack_float(kind, p) = Result(p, FALSE, << >>)
        BY <2>3 DEF unpack_float
      <3> QED BY <1>2, <3>1, ResultIs
    <2>4. CASE Has(p, 1) /\ h.of = kind /\ Has(p + 1, k)
      <3>1. PICK x : x = Load(SubSeq(buf, p + 2, p + 1 + k))
        OBVIOUS
      <3>2. p + 1 + k <= Len(buf)
        BY <2>4 DEF Has
      <3>3. x \in Int
        BY <1>3, <2>2, <2>4, <3>1, <3>2, SpanIs
      <3>4. unpack_float(kind, p) = Result(p + 1 + k, TRUE, <<x>>)
        BY <1>1, <2>1, <2>4, <3>1 DEF unpack_float
      <3>5. p + 1 + k \in 0..Len(buf)
        <4>1. Len(buf) \in Nat
          OBVIOUS
        <4> QED BY <1>3, <2>2, <2>4, <3>2, <4>1
      <3> QED BY <1>2, <3>3, <3>4, <3>5, ResultIs
    <2>5. CASE Has(p, 1) /\ ~(h.of = kind /\ Has(p + 1, k))
      <3>1. unpack_float(kind, p) = Result(p + 1, FALSE, << >>)
        BY <1>1, <2>1, <2>5 DEF unpack_float
      <3> QED BY <1>2, <1>3, <2>5, <3>1, ResultIs
    <2> QED BY <2>3, <2>4, <2>5
  <1> QED BY <1>4, <1>5, <1>6

LEMMA UnpackLenTyped ==
    ASSUME buf \in Seq(Byte), NEW p \in 0..Len(buf), NEW kind \in {"str", "array", "map"},
           NEW fix \in {"fixstr", "fixarray", "fixmap"}
    PROVE  unpack_len(kind, fix, p) \in [pos : 0..Len(buf), n : Nat]
  <1>1. PICK h : h = buf[p + 1]
    OBVIOUS
  <1>2. Has(p, 1) => h \in Byte /\ p + 1 \in 0..Len(buf) /\ p \in Nat
    BY <1>1, HeadAt
  <1>3. CASE ~Has(p, 1)
    <2>1. unpack_len(kind, fix, p) = [pos |-> p, n |-> 0]
      BY <1>3 DEF unpack_len
    <2> QED BY <2>1
  <1>4. CASE Has(p, 1) /\ h.of = fix
    <2>1. unpack_len(kind, fix, p) = [pos |-> p + 1, n |-> h.n]
      BY <1>1, <1>4 DEF unpack_len
    <2>2. h.n \in Nat
      BY <1>2, <1>4, HeadIs
    <2> QED BY <1>2, <1>4, <2>1, <2>2
  <1>5. CASE Has(p, 1) /\ h.of # fix /\ h.of = kind /\ Has(p + 1, h.n)
    <2>1. PICK x, k : x = Load(SubSeq(buf, p + 2, p + 1 + k)) /\ k = h.n
      OBVIOUS
    <2>2. k \in Widths /\ k \in Nat
      BY <1>2, <1>5, <2>1, HeadIs
    <2>3. p + 1 + k <= Len(buf)
      BY <1>5, <2>1 DEF Has
    <2>4. x \in Nat
      BY <1>2, <1>5, <2>1, <2>2, <2>3, SpanIs
    <2>5. unpack_len(kind, fix, p) = [pos |-> p + 1 + k, n |-> x]
      BY <1>1, <1>5, <2>1 DEF unpack_len
    <2>6. p + 1 + k \in 0..Len(buf)
      <3>1. Len(buf) \in Nat
        OBVIOUS
      <3> QED BY <1>2, <1>5, <2>2, <2>3, <3>1
    <2> QED BY <2>4, <2>5, <2>6
  <1>6. CASE Has(p, 1) /\ h.of # fix /\ ~(h.of = kind /\ Has(p + 1, h.n))
    <2>1. unpack_len(kind, fix, p) = [pos |-> p + 1, n |-> 0]
      BY <1>1, <1>6 DEF unpack_len
    <2> QED BY <1>2, <1>6, <2>1
  <1> QED BY <1>3, <1>4, <1>5, <1>6

LEMMA UnpackStrTyped ==
    ASSUME buf \in Seq(Byte), NEW p \in 0..Len(buf)
    PROVE  unpack_str_string(p) \in Results
  <1>1. PICK l, n, q : l = unpack_len("str", "fixstr", p) /\ n = l.n /\ q = l.pos
    OBVIOUS
  <1>2. q \in 0..Len(buf) /\ n \in Nat /\ Len(buf) \in Nat
    <2>1. l \in [pos : 0..Len(buf), n : Nat]
      BY <1>1, UnpackLenTyped
    <2> QED BY <1>1, <2>1
  <1>3. CASE Has(q, n)
    <2>1. q + n <= Len(buf)
      BY <1>3 DEF Has
    <2>2. PICK s : s = [i \in 1..n |-> buf[q + i].n]
      OBVIOUS
    <2>3. ASSUME NEW i \in 1..n PROVE buf[q + i].n \in Int
      <3>1. buf[q + i] \in Byte
        BY <1>2, <2>1
      <3> QED BY <3>1, HeadIs
    <2>4. s \in Seq(Int)
      BY <1>2, <2>2, <2>3
    <2>5. q + n \in 0..Len(buf)
      BY <1>2, <2>1
    <2>6. unpack_str_string(p) = Result(q + n, TRUE, s)
      BY <1>1, <1>3, <2>2 DEF unpack_str_string
    <2> QED BY <2>4, <2>5, <2>6, ResultIs
  <1>4. CASE ~Has(q, n)
    <2>1. unpack_str_string(p) = Result(q, FALSE, << >>) /\ << >> \in Seq(Int)
      BY <1>1, <1>4 DEF unpack_str_string
    <2> QED BY <1>2, <2>1, ResultIs
  <1> QED BY <1>3, <1>4

ArgStep(t, r) ==
    LET e == unpack_int(t, r.pos) IN IF r.ok THEN Result(e.pos, e.ok, r.v \o e.v) ELSE r
ArgsBy(t, n, p, f) ==
    f = [i \in 0..n |-> IF i = 0 THEN Result(p, TRUE, << >>) ELSE ArgStep(t, f[i - 1])]

LEMMA ArgStepIs ==
    ASSUME buf \in Seq(Byte), NEW t \in Type, NEW r \in Results
    PROVE  ArgStep(t, r) \in Results
  <1>1. PICK e : e = unpack_int(t, r.pos)
    OBVIOUS
  <1>2. r.pos \in 0..Len(buf) /\ r.v \in Seq(Int)
    BY DEF Results
  <1>3. e \in Results
    BY <1>1, <1>2, UnpackIntTyped
  <1>4. e.pos \in 0..Len(buf) /\ e.ok \in BOOLEAN /\ e.v \in Seq(Int)
    BY <1>3 DEF Results
  <1>5. r.v \o e.v \in Seq(Int)
    BY <1>2, <1>4
  <1>6. Result(e.pos, e.ok, r.v \o e.v) \in Results
    BY <1>4, <1>5, ResultIs
  <1> QED BY <1>1, <1>6 DEF ArgStep

\* The equation by which unpack_args is defined has a solution.
LEMMA ArgsDefined ==
    ASSUME buf \in Seq(Byte), NEW t \in Type, NEW n \in Nat, NEW p \in 0..Len(buf)
    PROVE  \E f \in [0..n -> Results] :
              /\ f[0] = Result(p, TRUE, << >>) /\ \A i \in 1..n : f[i] = ArgStep(t, f[i - 1])
              /\ unpack_args(t, n, p) = f[n]
  <1> DEFINE S == Results
             a == Result(p, TRUE, << >>)
             step == [i \in 1..n |-> [r \in S |-> ArgStep(t, r)]]
  <1>1. 0 \in 0..n /\ n \in 0..n /\ \A i \in 1..n : i - 1 \in 0..n /\ i \in 0..n /\ i # 0
    OBVIOUS
  <1>2. a \in S
    <2>1. << >> \in Seq(Int)
      OBVIOUS
    <2> QED BY <2>1, ResultIs
  <1>3. ASSUME NEW r \in S PROVE ArgStep(t, r) \in S
    BY ArgStepIs
  <1>4. step \in [1..n -> [S -> S]]
    BY <1>3
  <1> HIDE DEF step, S, a
  <1>5. PICK f \in [0..n -> S] : Recursive(f, n, a, step)
    BY <1>2, <1>4, Recursion
  <1>6. ArgsBy(t, n, p, f)
    <2>1. ASSUME NEW i \in 1..n PROVE step[i][f[i - 1]] = ArgStep(t, f[i - 1])
      <3>1. f[i - 1] \in S
        BY <1>1, <1>5
      <3> QED BY <3>1 DEF step
    <2>2. \A i \in 0..n : i # 0 => i \in 1..n
      OBVIOUS
    <2> QED BY <1>5, <2>1, <2>2 DEF Recursive, ArgsBy, a
  <1>7. PICK g : g = CHOOSE h : ArgsBy(t, n, p, h)
    OBVIOUS
  <1>8. ArgsBy(t, n, p, g)
    BY <1>6, <1>7
  <1>9. unpack_args(t, n, p) = g[n]
    BY <1>7 DEF unpack_args, ArgsBy, ArgStep
  <1>10. g[0] = a /\ \A i \in 1..n : g[i] = ArgStep(t, g[i - 1])
    BY <1>1, <1>8 DEF ArgsBy, a
  <1>11. g \in [0..n -> S]
    <2>1. g = [i \in 0..n |-> g[i]]
      BY <1>8 DEF ArgsBy
    <2>2. g[0] \in S
      BY <1>2, <1>10
    <2>3. ASSUME NEW i \in 1..n, g[i - 1] \in S PROVE g[i] \in S
      BY <1>3, <1>10, <2>3
    <2> QED BY <2>1, <2>2, <2>3, Stepwise
  <1> QED BY <1>9, <1>10, <1>11 DEF S, a

LEMMA ArgsTyped ==
    ASSUME buf \in Seq(Byte), NEW t \in Type, NEW n \in Nat, NEW p \in 0..Len(buf)
    PROVE  unpack_args(t, n, p) \in Results
  <1>1. PICK f \in [0..n -> Results] : unpack_args(t, n, p) = f[n]
    BY ArgsDefined
  <1>2. n \in 0..n
    OBVIOUS
  <1> QED BY <1>1, <1>2

InsertStep(v, i, m) ==
    LET k == v[2 * i - 1] IN
    IF \E j \in 1..(Len(m) \div 2) : m[2 * j - 1] = k THEN m ELSE m \o <<k, v[2 * i]>>
InsertBy(v, f) ==
    f = [i \in 0..(Len(v) \div 2) |-> IF i = 0 THEN << >> ELSE InsertStep(v, i, f[i - 1])]

\* What is in a map was among what was put into it.
LEMMA InsertedTyped ==
    ASSUME NEW v \in Seq(Int)
    PROVE  Inserted(v) \in Seq(Int)
  <1> DEFINE S == Seq(Int)
             step == [i \in 1..(Len(v) \div 2) |-> [m \in S |-> InsertStep(v, i, m)]]
  <1>0. PICK N : N = Len(v) \div 2
    OBVIOUS
  <1>1. /\ N \in Nat /\ 0 \in 0..N /\ N \in 0..N
        /\ \A i \in 1..N : i - 1 \in 0..N /\ i \in 0..N /\ i # 0
        /\ \A i \in 1..N : 2 * i - 1 \in 1..Len(v) /\ 2 * i \in 1..Len(v)
    <2>1. PICK x : x = Len(v)
      OBVIOUS
    <2>2. x \in Nat /\ N = x \div 2
      BY <1>0, <2>1
    <2>3. N \in Nat /\ 2 * N <= x
      BY <2>2
    <2> QED BY <2>1, <2>2, <2>3
  <1>2. << >> \in S
    OBVIOUS
  <1>3. ASSUME NEW i \in 1..N, NEW m \in S PROVE InsertStep(v, i, m) \in S
    <2>1. PICK x, y : x = v[2 * i - 1] /\ y = v[2 * i]
      OBVIOUS
    <2>2. x \in Int /\ y \in Int
      BY <1>1, <2>1
    <2>3. <<x, y>> \in Seq(Int)
      BY <2>2
    <2>4. m \o <<x, y>> \in S
      BY <2>3
    <2>5. InsertStep(v, i, m) = m \/ InsertStep(v, i, m) = m \o <<x, y>>
      BY <2>1 DEF InsertStep
    <2> QED BY <2>4, <2>5
  <1>4. step \in [1..N -> [S -> S]]
    BY <1>0, <1>3
  <1> HIDE DEF step, S
  <1>5. PICK f \in [0..N -> S] : Recursive(f, N, << >>, step)
    BY <1>1, <1>2, <1>4, Recursion
  <1>6. InsertBy(v, f)
    <2>1. ASSUME NEW i \in 1..N PROVE step[i][f[i - 1]] = InsertStep(v, i, f[i - 1])
      <3>1. f[i - 1] \in S
        BY <1>1, <1>5
      <3> QED BY <1>0, <3>1 DEF step
    <2>2. \A i \in 0..N : i # 0 => i \in 1..N
      BY <1>1
    <2> QED BY <1>0, <1>5, <2>1, <2>2 DEF Recursive, InsertBy
  <1>7. PICK g : g = CHOOSE h : InsertBy(v, h)
    OBVIOUS
  <1>8. InsertBy(v, g)
    BY <1>6, <1>7
  <1>9. Inserted(v) = g[N]
    BY <1>0, <1>7 DEF Inserted, InsertBy, InsertStep
  <1>10. g[0] = << >> /\ \A i \in 1..N : g[i] = InsertStep(v, i, g[i - 1])
    BY <1>0, <1>1, <1>8 DEF InsertBy
  <1>11. g \in [0..N -> S]
    <2>1. g = [i \in 0..N |-> g[i]]
      BY <1>0, <1>8 DEF InsertBy
    <2>2. g[0] \in S
      BY <1>2, <1>10
    <2>3. ASSUME NEW i \in 1..N, g[i - 1] \in S PROVE g[i] \in S
      BY <1>3, <1>10, <2>3
    <2> QED BY <1>1, <2>1, <2>2, <2>3, Stepwise
  <1> QED BY <1>1, <1>9, <1>11 DEF S

\* Whatever is asked for, wherever the reader is.
LEMMA UnpackTyped ==
    ASSUME buf \in Seq(Byte), pos \in 0..Len(buf), NEW ask \in Asks
    PROVE  Unpack(ask) \in Results
  <1>1. ask.kind \in Kinds \ {"fix"} /\ ask.type \in Type
    BY MsgpackAssumption
  <1>2. ask.kind \in {"nil", "bool", "int", "float", "double", "args", "str", "array", "map"}
    BY <1>1, KindIs
  <1>3. CASE ask.kind = "int"
    BY <1>1, <1>3, UnpackIntTyped DEF Unpack
  <1>4. CASE ask.kind \in {"nil", "bool", "float", "double"}
    BY <1>4, UnpackOneTyped DEF Unpack
  <1>5. CASE ask.kind = "str"
    BY <1>5, UnpackStrTyped DEF Unpack
  <1>6. CASE ask.kind = "args"
    <2>1. Members \in Nat
      BY DEF Members
    <2> QED BY <1>1, <1>6, <2>1, ArgsTyped DEF Unpack
  <1>7. CASE ask.kind = "array"
    <2>1. PICK l : l = unpack_len("array", "fixarray", pos)
      OBVIOUS
    <2>2. l.pos \in 0..Len(buf) /\ l.n \in Nat
      BY <2>1, UnpackLenTyped
    <2>3. unpack_args(ask.type, l.n, l.pos) \in Results
      BY <1>1, <2>2, ArgsTyped
    <2> QED BY <1>7, <2>1, <2>3 DEF Unpack, unpack_vector
  <1>8. CASE ask.kind = "map"
    <2>1. PICK l : l = unpack_len("map", "fixmap", pos)
      OBVIOUS
    <2>2. l.pos \in 0..Len(buf) /\ l.n \in Nat
      BY <2>1, UnpackLenTyped
    <2>3. PICK r : r = unpack_args(ask.type, 2 * l.n, l.pos)
      OBVIOUS
    <2>4. r \in Results
      <3>1. 2 * l.n \in Nat
        BY <2>2
      <3> QED BY <1>1, <2>2, <2>3, <3>1, ArgsTyped
    <2>5. r.v \in Seq(Int)
      BY <2>4 DEF Results
    <2>6. Inserted(r.v) \in Seq(Int)
      BY <2>5, InsertedTyped
    <2>7. [r EXCEPT !.v = Inserted(@)] \in Results
      <3>1. PICK x : x = Inserted(r.v)
        OBVIOUS
      <3>2. [r EXCEPT !.v = x] \in Results
        BY <2>4, <2>6, <3>1 DEF Results
      <3> QED BY <3>1, <3>2
    <2> QED BY <1>8, <2>1, <2>3, <2>7 DEF Unpack, unpack_map
  <1> QED BY <1>2, <1>3, <1>4, <1>5, <1>6, <1>7, <1>8
-----------------------------------------------------------------------------
(* The bytes are bytes, and a message comes out as it went in.             *)

\* Nothing is read before the message is carried.
Began == how = "none" => pos = 0 /\ got = << >> /\ orig = << >>
Typed == TypeOK /\ Began

LEMMA TypedInit == Init => Typed
  <1> SUFFICES ASSUME Init PROVE Typed
    OBVIOUS
  <1>1. /\ buf = << >> /\ pos = 0 /\ how = "none" /\ orig = << >> /\ got = << >>
    BY DEF Init
  <1>2. /\ buf \in Seq(Byte) /\ orig \in Seq(Byte)
        /\ got \in Seq([ask : Asks, ok : BOOLEAN, v : Seq(Int)])
    BY <1>1
  <1>3. Len(buf) = 0 /\ Len(orig) = 0 /\ FixLen \in Nat
    BY <1>1, MsgpackAssumption
  <1> QED BY <1>1, <1>2, <1>3 DEF Typed, TypeOK, Began

\* The type invariant after an action, from what it says of each variable.
LEMMA TypedBy ==
    ASSUME buf' \in Seq(Byte), orig' \in Seq(Byte), Len(orig') <= FixLen,
           how' = "none" => Len(buf') <= FixLen, pos' \in 0..Len(buf'),
           got' \in Seq([ask : Asks, ok : BOOLEAN, v : Seq(Int)]),
           how' = "none" => pos' = 0 /\ got' = << >> /\ orig' = << >>
    PROVE  Typed'
  BY DEF Typed, TypeOK, Began

LEMMA TypedNext ==
    ASSUME Typed, [Next]_vars
    PROVE  Typed'
  <1>1. /\ buf \in Seq(Byte) /\ orig \in Seq(Byte) /\ Len(orig) <= FixLen
        /\ (how = "none" => Len(buf) <= FixLen) /\ pos \in 0..Len(buf)
        /\ got \in Seq([ask : Asks, ok : BOOLEAN, v : Seq(Int)])
        /\ (how = "none" => pos = 0 /\ got = << >> /\ orig = << >>)
    BY DEF Typed, TypeOK, Began
  <1>2. ASSUME NEW item \in Items, pack(item) PROVE Typed'
    <2>1. PICK w : w = Written(item)
      OBVIOUS
    <2>2. how = "none" /\ buf' = w.buf /\ UNCHANGED <<pos, how, orig, got>>
      BY <1>2, <2>1 DEF pack
    <2>3. w \in WriteStates /\ Len(w.buf) <= FixLen
      <3>1. Packable(item)
        BY MsgpackAssumption
      <3> QED BY <1>1, <2>1, <2>2, <3>1, WrittenIs
    <2>4. w.buf \in Seq(Byte) /\ Len(w.buf) \in Nat
      <3>1. w.buf \in Seq(Byte)
        BY <2>3 DEF WriteStates
      <3> QED BY <3>1
    <2>5. buf' \in Seq(Byte) /\ Len(buf') <= FixLen /\ Len(buf') \in Nat
      BY <2>2, <2>3, <2>4
    <2>6. pos' \in 0..Len(buf')
      BY <1>1, <2>2, <2>5
    <2> QED BY <1>1, <2>2, <2>5, <2>6, TypedBy
  <1>3. ASSUME NEW via \in {"plain", "buffer", "pointer", "xxtea"}, carry(via) PROVE Typed'
    <2>1. /\ how = "none" /\ (via # "plain" => buf # << >>) /\ how' = via /\ orig' = buf
          /\ buf' = Carry(via, buf) /\ pos' = pos /\ got' = got
      BY <1>3 DEF carry
    <2>2. PICK c : c = Carry(via, buf)
      OBVIOUS
    <2>3. c \in Seq(Byte)
      BY <1>1, <2>1, <2>2, CarryTyped
    <2>4. Len(c) \in Nat
      BY <2>3
    <2>5. pos' \in 0..Len(buf')
      BY <1>1, <2>1, <2>2, <2>4
    <2> QED BY <1>1, <2>1, <2>2, <2>3, <2>5, TypedBy
  <1>4. ASSUME NEW ask \in Asks, unpack(ask) PROVE Typed'
    <2>1. PICK r : r = Unpack(ask)
      OBVIOUS
    <2>2. /\ how # "none" /\ pos' = r.pos
          /\ got' = Append(got, [ask |-> ask, ok |-> r.ok, v |-> r.v])
          /\ UNCHANGED <<buf, sent, torn, how, orig>>
      BY <1>4, <2>1 DEF unpack
    <2>3. r \in Results
      BY <1>1, <2>1, UnpackTyped
    <2>4. r.pos \in 0..Len(buf) /\ r.ok \in BOOLEAN /\ r.v \in Seq(Int)
      BY <2>3 DEF Results
    <2>5. PICK e : e = [ask |-> ask, ok |-> r.ok, v |-> r.v]
      OBVIOUS
    <2>6. e \in [ask : Asks, ok : BOOLEAN, v : Seq(Int)]
      BY <2>4, <2>5
    <2>7. got' \in Seq([ask : Asks, ok : BOOLEAN, v : Seq(Int)])
      <3>1. PICK E : E = [ask : Asks, ok : BOOLEAN, v : Seq(Int)]
        OBVIOUS
      <3>2. got \in Seq(E) /\ e \in E
        BY <1>1, <2>6, <3>1
      <3>3. Append(got, e) \in Seq(E)
        BY <3>2
      <3> QED BY <2>2, <2>5, <3>1, <3>3
    <2>8. pos' \in 0..Len(buf') /\ buf' = buf /\ how' = how /\ orig' = orig
      BY <2>2, <2>4
    <2> QED BY <1>1, <2>2, <2>7, <2>8, TypedBy
  <1>5. CASE UNCHANGED vars
    <2>1. buf' = buf /\ pos' = pos /\ how' = how /\ orig' = orig /\ got' = got
      BY <1>5 DEF vars
    <2> QED BY <1>1, <2>1, TypedBy
  <1> QED BY <1>2, <1>3, <1>4, <1>5 DEF Next

LEMMA AllTyped == Spec => []Typed
  <1>1. Init => Typed
    BY TypedInit
  <1>2. Typed /\ [Next]_vars => Typed'
    BY TypedNext
  <1> QED BY <1>1, <1>2, PTL DEF Spec

\* The bytes of a message are bytes however it is carried, a buffer never holds more than
\* its size, the reader never stands behind what was written, and what it is given are
\* integers: for all widths of a byte, sizes and limits.
THEOREM MessagesTyped == Spec => []TypeOK
  <1>1. Typed => TypeOK
    BY DEF Typed
  <1> QED BY <1>1, AllTyped, PTL

\* What carry makes of a message is it, with the exceptions, and no other action
\* changes what Carried is about once the message is carried.
LEMMA CarriedNext ==
    ASSUME Typed, Carried, [Next]_vars
    PROVE  Carried'
  <1>1. ASSUME NEW item \in Items, pack(item) PROVE Carried'
    <2>1. how' = "none"
      BY <1>1 DEF pack
    <2> QED BY <2>1 DEF Carried
  <1>2. ASSUME NEW via \in {"plain", "buffer", "pointer", "xxtea"}, carry(via) PROVE Carried'
    <2>1. PICK src : src = buf
      OBVIOUS
    <2>2. /\ (via # "plain" => src # << >>) /\ how' = via /\ orig' = src
          /\ buf' = Carry(via, src)
      BY <1>2, <2>1 DEF carry
    <2>3. src \in Seq(Byte)
      BY <2>1 DEF Typed, TypeOK
    <2>4. \/ via = "plain" \/ Carry(via, src) = src
          \/ via = "xxtea" /\ Len(src) < Word
          \/ via \in {"buffer", "pointer"} /\ Len(src) % Bits = 0
          \/ via = "pointer" /\ \A i \in 0..((Len(src) % Bits) - 1) : src[Len(src) - i] = Zero
      BY <2>2, <2>3, CarryIs
    <2> QED BY <2>2, <2>4 DEF Carried
  <1>3. ASSUME NEW ask \in Asks, unpack(ask) PROVE Carried'
    <2>1. buf' = buf /\ how' = how /\ orig' = orig
      BY <1>3 DEF unpack
    <2> QED BY <2>1 DEF Carried
  <1>4. CASE UNCHANGED vars
    <2>1. buf' = buf /\ how' = how /\ orig' = orig
      BY <1>4 DEF vars
    <2> QED BY <2>1 DEF Carried
  <1> QED BY <1>1, <1>2, <1>3, <1>4 DEF Next

\* A message of any length and any bytes comes out of the compresser and of the cipher as
\* it went in, unless it is one of those that Carried lists.
THEOREM MessagesCarried == Spec => []Carried
  <1>1. Init => Carried
    BY DEF Init, Carried
  <1>2. Typed /\ Carried /\ [Next]_vars => Carried'
    BY CarriedNext
  <1> QED BY <1>1, <1>2, AllTyped, PTL DEF Spec
-----------------------------------------------------------------------------
(* An integer, packed and unpacked.                                        *)

\* What a width has room for comes out of it.
LEMMA SignedBack ==
    ASSUME NEW v \in Int, NEW k \in Widths
    PROVE  /\ HasValue([signed |-> TRUE, width |-> k], v) => Signed(v % Values[k], k) = v
           /\ HasValue([signed |-> FALSE, width |-> k], v) => v % Values[k] = v
  <1>1. PICK w, c : w = Values[k] /\ c = Values[k] \div 2
    OBVIOUS
  <1>2. w \in Nat \ {0} /\ c \in Nat \ {0} /\ w = 2 * c
    <2>1. k \in 1..8 /\ k \in 0..8
      BY DEF Widths
    <2>2. w \in Nat /\ w > 0 /\ c \in Nat \ {0} /\ w = 2 * c
      BY <1>1, <2>1, ValuesIs, ValuesGrow
    <2> QED BY <2>2
  <1>3. ASSUME 0 <= v, v < w PROVE v % w = v
    <2>1. v \in 0..(w - 1) /\ v = 0 * w + v
      BY <1>2, <1>3
    <2> QED BY <1>2, <2>1, RemainderIs
  <1>4. ASSUME v < 0, -w <= v PROVE v % w = v + w
    <2>1. v + w \in 0..(w - 1) /\ (-1) * w = -w
      BY <1>2, <1>4
    <2>2. v = (-1) * w + (v + w) /\ -1 \in Int
      BY <1>2, <2>1
    <2> QED BY <1>2, <2>1, <2>2, RemainderIs
  <1>5. HasValue([signed |-> FALSE, width |-> k], v) => v % w = v
    <2>1. HasValue([signed |-> FALSE, width |-> k], v) => 0 <= v /\ v < w
      BY <1>1 DEF HasValue
    <2> QED BY <1>3, <2>1
  <1>6. ASSUME HasValue([signed |-> TRUE, width |-> k], v) PROVE Signed(v % w, k) = v
    <2>1. -c <= v /\ v < c
      BY <1>1, <1>6 DEF HasValue
    <2>2. PICK x : x = v % w
      OBVIOUS
    <2>3. Signed(x, k) = IF x >= c THEN x - w ELSE x
      BY <1>1 DEF Signed
    <2>4. CASE v < 0
      <3>1. x = v + w
        BY <1>2, <1>4, <2>1, <2>2, <2>4
      <3> QED BY <1>2, <2>1, <2>2, <2>3, <3>1
    <2>5. CASE ~(v < 0)
      <3>1. x = v
        BY <1>2, <1>3, <2>1, <2>2, <2>5
      <3> QED BY <1>2, <2>1, <2>2, <2>3, <3>1
    <2> QED BY <2>4, <2>5
  <1> QED BY <1>1, <1>5, <1>6

\* Who is asked for what is held is where it is.
LEMMA HeldHead ==
    ASSUME NEW src, NEW p, NEW bytes, Held(src, p, bytes), Len(bytes) >= 1
    PROVE  /\ p \in 0..Len(src) /\ p \in Nat /\ src \in Seq(Byte) /\ p + 1 <= Len(src)
           /\ src[p + 1] = bytes[1]
  <1>1. /\ src \in Seq(Byte) /\ bytes \in Seq(Byte) /\ p \in Nat /\ p + Len(bytes) <= Len(src)
        /\ \A i \in 1..Len(bytes) : src[p + i] = bytes[i]
    BY DEF Held
  <1>2. Len(bytes) \in Nat /\ Len(src) \in Nat /\ 1 \in 1..Len(bytes)
    BY <1>1
  <1> QED BY <1>1, <1>2

\* What is behind a head.
LEMMA HeldBehind ==
    ASSUME NEW of \in {"int", "uint", "float", "double", "str", "array", "map"},
           NEW k \in Widths, NEW v \in Int, NEW p, Held(buf, p, Headed(of, k, v))
    PROVE  /\ buf[p + 1] = Mark(of, k) /\ p + 1 + k <= Len(buf)
           /\ Has(p, 1) /\ Has(p + 1, k) /\ p \in 0..Len(buf) /\ buf \in Seq(Byte)
           /\ Load(SubSeq(buf, p + 2, p + 1 + k)) = v % Values[k]
  <1>1. PICK c : c = Headed(of, k, v)
    OBVIOUS
  <1>2. /\ c \in Seq(Byte) /\ Len(c) = 1 + k /\ c[1] = Mark(of, k)
        /\ \A i \in 1..k : c[1 + i] = Store(v, k)[i]
    BY <1>1, HeadedIs
  <1>3. k \in Nat /\ k >= 1 /\ k \in 0..8
    BY DEF Widths
  <1>4. Len(c) >= 1
    BY <1>2, <1>3
  <1>5. /\ p \in 0..Len(buf) /\ p \in Nat /\ buf \in Seq(Byte) /\ p + 1 <= Len(buf)
        /\ buf[p + 1] = c[1]
    BY <1>1, <1>4, HeldHead
  <1>6. p + Len(c) <= Len(buf) /\ \A i \in 1..Len(c) : buf[p + i] = c[i]
    BY <1>1 DEF Held
  <1>7. p + 1 + k <= Len(buf)
    BY <1>2, <1>3, <1>5, <1>6
  <1>8. PICK s : s = SubSeq(buf, p + 2, p + 1 + k)
    OBVIOUS
  <1>9. s \in Seq(Byte) /\ Len(s) = k /\ \A i \in 1..k : s[i] = buf[p + 1 + i]
    BY <1>5, <1>7, <1>8, SpanIs
  <1>10. ASSUME NEW i \in 1..k PROVE s[i].n = Store(v, k)[i].n
    <2>1. 1 + i \in 1..Len(c) /\ p + (1 + i) = p + 1 + i
      BY <1>2, <1>3, <1>5
    <2> QED BY <1>2, <1>6, <1>9, <2>1
  <1>11. Load(s) = v % Values[k]
    <2>1. Stored(s, v, k)
      BY <1>9, <1>10 DEF Stored
    <2> QED BY <1>3, <2>1, LoadIs
  <1>12. Has(p, 1) /\ Has(p + 1, k)
    BY <1>5, <1>7 DEF Has
  <1> QED BY <1>2, <1>5, <1>7, <1>8, <1>11, <1>12

\* The head of has room for v in k bytes.
Room(of, k, v) == HasValue([signed |-> of = "int", width |-> k], v)

HeadRead(t, of, k, v, p) ==
    /\ TakesHead(t, Mark(of, k)) => unpack_int(t, p) = Result(p + 1 + k, TRUE, <<Cast(v, t)>>)
    /\ ~TakesHead(t, Mark(of, k)) => unpack_int(t, p) = Result(p + 1, FALSE, << >>)

\* An integer behind its head.
LEMMA HeadBack ==
    ASSUME NEW t \in Type, NEW of \in {"int", "uint"}, NEW k \in Widths, NEW v \in Int, NEW p,
           Held(buf, p, Headed(of, k, v)), Room(of, k, v)
    PROVE  HeadRead(t, of, k, v, p)
  <1>1. PICK h, u : h = buf[p + 1] /\ u = Load(SubSeq(buf, p + 2, p + 1 + k))
    OBVIOUS
  <1>2. h = Mark(of, k) /\ Has(p, 1) /\ Has(p + 1, k) /\ u = v % Values[k]
    BY <1>1, HeldBehind
  <1>3. h.of = of /\ h.n = k /\ h.of # "data"
    BY <1>2 DEF Mark
  <1>4. (IF h.of = "int" THEN Signed(u, h.n) ELSE u) = v
    <2>1. CASE of = "int"
      <3>1. HasValue([signed |-> TRUE, width |-> k], v)
        <4>1. (of = "int") = TRUE
          BY <2>1
        <4> QED BY <4>1 DEF Room
      <3> QED BY <1>2, <1>3, <2>1, <3>1, SignedBack
    <2>2. CASE of = "uint"
      <3>1. HasValue([signed |-> FALSE, width |-> k], v)
        <4>1. (of = "int") = FALSE
          BY <2>2
        <4> QED BY <4>1 DEF Room
      <3> QED BY <1>2, <1>3, <2>2, <3>1, SignedBack
    <2> QED BY <2>1, <2>2
  <1>5. CASE TakesHead(t, h)
    <2>1. unpack_int(t, p) =
             Result(p + 1 + k, TRUE, <<Cast(IF h.of = "int" THEN Signed(u, h.n) ELSE u, t)>>)
      BY <1>1, <1>2, <1>3, <1>5 DEF unpack_int
    <2> QED BY <1>2, <1>4, <1>5, <2>1 DEF HeadRead
  <1>6. CASE ~TakesHead(t, h)
    <2>1. unpack_int(t, p) = Result(p + 1, FALSE, << >>)
      BY <1>1, <1>2, <1>3, <1>6 DEF unpack_int
    <2> QED BY <1>2, <1>6, <2>1 DEF HeadRead
  <1> QED BY <1>5, <1>6

\* A fixint is a value of a signed byte.
LEMMA FixintIs ==
    ASSUME NEW v \in Int, IsFixint(v)
    PROVE  /\ Signed(v % B, 1) = v /\ v % B \in 0..(B - 1)
           /\ v >= 0 => v % B \in PositiveFix
           /\ v < 0 => v % B >= B - B \div 8
  <1>1. PICK c, d : c = B \div 2 /\ d = B \div 8
    OBVIOUS
  <1>2. B \in Nat \ {0} /\ c \in Nat /\ d \in Nat /\ B = 2 * c /\ d <= c
    BY <1>1, BIs
  <1>3. (-d <= v /\ v < 0) \/ (0 <= v /\ v < c)
    BY <1>1, <1>2 DEF IsFixint, NegativeFix, PositiveFix
  <1>4. Values[1] = B /\ 1 \in Widths
    BY ValuesGrow DEF Widths
  <1>5. HasValue([signed |-> TRUE, width |-> 1], v)
    <2>1. -c <= v /\ v < c
      BY <1>2, <1>3
    <2> QED BY <1>1, <1>4, <2>1 DEF HasValue
  <1>6. Signed(v % B, 1) = v
    BY <1>4, <1>5, SignedBack
  <1>7. v % B \in 0..(B - 1)
    BY <1>2, Remainder
  <1>8. ASSUME v >= 0 PROVE v % B \in PositiveFix
    <2>1. v \in 0..(B - 1) /\ v = 0 * B + v
      BY <1>2, <1>3, <1>8
    <2>2. v % B = v
      BY <1>2, <2>1, RemainderIs
    <2>3. v \in PositiveFix
      BY <1>1, <1>2, <1>3, <1>8 DEF PositiveFix
    <2> QED BY <2>2, <2>3
  <1>9. ASSUME v < 0 PROVE v % B >= B - d
    <2>1. v + B \in 0..(B - 1) /\ v = (-1) * B + (v + B) /\ -1 \in Int
      BY <1>2, <1>3, <1>9
    <2>2. v % B = v + B
      BY <1>2, <2>1, RemainderIs
    <2> QED BY <1>2, <1>3, <1>9, <2>2
  <1> QED BY <1>1, <1>6, <1>7, <1>8, <1>9

\* A fixint, on its own.
LEMMA FixintBack ==
    ASSUME NEW t \in Type, NEW v \in Int, IsFixint(v), NEW p, Held(buf, p, <<Data(v % B)>>)
    PROVE  /\ TakesFixint(t, v % B) => unpack_int(t, p) = Result(p + 1, TRUE, <<Cast(v, t)>>)
           /\ ~TakesFixint(t, v % B) => unpack_int(t, p) = Result(p + 1, FALSE, << >>)
  <1>1. PICK h, x : h = buf[p + 1] /\ x = v % B
    OBVIOUS
  <1>2. x \in 0..(B - 1) /\ Signed(x, 1) = v
    BY <1>1, FixintIs
  <1>3. h = Data(x) /\ Has(p, 1)
    <2>1. PICK d : d = Data(x)
      OBVIOUS
    <2>2. Held(buf, p, <<d>>) /\ Len(<<d>>) >= 1 /\ <<d>>[1] = d
      BY <1>1, <2>1
    <2>3. buf[p + 1] = d /\ p + 1 <= Len(buf)
      BY <2>2, HeldHead
    <2> QED BY <1>1, <2>1, <2>3 DEF Has
  <1>4. h.of = "data" /\ h.n = x
    BY <1>3 DEF Data
  <1>5. ~TakesHead(t, h)
    BY <1>4 DEF TakesHead
  <1>6. CASE TakesFixint(t, x)
    <2>1. unpack_int(t, p) = Result(p + 1, TRUE, <<Cast(Signed(h.n, 1), t)>>)
      BY <1>1, <1>3, <1>4, <1>6 DEF unpack_int
    <2> QED BY <1>1, <1>2, <1>4, <1>6, <2>1
  <1>7. CASE ~TakesFixint(t, x)
    <2>1. unpack_int(t, p) = Result(p + 1, FALSE, << >>)
      BY <1>1, <1>3, <1>4, <1>5, <1>7 DEF unpack_int
    <2> QED BY <1>1, <1>7, <2>1
  <1> QED BY <1>1, <1>6, <1>7

\* A type that has a value takes the shortest form of it.
LEMMA Taken ==
    ASSUME NEW t \in Type, NEW v \in Int, HasValue(t, v)
    PROVE  /\ IsFixint(v) => TakesFixint(t, v % B)
           /\ ~IsFixint(v) => TakesHead(t, Mark(OfInt(v), Narrowest(v)))
  <1>1. PICK w, c, k : w = Values[t.width] /\ c = Values[t.width] \div 2 /\ k = Narrowest(v)
    OBVIOUS
  <1>2. t.width \in Widths /\ t.signed \in BOOLEAN /\ t = [signed |-> t.signed, width |-> t.width]
    BY DEF Type
  <1>3. c \in Nat /\ w = 2 * c
    <2>1. t.width \in 1..8
      BY <1>2 DEF Widths
    <2> QED BY <1>1, <2>1, ValuesGrow
  <1>4. IF t.signed THEN -c <= v /\ v < c ELSE 0 <= v /\ v < w
    BY <1>1 DEF HasValue
  <1>5. v < 0 => t.signed
    BY <1>4
  <1>6. k \in Widths /\ \A x \in Widths : HasValue([signed |-> v < 0, width |-> x], v) <=> k <= x
    BY <1>1, NarrowestIs DEF Shortest
  <1>7. k <= t.width
    <2>1. IF v < 0 THEN -c <= v /\ v < c ELSE 0 <= v /\ v < w
      BY <1>2, <1>3, <1>4
    <2>2. HasValue([signed |-> v < 0, width |-> t.width], v)
      BY <1>1, <2>1 DEF HasValue
    <2> QED BY <1>2, <1>6, <2>2
  <1>8. ASSUME IsFixint(v) PROVE TakesFixint(t, v % B)
    <2>1. CASE v >= 0
      BY <1>8, <2>1, FixintIs DEF TakesFixint
    <2>2. CASE v < 0
      BY <1>5, <1>8, <2>2, FixintIs DEF TakesFixint
    <2> QED BY <2>1, <2>2
  <1>9. ASSUME ~IsFixint(v) PROVE TakesHead(t, Mark(OfInt(v), k))
    <2>1. PICK h : h = Mark(OfInt(v), k)
      OBVIOUS
    <2>2. h.of = OfInt(v) /\ h.n = k
      BY <2>1 DEF Mark
    <2>3. (v < 0 => h.of = "int") /\ (~(v < 0) => h.of = "uint") /\ h.of \in {"int", "uint"}
      BY <2>2 DEF OfInt
    <2>4. CASE t.width = 1
      <3>1. k = 1
        BY <1>6, <1>7, <2>4 DEF Widths
      <3>2. CASE v < 0
        <4>1. TakesHead(t, h)
          BY <1>5, <2>2, <2>3, <2>4, <3>1, <3>2 DEF TakesHead
        <4> QED BY <2>1, <4>1
      <3>3. CASE ~(v < 0)
        <4>1. ~t.signed
          <5>1. SUFFICES ASSUME t.signed PROVE FALSE
            OBVIOUS
          <5>2. c = B \div 2 /\ v < c
            BY <1>1, <1>4, <2>4, <5>1, ValuesGrow
          <5>3. v \in PositiveFix
            BY <1>3, <3>3, <5>2, BIs DEF PositiveFix
          <5> QED BY <1>9, <5>3 DEF IsFixint
        <4>2. TakesHead(t, h)
          BY <2>2, <2>3, <2>4, <3>1, <3>3, <4>1 DEF TakesHead
        <4> QED BY <2>1, <4>2
      <3> QED BY <3>2, <3>3
    <2>5. CASE t.width # 1
      <3>1. t.width > 1 /\ (k < 8 \/ (k = 8 /\ t.width = 8))
        BY <1>2, <1>6, <1>7, <2>5 DEF Widths
      <3>2. t.signed \/ h.of = "uint"
        BY <1>5, <2>3
      <3>3. TakesHead(t, h)
        BY <2>2, <2>3, <3>1, <3>2 DEF TakesHead
      <3> QED BY <2>1, <3>3
    <2> QED BY <2>4, <2>5
  <1> QED BY <1>1, <1>8, <1>9

\* What is given is v, and the reader is behind what was packed, unless it was refused.
Given(r, p, bytes, v) == r.ok => r.pos = p + Len(bytes) /\ r.v = v

LEMMA IntBack ==
    ASSUME NEW t \in Type, NEW u \in Type, NEW v \in Int, HasValue(u, v), NEW p,
           Held(buf, p, pack_int(v))
    PROVE  /\ Given(unpack_int(t, p), p, pack_int(v), <<Cast(v, t)>>)
           /\ HasValue(t, v) => unpack_int(t, p).ok
  <1>1. /\ IsFixint(v) => pack_int(v) = <<Data(v % B)>>
        /\ ~IsFixint(v) => pack_int(v) = Headed(OfInt(v), Narrowest(v), v)
        /\ Shortest(v, Narrowest(v)) /\ OfInt(v) \in {"int", "uint"}
    BY PackIntIs
  <1>2. CASE IsFixint(v)
    <2>1. Len(pack_int(v)) = 1
      BY <1>1, <1>2
    <2>2. /\ TakesFixint(t, v % B) => unpack_int(t, p) = Result(p + 1, TRUE, <<Cast(v, t)>>)
          /\ ~TakesFixint(t, v % B) => unpack_int(t, p) = Result(p + 1, FALSE, << >>)
      BY <1>1, <1>2, FixintBack
    <2>3. HasValue(t, v) => TakesFixint(t, v % B)
      BY <1>2, Taken
    <2> QED BY <2>1, <2>2, <2>3 DEF Given, Result
  <1>3. CASE ~IsFixint(v)
    <2>1. PICK k, of : k = Narrowest(v) /\ of = OfInt(v)
      OBVIOUS
    <2>2. k \in Widths /\ of \in {"int", "uint"} /\ k \in Nat
      BY <1>1, <2>1 DEF Shortest, Widths
    <2>3. Room(of, k, v)
      <3>1. (of = "int") = (v < 0)
        BY <2>1 DEF OfInt
      <3>2. HasValue([signed |-> v < 0, width |-> k], v)
        BY <1>1, <2>1, <2>2 DEF Shortest
      <3> QED BY <3>1, <3>2 DEF Room
    <2>4. Held(buf, p, Headed(of, k, v)) /\ Len(pack_int(v)) = 1 + k
      BY <1>1, <1>3, <2>1, <2>2, HeadedIs
    <2>5. HeadRead(t, of, k, v, p)
      BY <2>2, <2>3, <2>4, HeadBack
    <2>6. HasValue(t, v) => TakesHead(t, Mark(of, k))
      BY <1>3, <2>1, Taken
    <2>7. p + 1 + k = p + (1 + k)
      <3>1. p \in Nat
        BY <2>4 DEF Held
      <3> QED BY <2>2, <3>1
    <2> QED BY <2>4, <2>5, <2>6, <2>7 DEF HeadRead, Given, Result
  <1> QED BY <1>2, <1>3

\* An integer packed with the width of its type.
LEMMA FixBack ==
    ASSUME NEW t \in Type, NEW u \in Type, NEW v \in Int, HasValue(u, v), NEW p,
           Held(buf, p, pack_fix(u, v))
    PROVE  Given(unpack_int(t, p), p, pack_fix(u, v), <<Cast(v, t)>>)
  <1>1. PICK k, of : k = u.width /\ of = OfType(u)
    OBVIOUS
  <1>2. pack_fix(u, v) = Headed(of, k, v)
    BY <1>1 DEF pack_fix, Headed, OfType
  <1>3. k \in Widths /\ of \in {"int", "uint"} /\ k \in Nat
    BY <1>1 DEF Type, OfType, Widths
  <1>4. Room(of, k, v)
    <2>1. u = [signed |-> u.signed, width |-> k] /\ u.signed \in BOOLEAN
      BY <1>1 DEF Type
    <2>2. u.signed = (of = "int")
      BY <1>1, <2>1 DEF OfType
    <2> QED BY <2>1, <2>2 DEF Room
  <1>5. Len(pack_fix(u, v)) = 1 + k
    BY <1>2, <1>3, HeadedIs
  <1>6. HeadRead(t, of, k, v, p)
    BY <1>2, <1>3, <1>4, HeadBack
  <1>7. p + 1 + k = p + (1 + k)
    <2>1. p \in Nat
      BY DEF Held
    <2> QED BY <1>3, <2>1
  <1> QED BY <1>5, <1>6, <1>7 DEF HeadRead, Given, Result
-----------------------------------------------------------------------------
(* Integers one after the other, and lengths.                              *)

\* The first put in front of the others.
LEMMA JoinsCons ==
    ASSUME NEW w \in Seq(Seq(Byte)), NEW F, Joins(F, w), NEW h \in Seq(Byte),
           NEW x \in Seq(Seq(Byte)), x = <<h>> \o w
    PROVE  FlattenSeq(x) = h \o F[Len(w)]
  <1>1. PICK G : Joins(G, x)
    BY JoinsExist
  <1>2. PICK N : N = Len(w)
    OBVIOUS
  <1>3. N \in Nat /\ Len(x) = N + 1 /\ x[1] = h /\ \A i \in 1..N : x[i + 1] = w[i]
    <2>1. <<h>> \in Seq(Seq(Byte)) /\ Len(<<h>>) = 1 /\ <<h>>[1] = h
      OBVIOUS
    <2>2. N \in Nat
      BY <1>2
    <2>3. /\ Len(<<h>> \o w) = Len(<<h>>) + Len(w)
          /\ \A i \in 1..Len(<<h>>) + Len(w) :
                (<<h>> \o w)[i] = IF i <= Len(<<h>>) THEN <<h>>[i] ELSE w[i - Len(<<h>>)]
      BY <2>1, ConcatProperties
    <2>4. Len(x) = 1 + N /\ \A i \in 1..1 + N : x[i] = IF i <= 1 THEN <<h>>[i] ELSE w[i - 1]
      BY <1>2, <2>1, <2>3
    <2>5. 1 \in 1..1 + N /\ \A i \in 1..N : i + 1 \in 1..1 + N /\ ~(i + 1 <= 1) /\ (i + 1) - 1 = i
      BY <2>2
    <2>6. ASSUME NEW i \in 1..N PROVE x[i + 1] = w[i]
      <3>1. i + 1 \in 1..1 + N /\ ~(i + 1 <= 1) /\ (i + 1) - 1 = i
        BY <2>5
      <3> QED BY <2>4, <3>1
    <2>7. x[1] = h
      BY <2>1, <2>4, <2>5
    <2> QED BY <2>2, <2>4, <2>6, <2>7
  <1> DEFINE Is(i) == G[i + 1] = h \o F[i]
             T == {i \in Nat : Is(i)}
  <1>4. 0 \in T
    <2>1. 1 \in 1..Len(x) /\ 1 - 1 = 0
      BY <1>3
    <2>2. G[1] = G[0] \o x[1] /\ G[0] = << >> /\ F[0] = << >>
      BY <1>1, <2>1 DEF Joins
    <2>3. << >> \o h = h /\ h \o << >> = h
      OBVIOUS
    <2>4. G[0 + 1] = h \o F[0]
      BY <1>3, <2>2, <2>3
    <2> QED BY <2>4
  <1>5. ASSUME NEW i \in 0..(N - 1), i \in T PROVE i + 1 \in T
    <2>1. /\ i + 1 \in 1..N /\ (i + 1) - 1 = i /\ i \in 0..N /\ i + 1 \in Nat
          /\ (i + 1) + 1 \in 1..Len(x) /\ ((i + 1) + 1) - 1 = i + 1
      BY <1>3
    <2>2. G[(i + 1) + 1] = G[i + 1] \o x[(i + 1) + 1] /\ F[i + 1] = F[i] \o w[i + 1]
      BY <1>1, <1>2, <2>1 DEF Joins
    <2>3. x[(i + 1) + 1] = w[i + 1] /\ G[i + 1] = h \o F[i]
      BY <1>3, <1>5, <2>1
    <2>4. PICK a, b : a = F[i] /\ b = w[i + 1]
      OBVIOUS
    <2>5. a \in Seq(Byte) /\ b \in Seq(Byte)
      BY <1>2, <2>1, <2>4, JoinsTyped
    <2>6. (h \o a) \o b = h \o (a \o b)
      <3> HIDE DEF Is, T
      <3>1. PICK d : d = h
        OBVIOUS
      <3>2. d \in Seq(Byte)
        BY <3>1
      <3>3. (d \o a) \o b = d \o (a \o b)
        BY <2>5, <3>2, BytesApart
      <3> QED BY <3>1, <3>3
    <2>7. Is(i + 1)
      BY <2>2, <2>3, <2>4, <2>6
    <2> HIDE DEF Is
    <2> QED BY <2>1, <2>7
  <1>6. Is(N)
    <2> HIDE DEF T
    <2>1. \A i \in 0..N : i \in T
      BY <1>3, <1>4, <1>5, Upwards
    <2> USE DEF T
    <2> HIDE DEF Is
    <2>2. N \in T
      BY <1>3, <2>1
    <2> QED BY <2>2
  <1>7. FlattenSeq(x) = G[N + 1]
    BY <1>1, <1>3, FlattenAll
  <1> QED BY <1>2, <1>6, <1>7

Casts(v, t) == [i \in DOMAIN v |-> Cast(v[i], t)]

\* The integers of v, which the type u has, are behind p.
IntsAt(u, v, F, p) ==
    /\ v \in Seq(Int) /\ \A i \in DOMAIN v : HasValue(u, v[i])
    /\ Joins(F, Ints(v)) /\ Held(buf, p, F[Len(v)])

LEMMA ArgsBack ==
    ASSUME NEW t \in Type, NEW u \in Type, NEW v, NEW F, NEW p, IntsAt(u, v, F, p)
    PROVE  /\ Given(unpack_args(t, Len(v), p), p, F[Len(v)], Casts(v, t))
           /\ (\A i \in DOMAIN v : HasValue(t, v[i])) => unpack_args(t, Len(v), p).ok
  <1>1. PICK N, w, every : /\ N = Len(v) /\ w = Ints(v)
                           /\ every = (\A i \in DOMAIN v : HasValue(t, v[i]))
    OBVIOUS
  <1>2. /\ v \in Seq(Int) /\ N \in Nat /\ DOMAIN v = 1..N /\ Joins(F, w) /\ Held(buf, p, F[N])
        /\ \A i \in 1..N : v[i] \in Int /\ HasValue(u, v[i]) /\ (every => HasValue(t, v[i]))
    <2>1. /\ v \in Seq(Int) /\ Joins(F, w) /\ Held(buf, p, F[N])
          /\ \A i \in DOMAIN v : HasValue(u, v[i])
      BY <1>1 DEF IntsAt
    <2>2. N \in Nat /\ DOMAIN v = 1..N
      BY <1>1, <2>1
    <2>3. ASSUME NEW i \in 1..N
          PROVE  v[i] \in Int /\ HasValue(u, v[i]) /\ (every => HasValue(t, v[i]))
      BY <1>1, <2>1, <2>2
    <2> QED BY <2>1, <2>2, <2>3
  <1>3. w \in Seq(Seq(Byte)) /\ Len(w) = N /\ \A i \in 1..N : w[i] = pack_int(v[i])
    <2>1. \A i \in DOMAIN v : HasValue(u, v[i])
      BY <1>2
    <2> QED BY <1>1, <1>2, <2>1, IntsTyped
  <1>4. /\ \A i \in 0..N : Len(F[i]) \in Nat
        /\ \A i \in 1..N : Len(w[i]) \in Nat /\ Len(F[i]) = Len(F[i - 1]) + Len(w[i])
    BY <1>2, <1>3, JoinsTyped
  <1>5. \A i \in 1..N : Held(buf, p + Len(F[i - 1]), w[i])
    BY <1>2, <1>3, HeldEach
  <1>6. p \in Nat /\ p \in 0..Len(buf) /\ buf \in Seq(Byte)
    <2>1. buf \in Seq(Byte) /\ p \in Nat /\ p + Len(F[N]) <= Len(buf)
      BY <1>2 DEF Held
    <2>2. Len(F[N]) \in Nat /\ Len(buf) \in Nat
      BY <1>2, <1>4, <2>1
    <2> QED BY <2>1, <2>2
  <1>7. PICK f \in [0..N -> Results] :
            /\ f[0] = Result(p, TRUE, << >>) /\ \A i \in 1..N : f[i] = ArgStep(t, f[i - 1])
            /\ unpack_args(t, N, p) = f[N]
    BY <1>2, <1>6, ArgsDefined
  <1> DEFINE Vals(i) == [j \in 1..i |-> Cast(v[j], t)]
             Is(i) == /\ f[i].ok => f[i].pos = p + Len(F[i]) /\ f[i].v = Vals(i)
                      /\ every => f[i].ok
             T == {i \in Nat : Is(i)}
  <1>8. 0 \in T
    <2>1. f[0].pos = p /\ f[0].ok = TRUE /\ f[0].v = << >>
      BY <1>7 DEF Result
    <2>2. Len(F[0]) = 0 /\ p + 0 = p
      BY <1>2, <1>6 DEF Joins
    <2>3. Vals(0) = << >>
      OBVIOUS
    <2>4. Is(0)
      <3> HIDE DEF Vals
      <3> QED BY <2>1, <2>2, <2>3
    <2> HIDE DEF Is
    <2> QED BY <2>4
  <1>9. ASSUME NEW i \in 0..(N - 1), i \in T PROVE i + 1 \in T
    <2>0. Is(i)
      BY <1>9
    <2> HIDE DEF T
    <2>1. i + 1 \in 1..N /\ (i + 1) - 1 = i /\ i \in 0..N /\ i + 1 \in Nat /\ i \in Nat
      BY <1>2
    <2>2. PICK r, e, x : r = f[i] /\ e = unpack_int(t, r.pos) /\ x = Cast(v[i + 1], t)
      OBVIOUS
    <2>3. r \in Results /\ f[i + 1] = ArgStep(t, r)
      BY <1>7, <2>1, <2>2
    <2>4. CASE r.ok
      <3>1. r.pos = p + Len(F[i]) /\ r.v = Vals(i)
        BY <2>0, <2>2, <2>4
      <3>2. Held(buf, r.pos, pack_int(v[i + 1]))
        BY <1>3, <1>5, <2>1, <3>1
      <3>3. v[i + 1] \in Int /\ HasValue(u, v[i + 1]) /\ (every => HasValue(t, v[i + 1]))
        BY <1>2, <2>1
      <3>4. /\ Given(e, r.pos, pack_int(v[i + 1]), <<x>>)
            /\ HasValue(t, v[i + 1]) => e.ok
        BY <2>2, <3>2, <3>3, IntBack
      <3>5. f[i + 1] = Result(e.pos, e.ok, r.v \o e.v)
        BY <2>2, <2>3, <2>4 DEF ArgStep
      <3>6. f[i + 1].pos = e.pos /\ f[i + 1].ok = e.ok /\ f[i + 1].v = r.v \o e.v
        <4> HIDE DEF Vals, Is
        <4>1. PICK a, b, c, g : a = e.pos /\ b = e.ok /\ c = r.v \o e.v /\ g = f[i + 1]
          OBVIOUS
        <4>2. g = [pos |-> a, ok |-> b, v |-> c]
          BY <3>5, <4>1 DEF Result
        <4>3. g.pos = a /\ g.ok = b /\ g.v = c
          BY <4>2
        <4> QED BY <4>1, <4>3
      <3>7. ASSUME e.ok PROVE f[i + 1].pos = p + Len(F[i + 1]) /\ f[i + 1].v = Vals(i + 1)
        <4>1. e.pos = r.pos + Len(w[i + 1]) /\ e.v = <<x>>
          BY <1>3, <2>1, <3>4, <3>7 DEF Given
        <4>2. r.pos + Len(w[i + 1]) = p + Len(F[i + 1])
          <5> HIDE DEF Vals, Is
          <5>1. PICK a, b, c : a = Len(F[i]) /\ b = Len(w[i + 1]) /\ c = Len(F[i + 1])
            OBVIOUS
          <5>2. a \in Nat /\ b \in Nat /\ c = a + b
            BY <1>4, <2>1, <5>1
          <5>3. r.pos = p + a /\ p \in Nat
            BY <1>6, <3>1, <5>1
          <5>4. (p + a) + b = p + c
            BY <5>2, <5>3
          <5> QED BY <5>1, <5>3, <5>4
        <4>3. Vals(i) \o <<x>> = Vals(i + 1)
          <5>1. \A j \in 1..N : Cast(v[j], t) \in Int
            BY <1>2, CastTyped
          <5>2. PICK y : y = Vals(i)
            OBVIOUS
          <5>3. PICK z : z = Vals(i + 1)
            OBVIOUS
          <5>4. y \in [1..i -> Int] /\ \A j \in 1..i : y[j] = Cast(v[j], t)
            <6>1. \A j \in 1..i : j \in 1..N
              BY <1>2, <2>1
            <6> QED BY <5>1, <5>2, <6>1
          <5>5. z \in [1..(i + 1) -> Int] /\ \A j \in 1..(i + 1) : z[j] = Cast(v[j], t)
            <6>1. \A j \in 1..(i + 1) : j \in 1..N
              BY <1>2, <2>1
            <6> QED BY <5>1, <5>3, <6>1
          <5>6. x \in Int
            BY <2>1, <2>2, <5>1
          <5> HIDE DEF Vals, Is
          <5>7. y \in Seq(Int) /\ Len(y) = i /\ z \in Seq(Int) /\ Len(z) = i + 1
            BY <2>1, <5>4, <5>5
          <5>8. PICK q : q = Append(y, x)
            OBVIOUS
          <5>9. /\ q \in Seq(Int) /\ Len(q) = i + 1 /\ q[i + 1] = x
                /\ \A j \in 1..i : q[j] = y[j]
            BY <2>1, <5>6, <5>7, <5>8, AppendProperties
          <5>10. ASSUME NEW j \in 1..(i + 1) PROVE q[j] = z[j]
            <6>1. CASE j = i + 1
              BY <2>2, <5>5, <5>9, <6>1
            <6>2. CASE j # i + 1
              <7>1. j \in 1..i
                BY <2>1, <6>2
              <7> QED BY <5>4, <5>5, <5>9, <7>1
            <6> QED BY <6>1, <6>2
          <5>11. q = z
            BY <5>7, <5>9, <5>10, SeqEqual
          <5>12. y \o <<x>> = q
            BY <5>6, <5>7, <5>8, AppendIsConcat
          <5> QED BY <5>2, <5>3, <5>11, <5>12
        <4> HIDE DEF Vals
        <4> QED BY <3>1, <3>6, <4>1, <4>2, <4>3
      <3>8. Is(i + 1)
        <4> HIDE DEF Vals
        <4> QED BY <3>3, <3>4, <3>6, <3>7
      <3> HIDE DEF Is
      <3> QED BY <2>1, <3>8 DEF T
    <2>5. CASE ~r.ok
      <3>1. f[i + 1] = r
        BY <2>2, <2>3, <2>5 DEF ArgStep
      <3>2. Is(i + 1)
        <4> HIDE DEF Vals
        <4> QED BY <2>0, <2>2, <2>5, <3>1
      <3> HIDE DEF Is
      <3> QED BY <2>1, <3>2 DEF T
    <2> QED BY <2>4, <2>5
  <1>10. Is(N)
    <2> HIDE DEF T
    <2>1. \A i \in 0..N : i \in T
      BY <1>2, <1>8, <1>9, Upwards
    <2> USE DEF T
    <2> HIDE DEF Is
    <2>2. N \in T
      BY <1>2, <2>1
    <2> QED BY <2>2
  <1>11. Vals(N) = Casts(v, t)
    BY <1>2 DEF Casts
  <1>12. PICK r : r = unpack_args(t, N, p)
    OBVIOUS
  <1>13. (r.ok => r.pos = p + Len(F[N]) /\ r.v = Casts(v, t)) /\ (every => r.ok)
    <2> HIDE DEF Vals
    <2> QED BY <1>7, <1>10, <1>11, <1>12
  <1> QED BY <1>1, <1>12, <1>13 DEF Given

\* A length.
LEMMA LengthBack ==
    ASSUME NEW kind \in {"str", "array", "map"}, NEW fix \in {"fixstr", "fixarray", "fixmap"},
           NEW k, NEW l \in Nat, NEW h, Length(kind, fix, k, l, h), NEW p, Held(buf, p, h)
    PROVE  unpack_len(kind, fix, p) = [pos |-> p + Len(h), n |-> l]
  <1>1. CASE h = <<Mark(fix, l)>> /\ Mark(fix, l) \in Byte
    <2>1. PICK m : m = Mark(fix, l)
      OBVIOUS
    <2>2. Held(buf, p, <<m>>) /\ Len(<<m>>) = 1 /\ Len(<<m>>) >= 1 /\ <<m>>[1] = m
      BY <1>1, <2>1
    <2>3. buf[p + 1] = m /\ p + 1 <= Len(buf)
      BY <2>2, HeldHead
    <2>4. m.of = fix /\ m.n = l /\ m.of # kind /\ Len(h) = 1
      BY <1>1, <2>1, <2>2 DEF Mark
    <2>5. Has(p, 1)
      BY <2>3 DEF Has
    <2>6. unpack_len(kind, fix, p) = [pos |-> p + 1, n |-> m.n]
      BY <2>3, <2>4, <2>5 DEF unpack_len
    <2> QED BY <2>4, <2>6
  <1>2. CASE h = Headed(kind, k, l) /\ k \in Widths /\ l < Values[k]
    <2>1. l \in Int
      OBVIOUS
    <2>2. /\ buf[p + 1] = Mark(kind, k) /\ Has(p, 1) /\ Has(p + 1, k)
          /\ Load(SubSeq(buf, p + 2, p + 1 + k)) = l % Values[k] /\ Len(h) = 1 + k
      BY <1>2, <2>1, HeldBehind, HeadedIs
    <2>3. l % Values[k] = l
      <3>1. Values[k] \in Nat \ {0}
        <4>1. k \in 0..8
          BY <1>2 DEF Widths
        <4>2. Values[k] \in Nat /\ Values[k] > 0
          BY <4>1, ValuesIs
        <4> QED BY <4>2
      <3>2. l \in 0..(Values[k] - 1) /\ l = 0 * Values[k] + l /\ 0 \in Int
        BY <1>2, <3>1
      <3> QED BY <2>1, <3>1, <3>2, RemainderIs
    <2>4. Mark(kind, k).of = kind /\ Mark(kind, k).n = k /\ kind # fix
      BY DEF Mark
    <2>5. unpack_len(kind, fix, p) = [pos |-> p + 1 + k, n |-> l]
      BY <2>2, <2>3, <2>4 DEF unpack_len
    <2>6. p + 1 + k = p + (1 + k)
      <3>1. p \in Nat /\ k \in Nat
        BY <1>2 DEF Held, Widths
      <3> QED BY <3>1
    <2> QED BY <2>2, <2>5, <2>6
  <1> QED BY <1>1, <1>2 DEF Length
-----------------------------------------------------------------------------
(* A value that is one integer, nothing, a truth value or a float.         *)

Composite == {"str", "array", "map", "args"}
Alike(a, k) == {a, k} \cap Composite # {} => a = k
Fitting(t, v) == \A i \in DOMAIN v : HasValue(t, v[i])

\* What was packed is where the reader stands.
There(item) == Packable(item) /\ Held(buf, pos, Bytes(item))

\* It comes out, unless it is refused, which it is not by a type that has it.
Back(ask, item) ==
    /\ Alike(ask.kind, item.kind) => Given(Unpack(ask), pos, Bytes(item), As(ask, item.v))
    /\ ask.kind = item.kind /\ Fitting(ask.type, item.v) => Unpack(ask).ok

Askable(ask) == ask.kind \in Kinds \ {"fix"} /\ ask.type \in Type

\* A single write.
LEMMA AloneIs ==
    ASSUME NEW item, Packable(item), NEW x, Writes(item) = <<x>>
    PROVE  Bytes(item) = x /\ x \in Seq(Byte)
  <1>1. PICK w : w = Writes(item)
    OBVIOUS
  <1>2. w \in Seq(Seq(Byte)) /\ Len(w) = 1 /\ w[1] = x
    BY <1>1, WritesTyped
  <1>3. PICK F : Joins(F, w)
    BY <1>2, JoinsExist
  <1>4. F[1] = F[0] \o w[1] /\ F[0] = << >>
    <2>1. 1 \in 1..Len(w) /\ 1 - 1 = 0
      BY <1>2
    <2> QED BY <1>3, <2>1 DEF Joins
  <1>5. x \in Seq(Byte)
    <2>1. 1 \in 1..Len(w)
      BY <1>2
    <2> QED BY <1>2, <1>3, <2>1, JoinsTyped
  <1>6. << >> \o x = x
    BY <1>5
  <1>7. FlattenSeq(w) = x
    BY <1>2, <1>3, <1>4, <1>6, FlattenAll
  <1> QED BY <1>1, <1>5, <1>7 DEF Bytes

\* A value that is one integer.
LEMMA OneIs ==
    ASSUME NEW item, Packable(item), item.kind \in {"bool", "int", "fix", "float", "double"}
    PROVE  /\ item.v = <<item.v[1]>> /\ item.v[1] \in Int /\ HasValue(item.type, item.v[1])
           /\ item.type \in Type
           /\ \A t : Fitting(t, item.v) => HasValue(t, item.v[1])
           /\ \A t : Casts(item.v, t) = <<Cast(item.v[1], t)>>
  <1>1. PICK v, T : v = item.v /\ T = item.type
    OBVIOUS
  <1>2. v \in Seq(Int) /\ (\A i \in DOMAIN v : HasValue(T, v[i])) /\ T \in Type
    BY <1>1 DEF Packable
  <1>3. Len(v) = 1
    <2>1. item.kind \in DOMAIN Fixed => Len(v) = Fixed[item.kind]
      BY <1>1 DEF Packable
    <2> QED BY <2>1, KindIs
  <1>4. v = <<v[1]>> /\ v[1] \in Int /\ DOMAIN v = {1}
    <2>1. DOMAIN v = 1..1 /\ v[1] \in Int /\ v \in Seq(Int)
      BY <1>2, <1>3
    <2>2. PICK a, x : a = v[1] /\ x = <<a>>
      OBVIOUS
    <2>3. x \in Seq(Int) /\ Len(x) = 1 /\ x[1] = a
      BY <2>1, <2>2
    <2>4. v = x
      <3>1. \A i \in 1..Len(v) : v[i] = x[i]
        BY <1>3, <2>2, <2>3
      <3> QED BY <1>3, <2>1, <2>3, <3>1, SeqEqual
    <2> QED BY <2>1, <2>2, <2>4
  <1>5. HasValue(T, v[1])
    BY <1>2, <1>4
  <1>6. ASSUME NEW t, Fitting(t, v) PROVE HasValue(t, v[1])
    BY <1>4, <1>6 DEF Fitting
  <1>7. ASSUME NEW t PROVE Casts(v, t) = <<Cast(v[1], t)>>
    <2>1. PICK c : c = Cast(v[1], t)
      OBVIOUS
    <2>2. Casts(v, t) = [i \in {1} |-> c]
      BY <1>4, <2>1 DEF Casts
    <2>3. <<c>> = [i \in {1} |-> c]
      OBVIOUS
    <2> QED BY <2>1, <2>2, <2>3
  <1> QED BY <1>1, <1>2, <1>4, <1>5, <1>6, <1>7

\* Where a value begins.
LEMMA BeginIs ==
    ASSUME NEW item, There(item), NEW h, Bytes(item)[1] = h, Len(Bytes(item)) >= 1
    PROVE  buf[pos + 1] = h /\ Has(pos, 1) /\ pos \in Nat
  <1>1. /\ pos \in Nat /\ pos + 1 <= Len(buf) /\ buf[pos + 1] = Bytes(item)[1]
    BY HeldHead DEF There
  <1> QED BY <1>1 DEF Has

\* The heads that are taken for one.
LEMMA Refused ==
    ASSUME NEW ask, NEW h, h = buf[pos + 1], Unpack(ask).ok
    PROVE  /\ ask.kind = "int" => h.of \in {"data", "int", "uint"}
           /\ ask.kind \in {"nil", "bool", "float", "double"} => h.of = ask.kind
  <1>1. ASSUME ask.kind = "int" PROVE h.of \in {"data", "int", "uint"}
    <2>1. unpack_int(ask.type, pos).ok
      BY <1>1 DEF Unpack
    <2>2. ASSUME h.of # "data", ~TakesHead(ask.type, h) PROVE FALSE
      <3>1. unpack_int(ask.type, pos).ok = FALSE
        BY <2>2 DEF unpack_int, Result
      <3> QED BY <2>1, <3>1
    <2>3. TakesHead(ask.type, h) => h.of \in {"int", "uint"}
      BY DEF TakesHead
    <2> QED BY <1>1, <2>2, <2>3
  <1>2. ASSUME ask.kind = "nil" PROVE h.of = ask.kind
    <2>1. Unpack(ask) = unpack_nil(pos)
      BY <1>2 DEF Unpack
    <2>2. PICK k, q : /\ k = (Has(pos, 1) /\ h.of = "nil")
                      /\ q = IF Has(pos, 1) THEN pos + 1 ELSE pos
      OBVIOUS
    <2>3. unpack_nil(pos) = [pos |-> q, ok |-> k, v |-> << >>]
      BY <2>2 DEF unpack_nil, Result
    <2>4. k
      BY <2>1, <2>3
    <2> QED BY <1>2, <2>2, <2>4
  <1>3. ASSUME ask.kind = "bool" PROVE h.of = ask.kind
    <2>1. Unpack(ask) = unpack_bool(pos)
      BY <1>3 DEF Unpack
    <2> QED BY <1>3, <2>1 DEF unpack_bool, Result
  <1>4. ASSUME ask.kind \in {"float", "double"} PROVE h.of = ask.kind
    <2>1. Unpack(ask) = unpack_float(ask.kind, pos)
      BY <1>4 DEF Unpack
    <2> QED BY <1>4, <2>1 DEF unpack_float, Result
  <1> QED BY <1>1, <1>2, <1>3, <1>4

\* What is given for it.
LEMMA AsIs ==
    ASSUME NEW ask, NEW v
    PROVE  /\ ask.kind \in {"int", "array", "args"} => As(ask, v) = Casts(v, ask.type)
           /\ ask.kind = "map" => As(ask, v) = Inserted(Casts(v, ask.type))
           /\ ask.kind \in {"nil", "bool", "float", "double", "str"} => As(ask, v) = v
  BY DEF As, Casts

\* An integer, in whatever form.
LEMMA IntItem ==
    ASSUME NEW ask, Askable(ask), ask.kind = "int", NEW item, There(item),
           item.kind \in {"int", "fix"}
    PROVE  Back(ask, item)
  <1>1. PICK t, v, u, p : t = ask.type /\ v = item.v[1] /\ u = item.type /\ p = pos
    OBVIOUS
  <1>2. /\ t \in Type /\ u \in Type /\ v \in Int /\ HasValue(u, v)
        /\ Casts(item.v, t) = <<Cast(v, t)>> /\ (Fitting(t, item.v) => HasValue(t, v))
        /\ Packable(item) /\ Held(buf, p, Bytes(item))
    BY <1>1, OneIs DEF There, Askable
  <1>3. Unpack(ask) = unpack_int(t, p) /\ As(ask, item.v) = <<Cast(v, t)>>
    BY <1>1, <1>2, AsIs DEF Unpack
  <1>4. CASE item.kind = "int"
    <2>1. Bytes(item) = pack_int(v)
      <3>1. Writes(item) = <<pack_int(v)>>
        BY <1>1, <1>4 DEF Writes
      <3> QED BY <1>2, <3>1, AloneIs
    <2>2. /\ Given(unpack_int(t, p), p, pack_int(v), <<Cast(v, t)>>)
          /\ HasValue(t, v) => unpack_int(t, p).ok
      BY <1>2, <2>1, IntBack
    <2> QED BY <1>1, <1>2, <1>3, <2>1, <2>2 DEF Back
  <1>5. CASE item.kind = "fix"
    <2>1. Bytes(item) = pack_fix(u, v)
      <3>1. Writes(item) = <<pack_fix(u, v)>>
        BY <1>1, <1>5 DEF Writes
      <3> QED BY <1>2, <3>1, AloneIs
    <2>2. Given(unpack_int(t, p), p, pack_fix(u, v), <<Cast(v, t)>>)
      BY <1>2, <2>1, FixBack
    <2> QED BY <1>1, <1>3, <1>5, <2>1, <2>2 DEF Back
  <1> QED BY <1>4, <1>5
\* Nothing.
LEMMA NilItem ==
    ASSUME NEW ask, ask.kind = "nil", NEW item, There(item), item.kind = "nil"
    PROVE  Back(ask, item)
  <1>1. PICK h : h = Mark("nil", 0)
    OBVIOUS
  <1>2. Bytes(item) = <<h>>
    <2>1. Writes(item) = << <<h>> >>
      BY <1>1 DEF Writes
    <2> QED BY <2>1, AloneIs DEF There
  <1>3. buf[pos + 1] = h /\ Has(pos, 1) /\ h.of = "nil"
    <2>1. Bytes(item)[1] = h /\ Len(Bytes(item)) >= 1
      BY <1>2
    <2>2. buf[pos + 1] = h /\ Has(pos, 1)
      BY <2>1, BeginIs
    <2> QED BY <1>1, <2>2 DEF Mark
  <1>4. item.v = << >>
    <2>1. item.v \in Seq(Int) /\ (item.kind \in DOMAIN Fixed => Len(item.v) = Fixed[item.kind])
      BY DEF There, Packable
    <2>2. Len(item.v) = 0
      BY <2>1, KindIs
    <2> QED BY <2>1, <2>2
  <1>5. Unpack(ask) = Result(pos + 1, TRUE, << >>)
    <2>1. Unpack(ask) = unpack_nil(pos)
      BY DEF Unpack
    <2>2. (Has(pos, 1) /\ buf[pos + 1].of = "nil") = TRUE
      BY <1>3
    <2>3. unpack_nil(pos) = Result(pos + 1, TRUE, << >>)
      BY <1>3, <2>2 DEF unpack_nil
    <2> QED BY <2>1, <2>3
  <1>6. As(ask, item.v) = << >> /\ Len(Bytes(item)) = 1
    BY <1>2, <1>4, AsIs
  <1> QED BY <1>5, <1>6 DEF Back, Given, Result

\* A truth value.
LEMMA BoolItem ==
    ASSUME NEW ask, ask.kind = "bool", NEW item, There(item), item.kind = "bool"
    PROVE  Back(ask, item)
  <1>1. PICK v, h : v = item.v[1] /\ h = Mark("bool", v)
    OBVIOUS
  <1>2. Bytes(item) = <<h>>
    <2>1. Writes(item) = << <<h>> >>
      BY <1>1 DEF Writes
    <2> QED BY <2>1, AloneIs DEF There
  <1>3. buf[pos + 1] = h /\ Has(pos, 1) /\ h.of = "bool" /\ h.n = v
    <2>1. Bytes(item)[1] = h /\ Len(Bytes(item)) >= 1
      BY <1>2
    <2>2. buf[pos + 1] = h /\ Has(pos, 1)
      BY <2>1, BeginIs
    <2> QED BY <1>1, <2>2 DEF Mark
  <1>4. item.v = <<v>>
    BY <1>1, OneIs DEF There
  <1>5. Unpack(ask) = Result(pos + 1, TRUE, <<v>>)
    <2>1. Unpack(ask) = unpack_bool(pos)
      BY DEF Unpack
    <2>2. unpack_bool(pos) = Result(pos + 1, TRUE, <<v>>)
      BY <1>3 DEF unpack_bool
    <2> QED BY <2>1, <2>2
  <1>6. As(ask, item.v) = <<v>> /\ Len(Bytes(item)) = 1
    BY <1>2, <1>4, AsIs
  <1> QED BY <1>5, <1>6 DEF Back, Given, Result

\* The bits of a float.
LEMMA FloatItem ==
    ASSUME NEW ask, NEW item, There(item), item.kind \in {"float", "double"}, ask.kind = item.kind
    PROVE  Back(ask, item)
  <1>1. PICK v, k, of, p : v = item.v[1] /\ k = TypeOf(of).width /\ of = item.kind /\ p = pos
    OBVIOUS
  <1>2. /\ item.type = [signed |-> FALSE, width |-> k] /\ k \in Widths /\ k \in Nat
        /\ of \in {"float", "double"}
    <2>1. item.type = TypeOf(of)
      BY <1>1 DEF There, Packable
    <2>2. TypeOf(of) = [signed |-> FALSE, width |-> k] /\ k \in {4, 8}
      <3>1. CASE of = "float"
        <4>1. TypeOf(of) = [signed |-> FALSE, width |-> 4]
          BY <3>1, KindIs
        <4> QED BY <1>1, <4>1
      <3>2. CASE of = "double"
        <4>1. TypeOf(of) = [signed |-> FALSE, width |-> 8]
          BY <3>2, KindIs
        <4> QED BY <1>1, <4>1
      <3> QED BY <1>1, <3>1, <3>2
    <2> QED BY <1>1, <2>1, <2>2 DEF Widths
  <1>3. item.v = <<v>> /\ v \in Int /\ HasValue([signed |-> FALSE, width |-> k], v)
    BY <1>1, <1>2, OneIs DEF There
  <1>4. Bytes(item) = Headed(of, k, v)
    <2>1. item.type.width = k
      BY <1>2
    <2>2. Writes(item) = <<Headed(of, k, v)>>
      BY <1>1, <1>2, <2>1 DEF Writes, Headed
    <2> QED BY <2>2, AloneIs DEF There
  <1>5. /\ buf[p + 1] = Mark(of, k) /\ Has(p, 1) /\ Has(p + 1, k)
        /\ Load(SubSeq(buf, p + 2, p + 1 + k)) = v % Values[k]
    <2>1. Held(buf, p, Headed(of, k, v)) /\ of \in {"float", "double"}
      BY <1>1, <1>2, <1>4 DEF There
    <2> QED BY <1>2, <1>3, <2>1, HeldBehind
  <1>6. Load(SubSeq(buf, p + 2, p + 1 + k)) = v
    BY <1>2, <1>3, <1>5, SignedBack
  <1>7. Unpack(ask) = Result(p + 1 + k, TRUE, <<v>>)
    <2>1. Unpack(ask) = unpack_float(of, p)
      BY <1>1, <1>2 DEF Unpack
    <2>2. buf[p + 1].of = of
      BY <1>5 DEF Mark
    <2>3. unpack_float(of, p) = Result(p + 1 + k, TRUE, <<v>>)
      BY <1>1, <1>5, <1>6, <2>2 DEF unpack_float
    <2> QED BY <2>1, <2>3
  <1>8. As(ask, item.v) = <<v>>
    <2>1. ask.kind \in {"nil", "bool", "float", "double", "str"}
      BY <1>1, <1>2
    <2> QED BY <1>3, <2>1, AsIs
  <1>9. Len(Bytes(item)) = 1 + k /\ p + 1 + k = p + (1 + k)
    <2>1. Len(Headed(of, k, v)) = 1 + k
      BY <1>2, <1>3, HeadedIs
    <2>2. p \in Nat
      BY <1>1 DEF There, Held
    <2> QED BY <1>2, <1>4, <2>1, <2>2
  <1> QED BY <1>1, <1>7, <1>8, <1>9 DEF Back, Given, Result

\* Where a value that is one begins.
LEMMA OneBegins ==
    ASSUME NEW item, There(item),
           item.kind \in {"nil", "bool", "int", "fix", "float", "double"}
    PROVE  /\ item.kind \in {"int", "fix"} => buf[pos + 1].of \in {"data", "int", "uint"}
           /\ item.kind \in {"nil", "bool", "float", "double"} => buf[pos + 1].of = item.kind
  <1>1. PICK v, b : v = item.v[1] /\ b = Bytes(item)
    OBVIOUS
  <1>2. ASSUME NEW h, b[1] = h, Len(b) >= 1 PROVE buf[pos + 1] = h
    BY <1>1, <1>2, BeginIs
  <1>3. ASSUME NEW x, Writes(item) = <<x>> PROVE b = x
    BY <1>1, <1>3, AloneIs DEF There
  <1>4. CASE item.kind = "int"
    <2>1. b = pack_int(v)
      BY <1>1, <1>3, <1>4 DEF Writes
    <2>2. v \in Int /\ HasValue(item.type, v) /\ item.type \in Type
      BY <1>1, <1>4, OneIs DEF There
    <2>3. /\ IsFixint(v) => pack_int(v) = <<Data(v % B)>>
          /\ ~IsFixint(v) => pack_int(v) = Headed(OfInt(v), Narrowest(v), v)
          /\ Shortest(v, Narrowest(v)) /\ OfInt(v) \in {"int", "uint"}
      BY <2>2, PackIntIs
    <2>4. CASE IsFixint(v)
      <3>1. PICK h : h = Data(v % B)
        OBVIOUS
      <3>2. b = <<h>> /\ h.of = "data"
        BY <2>1, <2>3, <2>4, <3>1 DEF Data
      <3>3. buf[pos + 1] = h
        BY <1>2, <3>2
      <3> QED BY <1>4, <3>2, <3>3
    <2>5. CASE ~IsFixint(v)
      <3>1. PICK k, of : k = Narrowest(v) /\ of = OfInt(v)
        OBVIOUS
      <3>2. k \in Widths /\ of \in {"int", "uint"} /\ k \in Nat /\ b = Headed(of, k, v)
        BY <2>1, <2>3, <2>5, <3>1 DEF Shortest, Widths
      <3>3. b[1] = Mark(of, k) /\ Len(b) = 1 + k
        BY <2>2, <3>2, HeadedIs
      <3>4. buf[pos + 1] = Mark(of, k)
        BY <1>2, <3>2, <3>3
      <3> QED BY <1>4, <3>2, <3>4 DEF Mark
    <2> QED BY <2>4, <2>5
  <1>5. CASE item.kind = "fix"
    <2>1. PICK k, of : k = item.type.width /\ of = OfType(item.type)
      OBVIOUS
    <2>2. v \in Int /\ item.type \in Type
      BY <1>1, <1>5, OneIs DEF There
    <2>3. k \in Widths /\ of \in {"int", "uint"} /\ k \in Nat
      BY <2>1, <2>2 DEF Type, OfType, Widths
    <2>4. b = Headed(of, k, v)
      BY <1>1, <1>3, <1>5, <2>1 DEF Writes, pack_fix, Headed, OfType
    <2>5. b[1] = Mark(of, k) /\ Len(b) = 1 + k
      BY <2>2, <2>3, <2>4, HeadedIs
    <2>6. buf[pos + 1] = Mark(of, k)
      BY <1>2, <2>3, <2>5
    <2> QED BY <1>5, <2>3, <2>6 DEF Mark
  <1>6. CASE item.kind \in {"nil", "bool"}
    <2>1. PICK h : h = Mark(item.kind, IF item.kind = "nil" THEN 0 ELSE v)
      OBVIOUS
    <2>2. h.of = item.kind
      BY <2>1 DEF Mark
    <2>3. b = <<h>>
      BY <1>1, <1>3, <1>6, <2>1 DEF Writes
    <2>4. buf[pos + 1] = h
      BY <1>2, <2>3
    <2> QED BY <1>6, <2>2, <2>4
  <1>7. CASE item.kind \in {"float", "double"}
    <2>1. PICK k, of : k = item.type.width /\ of = item.kind
      OBVIOUS
    <2>2. v \in Int /\ item.type \in Type
      BY <1>1, <1>7, OneIs DEF There
    <2>3. k \in Widths /\ of \in {"float", "double"} /\ k \in Nat
      BY <1>7, <2>1, <2>2 DEF Type, Widths
    <2>4. b = Headed(of, k, v)
      BY <1>1, <1>3, <1>7, <2>1 DEF Writes, Headed
    <2>5. b[1] = Mark(of, k) /\ Len(b) = 1 + k
      BY <2>2, <2>3, <2>4, HeadedIs
    <2>6. buf[pos + 1] = Mark(of, k)
      BY <1>2, <2>3, <2>5
    <2> QED BY <1>7, <2>1, <2>3, <2>6 DEF Mark
  <1> QED BY <1>4, <1>5, <1>6, <1>7
\* Any value that is one, asked for as any.
LEMMA OneItem ==
    ASSUME NEW ask, Askable(ask), ask.kind \notin Composite,
           NEW item, There(item), item.kind \notin Composite
    PROVE  Back(ask, item)
  <1>1. PICK a, k : a = ask.kind /\ k = item.kind
    OBVIOUS
  <1>2. /\ a \in {"nil", "bool", "int", "float", "double"}
        /\ k \in {"nil", "bool", "int", "fix", "float", "double"}
    <2>1. a \in Kinds \ {"fix"} /\ k \in Kinds
      BY <1>1 DEF Askable, There, Packable
    <2> QED BY <1>1, <2>1, KindIs DEF Composite
  <1>3. CASE a = "int" /\ k \in {"int", "fix"}
    BY <1>1, <1>3, IntItem
  <1>4. CASE a = "nil" /\ k = "nil"
    BY <1>1, <1>4, NilItem
  <1>5. CASE a = "bool" /\ k = "bool"
    BY <1>1, <1>5, BoolItem
  <1>6. CASE a \in {"float", "double"} /\ k = a
    BY <1>1, <1>6, FloatItem
  <1>7. CASE a # k /\ ~(a = "int" /\ k = "fix")
    <2>1. PICK h : h = buf[pos + 1]
      OBVIOUS
    <2>2. /\ k \in {"int", "fix"} => h.of \in {"data", "int", "uint"}
          /\ k \in {"nil", "bool", "float", "double"} => h.of = k
      BY <1>1, <1>2, <2>1, OneBegins
    <2>3. ~Unpack(ask).ok
      <3>1. SUFFICES ASSUME Unpack(ask).ok PROVE FALSE
        OBVIOUS
      <3>2. /\ a = "int" => h.of \in {"data", "int", "uint"}
            /\ a \in {"nil", "bool", "float", "double"} => h.of = a
        BY <1>1, <2>1, <3>1, Refused
      <3>3. PICK of : of = h.of
        OBVIOUS
      <3> QED BY <1>2, <1>7, <2>2, <3>2, <3>3
    <2> QED BY <1>1, <1>7, <2>3 DEF Back, Given
  <1> QED BY <1>2, <1>3, <1>4, <1>5, <1>6, <1>7

-----------------------------------------------------------------------------
(* Strings, vectors, maps and the members of a class.                      *)

\* A head, or what counts what follows, and integers behind it.
LEMMA ManyBack ==
    ASSUME NEW item, There(item), NEW h \in Seq(Byte), Writes(item) = <<h>> \o Ints(item.v),
           NEW t \in Type, NEW r, r = unpack_args(t, Len(item.v), pos + Len(h))
    PROVE  /\ Held(buf, pos, h)
           /\ Given(r, pos, Bytes(item), Casts(item.v, t))
           /\ Fitting(t, item.v) => r.ok
           /\ r \in Results
  <1>1. PICK v, u, w, p : v = item.v /\ u = item.type /\ w = Ints(v) /\ p = pos
    OBVIOUS
  <1>2. v \in Seq(Int) /\ u \in Type /\ \A i \in DOMAIN v : HasValue(u, v[i])
    BY <1>1 DEF There, Packable
  <1>3. w \in Seq(Seq(Byte)) /\ Len(w) = Len(v)
    <2>1. \A i \in DOMAIN v : HasValue(u, v[i])
      BY <1>2
    <2> QED BY <1>1, <1>2, <2>1, IntsTyped
  <1>4. PICK F : Joins(F, w)
    BY <1>3, JoinsExist
  <1>5. PICK f, b : f = F[Len(v)] /\ b = Bytes(item)
    OBVIOUS
  <1>6. f \in Seq(Byte)
    BY <1>3, <1>4, <1>5, FlattenAll
  <1>7. b = h \o f
    <2>1. Writes(item) \in Seq(Seq(Byte))
      BY WritesTyped DEF There
    <2>2. FlattenSeq(Writes(item)) = h \o F[Len(w)]
      BY <1>1, <1>3, <1>4, <2>1, JoinsCons
    <2> QED BY <1>3, <1>5, <2>2 DEF Bytes
  <1>8. Held(buf, p, h) /\ Held(buf, p + Len(h), f)
    <2>1. Held(buf, p, h \o f)
      BY <1>1, <1>5, <1>7 DEF There
    <2> QED BY <1>6, <2>1, HeldSplit
  <1>9. IntsAt(u, v, F, p + Len(h))
    BY <1>1, <1>2, <1>4, <1>5, <1>8 DEF IntsAt
  <1>10. /\ Given(r, p + Len(h), f, Casts(v, t))
         /\ (\A i \in DOMAIN v : HasValue(t, v[i])) => r.ok
    <2>1. PICK q : q = p + Len(h)
      OBVIOUS
    <2>2. /\ Given(unpack_args(t, Len(v), q), q, F[Len(v)], Casts(v, t))
          /\ (\A i \in DOMAIN v : HasValue(t, v[i])) => unpack_args(t, Len(v), q).ok
      BY <1>2, <1>9, <2>1, ArgsBack
    <2>3. r = unpack_args(t, Len(v), q)
      BY <1>1, <2>1
    <2> QED BY <1>5, <2>1, <2>2, <2>3
  <1>11. (p + Len(h)) + Len(f) = p + Len(b)
    <2>1. Len(h \o f) = Len(h) + Len(f) /\ Len(h) \in Nat /\ Len(f) \in Nat
      BY <1>6, ConcatProperties
    <2>2. p \in Nat
      BY <1>8 DEF Held
    <2> QED BY <1>7, <2>1, <2>2
  <1>12. r \in Results
    <2>1. p + Len(h) \in 0..Len(buf) /\ buf \in Seq(Byte)
      <3>1. PICK q : q = p + Len(h)
        OBVIOUS
      <3>2. buf \in Seq(Byte) /\ q \in Nat /\ q + Len(f) <= Len(buf)
        BY <1>8, <3>1 DEF Held
      <3>3. Len(f) \in Nat /\ Len(buf) \in Nat
        BY <1>6, <3>2
      <3> QED BY <3>1, <3>2, <3>3
    <2>2. Len(v) \in Nat
      BY <1>2
    <2> QED BY <1>1, <2>1, <2>2, ArgsTyped
  <1>13. Given(r, p, b, Casts(v, t))
    BY <1>10, <1>11 DEF Given
  <1>14. Fitting(t, v) => r.ok
    BY <1>10 DEF Fitting
  <1> QED BY <1>1, <1>5, <1>8, <1>12, <1>13, <1>14

\* A vector.
LEMMA ArrayItem ==
    ASSUME NEW ask, Askable(ask), ask.kind = "array", NEW item, There(item), item.kind = "array"
    PROVE  Back(ask, item)
  <1>1. PICK t, l, h : t = ask.type /\ l = Len(item.v) /\ h = pack_array(l)
    OBVIOUS
  <1>2. t \in Type /\ l \in Nat /\ l < Values[4]
    <2>1. item.v \in Seq(Int) /\ Len(item.v) < Values[4]
      BY DEF There, Packable
    <2> QED BY <1>1, <2>1 DEF Askable
  <1>3. h \in Seq(Byte) /\ \E k : Length("array", "fixarray", k, l, h)
    BY <1>1, <1>2, LengthIs
  <1>4. Writes(item) = <<h>> \o Ints(item.v)
    BY <1>1 DEF Writes, Ints
  <1>5. PICK r : r = unpack_args(t, l, pos + Len(h))
    OBVIOUS
  <1>6. /\ Held(buf, pos, h) /\ Given(r, pos, Bytes(item), Casts(item.v, t))
        /\ Fitting(t, item.v) => r.ok
    BY <1>1, <1>2, <1>3, <1>4, <1>5, ManyBack
  <1>7. unpack_len("array", "fixarray", pos) = [pos |-> pos + Len(h), n |-> l]
    <2>1. PICK k : Length("array", "fixarray", k, l, h)
      BY <1>3
    <2> QED BY <1>2, <1>6, <2>1, LengthBack
  <1>8. Unpack(ask) = r
    BY <1>1, <1>5, <1>7 DEF Unpack, unpack_vector
  <1>9. As(ask, item.v) = Casts(item.v, t)
    BY <1>1, AsIs
  <1> QED BY <1>1, <1>6, <1>8, <1>9 DEF Back

\* A map, into which what a smaller type makes the same key of goes once.
LEMMA MapItem ==
    ASSUME NEW ask, Askable(ask), ask.kind = "map", NEW item, There(item), item.kind = "map"
    PROVE  Back(ask, item)
  <1>1. PICK t, l, n, h : t = ask.type /\ l = Len(item.v) /\ n = l \div 2 /\ h = pack_map(n)
    OBVIOUS
  <1>2. t \in Type /\ l \in Nat /\ n \in Nat /\ n < Values[4] /\ 2 * n = l
    <2>1. item.v \in Seq(Int) /\ Len(item.v) < Values[4] /\ l % 2 = 0
      BY <1>1 DEF There, Packable
    <2>2. l \in Nat
      BY <1>1, <2>1
    <2>3. PICK c : c = Values[4]
      OBVIOUS
    <2>4. l < c /\ c \in Nat
      BY <1>1, <2>1, <2>3, ValuesIs
    <2>5. n \in Nat /\ 2 * n = l /\ n < c
      <3> HIDE <1>1
      <3>1. PICK x : x = l
        OBVIOUS
      <3>2. x \in Nat /\ x % 2 = 0 /\ n = x \div 2 /\ x < c
        BY <1>1, <2>1, <2>2, <2>4, <3>1
      <3>3. n \in Nat /\ 2 * n = x /\ n < c
        BY <2>4, <3>2
      <3> QED BY <3>1, <3>3
    <2> QED BY <1>1, <2>2, <2>3, <2>5 DEF Askable
  <1>3. h \in Seq(Byte) /\ \E k : Length("map", "fixmap", k, n, h)
    BY <1>1, <1>2, LengthIs
  <1>4. Writes(item) = <<h>> \o Ints(item.v)
    BY <1>1 DEF Writes, Ints
  <1>5. PICK r : r = unpack_args(t, l, pos + Len(h))
    OBVIOUS
  <1>6. /\ Held(buf, pos, h) /\ Given(r, pos, Bytes(item), Casts(item.v, t))
        /\ Fitting(t, item.v) => r.ok
        /\ r \in Results
    BY <1>1, <1>2, <1>3, <1>4, <1>5, ManyBack
  <1>7. unpack_len("map", "fixmap", pos) = [pos |-> pos + Len(h), n |-> n]
    <2>1. PICK k : Length("map", "fixmap", k, n, h)
      BY <1>3
    <2> QED BY <1>2, <1>6, <2>1, LengthBack
  <1>8. PICK x : x = Inserted(r.v)
    OBVIOUS
  <1>9. Unpack(ask) = [r EXCEPT !.v = x]
    <2>1. unpack_map(t, pos) = [r EXCEPT !.v = Inserted(@)]
      BY <1>2, <1>5, <1>7 DEF unpack_map
    <2>2. Unpack(ask) = unpack_map(t, pos)
      BY <1>1 DEF Unpack
    <2> QED BY <1>8, <2>1, <2>2
  <1>10. Unpack(ask).pos = r.pos /\ Unpack(ask).ok = r.ok /\ Unpack(ask).v = x
    BY <1>6, <1>9 DEF Results
  <1>11. As(ask, item.v) = Inserted(Casts(item.v, t))
    BY <1>1, AsIs
  <1>12. Given(Unpack(ask), pos, Bytes(item), As(ask, item.v))
    BY <1>6, <1>8, <1>10, <1>11 DEF Given
  <1> QED BY <1>1, <1>6, <1>10, <1>12 DEF Back
\* The members of a class.
LEMMA ArgsItem ==
    ASSUME NEW ask, Askable(ask), ask.kind = "args", NEW item, There(item), item.kind = "args"
    PROVE  Back(ask, item)
  <1>1. PICK v, u, w, p, t : v = item.v /\ u = item.type /\ w = Ints(v) /\ p = pos /\ t = ask.type
    OBVIOUS
  <1>2. v \in Seq(Int) /\ u \in Type /\ (\A i \in DOMAIN v : HasValue(u, v[i])) /\ t \in Type
    BY <1>1 DEF There, Packable, Askable
  <1>3. w \in Seq(Seq(Byte)) /\ Len(w) = Len(v)
    <2>1. \A i \in DOMAIN v : HasValue(u, v[i])
      BY <1>2
    <2> QED BY <1>1, <1>2, <2>1, IntsTyped
  <1>4. PICK F : Joins(F, w)
    BY <1>3, JoinsExist
  <1>5. Bytes(item) = F[Len(v)]
    <2>1. Writes(item) = w
      BY <1>1 DEF Writes, Ints
    <2>2. FlattenSeq(w) = F[Len(w)]
      BY <1>3, <1>4, FlattenAll
    <2> QED BY <1>3, <2>1, <2>2 DEF Bytes
  <1>6. Len(v) = Members
    <2>1. item.kind \in DOMAIN Fixed => Len(v) = Fixed[item.kind]
      BY <1>1 DEF There, Packable
    <2> QED BY <2>1, KindIs
  <1>7. IntsAt(u, v, F, p)
    <2>1. Held(buf, p, F[Len(v)])
      BY <1>1, <1>5 DEF There
    <2> QED BY <1>1, <1>2, <1>4, <2>1 DEF IntsAt
  <1>8. /\ Given(unpack_args(t, Len(v), p), p, F[Len(v)], Casts(v, t))
        /\ (\A i \in DOMAIN v : HasValue(t, v[i])) => unpack_args(t, Len(v), p).ok
    BY <1>2, <1>7, ArgsBack
  <1>9. Unpack(ask) = unpack_args(t, Len(v), p) /\ As(ask, v) = Casts(v, t)
    BY <1>1, <1>6, AsIs DEF Unpack
  <1> QED BY <1>1, <1>5, <1>8, <1>9 DEF Back, Fitting

LEMMA PairEqual ==
    ASSUME NEW T, NEW c \in Seq(T), NEW z \in Seq(T),
           Len(c) = 2, Len(z) = 2, c[1] = z[1], c[2] = z[2]
    PROVE  c = z
  OBVIOUS

LEMMA TwoAre ==
    ASSUME NEW a \in Seq(Byte), NEW b \in Seq(Byte)
    PROVE  <<a>> \o <<b>> = <<a, b>>
  <1>1. PICK x, y, z, T : x = <<a>> /\ y = <<b>> /\ z = <<a, b>> /\ T = Seq(Byte)
    OBVIOUS
  <1>2. /\ x \in Seq(T) /\ Len(x) = 1 /\ x[1] = a
        /\ y \in Seq(T) /\ Len(y) = 1 /\ y[1] = b
        /\ z \in Seq(T) /\ Len(z) = 2 /\ z[1] = a /\ z[2] = b
    BY <1>1
  <1>3. /\ x \o y \in Seq(T) /\ Len(x \o y) = Len(x) + Len(y)
        /\ \A i \in 1..Len(x) + Len(y) :
              (x \o y)[i] = IF i <= Len(x) THEN x[i] ELSE y[i - Len(x)]
    BY <1>2, ConcatProperties
  <1>4. PICK c : c = x \o y
    OBVIOUS
  <1>5. c \in Seq(T) /\ Len(c) = 2 /\ c[1] = a /\ c[2] = b
    <2>1. /\ c \in Seq(T) /\ Len(c) = 2
          /\ \A i \in 1..2 : c[i] = IF i <= 1 THEN x[i] ELSE y[i - 1]
      BY <1>2, <1>3, <1>4
    <2>2. c[1] = x[1] /\ c[2] = y[2 - 1] /\ 2 - 1 = 1
      BY <2>1
    <2> QED BY <1>2, <2>1, <2>2
  <1>6. c = z
    BY <1>2, <1>5, PairEqual
  <1> QED BY <1>1, <1>4, <1>6

\* A string.
LEMMA StrItem ==
    ASSUME NEW ask, ask.kind = "str", NEW item, There(item), item.kind = "str"
    PROVE  Back(ask, item)
  <1>1. PICK v, l, h, s, p : /\ v = item.v /\ l = Len(v) /\ h = pack_str(l) /\ p = pos
                             /\ s = [i \in DOMAIN v |-> Data(v[i])]
    OBVIOUS
  <1>2. v \in Seq(Int) /\ l \in Nat /\ l < Values[4] /\ DOMAIN v = 1..l
    <2>1. v \in Seq(Int) /\ Len(v) < Values[4]
      BY <1>1 DEF There, Packable
    <2> QED BY <1>1, <2>1
  <1>3. h \in Seq(Byte) /\ \E k : Length("str", "fixstr", k, l, h)
    BY <1>1, <1>2, LengthIs
  <1>4. Writes(item) = <<h>> \o <<s>> /\ <<s>> \in Seq(Seq(Byte)) /\ s \in Seq(Byte)
    <2>1. Writes(item) = <<h, s>>
      BY <1>1 DEF Writes
    <2>2. PICK x : x = <<h, s>>
      OBVIOUS
    <2>3. x \in Seq(Seq(Byte)) /\ Len(x) = 2 /\ x[2] = s
      <3>1. x \in Seq(Seq(Byte))
        BY <2>1, <2>2, WritesTyped DEF There
      <3> QED BY <2>2, <3>1
    <2>4. s \in Seq(Byte)
      <3>1. PICK T : T = Seq(Byte)
        OBVIOUS
      <3>2. x \in Seq(T) /\ 2 \in 1..Len(x)
        BY <2>3, <3>1
      <3>3. x[2] \in T
        BY <3>2
      <3> QED BY <2>3, <3>1, <3>3
    <2>5. <<h>> \o <<s>> = <<h, s>>
      BY <1>3, <2>4, TwoAre
    <2>6. <<s>> \in Seq(Seq(Byte))
      BY <2>4
    <2> QED BY <2>1, <2>4, <2>5, <2>6
  <1>5. Len(s) = l /\ \A i \in 1..l : s[i] = Data(v[i])
    BY <1>1, <1>2
  <1>6. Bytes(item) = h \o s
    <2>1. PICK F : Joins(F, <<s>>)
      BY <1>4, JoinsExist
    <2>2. F[1] = s
      <3>1. Len(<<s>>) = 1 /\ 1 \in 1..Len(<<s>>) /\ <<s>>[1] = s /\ 1 - 1 = 0
        OBVIOUS
      <3>2. F[1] = F[0] \o <<s>>[1] /\ F[0] = << >>
        BY <2>1, <3>1 DEF Joins
      <3>3. << >> \o s = s
        BY <1>4
      <3> QED BY <3>1, <3>2, <3>3
    <2>3. Writes(item) \in Seq(Seq(Byte)) /\ Len(<<s>>) = 1
      BY WritesTyped DEF There
    <2>4. FlattenSeq(Writes(item)) = h \o F[Len(<<s>>)]
      BY <1>3, <1>4, <2>1, <2>3, JoinsCons
    <2> QED BY <2>2, <2>3, <2>4 DEF Bytes
  <1>7. PICK q : q = p + Len(h)
    OBVIOUS
  <1>8. Held(buf, p, h) /\ Held(buf, q, s)
    <2>1. Held(buf, p, h \o s)
      BY <1>1, <1>6 DEF There
    <2> QED BY <1>3, <1>4, <1>7, <2>1, HeldSplit
  <1>9. unpack_len("str", "fixstr", p) = [pos |-> q, n |-> l]
    <2>1. PICK k : Length("str", "fixstr", k, l, h)
      BY <1>3
    <2> QED BY <1>2, <1>7, <1>8, <2>1, LengthBack
  <1>10. q + l <= Len(buf) /\ q \in Nat /\ \A i \in 1..l : buf[q + i] = s[i]
    BY <1>5, <1>8 DEF Held
  <1>11. PICK x : x = [i \in 1..l |-> buf[q + i].n]
    OBVIOUS
  <1>12. x = v
    <2>1. ASSUME NEW i \in 1..l PROVE x[i] = v[i]
      <3>1. PICK b, c : b = buf[q + i] /\ c = v[i]
        OBVIOUS
      <3>2. b = Data(c)
        BY <1>5, <1>10, <3>1
      <3>3. x[i] = b.n
        BY <1>11, <3>1
      <3> QED BY <3>1, <3>2, <3>3 DEF Data
    <2>2. v = [i \in 1..l |-> v[i]]
      BY <1>2
    <2> QED BY <1>11, <2>1, <2>2
  <1>13. Unpack(ask) = Result(q + l, TRUE, x)
    <2>1. Has(q, l)
      BY <1>10 DEF Has
    <2>2. unpack_str_string(p) = Result(q + l, TRUE, x)
      <3>1. PICK e : e = unpack_len("str", "fixstr", p)
        OBVIOUS
      <3>2. e.pos = q /\ e.n = l
        BY <1>9, <3>1
      <3>3. PICK y : y = [i \in 1..e.n |-> buf[e.pos + i].n]
        OBVIOUS
      <3>4. y = x
        BY <1>11, <3>2, <3>3
      <3>5. unpack_str_string(p) = IF Has(e.pos, e.n) THEN Result(e.pos + e.n, TRUE, y)
                                   ELSE Result(e.pos, FALSE, << >>)
        BY <3>1, <3>3 DEF unpack_str_string
      <3> QED BY <2>1, <3>2, <3>4, <3>5
    <2> QED BY <1>1, <2>2 DEF Unpack
  <1>14. q + l = p + Len(Bytes(item))
    <2>1. Len(h \o s) = Len(h) + Len(s) /\ Len(h) \in Nat
      BY <1>3, <1>4, ConcatProperties
    <2>2. p \in Nat
      BY <1>8 DEF Held
    <2> QED BY <1>2, <1>5, <1>6, <1>7, <2>1, <2>2
  <1>15. As(ask, item.v) = v
    BY <1>1, AsIs
  <1> QED BY <1>1, <1>12, <1>13, <1>14, <1>15 DEF Back, Given, Result

\* Whatever was packed, whatever is asked for.
LEMMA ItemBack ==
    ASSUME NEW ask, Askable(ask), NEW item, There(item)
    PROVE  Back(ask, item)
  <1>1. CASE ask.kind \notin Composite /\ item.kind \notin Composite
    BY <1>1, OneItem
  <1>2. CASE ask.kind # item.kind /\ (ask.kind \in Composite \/ item.kind \in Composite)
    <2>1. {ask.kind, item.kind} \cap Composite # {}
      BY <1>2
    <2>2. ~Alike(ask.kind, item.kind)
      BY <1>2, <2>1 DEF Alike
    <2> QED BY <1>2, <2>2 DEF Back
  <1>3. CASE ask.kind = "str" /\ item.kind = "str"
    BY <1>3, StrItem
  <1>4. CASE ask.kind = "array" /\ item.kind = "array"
    BY <1>4, ArrayItem
  <1>5. CASE ask.kind = "map" /\ item.kind = "map"
    BY <1>5, MapItem
  <1>6. CASE ask.kind = "args" /\ item.kind = "args"
    BY <1>6, ArgsItem
  <1>7. PICK a, k : a = ask.kind /\ k = item.kind
    OBVIOUS
  <1> QED BY <1>1, <1>2, <1>3, <1>4, <1>5, <1>6, <1>7 DEF Composite
-----------------------------------------------------------------------------
(* What is unpacked is what was packed.                                    *)

\* The bytes of the first n of some values, and where they end.
First(s, n) == FlattenSeq([i \in 1..n |-> Bytes(s[i])])
Ends(s, n) == Len(First(s, n))

\* The values one by one.
LEMMA EachTyped ==
    ASSUME NEW s \in Seq(Items), NEW w, w = [i \in 1..Len(s) |-> Bytes(s[i])]
    PROVE  w \in Seq(Seq(Byte)) /\ Len(w) = Len(s) /\ \A i \in 1..Len(s) : Packable(s[i])
  <1>1. Len(s) \in Nat
    OBVIOUS
  <1>2. ASSUME NEW i \in 1..Len(s) PROVE Packable(s[i]) /\ Bytes(s[i]) \in Seq(Byte)
    <2>1. PICK item : item = s[i]
      OBVIOUS
    <2>2. item \in Items
      BY <2>1
    <2>3. Packable(item)
      BY <2>2, MsgpackAssumption
    <2>4. Bytes(item) \in Seq(Byte)
      <3>1. PICK x : x = Writes(item)
        OBVIOUS
      <3>2. x \in Seq(Seq(Byte))
        BY <2>3, <3>1, WritesTyped
      <3>3. PICK F : Joins(F, x)
        BY <3>2, JoinsExist
      <3> QED BY <3>1, <3>2, <3>3, FlattenAll DEF Bytes
    <2> QED BY <2>1, <2>3, <2>4
  <1>3. w \in [1..Len(s) -> Seq(Byte)]
    BY <1>2
  <1> QED BY <1>1, <1>2, <1>3

LEMMA FirstNone == \A s : First(s, 0) = << >> /\ Ends(s, 0) = 0
  <1> SUFFICES ASSUME NEW s PROVE First(s, 0) = << >> /\ Ends(s, 0) = 0
    OBVIOUS
  <1>1. PICK w : w = [i \in 1..0 |-> Bytes(s[i])]
    OBVIOUS
  <1>2. w = << >> /\ Len(w) = 0
    BY <1>1
  <1>3. FlattenSeq(w) = << >>
    BY <1>2 DEF FlattenSeq
  <1> QED BY <1>1, <1>3 DEF First, Ends

\* One more is at the end.
LEMMA FirstNext ==
    ASSUME NEW s \in Seq(Items), NEW n \in 1..Len(s)
    PROVE  /\ First(s, n) = First(s, n - 1) \o Bytes(s[n])
           /\ First(s, n) \in Seq(Byte) /\ First(s, n - 1) \in Seq(Byte)
           /\ Bytes(s[n]) \in Seq(Byte)
           /\ Ends(s, n) = Ends(s, n - 1) + Len(Bytes(s[n]))
  <1>1. PICK w : w = [i \in 1..Len(s) |-> Bytes(s[i])]
    OBVIOUS
  <1>2. w \in Seq(Seq(Byte)) /\ Len(w) = Len(s)
    BY <1>1, EachTyped
  <1>3. PICK F : Joins(F, w)
    BY <1>2, JoinsExist
  <1>4. ASSUME NEW m \in 0..Len(s) PROVE First(s, m) = F[m]
    <2>1. PICK x : x = [i \in 1..m |-> w[i]]
      OBVIOUS
    <2>2. x = [i \in 1..m |-> Bytes(s[i])]
      <3>1. \A i \in 1..m : i \in 1..Len(s)
        OBVIOUS
      <3> QED BY <1>1, <2>1, <3>1
    <2>3. FlattenSeq(x) = F[m]
      <3>1. m \in 0..Len(w)
        BY <1>2
      <3> QED BY <1>2, <1>3, <2>1, <3>1, FlattenIs
    <2> QED BY <2>2, <2>3 DEF First
  <1>5. n \in 0..Len(s) /\ n - 1 \in 0..Len(s) /\ n \in 1..Len(w) /\ w[n] = Bytes(s[n])
    BY <1>1, <1>2
  <1>6. F[n] = F[n - 1] \o w[n]
    BY <1>3, <1>5 DEF Joins
  <1>7. /\ F[n] \in Seq(Byte) /\ F[n - 1] \in Seq(Byte) /\ w[n] \in Seq(Byte)
        /\ Len(F[n]) = Len(F[n - 1]) + Len(w[n])
    BY <1>2, <1>3, <1>5, JoinsTyped
  <1> QED BY <1>4, <1>5, <1>6, <1>7 DEF Ends

\* In the whole message each value is where those in front of it end.
LEMMA FirstHeld ==
    ASSUME NEW s \in Seq(Items), NEW n \in 1..Len(s), NEW src, src = First(s, Len(s))
    PROVE  Held(src, Ends(s, n - 1), Bytes(s[n]))
  <1>1. PICK w : w = [i \in 1..Len(s) |-> Bytes(s[i])]
    OBVIOUS
  <1>2. w \in Seq(Seq(Byte)) /\ Len(w) = Len(s)
    BY <1>1, EachTyped
  <1>3. PICK F : Joins(F, w)
    BY <1>2, JoinsExist
  <1>4. src = F[Len(w)] /\ src \in Seq(Byte)
    <2>1. src = FlattenSeq(w)
      BY <1>1 DEF First
    <2> QED BY <1>2, <1>3, <2>1, FlattenAll
  <1>5. Held(src, 0, F[Len(w)])
    <2>1. /\ 0 + Len(src) <= Len(src) /\ 0 \in Nat /\ \A i \in 1..Len(src) : src[0 + i] = src[i]
      BY <1>4
    <2> QED BY <1>4, <2>1 DEF Held
  <1>6. n \in 1..Len(w) /\ w[n] = Bytes(s[n]) /\ n - 1 \in 0..Len(w)
    BY <1>1, <1>2
  <1>7. Held(src, 0 + Len(F[n - 1]), w[n])
    BY <1>2, <1>3, <1>5, <1>6, HeldEach
  <1>8. Ends(s, n - 1) = Len(F[n - 1])
    <2>1. PICK m : m = n - 1
      OBVIOUS
    <2>2. m \in 0..Len(w) /\ \A i \in 1..m : i \in 1..Len(s)
      BY <1>2, <1>6, <2>1
    <2>3. PICK x : x = [i \in 1..m |-> w[i]]
      OBVIOUS
    <2>4. x = [i \in 1..m |-> Bytes(s[i])]
      BY <1>1, <2>2, <2>3
    <2>5. FlattenSeq(x) = F[m]
      BY <1>2, <1>3, <2>2, <2>3, FlattenIs
    <2> QED BY <2>1, <2>4, <2>5 DEF Ends, First
  <1>9. 0 + Len(F[n - 1]) = Ends(s, n - 1)
    <2>1. Len(F[n - 1]) \in Nat
      BY <1>2, <1>3, <1>6, JoinsTyped
    <2> QED BY <1>8, <2>1
  <1> QED BY <1>6, <1>7, <1>9

\* Unless a value was packed in part, the message is the bytes of the values, one after
\* the other, and a reader that has read nothing stands at its begin.
Whole ==
    /\ sent \in Seq(Items)
    /\ ~torn => (IF how = "none" THEN buf ELSE orig) = First(sent, Len(sent))
    /\ got = << >> => pos = 0

LEMMA WholeInit == Init => Whole
  <1> SUFFICES ASSUME Init PROVE Whole
    OBVIOUS
  <1>1. buf = << >> /\ pos = 0 /\ sent = << >> /\ how = "none"
    BY DEF Init
  <1>2. First(sent, Len(sent)) = << >> /\ sent \in Seq(Items)
    <2>1. Len(sent) = 0 /\ sent \in Seq(Items)
      BY <1>1
    <2> QED BY <2>1, FirstNone
  <1> QED BY <1>1, <1>2 DEF Whole

LEMMA WholePack ==
    ASSUME Typed, Whole, NEW item \in Items, pack(item)
    PROVE  Whole'
  <1>1. PICK w : w = Written(item)
    OBVIOUS
  <1>2. /\ how = "none" /\ how' = "none" /\ buf' = w.buf /\ pos' = pos /\ got' = got
        /\ sent' = IF w.ok THEN Append(sent, item) ELSE sent
        /\ torn' = (torn \/ (~w.ok /\ w.buf # buf))
    BY <1>1 DEF pack
  <1>3. buf \in Seq(Byte) /\ Len(buf) <= FixLen
    BY <1>2 DEF Typed, TypeOK
  <1>4. w.ok => w.buf = buf \o Bytes(item)
    <2>1. Packable(item)
      BY MsgpackAssumption
    <2> QED BY <1>1, <1>3, <2>1, WrittenIs
  <1>5. /\ sent \in Seq(Items) /\ (~torn => buf = First(sent, Len(sent)))
        /\ (got = << >> => pos = 0)
    BY <1>2 DEF Whole
  <1>6. ~torn' => ~torn /\ (w.ok \/ w.buf = buf)
    BY <1>2, Zenon
  <1>7. CASE w.ok
    <2>1. PICK s, N : s = Append(sent, item) /\ N = Len(sent)
      OBVIOUS
    <2>2. /\ s \in Seq(Items) /\ Len(s) = N + 1 /\ s[N + 1] = item /\ N \in Nat
          /\ \A i \in 1..N : s[i] = sent[i]
      BY <1>5, <2>1, AppendProperties
    <2>3. First(s, N + 1) = First(s, N) \o Bytes(item)
      <3>1. N + 1 \in 1..Len(s) /\ (N + 1) - 1 = N
        BY <2>2
      <3> QED BY <2>2, <3>1, FirstNext
    <2>4. First(s, N) = First(sent, N)
      <3>1. [i \in 1..N |-> Bytes(s[i])] = [i \in 1..N |-> Bytes(sent[i])]
        BY <2>2
      <3> QED BY <3>1 DEF First
    <2>5. sent' = s
      BY <1>2, <1>7, <2>1
    <2>6. ASSUME ~torn' PROVE buf' = First(s, Len(s))
      <3>1. buf = First(sent, N)
        BY <1>5, <1>6, <2>1, <2>6
      <3> QED BY <1>2, <1>4, <1>7, <2>2, <2>3, <2>4, <3>1
    <2> QED BY <1>2, <1>5, <2>2, <2>5, <2>6 DEF Whole
  <1>8. CASE ~w.ok
    <2>1. sent' = sent /\ (~torn' => ~torn /\ buf' = buf)
      BY <1>2, <1>6, <1>8
    <2> QED BY <1>2, <1>5, <2>1 DEF Whole
  <1> QED BY <1>7, <1>8

LEMMA WholeNext ==
    ASSUME Typed, Whole, [Next]_vars
    PROVE  Whole'
  <1>1. ASSUME NEW item \in Items, pack(item) PROVE Whole'
    BY <1>1, WholePack
  <1>2. ASSUME NEW via \in {"plain", "buffer", "pointer", "xxtea"}, carry(via) PROVE Whole'
    <2>1. /\ how = "none" /\ how' # "none" /\ orig' = buf
          /\ UNCHANGED <<pos, sent, torn, got>>
      BY <1>2 DEF carry
    <2> QED BY <2>1 DEF Whole
  <1>3. ASSUME NEW ask \in Asks, unpack(ask) PROVE Whole'
    <2>1. PICK e : got' = Append(got, e)
      BY <1>3 DEF unpack
    <2>2. got' # << >>
      <3>1. PICK E : E = [ask : Asks, ok : BOOLEAN, v : Seq(Int)]
        OBVIOUS
      <3>2. got \in Seq(E)
        BY <3>1 DEF Typed, TypeOK
      <3>3. Len(got') = Len(got) + 1 /\ Len(got) \in Nat
        BY <2>1, <3>2
      <3> QED BY <3>3
    <2>3. UNCHANGED <<buf, sent, torn, how, orig>>
      BY <1>3 DEF unpack
    <2> QED BY <2>2, <2>3 DEF Whole
  <1>4. CASE UNCHANGED vars
    BY <1>4 DEF vars, Whole
  <1> QED BY <1>1, <1>2, <1>3, <1>4 DEF Next
\* What the reader got as s, n at a time.
AgreeOf(s, n) ==
    /\ n <= Len(sent) /\ ~torn /\ buf = orig
    /\ \A i \in 1..n : s[i].ok /\ Alike(s[i].ask.kind, sent[i].kind)

Out(s, n, p) ==
    /\ AgreeOf(s, n) => s[n].v = As(s[n].ask, sent[n].v)
    /\ AgreeOf(s, n) /\ n = Len(s) => p = Ends(sent, n)
    /\ AgreeOf(s, n - 1) /\ n <= Len(sent) /\ ~s[n].ok =>
          s[n].ask.kind # sent[n].kind \/ ~Fitting(s[n].ask.type, sent[n].v)

LEMMA UnpackedIs == Unpacked <=> \A n \in DOMAIN got : Out(got, n, pos)
  <1>1. \A n : Agree(n) <=> AgreeOf(got, n)
    BY DEF Agree, AgreeOf, Alike, Composite
  <1>2. ASSUME NEW n
        PROVE  ~Fitting(got[n].ask.type, sent[n].v) <=>
                  \E i \in DOMAIN sent[n].v : ~HasValue(got[n].ask.type, sent[n].v[i])
    BY DEF Fitting
  <1>3. \A n : Len(FlattenSeq([i \in 1..n |-> Bytes(sent[i])])) = Ends(sent, n)
    BY DEF Ends, First
  <1> QED BY <1>1, <1>2, <1>3, Zenon DEF Unpacked, Out

\* One call more.
LEMMA UnpackedCall ==
    ASSUME Typed, Whole, Unpacked, NEW ask \in Asks, unpack(ask)
    PROVE  \A n \in DOMAIN got' : Out(got', n, pos')
  <1>1. PICK r, e, s, N : /\ r = Unpack(ask) /\ e = [ask |-> ask, ok |-> r.ok, v |-> r.v]
                          /\ s = Append(got, e) /\ N = Len(got)
    OBVIOUS
  <1>2. how # "none" /\ pos' = r.pos /\ got' = s
    BY <1>1 DEF unpack
  <1>3. /\ N \in Nat /\ Len(s) = N + 1 /\ DOMAIN s = 1..(N + 1) /\ s[N + 1] = e
        /\ \A i \in 1..N : s[i] = got[i]
        /\ DOMAIN got = 1..N
    <2>1. PICK E : E = [ask : Asks, ok : BOOLEAN, v : Seq(Int)]
      OBVIOUS
    <2>2. got \in Seq(E)
      BY <2>1 DEF Typed, TypeOK
    <2>3. N \in Nat /\ DOMAIN got = 1..N
      BY <1>1, <2>2
    <2>4. /\ Len(s) = N + 1 /\ DOMAIN s = 1..(N + 1) /\ s[N + 1] = e
          /\ \A i \in 1..N : s[i] = got[i]
      BY <1>1, <2>2, <2>3
    <2> QED BY <2>3, <2>4
  <1>4. ASSUME NEW n \in 0..N PROVE AgreeOf(s, n) <=> AgreeOf(got, n)
    <2>1. \A i \in 1..n : i \in 1..N
      BY <1>3
    <2>2. \A i \in 1..n : s[i] = got[i]
      BY <1>3, <2>1
    <2> QED BY <2>2 DEF AgreeOf
  <1>5. /\ sent \in Seq(Items) /\ Len(sent) \in Nat
        /\ ~torn => orig = First(sent, Len(sent))
        /\ got = << >> => pos = 0
    <2>1. sent \in Seq(Items)
      BY DEF Whole
    <2> QED BY <1>2, <2>1 DEF Whole
  <1>6. ASSUME NEW n \in 1..N PROVE Out(s, n, r.pos)
    <2>1. Out(got, n, pos)
      BY <1>3, UnpackedIs
    <2>2. n \in 0..N /\ n - 1 \in 0..N /\ n # Len(s) /\ s[n] = got[n]
      BY <1>3
    <2>3. (AgreeOf(s, n) <=> AgreeOf(got, n)) /\ (AgreeOf(s, n - 1) <=> AgreeOf(got, n - 1))
      BY <1>4, <2>2
    <2> QED BY <2>1, <2>2, <2>3 DEF Out
  <1>7. PICK M : M = N + 1
    OBVIOUS
  <1>8. M \in 1..(N + 1) /\ M - 1 = N /\ M = Len(s) /\ s[M] = e /\ N \in 0..N
    BY <1>3, <1>7
  <1>9. ASSUME AgreeOf(s, N), M <= Len(sent)
        PROVE  /\ Alike(ask.kind, sent[M].kind) =>
                     Given(r, Ends(sent, N), Bytes(sent[M]), As(ask, sent[M].v))
               /\ ask.kind = sent[M].kind /\ Fitting(ask.type, sent[M].v) => r.ok
               /\ Ends(sent, M) = Ends(sent, N) + Len(Bytes(sent[M]))
    <2>1. PICK item : item = sent[M]
      OBVIOUS
    <2>2. M \in 1..Len(sent) /\ item \in Items
      <3>1. M \in 1..Len(sent)
        BY <1>3, <1>5, <1>7, <1>9
      <3> QED BY <1>5, <2>1, <3>1
    <2>3. buf = First(sent, Len(sent))
      BY <1>5, <1>9 DEF AgreeOf
    <2>4. pos = Ends(sent, N)
      <3>1. CASE N = 0
        <4>1. got = << >>
          <5>1. PICK E : E = [ask : Asks, ok : BOOLEAN, v : Seq(Int)]
            OBVIOUS
          <5>2. got \in Seq(E)
            BY <5>1 DEF Typed, TypeOK
          <5>3. got = [i \in 1..0 |-> got[i]]
            BY <1>3, <3>1, <5>2
          <5> QED BY <5>2, <5>3, <1>1, <3>1
        <4> QED BY <1>5, <3>1, <4>1, FirstNone
      <3>2. CASE N # 0
        <4>1. N \in 1..N
          BY <1>3, <3>2
        <4>2. Out(got, N, pos)
          BY <1>3, <4>1, UnpackedIs
        <4>3. AgreeOf(got, N)
          BY <1>4, <1>8, <1>9
        <4> QED BY <1>1, <4>2, <4>3 DEF Out
      <3> QED BY <3>1, <3>2
    <2>5. There(item)
      <3>1. Held(buf, Ends(sent, M - 1), Bytes(sent[M]))
        BY <1>5, <2>2, <2>3, FirstHeld
      <3>2. Packable(item)
        BY <2>2, MsgpackAssumption
      <3> QED BY <1>8, <2>1, <2>4, <3>1, <3>2 DEF There
    <2>6. Askable(ask)
      BY MsgpackAssumption DEF Askable
    <2>7. Back(ask, item)
      BY <2>5, <2>6, ItemBack
    <2>8. Ends(sent, M) = Ends(sent, M - 1) + Len(Bytes(sent[M]))
      BY <1>5, <2>2, FirstNext
    <2> QED BY <1>1, <1>8, <2>1, <2>4, <2>7, <2>8 DEF Back
  <1>10. Out(s, M, r.pos)
    <2>1. e.ask = ask /\ e.ok = r.ok /\ e.v = r.v
      BY <1>1
    <2>2. ASSUME AgreeOf(s, M) PROVE s[M].v = As(s[M].ask, sent[M].v) /\ r.pos = Ends(sent, M)
      <3>1. AgreeOf(s, N) /\ M <= Len(sent)
        <4>1. \A i \in 1..N : i \in 1..M
          BY <1>3, <1>7
        <4>2. N <= Len(sent)
          BY <1>3, <1>5, <1>7, <2>2 DEF AgreeOf
        <4> QED BY <2>2, <4>1, <4>2 DEF AgreeOf
      <3>2. s[M].ok /\ Alike(s[M].ask.kind, sent[M].kind)
        <4>1. M \in 1..M
          BY <1>3, <1>7
        <4> QED BY <2>2, <4>1 DEF AgreeOf
      <3>3. r.ok /\ Alike(ask.kind, sent[M].kind)
        BY <1>8, <2>1, <3>2
      <3>4. r.pos = Ends(sent, M) /\ r.v = As(ask, sent[M].v)
        BY <1>9, <3>1, <3>3 DEF Given
      <3> QED BY <1>8, <2>1, <3>4
    <2>3. ASSUME AgreeOf(s, N), M <= Len(sent), ~s[M].ok
          PROVE  s[M].ask.kind # sent[M].kind \/ ~Fitting(s[M].ask.type, sent[M].v)
      BY <1>8, <1>9, <2>1, <2>3
    <2> QED BY <1>8, <2>2, <2>3 DEF Out
  <1>11. ASSUME NEW n \in 1..(N + 1) PROVE Out(s, n, r.pos)
    <2>1. n \in 1..N \/ n = M
      BY <1>3, <1>7
    <2> QED BY <1>6, <1>10, <2>1
  <1> QED BY <1>2, <1>3, <1>11

LEMMA UnpackedNext ==
    ASSUME Typed, Whole, Unpacked, [Next]_vars
    PROVE  Unpacked'
  <1>1. ASSUME NEW item \in Items, pack(item) PROVE Unpacked'
    <2>1. got' = << >>
      BY <1>1 DEF pack, Typed, Began
    <2>2. DOMAIN got' = {}
      BY <2>1
    <2> QED BY <2>2 DEF Unpacked
  <1>2. ASSUME NEW via \in {"plain", "buffer", "pointer", "xxtea"}, carry(via) PROVE Unpacked'
    <2>1. got' = << >>
      BY <1>2 DEF carry, Typed, Began
    <2>2. DOMAIN got' = {}
      BY <2>1
    <2> QED BY <2>2 DEF Unpacked
  <1>3. ASSUME NEW ask \in Asks, unpack(ask) PROVE Unpacked'
    <2>1. \A n \in DOMAIN got' : Out(got', n, pos')
      BY <1>3, UnpackedCall
    <2>2. UNCHANGED <<buf, sent, torn, how, orig>>
      BY <1>3 DEF unpack
    <2>3. ASSUME NEW s, NEW n, NEW p PROVE Out(s, n, p)' <=> Out(s, n, p)
      BY <2>2 DEF Out, AgreeOf
    <2>4. (\A n \in DOMAIN got : Out(got, n, pos))'
      BY <2>1, <2>2 DEF Out, AgreeOf
    <2>5. (Unpacked <=> \A n \in DOMAIN got : Out(got, n, pos))'
      BY UnpackedIs, PTL
    <2> QED BY <2>4, <2>5
  <1>4. CASE UNCHANGED vars
    BY <1>4 DEF vars, Unpacked, Agree
  <1> QED BY <1>1, <1>2, <1>3, <1>4 DEF Next

\* As long as writer and reader agree, what any call gives is the C++ conversion of what
\* was packed, the reader stands where the next value begins, and no type refuses a value
\* it has: for all values, widths of a byte, sizes and limits, and messages of any length.
THEOREM MessagesUnpacked == Spec => []Unpacked
  <1>1. Init => Whole /\ Unpacked
    <2>1. Init => Unpacked
      <3> SUFFICES ASSUME Init PROVE Unpacked
        OBVIOUS
      <3>1. DOMAIN got = {}
        BY DEF Init
      <3> QED BY <3>1 DEF Unpacked
    <2> QED BY <2>1, WholeInit
  <1>2. Typed /\ Whole /\ Unpacked /\ [Next]_vars => Whole' /\ Unpacked'
    BY WholeNext, UnpackedNext
  <1> QED BY <1>1, <1>2, AllTyped, PTL DEF Spec
=============================================================================
