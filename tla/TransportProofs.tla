-------------------------- MODULE TransportProofs --------------------------
(***************************************************************************)
(* Both transports implement Transport, for every message, masking key,    *)
(* length format and way the network cuts the byte stream; and what every  *)
(* implementation of Transport inherits: messages arrive in order, and     *)
(* whoever hears of the close has heard the rest.                          *)
(***************************************************************************)
EXTENDS Transports, WellFoundedInduction, TLAPS

-----------------------------------------------------------------------------
(* Induction and recursion over Nat, from the least element of a set of     *)
(* numbers: every set that holds 0 and is closed under + 1 is all of Nat,   *)
(* and a step can be iterated.  The wire format's recursive functions are   *)
(* then what their equations say.                                           *)

LEMMA LeastNumber ==
  ASSUME NEW T, T \subseteq Nat, T # {}
  PROVE  \E x \in T : \A y \in T : x <= y
<1> DEFINE R == OpToRel(<, Nat)
<1>1. IsWellFoundedOn(R, Nat)
  BY NatLessThanWellFounded
<1> HIDE DEF R
<1>2. PICK x \in T : \A y \in T : <<y, x>> \notin R
  BY <1>1, WFMin
<1>3. ASSUME NEW y \in T PROVE x <= y
  <2>1. y \in Nat /\ x \in Nat /\ <<y, x>> \notin R
    BY <1>2
  <2> QED
    BY <2>1 DEF R, OpToRel
<1> QED
  BY <1>3

LEMMA Induct ==
  ASSUME NEW S, 0 \in S, \A n \in Nat : n \in S => n + 1 \in S
  PROVE  Nat \subseteq S
<1> SUFFICES ASSUME Nat \ S # {} PROVE FALSE
  OBVIOUS
<1>1. PICK x \in Nat \ S : \A y \in Nat \ S : x <= y
  BY LeastNumber
<1>2. x # 0 /\ x - 1 \in Nat /\ x - 1 \in S
  BY <1>1
<1> QED
  BY <1>1, <1>2

\* A function that iterates step from base exists.
Iterates(g, base, step) == g[0] = base /\ \A n \in Nat : g[n + 1] = step[n][g[n]]

LEMMA Recursion ==
  ASSUME NEW V, NEW base \in V, NEW step \in [Nat -> [V -> V]]
  PROVE  \E g \in [Nat -> V] : Iterates(g, base, step)
<1> DEFINE Good(g, m) == g[0] = base /\ \A n \in Nat : n < m => g[n + 1] = step[n][g[n]]
           S == {m \in Nat : \E g \in [Nat -> V] : Good(g, m)}
<1>1. 0 \in S
  <2>1. [n \in Nat |-> base] \in [Nat -> V] /\ Good([n \in Nat |-> base], 0)
    OBVIOUS
  <2> QED
    BY <2>1
<1>2. ASSUME NEW m \in Nat, m \in S PROVE m + 1 \in S
  <2>1. PICK g \in [Nat -> V] : Good(g, m)
    BY <1>2
  <2> DEFINE h == [n \in Nat |-> IF n = m + 1 THEN step[m][g[m]] ELSE g[n]]
  <2>2. step[m][g[m]] \in V
    OBVIOUS
  <2>3. h \in [Nat -> V]
    BY <2>2
  <2>4. h[0] = base
    BY <2>1
  <2>5. ASSUME NEW n \in Nat, n < m + 1 PROVE h[n + 1] = step[n][h[n]]
    <3>1. h[n] = g[n] /\ n + 1 \in Nat
      BY <2>5
    <3>2. CASE n = m
      BY <3>1, <3>2
    <3>3. CASE n # m
      <4>1. n < m /\ n + 1 # m + 1
        BY <2>5, <3>3
      <4> QED
        BY <2>1, <3>1, <4>1
    <3> QED
      BY <3>2, <3>3
  <2> HIDE DEF h
  <2> QED
    BY <2>3, <2>4, <2>5
<1>3. Nat \subseteq S
  <2> HIDE DEF S
  <2> QED
    BY <1>1, <1>2, Induct
<1> DEFINE at == [m \in Nat |-> CHOOSE g \in [Nat -> V] : Good(g, m)]
<1>4. ASSUME NEW m \in Nat PROVE at[m] \in [Nat -> V] /\ Good(at[m], m)
  <2>1. \E g \in [Nat -> V] : Good(g, m)
    BY <1>3
  <2> HIDE DEF Good
  <2> QED
    BY <2>1
<1> HIDE DEF at
<1>5. ASSUME NEW m \in Nat, NEW k \in Nat PROVE k <= m => at[m][k] = at[k][k]
  <2> DEFINE P == {n \in Nat : n <= k => at[m][n] = at[k][n]}
  <2> SUFFICES ASSUME k <= m PROVE at[m][k] = at[k][k]
    OBVIOUS
  <2>1. 0 \in P
    BY <1>4
  <2>2. ASSUME NEW n \in Nat, n \in P PROVE n + 1 \in P
    <3> SUFFICES ASSUME n + 1 <= k PROVE at[m][n + 1] = at[k][n + 1]
      OBVIOUS
    <3>1. n < k /\ n < m /\ at[m][n] = at[k][n]
      BY <2>2
    <3> QED
      BY <1>4, <3>1
  <2>3. Nat \subseteq P
    <3> HIDE DEF P
    <3> QED
      BY <2>1, <2>2, Induct
  <2> QED
    BY <2>3
<1> DEFINE f == [n \in Nat |-> at[n][n]]
<1>6. f \in [Nat -> V]
  BY <1>4
<1>7. f[0] = base
  BY <1>4
<1>8. ASSUME NEW n \in Nat PROVE f[n + 1] = step[n][f[n]]
  <2>1. at[n + 1][n + 1] = step[n][at[n + 1][n]]
    BY <1>4
  <2>2. at[n + 1][n] = at[n][n]
    BY <1>5
  <2> QED
    BY <2>1, <2>2
<1> HIDE DEF f
<1> QED
  BY <1>6, <1>7, <1>8 DEF Iterates

-----------------------------------------------------------------------------
LEMMA DivMod ==
  ASSUME NEW a \in Nat
  PROVE  /\ a \div Base \in Nat /\ a % Base \in Nat /\ a % Base < Base
         /\ a = (a \div Base) * Base + (a % Base)
         /\ a < Base * Base => (a \div Base) \div Base = 0
<1>1. /\ a \div Base \in Nat /\ a % Base \in Nat /\ a % Base < Base
      /\ a = (a \div Base) * Base + (a % Base)
  BY WireAssumption
<1>2. ASSUME a < Base * Base PROVE (a \div Base) \div Base = 0
  <2>1. a \div Base < Base
    BY <1>1, <1>2, WireAssumption
  <2> QED
    BY <1>1, <2>1, WireAssumption
<1> QED
  BY <1>1, <1>2

LEMMA QuotientDef ==
  ASSUME NEW n \in Nat
  PROVE  /\ Quotient(n, 0) = n
         /\ \A j \in Nat : /\ Quotient(n, j) \in Nat
                           /\ Quotient(n, j + 1) = Quotient(n, j) \div Base
<1> DEFINE Eq(q) == q = [i \in Nat |-> IF i = 0 THEN n ELSE q[i - 1] \div Base]
           q0 == CHOOSE q : Eq(q)
<1>1. \E q \in [Nat -> Nat] : Eq(q)
  <2> DEFINE step == [i \in Nat |-> [v \in Nat |-> v \div Base]]
  <2>1. step \in [Nat -> [Nat -> Nat]]
    BY DivMod
  <2>2. PICK g \in [Nat -> Nat] : Iterates(g, n, step)
    <3> HIDE DEF step
    <3> QED
      BY <2>1, Recursion
  <2>3. ASSUME NEW i \in Nat, i # 0 PROVE g[i] = g[i - 1] \div Base
    <3>1. i - 1 \in Nat /\ (i - 1) + 1 = i
      BY <2>3
    <3> QED
      BY <2>2, <3>1 DEF Iterates
  <2> QED
    BY <2>2, <2>3 DEF Iterates
<1>2. Eq(q0)
  BY <1>1
<1>3. \A j \in Nat : Quotient(n, j) = q0[j]
  BY DEF Quotient
<1> HIDE DEF q0
<1>4. q0[0] = n
  BY <1>2
<1>5. \A j \in Nat : q0[j + 1] = q0[j] \div Base
  BY <1>2
<1> HIDE DEF Eq
<1> DEFINE S == {j \in Nat : q0[j] \in Nat}
<1>6. Nat \subseteq S
  <2>1. 0 \in S
    BY <1>4
  <2>2. ASSUME NEW j \in Nat, j \in S PROVE j + 1 \in S
    BY <2>2, <1>5, DivMod
  <2> HIDE DEF S
  <2> QED
    BY <2>1, <2>2, Induct
<1> QED
  BY <1>3, <1>4, <1>5, <1>6

-----------------------------------------------------------------------------
(* The number that the digits of a number write is that number. *)

LEMMA Before ==
  ASSUME NEW n \in Nat, NEW i \in 0..n, i # 0
  PROVE  i - 1 \in Nat /\ (i - 1) + 1 = i /\ i - 1 < n /\ i - 1 \in 0..n
  OBVIOUS

\* v[i] is the number the first i of n digits write.
Horner(v, ds, n) ==
  /\ v[0] = 0 /\ v[n] = Number(ds)
  /\ \A i \in 1..n : v[i] = v[i - 1] * Base + ds[i]

LEMMA NumberDef ==
  ASSUME NEW ds \in Seq(Nat), NEW n \in Nat, n = Len(ds)
  PROVE  \E v \in [0..n -> Nat] : Horner(v, ds, n)
<1> DEFINE Eq(v) == v = [i \in 0..n |-> IF i = 0 THEN 0 ELSE v[i - 1] * Base + ds[i]]
           v0 == CHOOSE v : Eq(v)
<1>0. n \in Nat /\ \A i \in 1..n : ds[i] \in Nat
  OBVIOUS
<1>1. \E v \in [0..n -> Nat] : Eq(v)
  <2> DEFINE step == [i \in Nat |-> [x \in Nat |-> IF i < n THEN x * Base + ds[i + 1] ELSE x]]
  <2>1. step \in [Nat -> [Nat -> Nat]]
    <3> SUFFICES ASSUME NEW i \in Nat, NEW x \in Nat, i < n
                 PROVE  x * Base + ds[i + 1] \in Nat
      OBVIOUS
    <3>1. ds[i + 1] \in Nat /\ x * Base \in Nat
      BY <1>0, WireAssumption
    <3> QED
      BY <3>1
  <2>2. PICK g \in [Nat -> Nat] : Iterates(g, 0, step)
    <3> HIDE DEF step
    <3> QED
      BY <2>1, Recursion
  <2> DEFINE v == [i \in 0..n |-> g[i]]
  <2>3. ASSUME NEW i \in 0..n, i # 0 PROVE v[i] = v[i - 1] * Base + ds[i]
    <3>1. i - 1 \in Nat /\ (i - 1) + 1 = i /\ i - 1 < n /\ i - 1 \in 0..n
      BY <2>3, Before
    <3>2. g[(i - 1) + 1] = step[i - 1][g[i - 1]]
      BY <2>2, <3>1 DEF Iterates
    <3>3. g[i - 1] \in Nat
      BY <3>1
    <3>4. step[i - 1][g[i - 1]] = g[i - 1] * Base + ds[(i - 1) + 1]
      BY <3>1, <3>3
    <3>5. v[i] = g[i] /\ v[i - 1] = g[i - 1]
      BY <3>1, <2>3
    <3> HIDE DEF step, v
    <3> QED
      BY <3>1, <3>2, <3>4, <3>5
  <2>4. v \in [0..n -> Nat] /\ v[0] = 0
    BY <1>0, <2>2 DEF Iterates
  <2> HIDE DEF v
  <2> QED
    BY <2>3, <2>4
<1>2. Eq(v0)
  BY <1>1
<1>3. Number(ds) = v0[n]
  BY <1>0 DEF Number
<1> HIDE DEF v0
<1>4. ASSUME NEW i \in 1..n PROVE v0[i] = v0[i - 1] * Base + ds[i]
  <2>1. i \in 0..n /\ i # 0
    BY <1>0
  <2> QED
    BY <1>2, <2>1
<1>5. v0[0] = 0 /\ DOMAIN v0 = 0..n /\ v0 = [i \in 0..n |-> v0[i]]
  BY <1>0, <1>2
<1> HIDE DEF Eq
<1> DEFINE S == {j \in Nat : j <= n => v0[j] \in Nat}
<1>6. Nat \subseteq S
  <2>1. 0 \in S
    BY <1>5
  <2>2. ASSUME NEW j \in Nat, j \in S PROVE j + 1 \in S
    <3> SUFFICES ASSUME j + 1 <= n PROVE v0[j + 1] \in Nat
      OBVIOUS
    <3>1. j + 1 \in 1..n /\ (j + 1) - 1 = j /\ v0[j] \in Nat
      BY <2>2, <1>0
    <3>2. v0[j + 1] = v0[j] * Base + ds[j + 1] /\ ds[j + 1] \in Nat /\ v0[j] * Base \in Nat
      BY <1>0, <1>4, <3>1, WireAssumption
    <3> QED
      BY <3>2
  <2> HIDE DEF S
  <2> QED
    BY <2>1, <2>2, Induct
<1>7. v0 \in [0..n -> Nat]
  BY <1>0, <1>5, <1>6
<1> QED
  BY <1>3, <1>4, <1>5, <1>7 DEF Horner

LEMMA NumberOfDigits ==
  ASSUME NEW n \in Nat, NEW k \in Nat, Quotient(n, k) = 0
  PROVE  /\ Digits(n, k) \in Seq(Nat) /\ Len(Digits(n, k)) = k
         /\ Number(Digits(n, k)) = n
<1> DEFINE ds == Digits(n, k)
<1>1. ASSUME NEW i \in 1..k PROVE ds[i] \in Nat /\ ds[i] = Quotient(n, k - i) % Base
  <2>1. k - i \in Nat
    OBVIOUS
  <2>2. Quotient(n, k - i) \in Nat
    BY <2>1, QuotientDef
  <2>3. Quotient(n, k - i) % Base \in Nat
    BY <2>2, DivMod
  <2> QED
    BY <2>3 DEF Digits
<1>2. ds \in Seq(Nat) /\ Len(ds) = k
  BY <1>1 DEF Digits
<1> HIDE DEF ds
<1>3. PICK v \in [0..k -> Nat] : Horner(v, ds, k)
  BY <1>2, NumberDef
<1>31. 0 <= k => Quotient(n, k - 0) = 0
  OBVIOUS
<1> DEFINE S == {j \in Nat : j <= k => v[j] = Quotient(n, k - j)}
<1>4. Nat \subseteq S
  <2>1. 0 \in S
    BY <1>3, <1>31 DEF Horner
  <2>2. ASSUME NEW j \in Nat, j \in S PROVE j + 1 \in S
    <3> SUFFICES ASSUME j + 1 <= k PROVE v[j + 1] = Quotient(n, k - (j + 1))
      OBVIOUS
    <3> DEFINE q == Quotient(n, k - (j + 1))
    <3>1. j + 1 \in 1..k /\ (j + 1) - 1 = j /\ k - (j + 1) \in Nat /\ (k - (j + 1)) + 1 = k - j
      OBVIOUS
    <3>2. q \in Nat /\ Quotient(n, k - j) = q \div Base
      <4> DEFINE r == k - (j + 1)
      <4>1. r \in Nat /\ r + 1 = k - j
        BY <3>1
      <4> HIDE DEF r
      <4>2. Quotient(n, r) \in Nat /\ Quotient(n, r + 1) = Quotient(n, r) \div Base
        BY <4>1, QuotientDef
      <4> QED
        BY <4>1, <4>2 DEF r
    <3>3. v[j + 1] = v[j] * Base + ds[j + 1] /\ ds[j + 1] = q % Base
      BY <1>1, <1>3, <3>1 DEF Horner
    <3>5. v[j] = q \div Base
      BY <2>2, <3>1, <3>2
    <3> HIDE DEF q
    <3>4. q = (q \div Base) * Base + (q % Base)
      BY <3>2, DivMod
    <3> QED
      BY <3>3, <3>4, <3>5 DEF q
  <2> HIDE DEF S
  <2> QED
    BY <2>1, <2>2, Induct
<1>5. v[k] = Quotient(n, 0)
  BY <1>4
<1> QED
  BY <1>2, <1>3, <1>5, QuotientDef DEF ds, Horner

-----------------------------------------------------------------------------

-----------------------------------------------------------------------------
(* Masking twice with the same key changes nothing. *)

Weights == {1, 2, 4, 8, 16, 32, 64, 128}

LEMMA BitType ==
  ASSUME NEW n \in Nat, NEW w \in Weights
  PROVE  Bit(n, w) \in 0..1
  BY DEF Bit, Weights

LEMMA FromBits ==
  ASSUME NEW x1 \in 0..1, NEW x2 \in 0..1, NEW x3 \in 0..1, NEW x4 \in 0..1,
         NEW x5 \in 0..1, NEW x6 \in 0..1, NEW x7 \in 0..1, NEW x8 \in 0..1,
         NEW n, n = 1 * x1 + 2 * x2 + 4 * x3 + 8 * x4 + 16 * x5 + 32 * x6 + 64 * x7 + 128 * x8
  PROVE  /\ n \in 0..255
         /\ Bit(n, 1) = x1 /\ Bit(n, 2) = x2 /\ Bit(n, 4) = x3 /\ Bit(n, 8) = x4
         /\ Bit(n, 16) = x5 /\ Bit(n, 32) = x6 /\ Bit(n, 64) = x7 /\ Bit(n, 128) = x8
  BY DEF Bit

LEMMA SameBits ==
  ASSUME NEW x \in 0..255, NEW y \in 0..255, \A w \in Weights : Bit(x, w) = Bit(y, w)
  PROVE  x = y
<1>1. ASSUME NEW n \in 0..255
      PROVE n = Bit(n, 1) + 2 * Bit(n, 2) + 4 * Bit(n, 4) + 8 * Bit(n, 8)
                + 16 * Bit(n, 16) + 32 * Bit(n, 32) + 64 * Bit(n, 64) + 128 * Bit(n, 128)
  BY DEF Bit
<1>2. /\ Bit(x, 1) = Bit(y, 1) /\ Bit(x, 2) = Bit(y, 2) /\ Bit(x, 4) = Bit(y, 4)
      /\ Bit(x, 8) = Bit(y, 8) /\ Bit(x, 16) = Bit(y, 16) /\ Bit(x, 32) = Bit(y, 32)
      /\ Bit(x, 64) = Bit(y, 64) /\ Bit(x, 128) = Bit(y, 128)
  BY DEF Weights
<1> QED
  BY <1>1, <1>2, Zenon

LEMMA XorBits ==
  ASSUME NEW a \in Nat, NEW b \in Nat
  PROVE  /\ a ^^ b \in 0..255
         /\ \A w \in Weights : Bit(a ^^ b, w) = (Bit(a, w) + Bit(b, w)) % 2
<1> DEFINE x(w) == (Bit(a, w) + Bit(b, w)) % 2
<1>1. ASSUME NEW w \in Weights PROVE x(w) \in 0..1
  <2>1. Bit(a, w) \in 0..1 /\ Bit(b, w) \in 0..1
    BY BitType
  <2> QED
    BY <2>1
<1>2. a ^^ b = 1 * x(1) + 2 * x(2) + 4 * x(4) + 8 * x(8)
               + 16 * x(16) + 32 * x(32) + 64 * x(64) + 128 * x(128)
  BY DEF ^^, XorBit
<1>3. /\ x(1) \in 0..1 /\ x(2) \in 0..1 /\ x(4) \in 0..1 /\ x(8) \in 0..1
      /\ x(16) \in 0..1 /\ x(32) \in 0..1 /\ x(64) \in 0..1 /\ x(128) \in 0..1
  BY <1>1 DEF Weights
<1> HIDE DEF x
<1>4. /\ a ^^ b \in 0..255
      /\ Bit(a ^^ b, 1) = x(1) /\ Bit(a ^^ b, 2) = x(2) /\ Bit(a ^^ b, 4) = x(4)
      /\ Bit(a ^^ b, 8) = x(8) /\ Bit(a ^^ b, 16) = x(16) /\ Bit(a ^^ b, 32) = x(32)
      /\ Bit(a ^^ b, 64) = x(64) /\ Bit(a ^^ b, 128) = x(128)
  BY <1>2, <1>3, FromBits
<1>5. \A w \in Weights : Bit(a ^^ b, w) = x(w)
  BY <1>4 DEF Weights
<1> QED
  BY <1>4, <1>5 DEF x

\* Masking twice with the same byte is not masking.
LEMMA XorTwice ==
  ASSUME NEW a \in 0..255, NEW b \in Nat
  PROVE  (a ^^ b) ^^ b = a
<1>0. a \in Nat
  OBVIOUS
<1>1. a ^^ b \in 0..255 /\ \A w \in Weights : Bit(a ^^ b, w) = (Bit(a, w) + Bit(b, w)) % 2
  BY <1>0, XorBits
<1> DEFINE x == a ^^ b
<1>2. x \in Nat
  BY <1>1
<1> HIDE DEF x
<1>3. x ^^ b \in 0..255 /\ \A w \in Weights : Bit(x ^^ b, w) = (Bit(x, w) + Bit(b, w)) % 2
  BY <1>2, XorBits
<1>4. ASSUME NEW w \in Weights PROVE Bit(x ^^ b, w) = Bit(a, w)
  <2>1. Bit(a, w) \in 0..1 /\ Bit(b, w) \in 0..1
    BY <1>0, BitType
  <2>2. Bit(x, w) = (Bit(a, w) + Bit(b, w)) % 2
    BY <1>1 DEF x
  <2>3. Bit(x ^^ b, w) = (Bit(x, w) + Bit(b, w)) % 2
    BY <1>3
  <2> QED
    BY <2>1, <2>2, <2>3
<1>5. x ^^ b = a
  BY <1>3, <1>4, SameBits
<1> QED
  BY <1>5 DEF x

LEMMA WiderSeq ==
  ASSUME NEW A, NEW B, A \subseteq B, NEW s \in Seq(A)
  PROVE  s \in Seq(B)
<1>1. Len(s) \in Nat /\ s = [i \in 1..Len(s) |-> s[i]]
  OBVIOUS
<1>2. ASSUME NEW i \in 1..Len(s) PROVE s[i] \in B
  OBVIOUS
<1> QED
  BY <1>1, <1>2

LEMMA Bytes ==
  ASSUME NEW s \in Seq(0..255)
  PROVE  s \in Seq(Nat)
  <1>1. 0..255 \subseteq Nat
    OBVIOUS
  <1> QED
    BY <1>1, WiderSeq, Zenon

LEMMA KeyByte ==
  ASSUME NEW key \in Seq(Nat), Len(key) = 4, NEW i \in Nat, i >= 1
  PROVE  key[((i - 1) % 4) + 1] \in Nat
<1>1. i - 1 \in Nat
  OBVIOUS
<1>2. \A n \in Nat : (n % 4) + 1 \in 1..4
  OBVIOUS
<1>3. ((i - 1) % 4) + 1 \in 1..4
  BY <1>1, <1>2
<1>4. \A j \in 1..4 : key[j] \in Nat
  OBVIOUS
<1> QED
  BY <1>3, <1>4

LEMMA MaskType ==
  ASSUME NEW m \in Seq(Nat), NEW key \in Seq(Nat), Len(key) = 4
  PROVE  Mask(m, key) \in Seq(0..255) /\ Mask(m, key) \in Seq(Nat) /\ Len(Mask(m, key)) = Len(m)
<1>1. ASSUME NEW i \in DOMAIN m PROVE m[i] ^^ key[((i - 1) % 4) + 1] \in 0..255
  <2>1. m[i] \in Nat /\ i \in Nat /\ i >= 1
    OBVIOUS
  <2> QED
    BY <2>1, KeyByte, XorBits
<1>2. DOMAIN m = 1..Len(m) /\ Len(m) \in Nat
  OBVIOUS
<1>3. Mask(m, key) \in Seq(0..255) /\ Len(Mask(m, key)) = Len(m)
  BY <1>1, <1>2 DEF Mask
<1> QED
  BY <1>3, Bytes

LEMMA Unmask ==
  ASSUME NEW m \in Seq(0..255), NEW key \in Seq(Nat), Len(key) = 4
  PROVE  Mask(Mask(m, key), key) = m
<1>0. m \in Seq(Nat) /\ Len(m) \in Nat /\ DOMAIN m = 1..Len(m) /\ m = [i \in 1..Len(m) |-> m[i]]
  BY Bytes
<1> DEFINE x == Mask(m, key)
<1>1. x \in Seq(Nat) /\ Len(x) = Len(m)
  BY <1>0, MaskType
<1>2. ASSUME NEW i \in 1..Len(m) PROVE x[i] = m[i] ^^ key[((i - 1) % 4) + 1]
  BY <1>0 DEF Mask
<1> HIDE DEF x
<1>3. ASSUME NEW i \in 1..Len(m) PROVE x[i] ^^ key[((i - 1) % 4) + 1] = m[i]
  <2>0. i \in DOMAIN m
    BY <1>0
  <2>1. m[i] \in 0..255 /\ i \in Nat /\ i >= 1
    BY <2>0
  <2>2. key[((i - 1) % 4) + 1] \in Nat
    BY <2>1, KeyByte
  <2> QED
    BY <1>2, <2>1, <2>2, XorTwice
<1>4. DOMAIN x = 1..Len(m)
  BY <1>1
<1>5. Mask(x, key) = [i \in 1..Len(m) |-> m[i]]
  BY <1>3, <1>4 DEF Mask
<1> QED
  BY <1>0, <1>5 DEF x

-----------------------------------------------------------------------------
(* Two byte sequences that agree are read alike. *)

LEMMA Joining ==
  ASSUME NEW S, NEW p \in Seq(S), NEW q \in Seq(S)
  PROVE  /\ p \o q \in Seq(S) /\ Len(p) \in Nat /\ Len(q) \in Nat
         /\ Len(p \o q) = Len(p) + Len(q)
         /\ \A i \in 1..Len(p) : (p \o q)[i] = p[i]
         /\ \A i \in 1..Len(q) : (p \o q)[Len(p) + i] = q[i]
  OBVIOUS

LEMMA Part ==
  ASSUME NEW S, NEW s \in Seq(S), NEW i \in Nat, NEW j \in Nat, i <= j, j <= Len(s)
  PROVE  /\ SubSeq(s, i + 1, j) \in Seq(S) /\ Len(SubSeq(s, i + 1, j)) = j - i
         /\ \A n \in 1..(j - i) : SubSeq(s, i + 1, j)[n] = s[i + n]
  OBVIOUS

LEMMA Same ==
  ASSUME NEW S, NEW s \in Seq(S), NEW t \in Seq(S), Len(s) = Len(t),
         \A i \in 1..Len(s) : s[i] = t[i]
  PROVE  s = t
  OBVIOUS

LEMMA Middle ==
  ASSUME NEW S, NEW p \in Seq(S), NEW q \in Seq(S), NEW r \in Seq(S)
  PROVE  SubSeq((p \o q) \o r, Len(p) + 1, Len(p) + Len(q)) = q
<1> DEFINE s == (p \o q) \o r
           i == Len(p)
           j == Len(p) + Len(q)
<1>1. /\ i \in Nat /\ j \in Nat /\ i <= j /\ s \in Seq(S) /\ j <= Len(s) /\ Len(q) = j - i
      /\ Len(q) \in Nat
  BY Joining
<1>2. ASSUME NEW n \in 1..Len(q) PROVE s[i + n] = q[n]
  <2>1. i + n \in 1..Len(p \o q)
    BY <1>1, Joining
  <2>2. s[i + n] = (p \o q)[i + n]
    BY <2>1, Joining
  <2> QED
    BY <2>2, Joining
<1> HIDE DEF s, i, j
<1>3. SubSeq(s, i + 1, j) \in Seq(S) /\ Len(SubSeq(s, i + 1, j)) = Len(q)
      /\ \A n \in 1..Len(q) : SubSeq(s, i + 1, j)[n] = s[i + n]
  BY <1>1, Part
<1>4. SubSeq(s, i + 1, j) = q
  BY <1>2, <1>3, Same
<1> QED
  BY <1>4 DEF s, i, j

-----------------------------------------------------------------------------
\* A frame that says m; b starts the way f does.
Frame(m, f) == f = PlainFrame(m) \/ \E key \in Masks : f = MaskedFrame(m, key)
Agree(b, f) == \A i \in 1..Len(f) : i <= Len(b) => b[i] = f[i]

LEMMA SameHead ==
  ASSUME NEW b \in Seq(Nat), NEW f \in Seq(Nat), Len(b) >= 2, Len(f) >= 2, Agree(b, f)
  PROVE  /\ Opcode(b) = Opcode(f) /\ Masked(b) = Masked(f) /\ Code(b) = Code(f)
         /\ ExtraLen(b) = ExtraLen(f) /\ BodyAt(b) = BodyAt(f)
         /\ ExtraLen(f) \in {0, 2, 8} /\ Code(f) \in Nat
<1>1. b[1] = f[1] /\ b[2] = f[2] /\ f[2] \in Nat
  BY DEF Agree
<1> QED
  BY <1>1, WireAssumption DEF Opcode, Masked, Code, ExtraLen, BodyAt

LEMMA SamePart ==
  ASSUME NEW b \in Seq(Nat), NEW f \in Seq(Nat), Agree(b, f),
         NEW i \in Nat, NEW j \in Nat, i <= j, j <= Len(b), j <= Len(f)
  PROVE  SubSeq(b, i + 1, j) = SubSeq(f, i + 1, j)
<1>1. /\ SubSeq(b, i + 1, j) \in Seq(Nat) /\ Len(SubSeq(b, i + 1, j)) = j - i
      /\ \A n \in 1..(j - i) : SubSeq(b, i + 1, j)[n] = b[i + n]
  BY Part
<1>2. /\ SubSeq(f, i + 1, j) \in Seq(Nat) /\ Len(SubSeq(f, i + 1, j)) = j - i
      /\ \A n \in 1..(j - i) : SubSeq(f, i + 1, j)[n] = f[i + n]
  BY Part
<1>3. ASSUME NEW n \in 1..(j - i) PROVE b[i + n] = f[i + n]
  <2>1. Len(b) \in Nat /\ Len(f) \in Nat
    OBVIOUS
  <2>2. i + n \in 1..Len(f) /\ i + n <= Len(b)
    BY <2>1
  <2> QED
    BY <2>2 DEF Agree
<1> QED
  BY <1>1, <1>2, <1>3, Same

LEMMA NumberType ==
  ASSUME NEW ds \in Seq(Nat)
  PROVE  Number(ds) \in Nat
<1>1. Len(ds) \in Nat
  OBVIOUS
<1>2. PICK v \in [0..Len(ds) -> Nat] : Horner(v, ds, Len(ds))
  BY <1>1, NumberDef
<1> QED
  BY <1>1, <1>2 DEF Horner

LEMMA SameLength ==
  ASSUME NEW b \in Seq(Nat), NEW f \in Seq(Nat), Agree(b, f), Len(f) >= 2, Len(b) >= 2,
         Len(b) >= 2 + ExtraLen(b), Len(f) >= 2 + ExtraLen(f)
  PROVE  BodyLen(b) = BodyLen(f) /\ FrameLen(b) = FrameLen(f)
         /\ BodyLen(f) \in Nat /\ BodyAt(f) \in Nat /\ BodyAt(f) >= 2 + ExtraLen(f)
         /\ (Masked(f) => BodyAt(f) >= 6)
<1> DEFINE x == ExtraLen(f)
<1>0. /\ Masked(b) = Masked(f) /\ Code(b) = Code(f) /\ ExtraLen(b) = x /\ BodyAt(b) = BodyAt(f)
      /\ x \in {0, 2, 8} /\ Code(f) \in Nat
  BY SameHead
<1>1. BodyAt(f) \in Nat /\ BodyAt(f) >= 2 + x /\ (Masked(f) => BodyAt(f) >= 6)
  <2>1. x \in Nat /\ BodyAt(f) = 2 + x + (IF Masked(f) THEN 4 ELSE 0)
    BY <1>0 DEF BodyAt
  <2> HIDE DEF x
  <2> QED
    BY <2>1
<1>2. SubSeq(b, 2 + 1, 2 + x) = SubSeq(f, 2 + 1, 2 + x) /\ SubSeq(f, 2 + 1, 2 + x) \in Seq(Nat)
  <2> DEFINE y == 2 + x
  <2>1. y \in Nat /\ 2 <= y /\ y <= Len(b) /\ y <= Len(f) /\ 2 \in Nat
    BY <1>0
  <2> HIDE DEF y
  <2>2. SubSeq(b, 2 + 1, y) = SubSeq(f, 2 + 1, y)
    BY <2>1, SamePart
  <2>3. SubSeq(f, 2 + 1, y) \in Seq(Nat)
    BY <2>1, Part
  <2> QED
    BY <2>2, <2>3 DEF y
<1>3. 2 + 1 = 3
  OBVIOUS
<1>4. Number(SubSeq(f, 3, 2 + x)) \in Nat
  BY <1>2, <1>3, NumberType
<1>5. BodyLen(b) = BodyLen(f) /\ BodyLen(f) \in Nat
  BY <1>0, <1>2, <1>3, <1>4 DEF BodyLen
<1> QED
  BY <1>0, <1>1, <1>5 DEF FrameLen

LEMMA SamePayload ==
  ASSUME NEW b \in Seq(Nat), NEW f \in Seq(Nat), Agree(b, f), Len(f) >= 2,
         Len(f) >= 2 + ExtraLen(f), Len(f) = FrameLen(f), Len(b) >= Len(f)
  PROVE  Payload(b) = Payload(f) /\ FrameLen(b) = FrameLen(f)
<1>0. Len(b) \in Nat /\ Len(f) \in Nat
  OBVIOUS
<1>1. Masked(b) = Masked(f) /\ BodyAt(b) = BodyAt(f) /\ ExtraLen(b) = ExtraLen(f)
      /\ ExtraLen(f) \in {0, 2, 8}
  BY <1>0, SameHead
<1> DEFINE i == BodyAt(f)
           j == FrameLen(f)
           o == i - 4
<1>2. /\ FrameLen(b) = FrameLen(f) /\ i \in Nat /\ j \in Nat /\ i <= j
      /\ j <= Len(b) /\ j <= Len(f) /\ (Masked(f) => o \in Nat)
  <2>1. Len(b) >= 2 /\ Len(b) >= 2 + ExtraLen(b)
    BY <1>0, <1>1
  <2>2. BodyLen(b) = BodyLen(f) /\ FrameLen(b) = FrameLen(f)
         /\ BodyLen(f) \in Nat /\ BodyAt(f) \in Nat /\ (Masked(f) => BodyAt(f) >= 6)
    BY <2>1, SameLength
  <2> QED
    BY <1>0, <2>2 DEF FrameLen
<1> HIDE DEF i, j
<1>3. SubSeq(b, i + 1, j) = SubSeq(f, i + 1, j)
  BY <1>2, SamePart
<1>4. ASSUME Masked(f) PROVE SubSeq(b, o + 1, i) = SubSeq(f, o + 1, i)
  <2>1. o \in Nat /\ o <= i /\ i <= Len(b) /\ i <= Len(f)
    BY <1>0, <1>2, <1>4
  <2> HIDE DEF o
  <2> QED
    BY <1>2, <2>1, SamePart
<1>5. o + 1 = i - 3
  BY <1>2
<1> QED
  BY <1>1, <1>2, <1>3, <1>4, <1>5 DEF Payload, i, j

-----------------------------------------------------------------------------
(* A frame in its parts. *)

\* Code c and digits x announce the length of m.
Announces(m, c, x) ==
  /\ c \in Nat /\ c < Flag /\ x \in Seq(Nat)
  /\ \/ c = Len(m) /\ c < Flag - 2 /\ Len(x) = 0
     \/ c = Flag - 2 /\ Len(x) = 2 /\ Number(x) = Len(m)
     \/ c = Flag - 1 /\ Len(x) = 8 /\ Number(x) = Len(m)

LEMMA Announced ==
  ASSUME NEW m \in Text
  PROVE  /\ m \in Seq(0..255) /\ m \in Seq(Nat) /\ Len(m) \in Nat
         /\ Announces(m, LengthCode(Len(m)), LengthDigits(Len(m)))
<1> DEFINE c == LengthCode(Len(m))
           x == LengthDigits(Len(m))
<1>1. m \in Seq(0..255) /\ m \in Seq(Nat) /\ Len(m) \in Nat
  BY TextAssumption, Bytes
<1> SUFFICES Announces(m, c, x)
  BY <1>1
<1> HIDE DEF c, x
<1>2. CASE Len(m) < Flag - 2
  <2>0. c = Len(m) /\ x = <<>>
    BY <1>2, Zenon DEF c, x, LengthCode, LengthDigits
  <2>1. x \in Seq(Nat) /\ Len(x) = 0
    BY <2>0
  <2> QED
    BY <1>1, <1>2, <2>0, <2>1, WireAssumption DEF Announces
<1>3. CASE Len(m) >= Flag - 2 /\ Len(m) < Base * Base
  <2>1. ~(Len(m) < Flag - 2)
    BY <1>1, <1>3, WireAssumption
  <2>2. c = Flag - 2 /\ x = Digits(Len(m), 2)
    BY <1>3, <2>1 DEF c, x, LengthCode, LengthDigits
  <2>3. Quotient(Len(m), 2) = 0
    <3>1. /\ Quotient(Len(m), 0 + 1) = Quotient(Len(m), 0) \div Base
          /\ Quotient(Len(m), 1 + 1) = Quotient(Len(m), 1) \div Base
      BY <1>1, QuotientDef
    <3>2. 0 + 1 = 1 /\ 1 + 1 = 2
      OBVIOUS
    <3>3. Quotient(Len(m), 2) = (Len(m) \div Base) \div Base
      BY <1>1, <3>1, <3>2, QuotientDef
    <3> QED
      BY <1>1, <1>3, <3>3, DivMod
  <2>4. x \in Seq(Nat) /\ Len(x) = 2 /\ Number(x) = Len(m)
    BY <1>1, <2>2, <2>3, NumberOfDigits
  <2> QED
    BY <1>1, <2>2, <2>4, WireAssumption DEF Announces
<1>4. CASE Len(m) >= Flag - 2 /\ ~(Len(m) < Base * Base)
  <2>1. ~(Len(m) < Flag - 2)
    BY <1>1, <1>4, WireAssumption
  <2>2. c = Flag - 1 /\ x = Digits(Len(m), 8)
    BY <1>4, <2>1 DEF c, x, LengthCode, LengthDigits
  <2>3. Quotient(Len(m), 8) = 0
    BY LengthAssumption
  <2>4. x \in Seq(Nat) /\ Len(x) = 8 /\ Number(x) = Len(m)
    <3>1. 8 \in Nat
      OBVIOUS
    <3> QED
      BY <1>1, <2>2, <2>3, <3>1, NumberOfDigits
  <2> QED
    BY <1>1, <2>2, <2>4, WireAssumption DEF Announces
<1>5. Len(m) < Flag - 2 \/ Len(m) >= Flag - 2
  BY <1>1, WireAssumption
<1> QED
  BY <1>2, <1>3, <1>4, <1>5

\* A frame in its parts: first two bytes, length digits, masking key if any, body.
Shaped(f, a, x, k, y) ==
  \E n \in Nat, o \in Nat :
    /\ f \in Seq(Nat) /\ n = Len(a) + Len(x) /\ o = n + Len(k) /\ Len(f) = o + Len(y)
    /\ f[1] = a[1] /\ f[2] = a[2]
    /\ SubSeq(f, Len(a) + 1, n) = x
    /\ SubSeq(f, n + 1, o) = k
    /\ SubSeq(f, o + 1, Len(f)) = y

LEMMA Longer ==
  ASSUME NEW S, NEW p \in Seq(S), NEW q \in Seq(S)
  PROVE  Len(p) <= Len(p \o q) /\ Len(p) \in Nat /\ Len(p \o q) \in Nat
  OBVIOUS

LEMMA AtMost ==
  ASSUME NEW i \in Nat, NEW j \in Nat, NEW l \in Nat, i <= j, j <= l
  PROVE  i <= l
  OBVIOUS

\* w extends v by z.
Extends(w, v, z) ==
  /\ w \in Seq(Nat) /\ v \in Seq(Nat) /\ Agree(w, v) /\ Len(v) \in Nat /\ Len(w) \in Nat
  /\ Len(v) <= Len(w) /\ Len(w) = Len(v) + Len(z) /\ SubSeq(w, Len(v) + 1, Len(w)) = z

LEMMA Extending ==
  ASSUME NEW v \in Seq(Nat), NEW z \in Seq(Nat)
  PROVE  Extends(v \o z, v, z)
<1>1. /\ v \o z \in Seq(Nat) /\ Agree(v \o z, v) /\ Len(v) \in Nat /\ Len(v \o z) \in Nat
      /\ Len(v) <= Len(v \o z) /\ Len(v \o z) = Len(v) + Len(z)
  BY DEF Agree
<1>2. (v \o z) \o <<>> = v \o z /\ <<>> \in Seq(Nat)
  BY <1>1
<1>3. SubSeq((v \o z) \o <<>>, Len(v) + 1, Len(v) + Len(z)) = z
  BY <1>2, Middle
<1>4. SubSeq(v \o z, Len(v) + 1, Len(v \o z)) = z
  BY <1>1, <1>2, <1>3, Zenon
<1> QED
  BY <1>1, <1>4 DEF Extends

LEMMA SameStart ==
  ASSUME NEW u \in Seq(Nat), NEW v \in Seq(Nat), NEW w \in Seq(Nat), Agree(v, u), Agree(w, v),
         Len(u) <= Len(v)
  PROVE  Agree(w, u)
<1>1. ASSUME NEW i \in 1..Len(u), i <= Len(w) PROVE w[i] = u[i]
  <2>1. i \in 1..Len(v) /\ i <= Len(v)
    <3>1. Len(u) \in Nat /\ Len(v) \in Nat
      OBVIOUS
    <3> QED
      BY <3>1
  <2> QED
    BY <1>1, <2>1 DEF Agree
<1> QED
  BY <1>1 DEF Agree

LEMMA SamePiece ==
  ASSUME NEW u, NEW v, NEW z, NEW w, Extends(v, u, z), w \in Seq(Nat), Agree(w, v),
         Len(v) <= Len(w)
  PROVE  SubSeq(w, Len(u) + 1, Len(v)) = z
<1>1. /\ Len(u) \in Nat /\ Len(v) \in Nat /\ Len(u) <= Len(v) /\ v \in Seq(Nat)
      /\ SubSeq(v, Len(u) + 1, Len(v)) = z
  BY Zenon DEF Extends
<1>2. Len(v) <= Len(v)
  BY <1>1
<1>3. SubSeq(w, Len(u) + 1, Len(v)) = SubSeq(v, Len(u) + 1, Len(v))
  BY <1>1, <1>2, SamePart
<1> QED
  BY <1>1, <1>3, Zenon

LEMMA Assembled ==
  ASSUME NEW a, NEW x, NEW k, NEW y, NEW ax, NEW axk, NEW f,
         Extends(ax, a, x), Extends(axk, ax, k), Extends(f, axk, y), Len(a) >= 2
  PROVE  Shaped(f, a, x, k, y)
<1>1. /\ Len(a) \in Nat /\ Len(ax) \in Nat /\ Len(axk) \in Nat /\ Len(f) \in Nat
      /\ Len(a) <= Len(ax) /\ Len(ax) <= Len(axk) /\ Len(axk) <= Len(f)
  BY Zenon DEF Extends
<1>2. Len(ax) <= Len(f)
  BY <1>1, AtMost
<1>3. Agree(ax, a) /\ Agree(axk, ax) /\ Agree(f, axk)
  BY Zenon DEF Extends
<1>0. a \in Seq(Nat) /\ ax \in Seq(Nat) /\ axk \in Seq(Nat) /\ f \in Seq(Nat)
  BY Zenon DEF Extends
<1>4. Agree(f, ax)
  BY <1>0, <1>1, <1>3, SameStart, Zenon
<1>5. Agree(f, a)
  BY <1>0, <1>1, <1>3, <1>4, SameStart, Zenon
<1>6. SubSeq(f, Len(a) + 1, Len(ax)) = x
  BY <1>0, <1>2, <1>4, SamePiece, Zenon
<1>7. SubSeq(f, Len(ax) + 1, Len(axk)) = k
  BY <1>0, <1>1, <1>3, SamePiece, Zenon
<1>8. f[1] = a[1] /\ f[2] = a[2]
  <2>1. 2 <= Len(f)
    BY <1>1
  <2>2. 1 \in 1..Len(a) /\ 2 \in 1..Len(a) /\ 1 <= Len(f)
    BY <1>1, <2>1
  <2> QED
    BY <1>5, <2>1, <2>2, Zenon DEF Agree
<1>9. /\ SubSeq(f, Len(axk) + 1, Len(f)) = y
      /\ Len(ax) = Len(a) + Len(x) /\ Len(axk) = Len(ax) + Len(k) /\ Len(f) = Len(axk) + Len(y)
  BY Zenon DEF Extends
<1> QED
  BY <1>0, <1>1, <1>6, <1>7, <1>8, <1>9, Zenon DEF Shaped

LEMMA Shape ==
  ASSUME NEW a \in Seq(Nat), NEW x \in Seq(Nat), NEW k \in Seq(Nat), NEW y \in Seq(Nat),
         Len(a) >= 2
  PROVE  Shaped(((a \o x) \o k) \o y, a, x, k, y)
<1>1. a \o x \in Seq(Nat) /\ (a \o x) \o k \in Seq(Nat) /\ ((a \o x) \o k) \o y \in Seq(Nat)
  OBVIOUS
<1>2. Extends(a \o x, a, x)
  BY Extending
<1>3. Extends((a \o x) \o k, a \o x, k)
  BY <1>1, Extending
<1>4. Extends(((a \o x) \o k) \o y, (a \o x) \o k, y)
  BY <1>1, Extending
<1> QED
  BY <1>1, <1>2, <1>3, <1>4, Assembled

-----------------------------------------------------------------------------
(* The decoder reads from a frame the message it was made of. *)

\* f is a whole frame that carries m.
Carries(f, m) ==
  /\ f \in Seq(Nat) /\ Len(f) \in Nat /\ Len(f) >= 2 /\ Len(f) >= 2 + ExtraLen(f)
  /\ Len(f) = FrameLen(f) /\ Opcode(f) = TextOp /\ Payload(f) = m

\* The second byte h and the key k of a frame whose length code is c.
Header(h, c, k) ==
  /\ k \in Seq(Nat) /\ c \in Nat /\ h \in Nat
  /\ \/ h = c /\ c < Flag /\ Len(k) = 0
     \/ h = Flag + c /\ Len(k) = 4

LEMMA SecondByte ==
  ASSUME NEW f, NEW h, NEW c, NEW k, f[2] = h, Header(h, c, k)
  PROVE  /\ Code(f) = c
         /\ Masked(f) => Len(k) = 4
         /\ ~Masked(f) => Len(k) = 0
         /\ Len(k) = IF Masked(f) THEN 4 ELSE 0
<1>1. CASE h = c /\ c < Flag /\ Len(k) = 0
  <2>1. ~Masked(f)
    BY <1>1, WireAssumption DEF Masked, Header
  <2> QED
    BY <1>1, <2>1 DEF Code
<1>2. CASE h = Flag + c /\ Len(k) = 4
  <2>1. Masked(f)
    BY <1>2, WireAssumption DEF Masked, Header
  <2>2. h - Flag = c
    BY <1>2, WireAssumption DEF Header
  <2> QED
    BY <1>2, <2>1, <2>2 DEF Code
<1> QED
  BY <1>1, <1>2 DEF Header

LEMMA PlainHeader ==
  ASSUME NEW c, NEW k, c \in Nat, c < Flag, k \in Seq(Nat), Len(k) = 0
  PROVE  Header(c, c, k)
  BY DEF Header

LEMMA ExtraLenIs ==
  ASSUME NEW f
  PROVE  /\ Code(f) = Flag - 2 => ExtraLen(f) = 2
         /\ Code(f) = Flag - 1 => ExtraLen(f) = 8
         /\ (Code(f) # Flag - 2 /\ Code(f) # Flag - 1) => ExtraLen(f) = 0
  BY WireAssumption DEF ExtraLen

LEMMA LengthRead ==
  ASSUME NEW m, NEW c, NEW x, NEW f, Len(m) \in Nat, Announces(m, c, x), Code(f) = c,
         SubSeq(f, 3, 2 + Len(x)) = x
  PROVE  ExtraLen(f) = Len(x) /\ BodyLen(f) = Len(m) /\ Len(x) \in Nat
<1>1. CASE c = Len(m) /\ c < Flag - 2 /\ Len(x) = 0
  <2>1. c # Flag - 2 /\ c # Flag - 1
    BY <1>1, WireAssumption
  <2> QED
    BY <1>1, <2>1 DEF ExtraLen, BodyLen
<1>2. CASE c = Flag - 2 /\ Len(x) = 2 /\ Number(x) = Len(m)
  <2>0. Code(f) = Flag - 2
    BY <1>2
  <2>1. ExtraLen(f) = 2
    BY <2>0, ExtraLenIs, Zenon
  <2>2. ExtraLen(f) = Len(x) /\ Len(x) \in Nat /\ ExtraLen(f) # 0
    BY <1>2, <2>1
  <2> QED
    BY <1>2, <2>2, Zenon DEF BodyLen
<1>3. CASE c = Flag - 1 /\ Len(x) = 8 /\ Number(x) = Len(m)
  <2>1. c # Flag - 2
    BY <1>3, WireAssumption
  <2>2. ExtraLen(f) = Len(x) /\ Len(x) \in Nat /\ ExtraLen(f) # 0
    BY <1>3, <2>1 DEF ExtraLen
  <2> QED
    BY <1>3, <2>2, Zenon DEF BodyLen
<1> QED
  BY <1>1, <1>2, <1>3 DEF Announces

LEMMA Wrapped ==
  ASSUME NEW m, NEW c, NEW h, NEW x, NEW a, NEW k, NEW y, NEW f,
         Announces(m, c, x), Header(h, c, k), Shaped(f, a, x, k, y),
         Len(m) \in Nat, Len(y) = Len(m), Len(a) = 2, a[1] = Fin + TextOp, a[2] = h,
         Len(k) = 4 => Mask(y, k) = m, Len(k) = 0 => y = m
  PROVE  Carries(f, m)
<1>1. PICK n \in Nat, o \in Nat :
        /\ f \in Seq(Nat) /\ n = 2 + Len(x) /\ o = n + Len(k) /\ Len(f) = o + Len(m)
        /\ f[1] = a[1] /\ f[2] = a[2]
        /\ SubSeq(f, 2 + 1, n) = x
        /\ SubSeq(f, n + 1, o) = k
        /\ SubSeq(f, o + 1, Len(f)) = y
  BY Zenon DEF Shaped
<1>2. /\ Code(f) = c /\ (Masked(f) => Len(k) = 4) /\ (~Masked(f) => Len(k) = 0)
      /\ Len(k) = IF Masked(f) THEN 4 ELSE 0
  BY <1>1, SecondByte, Zenon
<1>3. ExtraLen(f) = Len(x) /\ BodyLen(f) = Len(m) /\ Len(x) \in Nat
  <2>1. 2 + 1 = 3
    OBVIOUS
  <2>2. SubSeq(f, 3, 2 + Len(x)) = x
    BY <1>1, <2>1, Zenon
  <2> QED
    BY <1>2, <2>2, LengthRead, Zenon
<1>4. BodyAt(f) = 2 + Len(x) + Len(k)
  BY <1>2, <1>3, Zenon DEF BodyAt
<1>5. Len(k) \in Nat
  BY <1>2
<1>6. o = BodyAt(f) /\ FrameLen(f) = Len(f)
  BY <1>1, <1>3, <1>4, Zenon DEF FrameLen
<1>7. Len(f) \in Nat /\ Len(f) >= 2 /\ Len(f) >= 2 + ExtraLen(f)
  <2>1. n \in Nat /\ n >= 2 /\ n = 2 + ExtraLen(f)
    BY <1>1, <1>3
  <2>2. Len(f) \in Nat /\ Len(f) >= n
    BY <1>1, <1>5
  <2> QED
    BY <2>1, <2>2
<1>8. Opcode(f) = TextOp
  <2>1. f[1] = Fin + TextOp
    BY <1>1, Zenon
  <2> QED
    BY <2>1 DEF Opcode, Fin, TextOp
<1>9. Payload(f) = m
  <2>1. SubSeq(f, BodyAt(f) + 1, FrameLen(f)) = y
    BY <1>1, <1>6, Zenon
  <2>2. CASE Masked(f)
    <3>1. Len(k) = 4
      BY <1>2, <2>2
    <3>2. n + 1 = BodyAt(f) - 3
      BY <1>1, <1>6, <3>1
    <3>3. SubSeq(f, BodyAt(f) - 3, BodyAt(f)) = k
      BY <1>1, <1>6, <3>2, Zenon
    <3> QED
      BY <2>1, <2>2, <3>1, <3>3, Zenon DEF Payload
  <2>3. CASE ~Masked(f)
    BY <1>2, <2>1, <2>3, Zenon DEF Payload
  <2> QED
    BY <2>2, <2>3
<1> QED
  BY <1>1, <1>6, <1>7, <1>8, <1>9, Zenon DEF Carries

LEMMA FourOf ==
  ASSUME NEW S, NEW k \in [1..4 -> S]
  PROVE  k \in Seq(S) /\ Len(k) = 4
<1>1. DOMAIN k = 1..4 /\ 4 \in Nat
  OBVIOUS
<1>2. \A i \in 1..4 : k[i] \in S
  OBVIOUS
<1>3. k = [i \in 1..4 |-> k[i]]
  OBVIOUS
<1>4. [i \in 1..4 |-> k[i]] \in Seq(S)
  BY <1>1, <1>2
<1>5. Len([i \in 1..4 |-> k[i]]) = 4
  BY <1>1
<1> QED
  BY <1>3, <1>4, <1>5, Zenon

LEMMA FrameCarries ==
  ASSUME NEW m \in Text, NEW f, Frame(m, f)
  PROVE  Carries(f, m)
<1> DEFINE c == LengthCode(Len(m))
           x == LengthDigits(Len(m))
<1>0. /\ m \in Seq(0..255) /\ m \in Seq(Nat) /\ Len(m) \in Nat
      /\ Announces(m, c, x)
  BY Announced
<1> HIDE DEF c, x
<1>1. c \in Nat /\ c < Flag /\ x \in Seq(Nat)
  BY <1>0, Zenon DEF Announces
<1>2. CASE f = PlainFrame(m)
  <2> DEFINE a == <<Fin + TextOp, c>>
  <2>1. a \in Seq(Nat) /\ Len(a) = 2 /\ Len(a) >= 2 /\ a[1] = Fin + TextOp /\ a[2] = c
    BY <1>1 DEF Fin, TextOp
  <2>2. f = (a \o x) \o m
    BY <1>2, Zenon DEF PlainFrame, c, x
  <2> HIDE DEF a
  <2>3. <<>> \in Seq(Nat) /\ Len(<<>>) = 0
    OBVIOUS
  <2>4. (a \o x) \o <<>> = a \o x
    BY <1>1, <2>1
  <2>5. Shaped(((a \o x) \o <<>>) \o m, a, x, <<>>, m)
    BY <1>0, <1>1, <2>1, <2>3, Shape, Zenon
  <2>6. Shaped(f, a, x, <<>>, m)
    BY <2>2, <2>4, <2>5, Zenon
  <2>7. Header(c, c, <<>>)
    BY <1>1, <2>3, PlainHeader, Zenon
  <2>8. Len(<<>>) # 4
    BY <2>3
  <2> QED
    BY <1>0, <2>1, <2>3, <2>6, <2>7, <2>8, Wrapped, Zenon
<1>3. ASSUME NEW k \in Masks, f = MaskedFrame(m, k) PROVE Carries(f, m)
  <2> DEFINE a == <<Fin + TextOp, Flag + c>>
  <2>1. /\ a \in Seq(Nat) /\ Len(a) = 2 /\ Len(a) >= 2 /\ a[1] = Fin + TextOp /\ a[2] = Flag + c
        /\ Flag + c \in Nat
    BY <1>1, WireAssumption DEF Fin, TextOp
  <2>2. f = ((a \o x) \o k) \o Mask(m, k)
    BY <1>3, Zenon DEF MaskedFrame, c, x
  <2> HIDE DEF a
  <2>3. k \in Seq(Nat) /\ Len(k) = 4
    <3>1. k \in [1..4 -> 0..255]
      BY TextAssumption
    <3>2. k \in Seq(0..255) /\ Len(k) = 4
      BY <3>1, FourOf
    <3> QED
      BY <3>2, Bytes
  <2>4. Mask(m, k) \in Seq(Nat) /\ Len(Mask(m, k)) = Len(m) /\ Mask(Mask(m, k), k) = m
    BY <1>0, <2>3, MaskType, Unmask
  <2>5. Shaped(((a \o x) \o k) \o Mask(m, k), a, x, k, Mask(m, k))
    BY <1>0, <1>1, <2>1, <2>3, <2>4, Shape, Zenon
  <2>6. Shaped(f, a, x, k, Mask(m, k))
    BY <2>2, <2>5, Zenon
  <2>7. Header(Flag + c, c, k)
    BY <1>1, <2>1, <2>3, Zenon DEF Header
  <2>8. Len(k) # 0
    BY <2>3
  <2> QED
    BY <1>0, <2>1, <2>3, <2>4, <2>6, <2>7, <2>8, Wrapped, Zenon
<1> QED
  BY <1>2, <1>3 DEF Frame

LEMMA CloseRead ==
  /\ CloseFrame \in Seq(Nat) /\ Len(CloseFrame) = 2 /\ ExtraLen(CloseFrame) = 0
  /\ FrameLen(CloseFrame) = 2 /\ Opcode(CloseFrame) = CloseOp
<1>1. CloseFrame[1] = 136 /\ CloseFrame[2] = 0 /\ CloseFrame \in Seq(Nat) /\ Len(CloseFrame) = 2
  BY DEF CloseFrame, Fin, CloseOp
<1>2. ~Masked(CloseFrame) /\ Code(CloseFrame) = 0
  BY <1>1, WireAssumption DEF Masked, Code
<1>3. ExtraLen(CloseFrame) = 0
  BY <1>2, WireAssumption DEF ExtraLen
<1>4. BodyAt(CloseFrame) = 2 /\ BodyLen(CloseFrame) = 0
  BY <1>2, <1>3 DEF BodyAt, BodyLen
<1> QED
  BY <1>1, <1>3, <1>4 DEF FrameLen, Opcode, CloseOp

-----------------------------------------------------------------------------
(* A byte stream and the messages it carries. *)

\* s is p followed by q.
Joins(s, p, q) ==
  /\ Len(p) \in Nat /\ Len(q) \in Nat /\ Len(s) \in Nat /\ Len(s) = Len(p) + Len(q)
  /\ \A i \in 1..Len(p) : s[i] = p[i]
  /\ \A i \in 1..Len(q) : s[Len(p) + i] = q[i]

LEMMA Join ==
  ASSUME NEW S, NEW p \in Seq(S), NEW q \in Seq(S)
  PROVE  Joins(p \o q, p, q)
  BY Joining DEF Joins

LEMMA JoinAgree ==
  ASSUME NEW s, NEW r, NEW w, NEW f, NEW z, Joins(s, r, w), Joins(s, f, z)
  PROVE  Agree(r, f)
<1>1. ASSUME NEW i \in 1..Len(f), i <= Len(r) PROVE r[i] = f[i]
  <2>1. s[i] = f[i] /\ Len(r) \in Nat /\ Len(f) \in Nat
    BY DEF Joins
  <2>2. i \in 1..Len(r)
    BY <1>1, <2>1
  <2>3. s[i] = r[i]
    BY <2>2 DEF Joins
  <2> QED
    BY <2>1, <2>3
<1> QED
  BY <1>1 DEF Agree

LEMMA JoinRest ==
  ASSUME NEW s, NEW r \in Seq(Nat), NEW w \in Seq(Nat), NEW f, NEW z \in Seq(Nat),
         Joins(s, r, w), Joins(s, f, z), Len(f) <= Len(r)
  PROVE  SubSeq(r, Len(f) + 1, Len(r)) \o w = z
<1> DEFINE n == Len(f)
           l == Len(r)
           y == SubSeq(r, n + 1, l)
<1>1. n \in Nat /\ l \in Nat /\ n <= l /\ Len(w) \in Nat /\ Len(z) \in Nat /\ n + Len(z) = l + Len(w)
  BY DEF Joins
<1>2. /\ y \in Seq(Nat) /\ Len(y) = l - n
      /\ \A i \in 1..(l - n) : y[i] = r[n + i]
  <2>1. l <= Len(r) /\ l \in Nat
    OBVIOUS
  <2> HIDE DEF n, l
  <2> QED
    BY <1>1, <2>1, Part
<1>3. Joins(y \o w, y, w)
  <2> HIDE DEF y
  <2> QED
    BY <1>2, Join
<1>4. y \o w \in Seq(Nat)
  <2> HIDE DEF y
  <2> QED
    BY <1>2
<1>5. /\ \A i \in 1..n : s[i] = f[i]
      /\ \A i \in 1..Len(z) : s[n + i] = z[i]
      /\ \A i \in 1..l : s[i] = r[i]
      /\ \A i \in 1..Len(w) : s[l + i] = w[i]
  BY DEF Joins
<1> HIDE DEF n, l, y
<1>6. Len(y \o w) = Len(z)
  <2>1. Len(y \o w) = Len(y) + Len(w)
    BY <1>3 DEF Joins
  <2> QED
    BY <1>1, <1>2, <2>1
<1>7. ASSUME NEW i \in 1..Len(z) PROVE (y \o w)[i] = z[i]
  <2>1. CASE i <= l - n
    <3>1. i \in 1..Len(y) /\ i \in 1..(l - n) /\ n + i \in 1..l
      BY <1>1, <1>2, <2>1
    <3>2. (y \o w)[i] = y[i]
      BY <1>3, <3>1 DEF Joins
    <3> QED
      BY <1>2, <1>5, <3>1, <3>2
  <2>2. CASE ~(i <= l - n)
    <3> DEFINE j == i - (l - n)
    <3>1. j \in 1..Len(w) /\ Len(y) + j = i /\ l + j = n + i
      BY <1>1, <1>2, <2>2
    <3> HIDE DEF j
    <3>2. (y \o w)[Len(y) + j] = w[j]
      BY <1>3, <3>1 DEF Joins
    <3>3. s[l + j] = w[j] /\ s[n + i] = z[i]
      BY <1>5, <3>1
    <3> QED
      BY <3>1, <3>2, <3>3, Zenon
  <2> QED
    BY <2>1, <2>2
<1>8. y \o w = z
  BY <1>4, <1>6, <1>7, Same
<1> QED
  BY <1>8 DEF y, n, l

-----------------------------------------------------------------------------
\* What follows the last message on the wire.
Ending(c) == IF c THEN CloseFrame ELSE <<>>

\* b is the frames of the messages ts, one after the other, then a close frame if c.
Chain(p, ts, c, b) ==
  /\ p[0] = b /\ p[Len(ts)] = Ending(c)
  /\ \A i \in 1..Len(ts) : \E f : Frame(ts[i], f) /\ p[i - 1] = f \o p[i]
Stream(ts, c, b) == \E p \in [0..Len(ts) -> Seq(Nat)] : Chain(p, ts, c, b)

LEMMA EndingType ==
  ASSUME NEW c
  PROVE  Ending(c) \in Seq(Nat)
<1>1. <<>> \in Seq(Nat)
  OBVIOUS
<1> QED
  BY <1>1, CloseRead DEF Ending

LEMMA Facts ==
  ASSUME NEW ts \in Seq(Text)
  PROVE  /\ Len(ts) \in Nat
         /\ \A i \in 1..Len(ts) : ts[i] \in Text
         /\ ts # <<>> => /\ Tail(ts) \in Seq(Text) /\ Len(Tail(ts)) = Len(ts) - 1
                         /\ Len(ts) >= 1 /\ ts[1] \in Text
                         /\ \A i \in 1..(Len(ts) - 1) : Tail(ts)[i] = ts[i + 1]
  OBVIOUS

LEMMA StreamEmpty ==
  ASSUME NEW c, NEW b, Stream(<<>>, c, b)
  PROVE  b = Ending(c)
<1>1. PICK p \in [0..Len(<<>>) -> Seq(Nat)] : Chain(p, <<>>, c, b)
  BY Zenon DEF Stream
<1>2. Len(<<>>) = 0
  OBVIOUS
<1>3. p[0] = b /\ p[0] = Ending(c)
  BY <1>1, <1>2, Zenon DEF Chain
<1> QED
  BY <1>3, Zenon

LEMMA StreamEnding ==
  ASSUME NEW c
  PROVE  Stream(<<>>, c, Ending(c))
<1> DEFINE p == [i \in 0..0 |-> Ending(c)]
<1>1. p \in [0..0 -> Seq(Nat)] /\ p[0] = Ending(c)
  BY EndingType
<1>2. Len(<<>>) = 0
  OBVIOUS
<1>3. \A i \in 1..0 : FALSE
  OBVIOUS
<1> HIDE DEF p
<1>4. Chain(p, <<>>, c, Ending(c))
  BY <1>1, <1>2, <1>3, Zenon DEF Chain
<1> QED
  BY <1>1, <1>2, <1>4, Zenon DEF Stream

LEMMA StreamHead ==
  ASSUME NEW ts \in Seq(Text), NEW c, NEW b, Stream(ts, c, b), ts # <<>>
  PROVE  \E f, z : /\ Frame(ts[1], f) /\ z \in Seq(Nat) /\ b = f \o z
                   /\ Stream(Tail(ts), c, z)
<1>1. PICK p \in [0..Len(ts) -> Seq(Nat)] : Chain(p, ts, c, b)
  BY Zenon DEF Stream
<1> DEFINE us == Tail(ts)
           k == Len(ts)
           l == Len(us)
<1>2. k \in Nat /\ l \in Nat /\ k = l + 1 /\ 1 \in 1..k /\ 1 \in 0..k /\ 1 - 1 = 0
      /\ \A i \in 1..l : us[i] = ts[i + 1]
  BY Facts
<1>3. PICK f : Frame(ts[1], f) /\ p[1 - 1] = f \o p[1]
  BY <1>1, <1>2, Zenon DEF Chain
<1>4. b = f \o p[1] /\ p[1] \in Seq(Nat)
  BY <1>1, <1>2, <1>3, Zenon DEF Chain
<1>5. /\ p[k] = Ending(c)
      /\ \A i \in 1..k : \E g : Frame(ts[i], g) /\ p[i - 1] = g \o p[i]
  BY <1>1, Zenon DEF Chain
<1> HIDE DEF us, k, l
<1> DEFINE q == [i \in 0..l |-> p[i + 1]]
<1>6. p \in [0..k -> Seq(Nat)]
  BY DEF k
<1>7. q \in [0..l -> Seq(Nat)]
  <2>1. ASSUME NEW i \in 0..l PROVE p[i + 1] \in Seq(Nat)
    <3>1. i + 1 \in 0..k
      BY <1>2
    <3> QED
      BY <1>6, <3>1, Zenon
  <2> QED
    BY <2>1, Zenon
<1>8. \A i \in 0..l : q[i] = p[i + 1]
  OBVIOUS
<1> HIDE DEF q
<1>9. q[0] = p[1] /\ q[l] = Ending(c)
  <2>1. 0 \in 0..l /\ l \in 0..l /\ 0 + 1 = 1 /\ l + 1 = k
    BY <1>2
  <2>2. q[0] = p[0 + 1] /\ q[l] = p[l + 1]
    BY <1>8, <2>1, Zenon
  <2> QED
    BY <1>5, <2>1, <2>2, Zenon
<1>10. ASSUME NEW i \in 1..l PROVE \E g : Frame(us[i], g) /\ q[i - 1] = g \o q[i]
  <2>1. i + 1 \in 1..k /\ i \in 0..l /\ i - 1 \in 0..l /\ (i + 1) - 1 = i /\ (i - 1) + 1 = i
    BY <1>2
  <2>2. PICK g : Frame(ts[i + 1], g) /\ p[(i + 1) - 1] = g \o p[i + 1]
    BY <1>5, <2>1, Zenon
  <2>3. q[i] = p[i + 1] /\ q[i - 1] = p[(i - 1) + 1] /\ us[i] = ts[i + 1]
    BY <1>2, <1>8, <2>1, Zenon
  <2>4. Frame(us[i], g) /\ q[i - 1] = g \o q[i]
    BY <2>1, <2>2, <2>3, Zenon
  <2> QED
    BY <2>4
<1>11. Chain(q, us, c, p[1])
  BY <1>9, <1>10, Zenon DEF Chain, l
<1>12. Stream(us, c, p[1])
  BY <1>7, <1>11, Zenon DEF Stream, l
<1> QED
  BY <1>3, <1>4, <1>12, Zenon DEF us

LEMMA JoinTwice ==
  ASSUME NEW S, NEW p \in Seq(S), NEW q \in Seq(S), NEW r \in Seq(S)
  PROVE  (p \o q) \o r = p \o (q \o r)
  OBVIOUS

LEMMA JoinBytes ==
  ASSUME NEW p \in Seq(Nat), NEW q \in Seq(Nat), NEW r \in Seq(Nat)
  PROVE  (p \o q) \o r = p \o (q \o r)
  OBVIOUS

LEMMA FrameType ==
  ASSUME NEW m \in Text, NEW f, Frame(m, f)
  PROVE  f \in Seq(Nat)
  BY FrameCarries DEF Carries

\* The bytes y after all that was on the wire, where nothing ended it.
LEMMA Prolonged ==
  ASSUME NEW ts \in Seq(Text), NEW b, NEW y \in Seq(Nat), NEW p \in [0..Len(ts) -> Seq(Nat)],
         Chain(p, ts, FALSE, b)
  PROVE  /\ [i \in 0..Len(ts) |-> p[i] \o y] \in [0..Len(ts) -> Seq(Nat)]
         /\ p[0] \o y = b \o y /\ p[Len(ts)] \o y = y
         /\ \A i \in 1..Len(ts) : \E f : Frame(ts[i], f) /\ p[i - 1] \o y = f \o (p[i] \o y)
<1>1. Len(ts) \in Nat
  OBVIOUS
<1>2. \A i \in 0..Len(ts) : p[i] \in Seq(Nat)
  OBVIOUS
<1>3. \A i \in 0..Len(ts) : p[i] \o y \in Seq(Nat)
  BY <1>2
<1>4. p[0] = b /\ p[Len(ts)] = <<>>
  BY Zenon DEF Chain, Ending
<1>5. <<>> \o y = y
  OBVIOUS
<1>6. ASSUME NEW i \in 1..Len(ts)
      PROVE \E f : Frame(ts[i], f) /\ p[i - 1] \o y = f \o (p[i] \o y)
  <2>1. PICK f : Frame(ts[i], f) /\ p[i - 1] = f \o p[i]
    BY Zenon DEF Chain
  <2>2. i \in 0..Len(ts) /\ ts[i] \in Text
    BY <1>1, Facts
  <2>3. f \in Seq(Nat) /\ p[i] \in Seq(Nat)
    <3>1. f \in Seq(Nat)
      BY <2>1, <2>2, FrameType, Zenon
    <3> QED
      BY <1>2, <2>2, <3>1, Zenon
  <2>4. (f \o p[i]) \o y = f \o (p[i] \o y)
    BY <2>3, JoinBytes, Zenon
  <2> QED
    BY <2>1, <2>4, Zenon
<1>7. [i \in 0..Len(ts) |-> p[i] \o y] \in [0..Len(ts) -> Seq(Nat)]
  BY <1>3, Zenon
<1> QED
  BY <1>4, <1>5, <1>6, <1>7, Zenon

LEMMA StreamClose ==
  ASSUME NEW ts \in Seq(Text), NEW b, Stream(ts, FALSE, b)
  PROVE  Stream(ts, TRUE, b \o CloseFrame)
<1>1. PICK p \in [0..Len(ts) -> Seq(Nat)] : Chain(p, ts, FALSE, b)
  BY Zenon DEF Stream
<1> DEFINE k == Len(ts)
           y == CloseFrame
           q == [i \in 0..k |-> p[i] \o y]
<1>2. k \in Nat /\ 0 \in 0..k /\ k \in 0..k
      /\ \A i \in 1..k : i \in 0..k /\ i - 1 \in 0..k
  OBVIOUS
<1>3. /\ q \in [0..k -> Seq(Nat)]
      /\ p[0] \o y = b \o y /\ p[k] \o y = y
      /\ \A i \in 1..k : \E f : Frame(ts[i], f) /\ p[i - 1] \o y = f \o (p[i] \o y)
  <2>1. y \in Seq(Nat)
    BY CloseRead
  <2> HIDE DEF y
  <2> QED
    BY <1>1, <2>1, Prolonged, Zenon
<1>4. \A i \in 0..k : q[i] = p[i] \o y
  OBVIOUS
<1> HIDE DEF q, k, y
<1>5. q[0] = b \o y /\ q[k] = y
  BY <1>2, <1>3, <1>4, Zenon
<1>6. \A i \in 1..k : \E f : Frame(ts[i], f) /\ q[i - 1] = f \o q[i]
  BY <1>2, <1>3, <1>4, Zenon
<1>7. Chain(q, ts, TRUE, b \o y)
  BY <1>5, <1>6, Zenon DEF Chain, Ending, k, y
<1> QED
  BY <1>3, <1>7, Zenon DEF Stream, k, y

LEMMA OneMore ==
  ASSUME NEW ts \in Seq(Text), NEW m \in Text
  PROVE  /\ Append(ts, m) \in Seq(Text) /\ Len(Append(ts, m)) = Len(ts) + 1
         /\ \A i \in 1..Len(ts) : Append(ts, m)[i] = ts[i]
         /\ Append(ts, m)[Len(ts) + 1] = m
  OBVIOUS

LEMMA StreamAppend ==
  ASSUME NEW ts \in Seq(Text), NEW b, Stream(ts, FALSE, b), NEW m \in Text, NEW f, Frame(m, f)
  PROVE  Stream(Append(ts, m), FALSE, b \o f)
<1>1. PICK p \in [0..Len(ts) -> Seq(Nat)] : Chain(p, ts, FALSE, b)
  BY Zenon DEF Stream
<1> DEFINE k == Len(ts)
           us == Append(ts, m)
           r == [i \in 0..k |-> p[i] \o f]
           q == [i \in 0..(k + 1) |-> IF i = k + 1 THEN <<>> ELSE r[i]]
<1>2. /\ k \in Nat /\ 0 \in 0..k /\ k \in 0..k /\ k + 1 \in 0..(k + 1)
      /\ \A i \in 0..k : i \in 0..(k + 1) /\ i # k + 1
      /\ \A i \in 1..k : i \in 0..k /\ i - 1 \in 0..k
      /\ \A i \in 0..(k + 1) : i = k + 1 \/ i \in 0..k
      /\ \A i \in 1..(k + 1) : i = k + 1 \/ i \in 1..k
  OBVIOUS
<1>3. f \in Seq(Nat)
  BY FrameType
<1>4. /\ r \in [0..k -> Seq(Nat)]
      /\ p[0] \o f = b \o f /\ p[k] \o f = f
      /\ \A i \in 1..k : \E g : Frame(ts[i], g) /\ p[i - 1] \o f = g \o (p[i] \o f)
  BY <1>1, <1>3, Prolonged, Zenon
<1>5. \A i \in 0..k : r[i] = p[i] \o f
  OBVIOUS
<1>6. us \in Seq(Text) /\ Len(us) = k + 1 /\ us[k + 1] = m /\ \A i \in 1..k : us[i] = ts[i]
  BY OneMore
<1> HIDE DEF r, k, us
<1>7. <<>> \in Seq(Nat) /\ f \o <<>> = f
  BY <1>3
<1>8. q \in [0..(k + 1) -> Seq(Nat)]
  <2>1. ASSUME NEW i \in 0..(k + 1) PROVE (IF i = k + 1 THEN <<>> ELSE r[i]) \in Seq(Nat)
    <3>1. CASE i = k + 1
      BY <1>7, <3>1, Zenon
    <3>2. CASE i # k + 1
      <4>1. i \in 0..k
        BY <1>2, <3>2, Zenon
      <4> QED
        BY <1>4, <3>2, <4>1, Zenon
    <3> QED
      BY <3>1, <3>2, Zenon
  <2> QED
    BY <2>1, Zenon
<1>9. q[k + 1] = <<>> /\ \A i \in 0..k : q[i] = r[i]
  BY <1>2, Zenon
<1> HIDE DEF q
<1>10. q[0] = b \o f /\ q[k] = f
  BY <1>2, <1>4, <1>5, <1>9, Zenon
<1>11. ASSUME NEW i \in 1..(k + 1) PROVE \E g : Frame(us[i], g) /\ q[i - 1] = g \o q[i]
  <2>1. CASE i = k + 1
    <3>1. i - 1 = k
      BY <1>2, <2>1
    <3>2. Frame(us[i], f) /\ q[i - 1] = f \o q[i]
      BY <1>6, <1>7, <1>9, <1>10, <2>1, <3>1, Zenon
    <3> QED
      BY <3>2
  <2>2. CASE i \in 1..k
    <3>1. PICK g : Frame(ts[i], g) /\ p[i - 1] \o f = g \o (p[i] \o f)
      BY <1>4, <2>2, Zenon
    <3>2. q[i] = p[i] \o f /\ q[i - 1] = p[i - 1] \o f /\ us[i] = ts[i]
      BY <1>2, <1>5, <1>6, <1>9, <2>2, Zenon
    <3>3. Frame(us[i], g) /\ q[i - 1] = g \o q[i]
      BY <3>1, <3>2, Zenon
    <3> QED
      BY <3>3
  <2> QED
    BY <1>2, <2>1, <2>2, Zenon
<1>12. Ending(FALSE) = <<>>
  BY DEF Ending
<1>13. Chain(q, us, FALSE, b \o f)
  BY <1>6, <1>9, <1>10, <1>11, <1>12, Zenon DEF Chain
<1>14. Stream(us, FALSE, b \o f)
  BY <1>6, <1>8, <1>13, Zenon DEF Stream
<1> QED
  BY <1>14 DEF us

-----------------------------------------------------------------------------
(* The loop of onData: however much of the stream has arrived, it takes the *)
(* messages in order, and a close frame after the last. *)

\* s is a stage in the decoding of a stream of the messages ts, ended by a close frame
\* if c, of which the bytes w have not arrived.
Left(us, d, s, ts, c, w) ==
  /\ us \in Seq(Text) /\ d \in BOOLEAN
  /\ ts = s.texts \o us
  /\ Stream(us, d, s.rest \o w)
  /\ d => c
  /\ c => (d \/ s.close)
  /\ s.close => c /\ us = <<>> /\ ~d
Stages   == [texts : Seq(Text), close : BOOLEAN, rest : Seq(Nat)]
Stage(s, ts, c, w) == s \in Stages /\ \E us, d : Left(us, d, s, ts, c, w)

LEMMA StageParts ==
  ASSUME NEW s \in Stages
  PROVE  s.texts \in Seq(Text) /\ s.close \in BOOLEAN /\ s.rest \in Seq(Nat)
  BY DEF Stages

LEMMA MakeStage ==
  ASSUME NEW x \in Seq(Text), NEW y \in BOOLEAN, NEW z \in Seq(Nat)
  PROVE  /\ [texts |-> x, close |-> y, rest |-> z] \in Stages
         /\ [texts |-> x, close |-> y, rest |-> z].texts = x
         /\ [texts |-> x, close |-> y, rest |-> z].close = y
         /\ [texts |-> x, close |-> y, rest |-> z].rest = z
  BY DEF Stages

\* A whole frame is at the head of r; the stream that r begins starts with the frame f.
Whole(r, w, f, z) ==
  /\ r \in Seq(Nat) /\ w \in Seq(Nat) /\ f \in Seq(Nat) /\ z \in Seq(Nat)
  /\ r \o w = f \o z /\ IsWhole(r)
  /\ Len(f) >= 2 /\ Len(f) >= 2 + ExtraLen(f) /\ FrameLen(f) = Len(f)

LEMMA WholeFrame ==
  ASSUME NEW r, NEW w, NEW f, NEW z, Whole(r, w, f, z)
  PROVE  /\ Agree(r, f) /\ Len(r) >= Len(f) /\ Len(r) >= 2 /\ FrameLen(r) = Len(f)
         /\ SubSeq(r, Len(f) + 1, Len(r)) \in Seq(Nat)
         /\ SubSeq(r, Len(f) + 1, Len(r)) \o w = z
<1>0. /\ r \in Seq(Nat) /\ w \in Seq(Nat) /\ f \in Seq(Nat) /\ z \in Seq(Nat)
      /\ r \o w = f \o z /\ IsWhole(r)
      /\ Len(f) >= 2 /\ Len(f) >= 2 + ExtraLen(f) /\ FrameLen(f) = Len(f)
  BY Zenon DEF Whole
<1>1. Joins(r \o w, r, w) /\ Joins(r \o w, f, z)
  <2>1. Joins(r \o w, r, w)
    BY <1>0, Join, Zenon
  <2>2. Joins(f \o z, f, z)
    BY <1>0, Join, Zenon
  <2> QED
    BY <1>0, <2>1, <2>2, Zenon
<1>2. Agree(r, f)
  BY <1>1, JoinAgree, Zenon
<1>3. Len(r) >= 2 /\ Len(r) >= 2 + ExtraLen(r) /\ Len(r) >= FrameLen(r)
  BY <1>0, Zenon DEF IsWhole
<1>4. FrameLen(r) = FrameLen(f)
  BY <1>0, <1>2, <1>3, SameLength, Zenon
<1>5. Len(r) >= Len(f)
  BY <1>0, <1>3, <1>4, Zenon
<1>6. Len(f) <= Len(r) /\ Len(r) <= Len(r) /\ Len(r) \in Nat /\ Len(f) \in Nat
  <2>1. Len(r) \in Nat /\ Len(f) \in Nat
    BY <1>0
  <2> QED
    BY <1>5, <2>1
<1>7. SubSeq(r, Len(f) + 1, Len(r)) \o w = z
  BY <1>0, <1>1, <1>6, JoinRest, Zenon
<1>8. SubSeq(r, Len(f) + 1, Len(r)) \in Seq(Nat)
  BY <1>0, <1>6, Part, Zenon
<1> QED
  BY <1>0, <1>2, <1>3, <1>4, <1>5, <1>7, <1>8, Zenon

LEMMA TailJoin ==
  ASSUME NEW S, NEW x \in Seq(S), NEW us \in Seq(S), us # <<>>
  PROVE  /\ Append(x, us[1]) \in Seq(S) /\ us[1] \in S /\ Tail(us) \in Seq(S)
         /\ Append(x, us[1]) \o Tail(us) = x \o us
<1>1. us[1] \in S /\ Tail(us) \in Seq(S) /\ Append(x, us[1]) \in Seq(S)
  OBVIOUS
<1>2. <<us[1]>> \o Tail(us) = us /\ <<us[1]>> \in Seq(S)
  OBVIOUS
<1>3. Append(x, us[1]) = x \o <<us[1]>>
  BY <1>1
<1> DEFINE a == <<us[1]>>
           t == Tail(us)
<1>4. (x \o a) \o t = x \o (a \o t)
  <2>1. a \in Seq(S) /\ t \in Seq(S)
    BY <1>1, <1>2
  <2> HIDE DEF a, t
  <2> QED
    BY <2>1, JoinTwice
<1> QED
  BY <1>1, <1>2, <1>3, <1>4, Zenon

LEMMA PassMessage ==
  ASSUME NEW ts, NEW c, NEW w \in Seq(Nat), NEW s \in Stages, NEW us, NEW d,
         Left(us, d, s, ts, c, w), IsWhole(s.rest), us # <<>>
  PROVE  Stage(Pass(s), ts, c, w)
<1>1. /\ us \in Seq(Text) /\ d \in BOOLEAN /\ ts = s.texts \o us
      /\ Stream(us, d, s.rest \o w) /\ (d => c) /\ (c => (d \/ s.close)) /\ ~s.close
  BY Zenon DEF Left
<1>2. PICK f, z : /\ Frame(us[1], f) /\ z \in Seq(Nat) /\ s.rest \o w = f \o z
                  /\ Stream(Tail(us), d, z)
  BY <1>1, StreamHead, Zenon
<1>3. us[1] \in Text /\ Tail(us) \in Seq(Text) /\ Append(s.texts, us[1]) \in Seq(Text)
      /\ Append(s.texts, us[1]) \o Tail(us) = s.texts \o us
  BY <1>1, StageParts, TailJoin, Zenon
<1>4. Carries(f, us[1])
  BY <1>2, <1>3, FrameCarries, Zenon
<1>5. /\ f \in Seq(Nat) /\ Len(f) \in Nat /\ Len(f) >= 2 /\ Len(f) >= 2 + ExtraLen(f)
      /\ FrameLen(f) = Len(f) /\ Len(f) = FrameLen(f)
      /\ Opcode(f) = TextOp /\ Payload(f) = us[1]
  BY <1>4, Zenon DEF Carries
<1>6. s.rest \in Seq(Nat) /\ s.texts \in Seq(Text) /\ s.close \in BOOLEAN
  BY StageParts, Zenon
<1> DEFINE r == s.rest
           x == SubSeq(r, Len(f) + 1, Len(r))
<1>7. /\ Agree(r, f) /\ Len(r) >= Len(f) /\ Len(r) >= 2 /\ FrameLen(r) = Len(f)
      /\ x \in Seq(Nat) /\ x \o w = z
  <2>1. r \in Seq(Nat) /\ r \o w = f \o z /\ IsWhole(r)
    BY <1>2, <1>6, Zenon
  <2>2. Whole(r, w, f, z)
    BY <1>2, <1>5, <2>1, Zenon DEF Whole
  <2> HIDE DEF r
  <2> QED
    BY <2>2, WholeFrame, Zenon
<1>8. Opcode(r) = TextOp /\ Payload(r) = us[1]
  <2>1. Opcode(r) = Opcode(f)
    BY <1>5, <1>6, <1>7, SameHead, Zenon
  <2>2. Payload(r) = Payload(f)
    BY <1>5, <1>6, <1>7, SamePayload, Zenon
  <2> QED
    BY <1>5, <2>1, <2>2, Zenon
<1>9. TextOp \in {TextOp, BinaryOp} /\ TextOp # CloseOp
  BY DEF TextOp, BinaryOp, CloseOp
<1> DEFINE n == [texts |-> Append(s.texts, us[1]), close |-> FALSE, rest |-> x]
<1>10. Pass(s) = n
  <2>1. (s.close \/ TextOp = CloseOp) = FALSE
    BY <1>1, <1>9
  <2> QED
    BY <1>7, <1>8, <1>9, <2>1, Zenon DEF Pass
<1>11. n \in Stages /\ n.texts = Append(s.texts, us[1]) /\ n.close = FALSE /\ n.rest = x
  BY <1>3, <1>7, MakeStage, Zenon
<1> HIDE DEF n, x
<1>12. Left(Tail(us), d, n, ts, c, w)
  BY <1>1, <1>2, <1>3, <1>7, <1>11, Zenon DEF Left
<1> QED
  BY <1>10, <1>11, <1>12, Zenon DEF Stage

LEMMA PassClose ==
  ASSUME NEW ts, NEW c, NEW w \in Seq(Nat), NEW s \in Stages, NEW us, NEW d,
         Left(us, d, s, ts, c, w), IsWhole(s.rest), us = <<>>
  PROVE  Stage(Pass(s), ts, c, w)
<1>1. /\ us \in Seq(Text) /\ d \in BOOLEAN /\ ts = s.texts \o us
      /\ Stream(<<>>, d, s.rest \o w) /\ (d => c)
  BY Zenon DEF Left
<1>2. s.rest \in Seq(Nat) /\ s.texts \in Seq(Text) /\ s.close \in BOOLEAN
  BY StageParts, Zenon
<1> DEFINE r == s.rest
           f == CloseFrame
<1>3. r \o w = Ending(d)
  BY <1>1, StreamEmpty, Zenon
<1>4. Len(r) >= 2 /\ Len(r) \in Nat
  <2>1. Len(r) >= 2
    BY Zenon DEF IsWhole
  <2> QED
    BY <1>2, <2>1
<1>5. d
  <2> SUFFICES ASSUME ~d PROVE FALSE
    OBVIOUS
  <2>1. r \o w = <<>>
    BY <1>3, Zenon DEF Ending
  <2> HIDE DEF r
  <2>2. Joins(r \o w, r, w)
    BY <1>2, Join, Zenon DEF r
  <2>3. Len(<<>>) = Len(r) + Len(w) /\ Len(w) \in Nat
    BY <2>1, <2>2, Zenon DEF Joins
  <2>4. Len(<<>>) = 0
    OBVIOUS
  <2> QED
    BY <1>4, <2>3, <2>4
<1>6. <<>> \in Seq(Nat) /\ f \o <<>> = f
  BY CloseRead
<1>7. r \o w = f \o <<>>
  BY <1>3, <1>5, <1>6, Zenon DEF Ending
<1>8. /\ f \in Seq(Nat) /\ Len(f) >= 2 /\ Len(f) >= 2 + ExtraLen(f)
      /\ FrameLen(f) = Len(f) /\ Opcode(f) = CloseOp
  BY CloseRead
<1> DEFINE x == SubSeq(r, Len(f) + 1, Len(r))
<1>9. /\ Agree(r, f) /\ Len(r) >= Len(f) /\ Len(r) >= 2 /\ FrameLen(r) = Len(f)
      /\ x \in Seq(Nat) /\ x \o w = <<>>
  <2>1. r \in Seq(Nat) /\ r \o w = f \o <<>> /\ IsWhole(r)
    BY <1>2, <1>7, Zenon
  <2>2. Whole(r, w, f, <<>>)
    BY <1>6, <1>8, <2>1, Zenon DEF Whole
  <2> HIDE DEF r, f
  <2> QED
    BY <2>2, WholeFrame, Zenon
<1>10. Opcode(r) = CloseOp
  BY <1>2, <1>8, <1>9, SameHead, Zenon
<1>11. CloseOp \notin {TextOp, BinaryOp}
  BY DEF TextOp, BinaryOp, CloseOp
<1> DEFINE n == [texts |-> s.texts, close |-> TRUE, rest |-> x]
<1>12. Pass(s) = n
  <2>1. (s.close \/ CloseOp = CloseOp) = TRUE
    OBVIOUS
  <2> QED
    BY <1>9, <1>10, <1>11, <2>1, Zenon DEF Pass
<1>13. n \in Stages /\ n.texts = s.texts /\ n.close = TRUE /\ n.rest = x
  BY <1>2, <1>9, MakeStage, Zenon
<1>14. Stream(<<>>, FALSE, x \o w)
  <2>1. Ending(FALSE) = <<>>
    BY Zenon DEF Ending
  <2> QED
    BY <1>9, <2>1, StreamEnding, Zenon
<1> HIDE DEF n, x
<1>15. Left(<<>>, FALSE, n, ts, c, w)
  BY <1>1, <1>5, <1>13, <1>14, Zenon DEF Left
<1> QED
  BY <1>12, <1>13, <1>15, Zenon DEF Stage

LEMMA PassStage ==
  ASSUME NEW ts, NEW c, NEW w \in Seq(Nat), NEW s, Stage(s, ts, c, w)
  PROVE  Stage(Pass(s), ts, c, w)
<1>1. CASE ~IsWhole(s.rest)
  BY <1>1, Zenon DEF Pass
<1>2. CASE IsWhole(s.rest)
  <2>1. PICK us, d : Left(us, d, s, ts, c, w)
    BY Zenon DEF Stage
  <2>2. s \in Stages
    BY Zenon DEF Stage
  <2>3. us # <<>> => Stage(Pass(s), ts, c, w)
    BY <1>2, <2>1, <2>2, PassMessage, Zenon
  <2>4. us = <<>> => Stage(Pass(s), ts, c, w)
    BY <1>2, <2>1, <2>2, PassClose, Zenon
  <2> QED
    BY <2>3, <2>4
<1> QED
  BY <1>1, <1>2

\* Whatever part of the stream b is, the loop takes the next messages out of it.
LEMMA DrainStage ==
  ASSUME NEW ts \in Seq(Text), NEW c \in BOOLEAN, NEW b \in Seq(Nat), NEW w \in Seq(Nat),
         Stream(ts, c, b \o w)
  PROVE  Stage(Drain(b), ts, c, w)
<1> DEFINE V == {s \in Stages : Stage(s, ts, c, w)}
           Eq(q) == q = [i \in Nat |-> IF i = 0 THEN Start(b) ELSE Pass(q[i - 1])]
           q0 == CHOOSE q : Eq(q)
           step == [i \in Nat |-> [v \in V |-> Pass(v)]]
<1>1. Start(b) \in V
  <2>1. <<>> \in Seq(Text) /\ <<>> \o ts = ts
    OBVIOUS
  <2>2. Start(b) \in Stages /\ Start(b).texts = <<>> /\ Start(b).close = FALSE /\ Start(b).rest = b
    BY <2>1, MakeStage, Zenon DEF Start
  <2>3. Left(ts, c, Start(b), ts, c, w)
    BY <2>1, <2>2, Zenon DEF Left
  <2> QED
    BY <2>2, <2>3, Zenon DEF Stage
<1>2. \A v \in V : Pass(v) \in V
  BY PassStage, Zenon DEF Stage
<1>0. \A v \in V : Stage(v, ts, c, w)
  OBVIOUS
<1> HIDE DEF V
<1>3. step \in [Nat -> [V -> V]]
  BY <1>2, Zenon
<1>4. \A i \in Nat, v \in V : step[i][v] = Pass(v)
  BY Zenon
<1> HIDE DEF step
<1>5. \E q : Eq(q)
  <2>1. PICK g \in [Nat -> V] : Iterates(g, Start(b), step)
    BY <1>1, <1>3, Recursion, Zenon
  <2>2. ASSUME NEW i \in Nat PROVE g[i] = IF i = 0 THEN Start(b) ELSE Pass(g[i - 1])
    <3>1. CASE i = 0
      BY <2>1, <3>1, Zenon DEF Iterates
    <3>2. CASE i # 0
      <4>1. i - 1 \in Nat /\ (i - 1) + 1 = i
        BY <3>2
      <4>2. g[(i - 1) + 1] = step[i - 1][g[i - 1]]
        BY <2>1, <4>1, Zenon DEF Iterates
      <4>3. g[i - 1] \in V
        BY <2>1, <4>1, Zenon
      <4>4. g[i] = Pass(g[i - 1])
        BY <1>4, <4>1, <4>2, <4>3, Zenon
      <4> QED
        BY <3>2, <4>4, Zenon
    <3> QED
      BY <3>1, <3>2
  <2>3. Eq(g)
    BY <2>2, Zenon
  <2> QED
    BY <2>3
<1>6. Eq(q0)
  BY <1>5, Zenon
<1>7. Drain(b) = q0[Len(b)]
  BY Zenon DEF Drain
<1> HIDE DEF q0
<1>8. \A i \in Nat : q0[i] = IF i = 0 THEN Start(b) ELSE Pass(q0[i - 1])
  BY <1>6, Zenon
<1> HIDE DEF Eq
<1> DEFINE S == {i \in Nat : q0[i] \in V}
<1>9. 0 \in S
  BY <1>1, <1>8
<1>10. ASSUME NEW i \in Nat, i \in S PROVE i + 1 \in S
  <2>1. i + 1 \in Nat /\ i + 1 # 0 /\ (i + 1) - 1 = i /\ q0[i] \in V
    BY <1>10
  <2>2. q0[i + 1] = Pass(q0[i])
    BY <1>8, <2>1, Zenon
  <2> QED
    BY <1>2, <2>1, <2>2, Zenon
<1>11. Len(b) \in Nat
  OBVIOUS
<1>12. Nat \subseteq S
  <2> HIDE DEF S
  <2> QED
    BY <1>9, <1>10, Induct, Zenon
<1>13. q0[Len(b)] \in V
  BY <1>11, <1>12, Zenon
<1> QED
  BY <1>0, <1>7, <1>13, Zenon

-----------------------------------------------------------------------------
(* The invariant: what each end has still to hear is on its way to it. *)

LEMMA Peers ==
  ASSUME NEW e \in End
  PROVE  /\ Peer(e) \in End /\ Peer(e) # e /\ Peer(Peer(e)) = e
         /\ \A x \in End : x = e \/ x = Peer(e)
  BY DEF End, Peer

Types ==
  /\ medium \in {"ws", "mem"}
  /\ sent \in [End -> Seq(Text)] /\ got \in [End -> Seq(Text)]
  /\ quit \in [End -> BOOLEAN] /\ told \in [End -> BOOLEAN] /\ closed \in [End -> BOOLEAN]
  /\ broken \in BOOLEAN
  /\ wire \in [End -> Seq(Nat)] /\ buf \in [End -> Seq(Nat)]

\* What e has still to hear: the messages ts and a close frame if c are in its buffer, on
\* the wire, or lost with the connection (the bytes l).
HeldBy(e, ts, c, l) ==
  /\ ts \in Seq(Text) /\ c \in BOOLEAN /\ l \in Seq(Nat)
  /\ sent[Peer(e)] = got[e] \o ts
  /\ Stream(ts, c, (buf[e] \o wire[e]) \o l)
  /\ l # <<>> => broken
  /\ c => closed[Peer(e)] /\ (quit[Peer(e)] \/ closed[e])
Held(e) == \E ts, c, l : HeldBy(e, ts, c, l)

\* Nothing travels before the connection is open at both ends.
Quiet ==
  phase # "open" => /\ \A e \in End : wire[e] = <<>>
                    /\ got["server"] = <<>> /\ ~broken

WsHolds == medium = "ws" => tasks = <<>> /\ Quiet /\ \A e \in End : Held(e)

LEMMA HeldStill ==
  ASSUME NEW e, Held(e), sent'[Peer(e)] = sent[Peer(e)], got'[e] = got[e],
         buf'[e] = buf[e], wire'[e] = wire[e], broken => broken',
         closed[Peer(e)] => closed'[Peer(e)], closed[e] => closed'[e],
         quit[Peer(e)] => quit'[Peer(e)]
  PROVE  Held(e)'
<1>1. PICK ts, c, l : HeldBy(e, ts, c, l)
  BY Zenon DEF Held
<1>2. HeldBy(e, ts, c, l)'
  BY <1>1, Zenon DEF HeldBy
<1> QED
  BY <1>2, Zenon DEF Held

\* The bytes f, written to a live connection or lost with a dead one.
Written(e, f) == wire'[e] = IF broken THEN wire[e] ELSE wire[e] \o f

Regroups(b, w, l, f) ==
  /\ ((b \o w) \o l) \o f = (b \o w) \o (l \o f)
  /\ ((b \o w) \o <<>>) \o f = (b \o (w \o f)) \o <<>>

LEMMA Writing ==
  ASSUME NEW b \in Seq(Nat), NEW w \in Seq(Nat), NEW l \in Seq(Nat), NEW f \in Seq(Nat)
  PROVE  /\ Regroups(b, w, l, f)
         /\ l \o f \in Seq(Nat) /\ <<>> \in Seq(Nat)
<1>1. b \o w \in Seq(Nat) /\ w \o f \in Seq(Nat) /\ l \o f \in Seq(Nat) /\ <<>> \in Seq(Nat)
  OBVIOUS
<1>2. ((b \o w) \o l) \o f = (b \o w) \o (l \o f)
  <2> DEFINE x == b \o w
  <2>1. x \in Seq(Nat)
    BY <1>1
  <2> HIDE DEF x
  <2>2. (x \o l) \o f = x \o (l \o f)
    BY <2>1, JoinBytes
  <2> QED
    BY <2>2 DEF x
<1>3. (b \o w) \o f = b \o (w \o f)
  BY JoinBytes, Zenon
<1>4. \A x \in Seq(Nat) : x \o <<>> = x
  OBVIOUS
<1>5. b \o (w \o f) \in Seq(Nat)
  BY <1>1
<1>6. (b \o w) \o <<>> = b \o w /\ (b \o (w \o f)) \o <<>> = b \o (w \o f)
  BY <1>1, <1>4, <1>5, Zenon
<1> QED
  BY <1>1, <1>2, <1>3, <1>6, Zenon DEF Regroups

\* The bytes f are added to what e will read, or lost.
LEMMA WrittenTo ==
  ASSUME NEW e \in End, Types, NEW f \in Seq(Nat), Written(e, f), buf'[e] = buf[e],
         NEW l \in Seq(Nat), l # <<>> => broken
  PROVE  \E k \in Seq(Nat) :
           /\ (buf'[e] \o wire'[e]) \o k = ((buf[e] \o wire[e]) \o l) \o f
           /\ k # <<>> => broken
<1> DEFINE b == buf[e]
           w == wire[e]
<1>1. b \in Seq(Nat) /\ w \in Seq(Nat)
  BY Zenon DEF Types
<1>4. b = buf[e] /\ w = wire[e]
  OBVIOUS
<1> HIDE DEF b, w
<1>2. CASE broken
  <2>1. wire'[e] = wire[e]
    BY <1>2, Zenon DEF Written
  <2>2. l \o f \in Seq(Nat) /\ Regroups(b, w, l, f)
    BY <1>1, Writing, Zenon
  <2> QED
    BY <1>2, <1>4, <2>1, <2>2, Zenon DEF Regroups
<1>3. CASE ~broken
  <2>1. wire'[e] = wire[e] \o f /\ l = <<>>
    BY <1>3, Zenon DEF Written
  <2>2. <<>> \in Seq(Nat) /\ Regroups(b, w, l, f)
    BY <1>1, Writing, Zenon
  <2> QED
    BY <1>4, <2>1, <2>2, Zenon DEF Regroups
<1> QED
  BY <1>2, <1>3

Prolongs(g, ts, m) == Append(g \o ts, m) = g \o Append(ts, m)

LEMMA SaidMore ==
  ASSUME NEW S, NEW g \in Seq(S), NEW ts \in Seq(S), NEW m \in S
  PROVE  Prolongs(g, ts, m) /\ Append(ts, m) \in Seq(S)
<1>1. Append(g \o ts, m) = g \o Append(ts, m) /\ Append(ts, m) \in Seq(S)
  OBVIOUS
<1> QED
  BY <1>1, Zenon DEF Prolongs

LEMMA HeldMessage ==
  ASSUME NEW e \in End, Types, Held(e), NEW m \in Text, NEW f, Frame(m, f), Written(e, f),
         ~closed[Peer(e)], sent'[Peer(e)] = Append(sent[Peer(e)], m),
         got'[e] = got[e], buf'[e] = buf[e], broken' = broken
  PROVE  Held(e)'
<1>1. PICK ts, c, l : HeldBy(e, ts, c, l)
  BY Zenon DEF Held
<1>2. /\ ts \in Seq(Text) /\ ~c /\ l \in Seq(Nat) /\ (l # <<>> => broken) /\ c = FALSE
      /\ sent[Peer(e)] = got[e] \o ts /\ Stream(ts, FALSE, (buf[e] \o wire[e]) \o l)
  <2>1. ts \in Seq(Text) /\ ~c /\ l \in Seq(Nat) /\ (l # <<>> => broken) /\ c \in BOOLEAN
        /\ sent[Peer(e)] = got[e] \o ts /\ Stream(ts, c, (buf[e] \o wire[e]) \o l)
    BY <1>1, Zenon DEF HeldBy
  <2>2. c = FALSE
    BY <2>1
  <2> QED
    BY <2>1, <2>2, Zenon
<1>3. f \in Seq(Nat)
  BY FrameType
<1>4. PICK k \in Seq(Nat) :
           /\ (buf'[e] \o wire'[e]) \o k = ((buf[e] \o wire[e]) \o l) \o f
           /\ k # <<>> => broken
  BY <1>2, <1>3, WrittenTo, Zenon
<1>5. Stream(Append(ts, m), FALSE, (buf'[e] \o wire'[e]) \o k)
  BY <1>2, <1>4, StreamAppend, Zenon
<1>6. sent'[Peer(e)] = got'[e] \o Append(ts, m) /\ Append(ts, m) \in Seq(Text)
  <2> DEFINE g == got[e]
  <2>1. g \in Seq(Text)
    BY Zenon DEF Types
  <2>2. sent[Peer(e)] = g \o ts
    BY <1>2
  <2>4. ts \in Seq(Text)
    BY <1>2
  <2> HIDE DEF g
  <2>3. Prolongs(g, ts, m) /\ Append(ts, m) \in Seq(Text)
    BY <2>1, <2>4, SaidMore, Zenon
  <2> QED
    BY <2>2, <2>3, Zenon DEF g, Prolongs
<1>7. HeldBy(e, Append(ts, m), FALSE, k)'
  BY <1>4, <1>5, <1>6, Zenon DEF HeldBy
<1> QED
  BY <1>7, Zenon DEF Held

LEMMA HeldClose ==
  ASSUME NEW e \in End, Types, Held(e), Written(e, CloseFrame),
         ~closed[Peer(e)], closed'[Peer(e)], quit'[Peer(e)] \/ closed'[e],
         sent'[Peer(e)] = sent[Peer(e)], got'[e] = got[e], buf'[e] = buf[e], broken' = broken
  PROVE  Held(e)'
<1>1. PICK ts, c, l : HeldBy(e, ts, c, l)
  BY Zenon DEF Held
<1>2. /\ ts \in Seq(Text) /\ ~c /\ l \in Seq(Nat) /\ (l # <<>> => broken)
      /\ sent[Peer(e)] = got[e] \o ts /\ Stream(ts, FALSE, (buf[e] \o wire[e]) \o l)
  <2>1. ts \in Seq(Text) /\ ~c /\ l \in Seq(Nat) /\ (l # <<>> => broken) /\ c \in BOOLEAN
        /\ sent[Peer(e)] = got[e] \o ts /\ Stream(ts, c, (buf[e] \o wire[e]) \o l)
    BY <1>1, Zenon DEF HeldBy
  <2>2. c = FALSE
    BY <2>1
  <2> QED
    BY <2>1, <2>2, Zenon
<1>3. CloseFrame \in Seq(Nat)
  BY CloseRead
<1>4. PICK k \in Seq(Nat) :
           /\ (buf'[e] \o wire'[e]) \o k = ((buf[e] \o wire[e]) \o l) \o CloseFrame
           /\ k # <<>> => broken
  BY <1>2, <1>3, WrittenTo, Zenon
<1>5. Stream(ts, TRUE, (buf'[e] \o wire'[e]) \o k)
  BY <1>2, <1>4, StreamClose, Zenon
<1>6. HeldBy(e, ts, TRUE, k)'
  BY <1>2, <1>4, <1>5, Zenon DEF HeldBy
<1> QED
  BY <1>6, Zenon DEF Held

LEMMA HeldLost ==
  ASSUME NEW e \in End, Types, Held(e), broken, broken', wire'[e] = <<>>, buf'[e] = buf[e],
         sent'[Peer(e)] = sent[Peer(e)], got'[e] = got[e],
         closed[Peer(e)] => closed'[Peer(e)], closed[e] => closed'[e],
         quit[Peer(e)] => quit'[Peer(e)]
  PROVE  Held(e)'
<1>1. PICK ts, c, l : HeldBy(e, ts, c, l)
  BY Zenon DEF Held
<1>2. l \in Seq(Nat) /\ Stream(ts, c, (buf[e] \o wire[e]) \o l)
  BY <1>1, Zenon DEF HeldBy
<1>3. buf[e] \in Seq(Nat) /\ wire[e] \in Seq(Nat)
  BY Zenon DEF Types
<1>4. wire[e] \o l \in Seq(Nat) /\ (buf[e] \o wire[e]) \o l = buf[e] \o (wire[e] \o l)
  <2>1. wire[e] \o l \in Seq(Nat)
    BY <1>2, <1>3, Writing, Zenon
  <2> QED
    BY <1>2, <1>3, <2>1, JoinBytes, Zenon
<1>5. buf[e] \o <<>> = buf[e]
  BY <1>3
<1>8. PICK k : k = wire[e] \o l
  OBVIOUS
<1>6. Stream(ts, c, (buf'[e] \o wire'[e]) \o k)
  <2>1. buf'[e] \o wire'[e] = buf[e]
    BY <1>5, Zenon
  <2> QED
    BY <1>2, <1>4, <1>8, <2>1, Zenon
<1>7. HeldBy(e, ts, c, k)'
  BY <1>1, <1>4, <1>6, <1>8, Zenon DEF HeldBy
<1> QED
  BY <1>7, Zenon DEF Held

Cut(x, p, q) == x = p \o q

LEMMA Cutting ==
  ASSUME NEW S, NEW x \in Seq(S), NEW n \in Nat, n <= Len(x)
  PROVE  /\ SubSeq(x, 1, n) \in Seq(S) /\ SubSeq(x, n + 1, Len(x)) \in Seq(S)
         /\ Cut(x, SubSeq(x, 1, n), SubSeq(x, n + 1, Len(x)))
<1> DEFINE p == SubSeq(x, 1, n)
           q == SubSeq(x, n + 1, Len(x))
<1>0. Len(x) \in Nat
  OBVIOUS
<1>1. p \in Seq(S) /\ Len(p) = n /\ \A i \in 1..n : p[i] = x[i]
  BY <1>0
<1>2. q \in Seq(S) /\ Len(q) = Len(x) - n /\ \A i \in 1..(Len(x) - n) : q[i] = x[n + i]
  BY <1>0, Part
<1> HIDE DEF p, q
<1>3. p \o q \in Seq(S) /\ Joins(p \o q, p, q)
  BY <1>1, <1>2, Join
<1>4. Len(p \o q) = Len(x)
  BY <1>0, <1>1, <1>2, <1>3 DEF Joins
<1>5. ASSUME NEW i \in 1..Len(x) PROVE (p \o q)[i] = x[i]
  <2>1. CASE i <= n
    <3>1. i \in 1..n /\ i \in 1..Len(p)
      BY <1>0, <1>1, <2>1
    <3> QED
      BY <1>1, <1>3, <3>1, Zenon DEF Joins
  <2>2. CASE ~(i <= n)
    <3>1. PICK j \in 1..(Len(x) - n) : n + j = i
      <4>1. i - n \in 1..(Len(x) - n) /\ n + (i - n) = i
        BY <1>0, <2>2
      <4> QED
        BY <4>1, Zenon
    <3>2. (p \o q)[Len(p) + j] = q[j] /\ q[j] = x[n + j]
      BY <1>2, <1>3, Zenon DEF Joins
    <3> QED
      BY <1>1, <3>1, <3>2, Zenon
  <2> QED
    BY <2>1, <2>2
<1>6. p \o q = x
  BY <1>3, <1>4, <1>5, Same
<1> QED
  BY <1>1, <1>2, <1>6, Zenon DEF Cut, p, q

Regrouped(b, p, q, l) == (b \o (p \o q)) \o l = (b \o p) \o (q \o l)

LEMMA Regrouping ==
  ASSUME NEW b \in Seq(Nat), NEW p \in Seq(Nat), NEW q \in Seq(Nat), NEW l \in Seq(Nat)
  PROVE  Regrouped(b, p, q, l) /\ b \o p \in Seq(Nat) /\ q \o l \in Seq(Nat)
<1>1. b \o p \in Seq(Nat) /\ q \o l \in Seq(Nat)
  OBVIOUS
<1>2. (b \o p) \o q = b \o (p \o q)
  OBVIOUS
<1>3. PICK x \in Seq(Nat) : x = b \o p
  BY <1>1
<1>4. (x \o q) \o l = x \o (q \o l)
  OBVIOUS
<1> QED
  BY <1>1, <1>2, <1>3, <1>4, Zenon DEF Regrouped

\* After the bytes of a delivery are decoded into r and the bytes w are left on the wire,
\* e has still to hear us, and a close frame if d.
Takes(e, r, w, us, d, l) ==
  /\ r \in Stages /\ w \in Seq(Nat) /\ us \in Seq(Text) /\ d \in BOOLEAN /\ l \in Seq(Nat)
  /\ sent[Peer(e)] = (got[e] \o r.texts) \o us
  /\ Stream(us, d, (r.rest \o w) \o l)
  /\ l # <<>> => broken
  /\ (d \/ r.close) => closed[Peer(e)] /\ (quit[Peer(e)] \/ closed[e])
  /\ r.close => us = <<>>

JoinedSame(g, x, y) == g \o (x \o y) = (g \o x) \o y

LEMMA JoinsSame ==
  ASSUME NEW S, NEW g \in Seq(S), NEW x \in Seq(S), NEW y \in Seq(S)
  PROVE  JoinedSame(g, x, y)
<1>1. g \o (x \o y) = (g \o x) \o y
  OBVIOUS
<1> QED
  BY <1>1, Zenon DEF JoinedSame

LEMMA Received ==
  ASSUME NEW e \in End, Types, Held(e), NEW n \in Nat, n <= Len(wire[e])
  PROVE  \E us, d, l : Takes(e, Drain(buf[e] \o SubSeq(wire[e], 1, n)),
                             SubSeq(wire[e], n + 1, Len(wire[e])), us, d, l)
<1>1. PICK ts, c, l : HeldBy(e, ts, c, l)
  BY Zenon DEF Held
<1>2. /\ ts \in Seq(Text) /\ c \in BOOLEAN /\ l \in Seq(Nat) /\ (l # <<>> => broken)
      /\ sent[Peer(e)] = got[e] \o ts /\ Stream(ts, c, (buf[e] \o wire[e]) \o l)
      /\ (c => closed[Peer(e)] /\ (quit[Peer(e)] \/ closed[e]))
  BY <1>1, Zenon DEF HeldBy
<1> DEFINE b == buf[e]
           p == SubSeq(wire[e], 1, n)
           w == SubSeq(wire[e], n + 1, Len(wire[e]))
           r == Drain(b \o p)
<1>3. b \in Seq(Nat) /\ wire[e] \in Seq(Nat) /\ got[e] \in Seq(Text)
  BY Zenon DEF Types
<1>4. p \in Seq(Nat) /\ w \in Seq(Nat) /\ Cut(wire[e], p, w)
  BY <1>3, Cutting, Zenon
<1>5. b = buf[e]
  OBVIOUS
<1> HIDE DEF b, p, w
<1>6. Regrouped(b, p, w, l) /\ b \o p \in Seq(Nat) /\ w \o l \in Seq(Nat)
  BY <1>2, <1>3, <1>4, Regrouping, Zenon
<1>7. Stream(ts, c, (b \o p) \o (w \o l))
  BY <1>2, <1>4, <1>5, <1>6, Zenon DEF Cut, Regrouped
<1>8. Stage(r, ts, c, w \o l)
  BY <1>2, <1>6, <1>7, DrainStage, Zenon
<1> HIDE DEF r
<1>9. r \in Stages
  BY <1>8, Zenon DEF Stage
<1>10. PICK us, d : Left(us, d, r, ts, c, w \o l)
  BY <1>8, Zenon DEF Stage
<1>11. /\ us \in Seq(Text) /\ d \in BOOLEAN /\ ts = r.texts \o us
       /\ Stream(us, d, r.rest \o (w \o l)) /\ (d => c) /\ (r.close => c /\ us = <<>>)
  BY <1>10, Zenon DEF Left
<1>12. r.texts \in Seq(Text) /\ r.rest \in Seq(Nat)
  BY <1>9, StageParts, Zenon
<1>13. JoinedSame(got[e], r.texts, us)
  BY <1>3, <1>11, <1>12, JoinsSame, Zenon
<1>14. JoinedSame(r.rest, w, l)
  BY <1>2, <1>4, <1>12, JoinsSame, Zenon
<1>15. sent[Peer(e)] = (got[e] \o r.texts) \o us
  BY <1>2, <1>11, <1>13, Zenon DEF JoinedSame
<1>16. Stream(us, d, (r.rest \o w) \o l)
  BY <1>11, <1>14, Zenon DEF JoinedSame
<1>17. Takes(e, r, w, us, d, l)
  BY <1>2, <1>4, <1>9, <1>11, <1>15, <1>16, Zenon DEF Takes
<1> QED
  BY <1>17, Zenon DEF r, w, p, b

LEMMA HeldData ==
  ASSUME NEW e, NEW r, NEW w, NEW us, NEW d, NEW l, Takes(e, r, w, us, d, l),
         sent'[Peer(e)] = sent[Peer(e)], got'[e] = got[e] \o r.texts,
         buf'[e] = r.rest, wire'[e] = w, broken => broken',
         closed[Peer(e)] => closed'[Peer(e)], closed[e] => closed'[e],
         quit[Peer(e)] => quit'[Peer(e)]
  PROVE  Held(e)'
<1>1. HeldBy(e, us, d, l)'
  BY Zenon DEF HeldBy, Takes
<1> QED
  BY <1>1, Zenon DEF Held

-----------------------------------------------------------------------------
(* Steps of the channel that Transport promises. *)

Step == [Promise!Next]_(Promise!vars)

LEMMA PromiseEnds ==
  /\ Promise!End = End
  /\ \A e : Promise!Peer(e) = Peer(e)
  BY DEF Promise!End, End, Promise!Peer, Peer

LEMMA StepSend ==
  ASSUME NEW e \in End, NEW m \in Text, ~quit[e], sent' = [sent EXCEPT ![e] = Append(@, m)],
         got' = got, quit' = quit, told' = told, broken' = broken
  PROVE  Step
<1>1. Promise!Send(e, m)
  BY DEF Promise!Send
<1>2. e \in Promise!End
  BY PromiseEnds
<1>3. Promise!Next
  BY <1>1, <1>2, Zenon DEF Promise!Next
<1> QED
  BY <1>3, Zenon DEF Step

LEMMA StepClose ==
  ASSUME NEW e \in End, ~quit[e], quit' = [quit EXCEPT ![e] = TRUE],
         told' = told \/ told' = [told EXCEPT ![e] = TRUE],
         sent' = sent, got' = got, broken' = broken
  PROVE  Step
<1>1. Promise!Close(e)
  BY DEF Promise!Close
<1>2. e \in Promise!End
  BY PromiseEnds
<1>3. Promise!Next
  BY <1>1, <1>2, Zenon DEF Promise!Next
<1> QED
  BY <1>3, Zenon DEF Step

LEMMA StepTell ==
  ASSUME NEW e \in End, told' = [told EXCEPT ![e] = TRUE],
         \/ (quit[e] \/ broken) /\ got' = got
         \/ quit[Peer(e)] /\ got' = [got EXCEPT ![e] = sent[Peer(e)]],
         sent' = sent, quit' = quit, broken' = broken
  PROVE  Step
<1>1. Promise!Tell(e)
  BY PromiseEnds DEF Promise!Tell
<1>2. e \in Promise!End
  BY PromiseEnds
<1>3. Promise!Next
  BY <1>1, <1>2, Zenon DEF Promise!Next
<1> QED
  BY <1>3, Zenon DEF Step

LEMMA StepBreak ==
  ASSUME broken' = TRUE, sent' = sent, got' = got, quit' = quit, told' = told
  PROVE  Step
<1>1. Promise!Break
  BY DEF Promise!Break
<1>2. Promise!Next
  BY <1>1, Zenon DEF Promise!Next
<1> QED
  BY <1>2, Zenon DEF Step

LEMMA StepNothing ==
  ASSUME sent' = sent, got' = got, quit' = quit, told' = told, broken' = broken
  PROVE  Step
<1>1. UNCHANGED Promise!vars
  BY DEF Promise!vars
<1> QED
  BY <1>1, Zenon DEF Step

\* g grown by x is the first messages of s.
Initial(g, x, s) ==
  \/ x = <<>>
  \/ \E n \in (Len(g) + 1)..Len(s) : g \o x = SubSeq(s, 1, n)

LEMMA Prefix ==
  ASSUME NEW S, NEW g \in Seq(S), NEW x \in Seq(S), NEW y \in Seq(S)
  PROVE  Initial(g, x, (g \o x) \o y)
<1>1. CASE x = <<>>
  BY <1>1, Zenon DEF Initial
<1>2. CASE x # <<>>
  <2>0. PICK gx \in Seq(S) : gx = g \o x
    <3>1. g \o x \in Seq(S)
      OBVIOUS
    <3> QED
      BY <3>1, Zenon
  <2>1. PICK n \in Nat : n = Len(gx)
    BY <2>0
  <2>2. Len(gx) >= Len(g) + 1 /\ Len(g) \in Nat
    BY <1>2, <2>0
  <2>3. Len(gx \o y) \in Nat /\ Len(gx) <= Len(gx \o y)
    BY Longer
  <2>4. n \in (Len(g) + 1)..Len(gx \o y)
    BY <2>1, <2>2, <2>3
  <2>5. SubSeq(gx \o y, 1, n) = gx
    <3>1. 0 \in Nat /\ 0 <= n /\ n <= Len(gx \o y) /\ gx \o y \in Seq(S) /\ 0 + 1 = 1
      BY <2>1, <2>3
    <3>2. /\ SubSeq(gx \o y, 1, n) \in Seq(S) /\ Len(SubSeq(gx \o y, 1, n)) = n
          /\ \A i \in 1..n : SubSeq(gx \o y, 1, n)[i] = (gx \o y)[i]
      BY <3>1
    <3>3. \A i \in 1..n : (gx \o y)[i] = gx[i]
      BY <2>1
    <3> QED
      BY <2>1, <3>2, <3>3, Same
  <2> QED
    BY <2>0, <2>4, <2>5, Zenon DEF Initial
<1> QED
  BY <1>1, <1>2

LEMMA StepHand ==
  ASSUME NEW e \in End, NEW x \in Seq(Text), NEW y \in Seq(Text), got \in [End -> Seq(Text)],
         sent[Peer(e)] = (got[e] \o x) \o y, got' = [got EXCEPT ![e] = @ \o x],
         sent' = sent, quit' = quit, told' = told, broken' = broken
  PROVE  Step
<1>1. Initial(got[e], x, sent[Peer(e)])
  BY Prefix
<1>2. CASE x = <<>>
  <2>1. got[e] \o x = got[e]
    BY <1>2
  <2>2. got' = got
    BY <2>1
  <2> QED
    BY <2>2, StepNothing, Zenon
<1>3. CASE \E n \in (Len(got[e]) + 1)..Len(sent[Peer(e)]) : got[e] \o x = SubSeq(sent[Peer(e)], 1, n)
  <2>1. Promise!Hand(e)
    BY <1>3, PromiseEnds, Zenon DEF Promise!Hand
  <2>2. e \in Promise!End
    BY PromiseEnds
  <2>3. Promise!Next
    BY <2>1, <2>2, Zenon DEF Promise!Next
  <2> QED
    BY <2>3, Zenon DEF Step
<1> QED
  BY <1>1, <1>2, <1>3, Zenon DEF Initial

-----------------------------------------------------------------------------
(* The actions of the WebSocket transport. *)

Asked == \A e \in End : quit[e] => closed[e]

LEMMA Quieted ==
  ASSUME Quiet, NEW e \in End, MaySpeak(e)
  PROVE  phase = "open"
  BY DEF Quiet, MaySpeak, HasSocket

\* An action of the WebSocket transport keeps its half of the invariant if it keeps Quiet
\* and what both ends have still to hear.
LEMMA WsKept ==
  ASSUME NEW e \in End, tasks' = <<>>, Quiet', Held(e)', Held(Peer(e))'
  PROVE  WsHolds'
<1>1. ASSUME NEW x \in End PROVE Held(x)'
  <2>1. x = e \/ x = Peer(e)
    BY Peers, Zenon
  <2> QED
    BY <2>1, Zenon
<1> QED
  BY <1>1, Zenon DEF WsHolds

LEMMA OpenQuiet ==
  ASSUME phase' = "open"
  PROVE  Quiet'
  BY DEF Quiet

LEMMA UpgradeStep ==
  ASSUME Types, Asked, WsHolds, Upgrade
  PROVE  Types' /\ Asked' /\ WsHolds' /\ Step
<1>1. /\ medium = "ws" /\ phase = "dialing" /\ phase' = "accepted" /\ tasks' = tasks
      /\ medium' = medium /\ sent' = sent /\ got' = got /\ quit' = quit /\ told' = told
      /\ broken' = broken /\ closed' = closed /\ wire' = wire /\ buf' = buf
  BY DEF Upgrade, promise
<1>2. tasks = <<>> /\ Quiet /\ \A e \in End : Held(e)
  BY <1>1, Zenon DEF WsHolds
<1>3. ASSUME NEW e \in End PROVE Held(e)'
  BY <1>1, <1>2, HeldStill, Zenon
<1>4. Quiet'
  BY <1>1, <1>2 DEF Quiet
<1>5. Types'
  BY <1>1, Zenon DEF Types
<1>6. Asked'
  BY <1>1, Zenon DEF Asked
<1>7. Step
  BY <1>1, StepNothing, Zenon
<1> QED
  BY <1>1, <1>2, <1>3, <1>4, <1>5, <1>6, <1>7, Zenon DEF WsHolds

LEMMA OpenedStep ==
  ASSUME Types, Asked, WsHolds, Opened
  PROVE  Types' /\ Asked' /\ WsHolds' /\ Step
<1>1. /\ medium = "ws" /\ phase = "accepted" /\ phase' = "open" /\ tasks' = tasks
      /\ medium' = medium /\ sent' = sent /\ got' = got /\ quit' = quit /\ told' = told
      /\ broken' = broken /\ closed' = closed /\ buf' = buf
  BY DEF Opened, promise
<1>2. tasks = <<>> /\ Quiet /\ \A e \in End : Held(e)
  BY <1>1, Zenon DEF WsHolds
<1>3. wire' = wire
  <2>1. PICK n \in 0..Len(wire["client"]) :
          wire' = [wire EXCEPT !["client"] = SubSeq(@, n + 1, Len(@))]
    BY DEF Opened
  <2>2. "client" \in End
    BY DEF End
  <2>3. wire["client"] = <<>>
    BY <1>1, <1>2, <2>2 DEF Quiet
  <2>4. Len(<<>>) = 0 /\ SubSeq(<<>>, 0 + 1, 0) = <<>>
    OBVIOUS
  <2>5. n = 0
    BY <2>1, <2>3, <2>4
  <2>6. wire \in [End -> Seq(Nat)]
    BY Zenon DEF Types
  <2>7. wire' = [wire EXCEPT !["client"] = <<>>]
    BY <2>1, <2>3, <2>4, <2>5, Zenon
  <2> QED
    BY <2>3, <2>6, <2>7
<1>4. ASSUME NEW e \in End PROVE Held(e)'
  BY <1>1, <1>2, <1>3, HeldStill, Zenon
<1>5. Quiet'
  BY <1>1, OpenQuiet, Zenon
<1>6. Types'
  BY <1>1, <1>3, Zenon DEF Types
<1>7. Asked'
  BY <1>1, Zenon DEF Asked
<1>8. Step
  BY <1>1, StepNothing, Zenon
<1> QED
  BY <1>1, <1>2, <1>4, <1>5, <1>6, <1>7, <1>8, Zenon DEF WsHolds

LEMMA BreakStep ==
  ASSUME Types, Asked, WsHolds, Break
  PROVE  Types' /\ Asked' /\ WsHolds' /\ Step
<1>1. /\ medium = "ws" /\ phase = "open" /\ phase' = "open" /\ tasks' = tasks
      /\ medium' = medium /\ sent' = sent /\ got' = got /\ quit' = quit /\ told' = told
      /\ broken' = TRUE /\ closed' = closed /\ wire' = wire /\ buf' = buf
  BY DEF Break
<1>2. tasks = <<>> /\ Quiet /\ \A e \in End : Held(e)
  BY <1>1, Zenon DEF WsHolds
<1>3. ASSUME NEW e \in End PROVE Held(e)'
  BY <1>1, <1>2, HeldStill, Zenon
<1>4. Quiet'
  BY <1>1, OpenQuiet, Zenon
<1>5. Types'
  BY <1>1, Zenon DEF Types
<1>6. Asked'
  BY <1>1, Zenon DEF Asked
<1>7. Step
  BY <1>1, StepBreak, Zenon
<1> QED
  BY <1>1, <1>2, <1>3, <1>4, <1>5, <1>6, <1>7, Zenon DEF WsHolds

LEMMA WsSendStep ==
  ASSUME Types, Asked, WsHolds, NEW e \in End, NEW m \in Text, WsSend(e, m)
  PROVE  Types' /\ Asked' /\ WsHolds' /\ Step
<1>1. /\ medium = "ws" /\ MaySpeak(e) /\ ~closed[e] /\ phase' = phase /\ tasks' = tasks
      /\ medium' = medium /\ sent' = [sent EXCEPT ![e] = Append(@, m)]
      /\ got' = got /\ quit' = quit /\ told' = told
      /\ broken' = broken /\ closed' = closed /\ buf' = buf
  BY DEF WsSend
<1>2. tasks = <<>> /\ Quiet /\ \A x \in End : Held(x)
  BY <1>1, Zenon DEF WsHolds
<1>3. Peer(e) \in End /\ Peer(e) # e /\ Peer(Peer(e)) = e
  BY Peers
<1>4. sent \in [End -> Seq(Text)] /\ wire \in [End -> Seq(Nat)]
  BY Zenon DEF Types
<1>5. /\ sent'[e] = Append(sent[e], m) /\ sent'[Peer(e)] = sent[Peer(e)]
      /\ sent' \in [End -> Seq(Text)]
  <2>1. Append(sent[e], m) \in Seq(Text)
    BY <1>4
  <2> QED
    BY <1>1, <1>3, <1>4, <2>1, Zenon
<1>6. PICK f : Frame(m, f) /\ wire' = Transmit(wire, Peer(e), f)
  <2>1. CASE e = "server" /\ wire' = Transmit(wire, "client", PlainFrame(m))
    BY <2>1 DEF Frame, Peer
  <2>2. CASE e = "client" /\ \E key \in Masks : wire' = Transmit(wire, "server", MaskedFrame(m, key))
    BY <2>2 DEF Frame, Peer
  <2> QED
    BY <2>1, <2>2 DEF WsSend
<1>7. f \in Seq(Nat)
  BY <1>6, FrameType
<1>8. Written(Peer(e), f) /\ wire'[e] = wire[e] /\ wire' \in [End -> Seq(Nat)]
  <2>1. wire[Peer(e)] \o f \in Seq(Nat)
    BY <1>3, <1>4, <1>7
  <2> QED
    BY <1>3, <1>4, <1>6, <2>1, Zenon DEF Written, Transmit
<1>9. Held(e)'
  BY <1>1, <1>2, <1>5, <1>8, HeldStill, Zenon
<1>10. Held(Peer(e))'
  BY <1>1, <1>2, <1>3, <1>5, <1>6, <1>8, HeldMessage, Zenon
<1>11. Quiet'
  BY <1>1, <1>2, Quieted, OpenQuiet, Zenon
<1>12. WsHolds'
  BY <1>1, <1>2, <1>9, <1>10, <1>11, WsKept, Zenon
<1>13. Types'
  BY <1>1, <1>5, <1>8, Zenon DEF Types
<1>14. Asked'
  BY <1>1, Zenon DEF Asked
<1>15. ~quit[e]
  BY <1>1, Zenon DEF Asked
<1>16. Step
  BY <1>1, <1>15, StepSend, Zenon
<1> QED
  BY <1>12, <1>13, <1>14, <1>16

LEMMA WsCloseStep ==
  ASSUME Types, Asked, WsHolds, NEW e \in End, WsClose(e)
  PROVE  Types' /\ Asked' /\ WsHolds' /\ Step
<1>1. /\ medium = "ws" /\ MaySpeak(e) /\ ~closed[e] /\ phase' = phase /\ tasks' = tasks
      /\ medium' = medium /\ sent' = sent /\ got' = got
      /\ told' = [told EXCEPT ![e] = TRUE] /\ closed' = [closed EXCEPT ![e] = TRUE]
      /\ quit' = [quit EXCEPT ![e] = @ \/ TRUE]
      /\ broken' = broken /\ buf' = buf /\ wire' = Transmit(wire, Peer(e), CloseFrame)
  BY DEF WsClose, CloseSocket
<1>2. tasks = <<>> /\ Quiet /\ \A x \in End : Held(x)
  BY <1>1, Zenon DEF WsHolds
<1>3. Peer(e) \in End /\ Peer(e) # e /\ Peer(Peer(e)) = e
  BY Peers
<1>4. /\ wire \in [End -> Seq(Nat)] /\ told \in [End -> BOOLEAN] /\ closed \in [End -> BOOLEAN]
      /\ quit \in [End -> BOOLEAN]
  BY Zenon DEF Types
<1>5. quit' = [quit EXCEPT ![e] = TRUE]
  BY <1>1, <1>4
<1>6. /\ quit' \in [End -> BOOLEAN] /\ closed' \in [End -> BOOLEAN] /\ told' \in [End -> BOOLEAN]
      /\ quit'[e] /\ closed'[e] /\ quit'[Peer(e)] = quit[Peer(e)] /\ closed'[Peer(e)] = closed[Peer(e)]
  BY <1>1, <1>3, <1>4, <1>5
<1>7. CloseFrame \in Seq(Nat)
  BY CloseRead
<1>8. Written(Peer(e), CloseFrame) /\ wire'[e] = wire[e] /\ wire' \in [End -> Seq(Nat)]
  <2>1. wire[Peer(e)] \o CloseFrame \in Seq(Nat)
    BY <1>3, <1>4, <1>7
  <2> QED
    BY <1>1, <1>3, <1>4, <2>1, Zenon DEF Written, Transmit
<1>9. Held(e)'
  <2>1. /\ sent'[Peer(e)] = sent[Peer(e)] /\ got'[e] = got[e] /\ buf'[e] = buf[e]
        /\ (broken => broken') /\ (closed[Peer(e)] => closed'[Peer(e)])
        /\ (closed[e] => closed'[e]) /\ (quit[Peer(e)] => quit'[Peer(e)])
    BY <1>1, <1>6, Zenon
  <2> QED
    BY <1>2, <1>8, <2>1, HeldStill, Zenon
<1>10. Held(Peer(e))'
  <2>1. /\ sent'[e] = sent[e] /\ got'[Peer(e)] = got[Peer(e)] /\ buf'[Peer(e)] = buf[Peer(e)]
    BY <1>1, Zenon
  <2> QED
    BY <1>1, <1>2, <1>3, <1>6, <1>8, <2>1, HeldClose, Zenon
<1>11. Quiet'
  BY <1>1, <1>2, Quieted, OpenQuiet, Zenon
<1>12. WsHolds'
  BY <1>1, <1>2, <1>9, <1>10, <1>11, WsKept, Zenon
<1>13. Types'
  BY <1>1, <1>6, <1>8, Zenon DEF Types
<1>14. Asked'
  <2>1. ASSUME NEW x \in End, quit'[x] PROVE closed'[x]
    <3>1. x = e \/ x = Peer(e)
      BY Peers, Zenon
    <3>2. quit[Peer(e)] => closed[Peer(e)]
      BY <1>3, Zenon DEF Asked
    <3> QED
      BY <1>6, <2>1, <3>1, <3>2, Zenon
  <2> QED
    BY <2>1, Zenon DEF Asked
<1>15. ~quit[e]
  BY <1>1, Zenon DEF Asked
<1>16. Step
  BY <1>1, <1>5, <1>15, StepClose, Zenon
<1> QED
  BY <1>12, <1>13, <1>14, <1>16

LEMMA LostStep ==
  ASSUME Types, Asked, WsHolds, NEW e \in End, Lost(e)
  PROVE  Types' /\ Asked' /\ WsHolds' /\ Step
<1>1. /\ broken /\ told' = [told EXCEPT ![e] = TRUE] /\ wire' = [wire EXCEPT ![e] = <<>>]
      /\ medium' = medium /\ sent' = sent /\ got' = got /\ quit' = quit /\ tasks' = tasks
      /\ broken' = broken /\ closed' = closed /\ phase' = phase /\ buf' = buf
  BY DEF Lost
<1>2. Peer(e) \in End /\ Peer(e) # e
  BY Peers
<1>3. wire \in [End -> Seq(Nat)] /\ told \in [End -> BOOLEAN] /\ <<>> \in Seq(Nat)
  BY DEF Types
<1>4. /\ wire'[e] = <<>> /\ wire'[Peer(e)] = wire[Peer(e)] /\ wire' \in [End -> Seq(Nat)]
      /\ told' \in [End -> BOOLEAN]
  BY <1>1, <1>2, <1>3, Zenon
<1>5. ASSUME medium = "ws" PROVE WsHolds'
  <2>1. tasks = <<>> /\ Quiet /\ \A x \in End : Held(x)
    BY <1>5, Zenon DEF WsHolds
  <2>2. Held(e)'
    BY <1>1, <1>4, <2>1, HeldLost, Zenon
  <2>3. Held(Peer(e))'
    BY <1>1, <1>2, <1>4, <2>1, HeldStill, Zenon
  <2>4. phase = "open"
    BY <1>1, <2>1, Zenon DEF Quiet
  <2>5. Quiet'
    BY <1>1, <2>4, OpenQuiet, Zenon
  <2> QED
    BY <1>1, <2>1, <2>2, <2>3, <2>5, WsKept, Zenon
<1>6. WsHolds'
  BY <1>1, <1>5, Zenon DEF WsHolds
<1>7. Types'
  BY <1>1, <1>4, Zenon DEF Types
<1>8. Asked'
  BY <1>1, Zenon DEF Asked
<1>9. Step
  BY <1>1, StepTell, Zenon
<1> QED
  BY <1>6, <1>7, <1>8, <1>9

LEMMA WsReceiveStep ==
  ASSUME Types, Asked, WsHolds, NEW e \in End, WsReceive(e)
  PROVE  Types' /\ Asked' /\ WsHolds' /\ Step
<1>0. PICK n \in Nat : n <= Len(wire[e]) /\ Data(e, n) /\ Readable(e)
  <2>1. PICK n \in Cuts \cup {Len(wire[e])} : n <= Len(wire[e]) /\ Data(e, n) /\ Readable(e)
    BY Zenon DEF WsReceive
  <2>2. wire[e] \in Seq(Nat)
    BY Zenon DEF Types
  <2>3. n \in Nat
    BY <2>2, BoundAssumption
  <2> QED
    BY <2>1, <2>3
<1> DEFINE r == Drain(buf[e] \o SubSeq(wire[e], 1, n))
           w == SubSeq(wire[e], n + 1, Len(wire[e]))
           left == [wire EXCEPT ![e] = w]
<1>1. /\ medium = "ws" /\ medium' = medium /\ sent' = sent /\ broken' = broken
      /\ phase' = phase /\ tasks' = tasks
      /\ buf' = [buf EXCEPT ![e] = r.rest] /\ got' = [got EXCEPT ![e] = @ \o r.texts]
      /\ \/ /\ r.close /\ ~closed[e] /\ CloseSocket(e, FALSE)
            /\ wire' = Transmit(left, Peer(e), CloseFrame)
         \/ /\ ~r.close \/ closed[e]
            /\ wire' = left /\ closed' = closed /\ told' = told /\ quit' = quit
  BY <1>0 DEF Data, Readable
<1>2. tasks = <<>> /\ Quiet /\ \A x \in End : Held(x)
  BY <1>1, Zenon DEF WsHolds
<1>3. Peer(e) \in End /\ Peer(e) # e /\ Peer(Peer(e)) = e
  BY Peers
<1>4. PICK us, d, l : Takes(e, r, w, us, d, l)
  BY <1>0, <1>2, Received, Zenon
<1> HIDE DEF r, w
<1>5. /\ r \in Stages /\ w \in Seq(Nat) /\ us \in Seq(Text)
      /\ sent[Peer(e)] = (got[e] \o r.texts) \o us
      /\ (r.close => us = <<>> /\ closed[Peer(e)] /\ (quit[Peer(e)] \/ closed[e]))
  BY <1>4, Zenon DEF Takes
<1>6. r.texts \in Seq(Text) /\ r.rest \in Seq(Nat)
  BY <1>5, StageParts, Zenon
<1>7. /\ wire \in [End -> Seq(Nat)] /\ buf \in [End -> Seq(Nat)] /\ got \in [End -> Seq(Text)]
      /\ told \in [End -> BOOLEAN] /\ closed \in [End -> BOOLEAN] /\ quit \in [End -> BOOLEAN]
  BY Zenon DEF Types
<1>8. /\ buf'[e] = r.rest /\ buf'[Peer(e)] = buf[Peer(e)] /\ buf' \in [End -> Seq(Nat)]
      /\ got'[e] = got[e] \o r.texts /\ got'[Peer(e)] = got[Peer(e)] /\ got' \in [End -> Seq(Text)]
  <2>1. got[e] \o r.texts \in Seq(Text)
    BY <1>6, <1>7
  <2> QED
    BY <1>1, <1>3, <1>6, <1>7, <2>1, Zenon
<1>9. left[e] = w /\ left[Peer(e)] = wire[Peer(e)] /\ left \in [End -> Seq(Nat)]
  BY <1>3, <1>5, <1>7, Zenon
<1> HIDE DEF left
<1>10. phase = "open" => Quiet'
  BY <1>1, OpenQuiet, Zenon
<1>11. phase = "open"
  <2>1. wire[e] # <<>>
    BY <1>0, Zenon DEF Readable
  <2> QED
    BY <1>2, <2>1, Zenon DEF Quiet
<1>12. CASE /\ ~r.close \/ closed[e]
            /\ wire' = left /\ closed' = closed /\ told' = told /\ quit' = quit
  <2>1. Held(e)'
    <3>1. /\ sent'[Peer(e)] = sent[Peer(e)] /\ got'[e] = got[e] \o r.texts
          /\ buf'[e] = r.rest /\ wire'[e] = w /\ (broken => broken')
          /\ (closed[Peer(e)] => closed'[Peer(e)]) /\ (closed[e] => closed'[e])
          /\ (quit[Peer(e)] => quit'[Peer(e)])
      BY <1>1, <1>8, <1>9, <1>12, Zenon
    <3> QED
      BY <1>4, <3>1, HeldData, Zenon
  <2>2. Held(Peer(e))'
    BY <1>1, <1>2, <1>3, <1>8, <1>9, <1>12, HeldStill, Zenon
  <2>3. WsHolds'
    BY <1>1, <1>2, <1>10, <1>11, <2>1, <2>2, WsKept, Zenon
  <2>4. Types'
    BY <1>1, <1>8, <1>9, <1>12, Zenon DEF Types
  <2>5. Asked'
    BY <1>12, Zenon DEF Asked
  <2>6. Step
    BY <1>1, <1>5, <1>6, <1>7, <1>12, StepHand, Zenon
  <2> QED
    BY <2>3, <2>4, <2>5, <2>6
<1>13. CASE /\ r.close /\ ~closed[e] /\ CloseSocket(e, FALSE)
            /\ wire' = Transmit(left, Peer(e), CloseFrame)
  <2>0. /\ closed' = [closed EXCEPT ![e] = TRUE] /\ told' = [told EXCEPT ![e] = TRUE]
        /\ quit' = [quit EXCEPT ![e] = @ \/ FALSE]
    BY <1>13 DEF CloseSocket
  <2>1. /\ closed' \in [End -> BOOLEAN] /\ told' \in [End -> BOOLEAN] /\ quit' = quit
        /\ closed'[e] /\ closed'[Peer(e)] = closed[Peer(e)]
    BY <1>3, <1>7, <2>0
  <2>2. CloseFrame \in Seq(Nat)
    BY CloseRead
  <2>3. Written(Peer(e), CloseFrame) /\ wire'[e] = w /\ wire' \in [End -> Seq(Nat)]
    <3>1. left[Peer(e)] \o CloseFrame \in Seq(Nat)
      BY <1>3, <1>9, <2>2
    <3> QED
      BY <1>3, <1>9, <1>13, <3>1, Zenon DEF Written, Transmit
  <2>4. us = <<>> /\ closed[Peer(e)] /\ quit[Peer(e)]
    BY <1>5, <1>13, Zenon
  <2>5. Held(e)'
    <3>1. /\ sent'[Peer(e)] = sent[Peer(e)] /\ got'[e] = got[e] \o r.texts
          /\ buf'[e] = r.rest /\ wire'[e] = w /\ (broken => broken')
          /\ (closed[Peer(e)] => closed'[Peer(e)]) /\ (closed[e] => closed'[e])
          /\ (quit[Peer(e)] => quit'[Peer(e)])
      BY <1>1, <1>8, <2>1, <2>3, Zenon
    <3> QED
      BY <1>4, <3>1, HeldData, Zenon
  <2>6. Held(Peer(e))'
    <3>1. /\ ~closed[e] /\ closed'[e] /\ closed'[Peer(e)] /\ sent'[e] = sent[e]
          /\ got'[Peer(e)] = got[Peer(e)] /\ buf'[Peer(e)] = buf[Peer(e)] /\ broken' = broken
      BY <1>1, <1>8, <1>13, <2>1, <2>4, Zenon
    <3> QED
      BY <1>2, <1>3, <2>3, <3>1, HeldClose, Zenon
  <2>7. WsHolds'
    BY <1>1, <1>2, <1>10, <1>11, <2>5, <2>6, WsKept, Zenon
  <2>8. Types'
    BY <1>1, <1>8, <2>1, <2>3, Zenon DEF Types
  <2>9. Asked'
    <3>1. ASSUME NEW x \in End, quit'[x] PROVE closed'[x]
      <4>1. x = e \/ x = Peer(e)
        BY Peers, Zenon
      <4> QED
        BY <2>1, <2>4, <4>1, Zenon
    <3> QED
      BY <3>1, Zenon DEF Asked
  <2>10. sent[Peer(e)] = got[e] \o r.texts
    <3>1. PICK x \in Seq(Text) : x = got[e] \o r.texts
      <4>1. got[e] \o r.texts \in Seq(Text)
        BY <1>6, <1>7
      <4> QED
        BY <4>1, Zenon
    <3>2. x \o <<>> = x
      OBVIOUS
    <3> QED
      BY <1>5, <2>4, <3>1, <3>2, Zenon
  <2>11. Step
    <3>1. got' = [got EXCEPT ![e] = sent[Peer(e)]]
      BY <1>1, <2>10, Zenon
    <3> QED
      BY <1>1, <2>0, <2>1, <2>4, <3>1, StepTell, Zenon
  <2> QED
    BY <2>7, <2>8, <2>9, <2>11
<1> QED
  BY <1>1, <1>12, <1>13, Zenon

-----------------------------------------------------------------------------
(* The queue of microtasks. *)

Messages == {Message(e, m) : e \in End, m \in Text}
Closes   == {CloseTask(e) : e \in End}

LEMMA MessageParts ==
  ASSUME NEW x \in Messages
  PROVE  x.kind = "message" /\ x.to \in End /\ x.text \in Text
  BY DEF Messages, Message

LEMMA CloseParts ==
  ASSUME NEW x \in Closes
  PROVE  x.kind = "close" /\ x.to \in End
  BY DEF Closes, CloseTask

\* The tasks ms will hand the messages ts to e: p[i] is what the tasks after the i-th will.
Handing(p, ms, e, ts) ==
  /\ p[0] = ts /\ p[Len(ms)] = <<>>
  /\ \A i \in 1..Len(ms) :
       p[i - 1] = IF ms[i].to = e THEN <<ms[i].text>> \o p[i] ELSE p[i]
Queue(ms, e, ts) == \E p \in [0..Len(ms) -> Seq(Text)] : Handing(p, ms, e, ts)

LEMMA QueueEmpty ==
  ASSUME NEW e
  PROVE  Queue(<<>>, e, <<>>) /\ \A ts : Queue(<<>>, e, ts) => ts = <<>>
<1> DEFINE p == [i \in 0..0 |-> <<>>]
<1>1. p \in [0..0 -> Seq(Text)] /\ p[0] = <<>> /\ Len(<<>>) = 0
  OBVIOUS
<1>2. \A i \in 1..0 : FALSE
  OBVIOUS
<1> HIDE DEF p
<1>3. Handing(p, <<>>, e, <<>>)
  BY <1>1, <1>2, Zenon DEF Handing
<1>4. Queue(<<>>, e, <<>>)
  BY <1>1, <1>3, Zenon DEF Queue
<1>5. ASSUME NEW ts, Queue(<<>>, e, ts) PROVE ts = <<>>
  BY <1>1, <1>5, Zenon DEF Queue, Handing
<1> QED
  BY <1>4, <1>5, Zenon

LEMMA Behead ==
  ASSUME NEW S, NEW s \in Seq(S), s # <<>>
  PROVE  /\ Tail(s) \in Seq(S) /\ Len(Tail(s)) \in Nat /\ Len(s) = Len(Tail(s)) + 1
         /\ s[1] \in S /\ Head(s) = s[1]
         /\ \A i \in 1..Len(Tail(s)) : Tail(s)[i] = s[i + 1]
  OBVIOUS

\* ts is what the first task of ms hands to e, then us.
Beheaded(ms, e, ts, us) ==
  /\ Queue(Tail(ms), e, us)
  /\ ts = IF ms[1].to = e THEN <<ms[1].text>> \o us ELSE us

LEMMA QueueHead ==
  ASSUME NEW ms \in Seq(Messages), NEW e, NEW ts, Queue(ms, e, ts), ms # <<>>
  PROVE  \E us \in Seq(Text) : Beheaded(ms, e, ts, us)
<1>1. PICK p \in [0..Len(ms) -> Seq(Text)] : Handing(p, ms, e, ts)
  BY Zenon DEF Queue
<1> DEFINE ns == Tail(ms)
           k == Len(ms)
           l == Len(ns)
<1>2. /\ ns \in Seq(Messages) /\ l \in Nat /\ k = l + 1
      /\ \A i \in 1..l : ns[i] = ms[i + 1]
  BY Behead
<1>3. /\ p[0] = ts /\ p[k] = <<>>
      /\ \A i \in 1..k : p[i - 1] = IF ms[i].to = e THEN <<ms[i].text>> \o p[i] ELSE p[i]
      /\ p \in [0..k -> Seq(Text)]
  BY <1>1, Zenon DEF Handing
<1> HIDE DEF ns, k, l
<1>4. 1 \in 1..k /\ 1 \in 0..k /\ 1 - 1 = 0
  BY <1>2
<1>5. p[1] \in Seq(Text) /\ ts = IF ms[1].to = e THEN <<ms[1].text>> \o p[1] ELSE p[1]
  BY <1>3, <1>4, Zenon
<1> DEFINE q == [i \in 0..l |-> p[i + 1]]
<1>6. q \in [0..l -> Seq(Text)]
  <2>1. ASSUME NEW i \in 0..l PROVE p[i + 1] \in Seq(Text)
    <3>1. i + 1 \in 0..k
      BY <1>2
    <3> QED
      BY <1>3, <3>1, Zenon
  <2> QED
    BY <2>1, Zenon
<1>7. \A i \in 0..l : q[i] = p[i + 1]
  OBVIOUS
<1> HIDE DEF q
<1>8. q[0] = p[1] /\ q[l] = <<>>
  <2>1. 0 \in 0..l /\ l \in 0..l /\ 0 + 1 = 1 /\ l + 1 = k
    BY <1>2
  <2>2. q[0] = p[0 + 1] /\ q[l] = p[l + 1]
    BY <1>7, <2>1, Zenon
  <2> QED
    BY <1>3, <2>1, <2>2, Zenon
<1>9. ASSUME NEW i \in 1..l
      PROVE q[i - 1] = IF ns[i].to = e THEN <<ns[i].text>> \o q[i] ELSE q[i]
  <2>1. i + 1 \in 1..k /\ i \in 0..l /\ i - 1 \in 0..l /\ (i + 1) - 1 = i /\ (i - 1) + 1 = i
    BY <1>2
  <2>2. p[(i + 1) - 1] = IF ms[i + 1].to = e THEN <<ms[i + 1].text>> \o p[i + 1] ELSE p[i + 1]
    BY <1>3, <2>1, Zenon
  <2>3. q[i] = p[i + 1] /\ q[i - 1] = p[(i - 1) + 1] /\ ns[i] = ms[i + 1]
    BY <1>2, <1>7, <2>1, Zenon
  <2> QED
    BY <2>1, <2>2, <2>3, Zenon
<1>10. Handing(q, ns, e, p[1])
  BY <1>8, <1>9, Zenon DEF Handing, l
<1>11. Queue(ns, e, p[1])
  BY <1>6, <1>10, Zenon DEF Queue, l
<1> QED
  BY <1>5, <1>11, Zenon DEF ns, Beheaded

LEMMA QueueAppend ==
  ASSUME NEW ms \in Seq(Messages), NEW e, NEW ts \in Seq(Text), Queue(ms, e, ts), NEW x \in Messages
  PROVE  Queue(Append(ms, x), e, IF x.to = e THEN Append(ts, x.text) ELSE ts)
<1>1. PICK p \in [0..Len(ms) -> Seq(Text)] : Handing(p, ms, e, ts)
  BY Zenon DEF Queue
<1> DEFINE k == Len(ms)
           ns == Append(ms, x)
           y == IF x.to = e THEN <<x.text>> ELSE <<>>
           q == [i \in 0..(k + 1) |-> IF i = k + 1 THEN <<>> ELSE p[i] \o y]
<1>2. /\ k \in Nat /\ 0 \in 0..k /\ k \in 0..k /\ k + 1 \in 0..(k + 1) /\ 0 # k + 1
      /\ \A i \in 0..k : i \in 0..(k + 1) /\ i # k + 1
      /\ \A i \in 1..k : i \in 0..k /\ i - 1 \in 0..k
      /\ \A i \in 0..(k + 1) : i = k + 1 \/ i \in 0..k
      /\ \A i \in 1..(k + 1) : i = k + 1 \/ i \in 1..k
  OBVIOUS
<1>3. /\ p[0] = ts /\ p[k] = <<>>
      /\ \A i \in 1..k : p[i - 1] = IF ms[i].to = e THEN <<ms[i].text>> \o p[i] ELSE p[i]
      /\ p \in [0..k -> Seq(Text)]
  BY <1>1, Zenon DEF Handing
<1>4. Len(ns) = k + 1 /\ ns[k + 1] = x /\ \A i \in 1..k : ns[i] = ms[i]
  OBVIOUS
<1>5. \A i \in 1..k : ms[i].text \in Text
  <2>1. \A i \in 1..k : ms[i] \in Messages
    OBVIOUS
  <2> QED
    BY <2>1, MessageParts, Zenon
<1> HIDE DEF k, ns
<1>6. x.text \in Text
  BY MessageParts
<1>7. <<>> \in Seq(Text) /\ <<x.text>> \in Seq(Text) /\ \A m \in Text : <<m>> \in Seq(Text)
  BY <1>6
<1>8. y \in Seq(Text)
  BY <1>7, Zenon
<1>9. (IF x.to = e THEN Append(ts, x.text) ELSE ts) = ts \o y
  <2>1. CASE x.to = e
    <3>1. Append(ts, x.text) = ts \o <<x.text>>
      BY <1>6
    <3> QED
      BY <2>1, <3>1, Zenon
  <2>2. CASE x.to # e
    <3>1. ts \o <<>> = ts
      OBVIOUS
    <3> QED
      BY <2>2, <3>1, Zenon
  <2> QED
    BY <2>1, <2>2
<1>10. y = IF x.to = e THEN <<x.text>> \o <<>> ELSE <<>>
  <2>1. <<x.text>> \o <<>> = <<x.text>>
    BY <1>7
  <2> QED
    BY <2>1, Zenon
<1> HIDE DEF y
<1>11. <<>> \o y = y
  BY <1>8
<1>12. q \in [0..(k + 1) -> Seq(Text)]
  <2>1. ASSUME NEW i \in 0..(k + 1) PROVE (IF i = k + 1 THEN <<>> ELSE p[i] \o y) \in Seq(Text)
    <3>1. CASE i = k + 1
      BY <1>7, <3>1, Zenon
    <3>2. CASE i # k + 1
      <4>1. p[i] \in Seq(Text)
        BY <1>2, <1>3, <3>2, Zenon
      <4>2. p[i] \o y \in Seq(Text)
        BY <1>8, <4>1
      <4> QED
        BY <3>2, <4>2, Zenon
    <3> QED
      BY <3>1, <3>2, Zenon
  <2> QED
    BY <2>1, Zenon
<1>13. q[k + 1] = <<>> /\ \A i \in 0..k : q[i] = p[i] \o y
  BY <1>2, Zenon
<1> HIDE DEF q
<1>14. q[0] = ts \o y /\ q[k] = y
  BY <1>2, <1>3, <1>11, <1>13, Zenon
<1>15. ASSUME NEW i \in 1..(k + 1)
       PROVE q[i - 1] = IF ns[i].to = e THEN <<ns[i].text>> \o q[i] ELSE q[i]
  <2>1. CASE i = k + 1
    <3>1. i - 1 = k
      BY <1>2, <2>1
    <3> QED
      BY <1>4, <1>10, <1>13, <1>14, <2>1, <3>1, Zenon
  <2>2. CASE i \in 1..k
    <3>1. q[i] = p[i] \o y /\ q[i - 1] = p[i - 1] \o y /\ ns[i] = ms[i]
      BY <1>2, <1>4, <1>13, <2>2, Zenon
    <3>2. p[i] \in Seq(Text) /\ <<ms[i].text>> \in Seq(Text)
      BY <1>2, <1>3, <1>5, <1>7, <2>2, Zenon
    <3>3. JoinedSame(<<ms[i].text>>, p[i], y)
      BY <1>8, <3>2, JoinsSame, Zenon
    <3>4. p[i - 1] = IF ms[i].to = e THEN <<ms[i].text>> \o p[i] ELSE p[i]
      BY <1>3, <2>2, Zenon
    <3> QED
      BY <3>1, <3>3, <3>4, Zenon DEF JoinedSame
  <2> QED
    BY <1>2, <2>1, <2>2, Zenon
<1>16. Handing(q, ns, e, ts \o y)
  BY <1>4, <1>13, <1>14, <1>15, Zenon DEF Handing
<1>17. Queue(ns, e, ts \o y)
  BY <1>4, <1>12, <1>16, Zenon DEF Queue
<1> QED
  BY <1>9, <1>17, Zenon DEF ns

-----------------------------------------------------------------------------
(* The actions of the in-process transport. *)

Waits(e, ms) == \E ts \in Seq(Text) : sent[Peer(e)] = got[e] \o ts /\ Queue(ms, e, ts)

\* The tasks are messages ms, then close events cs.
Queued(ms, cs) ==
  /\ ms \in Seq(Messages) /\ cs \in Seq(Closes) /\ tasks = ms \o cs
  /\ \A e \in End : Waits(e, ms)
  /\ cs # <<>> => /\ \A e \in End : closed[e]
                  /\ \E e \in End : quit[e]
MemHolds == medium = "mem" => \E ms, cs : Queued(ms, cs)

LEMMA WaitsStill ==
  ASSUME NEW e, NEW ms, Waits(e, ms), sent' = sent, got' = got
  PROVE  Waits(e, ms)'
  BY Zenon DEF Waits

LEMMA JoinedTails ==
  ASSUME NEW ms, NEW cs, NEW ds, NEW S, NEW T, S \subseteq T, NEW U, U \subseteq T,
         ms \in Seq(S), cs \in Seq(U), ds \in Seq(U)
  PROVE  JoinedSame(ms, cs, ds)
<1>1. ms \in Seq(T) /\ cs \in Seq(T) /\ ds \in Seq(T)
  BY WiderSeq, Zenon
<1> QED
  BY <1>1, JoinsSame, Zenon

LEMMA MemSendStep ==
  ASSUME Types, Asked, MemHolds, NEW e \in End, NEW m \in Text, MemSend(e, m)
  PROVE  Types' /\ Asked' /\ MemHolds' /\ Step
<1>1. /\ medium = "mem" /\ ~closed[e] /\ medium' = medium
      /\ sent' = [sent EXCEPT ![e] = Append(@, m)] /\ tasks' = Append(tasks, Message(Peer(e), m))
      /\ got' = got /\ quit' = quit /\ told' = told
      /\ broken' = broken /\ closed' = closed /\ wire' = wire /\ buf' = buf
  BY DEF MemSend
<1>2. Peer(e) \in End /\ Peer(e) # e /\ Peer(Peer(e)) = e
  BY Peers
<1>3. sent \in [End -> Seq(Text)] /\ got \in [End -> Seq(Text)]
  BY Zenon DEF Types
<1>4. /\ sent'[e] = Append(sent[e], m) /\ sent'[Peer(e)] = sent[Peer(e)]
      /\ sent' \in [End -> Seq(Text)]
  <2>1. Append(sent[e], m) \in Seq(Text)
    BY <1>3
  <2> QED
    BY <1>1, <1>2, <1>3, <2>1, Zenon
<1>5. PICK ms, cs : Queued(ms, cs)
  BY <1>1, Zenon DEF MemHolds
<1>6. /\ ms \in Seq(Messages) /\ cs = <<>> /\ tasks = ms \o cs /\ \A x \in End : Waits(x, ms)
  <2>1. cs # <<>> => closed[e]
    BY <1>5, Zenon DEF Queued
  <2> QED
    BY <1>1, <1>5, <2>1, Zenon DEF Queued
<1>7. PICK x \in Messages : x = Message(Peer(e), m)
  <2>1. Message(Peer(e), m) \in Messages
    BY <1>2 DEF Messages
  <2> QED
    BY <2>1, Zenon
<1>8. x.to = Peer(e) /\ x.text = m
  BY <1>7 DEF Message
<1>9. PICK ns \in Seq(Messages) : ns = Append(ms, x)
  <2>1. Append(ms, x) \in Seq(Messages)
    BY <1>6, <1>7
  <2> QED
    BY <2>1, Zenon
<1>10. ms \o <<>> = ms /\ ns = ns \o <<>> /\ <<>> \in Seq(Closes)
  BY <1>6, <1>9
<1>11. tasks' = ns \o <<>>
  BY <1>1, <1>6, <1>7, <1>9, <1>10, Zenon
<1>12. Waits(Peer(e), ns)'
  <2>1. PICK ts \in Seq(Text) : sent[e] = got[Peer(e)] \o ts /\ Queue(ms, Peer(e), ts)
    BY <1>2, <1>6, Zenon DEF Waits
  <2>2. Queue(ns, Peer(e), Append(ts, m))
    BY <1>6, <1>7, <1>8, <1>9, <2>1, QueueAppend, Zenon
  <2>3. Prolongs(got[Peer(e)], ts, m) /\ Append(ts, m) \in Seq(Text)
    BY <1>2, <1>3, <2>1, SaidMore, Zenon
  <2>4. sent'[e] = got'[Peer(e)] \o Append(ts, m)
    BY <1>1, <1>4, <2>1, <2>3, Zenon DEF Prolongs
  <2> QED
    BY <1>2, <2>2, <2>3, <2>4, Zenon DEF Waits
<1>13. Waits(e, ns)'
  <2>1. PICK ts \in Seq(Text) : sent[Peer(e)] = got[e] \o ts /\ Queue(ms, e, ts)
    BY <1>6, Zenon DEF Waits
  <2>2. Queue(ns, e, ts)
    BY <1>2, <1>6, <1>7, <1>8, <1>9, <2>1, QueueAppend, Zenon
  <2> QED
    BY <1>1, <1>4, <2>1, <2>2, Zenon DEF Waits
<1>14. \A y \in End : Waits(y, ns)'
  BY <1>12, <1>13, Peers, Zenon
<1>15. Queued(ns, <<>>)'
  BY <1>9, <1>10, <1>11, <1>14, Zenon DEF Queued
<1>16. MemHolds'
  BY <1>15, Zenon DEF MemHolds
<1>17. Types'
  BY <1>1, <1>4, Zenon DEF Types
<1>18. Asked'
  BY <1>1, Zenon DEF Asked
<1>19. ~quit[e]
  BY <1>1, Zenon DEF Asked
<1>20. Step
  BY <1>1, <1>19, StepSend, Zenon
<1> QED
  BY <1>16, <1>17, <1>18, <1>20

LEMMA MemCloseStep ==
  ASSUME Types, Asked, MemHolds, NEW e \in End, MemClose(e)
  PROVE  Types' /\ Asked' /\ MemHolds' /\ Step
<1>1. /\ medium = "mem" /\ ~closed[e] /\ medium' = medium
      /\ quit' = [quit EXCEPT ![e] = TRUE] /\ closed' = Each(TRUE)
      /\ tasks' = tasks \o <<CloseTask(e), CloseTask(Peer(e))>>
      /\ sent' = sent /\ got' = got /\ told' = told
      /\ broken' = broken /\ wire' = wire /\ buf' = buf
  BY DEF MemClose, QueueClose
<1>2. quit \in [End -> BOOLEAN]
  BY Zenon DEF Types
<1>3. /\ quit' \in [End -> BOOLEAN] /\ quit'[e]
      /\ closed' \in [End -> BOOLEAN] /\ \A x \in End : closed'[x]
  BY <1>1, <1>2 DEF Each
<1>4. PICK ms, cs : Queued(ms, cs)
  BY <1>1, Zenon DEF MemHolds
<1>5. /\ ms \in Seq(Messages) /\ cs \in Seq(Closes) /\ tasks = ms \o cs
      /\ \A x \in End : Waits(x, ms)
  BY <1>4, Zenon DEF Queued
<1>6. PICK ds \in Seq(Closes) : ds = <<CloseTask(e), CloseTask(Peer(e))>>
  <2>1. CloseTask(e) \in Closes /\ CloseTask(Peer(e)) \in Closes
    BY Peers, Zenon DEF Closes
  <2>2. <<CloseTask(e), CloseTask(Peer(e))>> \in Seq(Closes)
    BY <2>1
  <2> QED
    BY <2>2, Zenon
<1>7. JoinedSame(ms, cs, ds)
  <2>1. Messages \subseteq Messages \cup Closes /\ Closes \subseteq Messages \cup Closes
    BY Zenon
  <2> QED
    BY <1>5, <1>6, <2>1, JoinedTails, Zenon
<1>8. PICK ns \in Seq(Closes) : ns = cs \o ds
  <2>1. cs \o ds \in Seq(Closes)
    BY <1>5, <1>6
  <2> QED
    BY <2>1, Zenon
<1>9. tasks' = ms \o ns
  BY <1>1, <1>5, <1>6, <1>7, <1>8, Zenon DEF JoinedSame
<1>10. \A x \in End : Waits(x, ms)'
  BY <1>1, <1>5, WaitsStill, Zenon
<1>11. Queued(ms, ns)'
  BY <1>3, <1>5, <1>8, <1>9, <1>10, Zenon DEF Queued
<1>12. MemHolds'
  BY <1>11, Zenon DEF MemHolds
<1>13. Types'
  BY <1>1, <1>3, Zenon DEF Types
<1>14. Asked'
  BY <1>3, Zenon DEF Asked
<1>15. ~quit[e]
  BY <1>1, Zenon DEF Asked
<1>16. Step
  BY <1>1, <1>15, StepClose, Zenon
<1> QED
  BY <1>12, <1>13, <1>14, <1>16

LEMMA FirstOf ==
  ASSUME NEW T, NEW p \in Seq(T), NEW q \in Seq(T), p # <<>>
  PROVE  Head(p \o q) = p[1] /\ Tail(p \o q) = Tail(p) \o q
  OBVIOUS

LEMMA FirstTask ==
  ASSUME NEW ms, NEW cs, ms \in Seq(Messages), cs \in Seq(Closes), ms # <<>>
  PROVE  Head(ms \o cs) = ms[1] /\ Tail(ms \o cs) = Tail(ms) \o cs
<1>1. ms \in Seq(Messages \cup Closes) /\ cs \in Seq(Messages \cup Closes)
  BY WiderSeq, Zenon
<1> QED
  BY <1>1, FirstOf, Zenon

LEMMA RunMessage ==
  ASSUME Types, Asked, RunTask, NEW ms, NEW cs, Queued(ms, cs), ms # <<>>
  PROVE  Types' /\ Asked' /\ MemHolds' /\ Step
<1>1. /\ ms \in Seq(Messages) /\ cs \in Seq(Closes) /\ tasks = ms \o cs
      /\ \A x \in End : Waits(x, ms)
      /\ cs # <<>> => (\A x \in End : closed[x]) /\ \E x \in End : quit[x]
  BY Zenon DEF Queued
<1>2. PICK t \in Messages : t = ms[1]
  BY <1>1, Behead, Zenon
<1>3. PICK ns \in Seq(Messages) : ns = Tail(ms)
  BY <1>1, Behead, Zenon
<1>4. t.kind = "message" /\ t.to \in End /\ t.text \in Text
  BY MessageParts, Zenon
<1>5. Head(tasks) = t /\ Tail(tasks) = ns \o cs
  BY <1>1, <1>2, <1>3, FirstTask, Zenon
<1>6. /\ tasks' = ns \o cs /\ got' = [got EXCEPT ![t.to] = Append(@, t.text)]
      /\ medium' = medium /\ sent' = sent /\ quit' = quit /\ told' = told
      /\ broken' = broken /\ closed' = closed /\ wire' = wire /\ buf' = buf
  <2>1. Head(tasks).kind # "close"
    BY <1>4, <1>5
  <2> QED
    BY <1>5, <2>1, Zenon DEF RunTask
<1>7. got \in [End -> Seq(Text)]
  BY Zenon DEF Types
<1> DEFINE e == t.to
           o == Peer(e)
           a == <<t.text>>
<1>8. o \in End /\ o # e /\ e \in End
  BY <1>4, Peers, Zenon
<1>9. a \in Seq(Text)
  BY <1>4
<1>10. Append(got[e], t.text) = got[e] \o a /\ got[e] \o a \in Seq(Text)
  BY <1>4, <1>7
<1>11. got' = [got EXCEPT ![e] = @ \o a]
  BY <1>6, <1>10, Zenon
<1>12. got'[e] = got[e] \o a /\ got' \in [End -> Seq(Text)] /\ \A x \in End : x # e => got'[x] = got[x]
  BY <1>7, <1>8, <1>10, <1>11, Zenon
<1> HIDE DEF a
<1>13. PICK us \in Seq(Text) : Queue(ns, e, us) /\ sent[Peer(e)] = (got[e] \o a) \o us
  <2>1. PICK ts \in Seq(Text) : sent[Peer(e)] = got[e] \o ts /\ Queue(ms, e, ts)
    BY <1>1, <1>8, Zenon DEF Waits
  <2>2. PICK us \in Seq(Text) : Beheaded(ms, e, ts, us)
    BY <1>1, <2>1, QueueHead, Zenon
  <2>3. ts = a \o us
    BY <1>2, <2>2, Zenon DEF a, Beheaded
  <2>4. JoinedSame(got[e], a, us)
    BY <1>7, <1>8, <1>9, JoinsSame, Zenon
  <2> QED
    BY <1>3, <2>1, <2>2, <2>3, <2>4, Zenon DEF JoinedSame, Beheaded
<1>14. Waits(e, ns)'
  <2>1. PICK y \in End : y = e
    BY <1>8, Zenon
  <2>2. sent'[Peer(y)] = got'[y] \o us /\ Queue(ns, y, us)
    BY <1>6, <1>12, <1>13, <2>1, Zenon
  <2>3. Waits(y, ns)'
    BY <2>2, Zenon DEF Waits
  <2> QED
    BY <2>1, <2>3, Zenon
<1>15. ASSUME NEW y \in End, y # e PROVE Waits(y, ns)'
  <2>1. PICK ts \in Seq(Text) : sent[Peer(y)] = got[y] \o ts /\ Queue(ms, y, ts)
    BY <1>1, Zenon DEF Waits
  <2>2. PICK vs \in Seq(Text) : Beheaded(ms, y, ts, vs)
    BY <1>1, <2>1, QueueHead, Zenon
  <2>3. ts = vs
    BY <1>2, <1>15, <2>2, Zenon DEF Beheaded
  <2>4. sent'[Peer(y)] = got'[y] \o vs /\ Queue(ns, y, vs)
    BY <1>3, <1>6, <1>12, <1>15, <2>1, <2>2, <2>3, Zenon DEF Beheaded
  <2> QED
    BY <2>4, Zenon DEF Waits
<1>16. \A y \in End : Waits(y, ns)'
  BY <1>14, <1>15, Zenon
<1>17. Queued(ns, cs)'
  BY <1>1, <1>3, <1>6, <1>16, Zenon DEF Queued
<1>18. MemHolds'
  BY <1>17, Zenon DEF MemHolds
<1>19. Types'
  BY <1>6, <1>12, Zenon DEF Types
<1>20. Asked'
  BY <1>6, Zenon DEF Asked
<1>21. Step
  BY <1>6, <1>7, <1>8, <1>9, <1>11, <1>13, StepHand, Zenon
<1> QED
  BY <1>18, <1>19, <1>20, <1>21

LEMMA RunClose ==
  ASSUME Types, Asked, RunTask, NEW cs, Queued(<<>>, cs)
  PROVE  Types' /\ Asked' /\ MemHolds' /\ Step
<1>1. /\ cs \in Seq(Closes) /\ tasks = <<>> \o cs
      /\ \A x \in End : Waits(x, <<>>)
      /\ cs # <<>> => (\A x \in End : closed[x]) /\ \E x \in End : quit[x]
  BY Zenon DEF Queued
<1>2. tasks = cs
  <2>1. <<>> \o cs = cs
    BY <1>1
  <2> QED
    BY <1>1, <2>1, Zenon
<1>3. cs # <<>>
  BY <1>2, Zenon DEF RunTask
<1>4. PICK t \in Closes : t = Head(cs)
  BY <1>1, <1>3, Behead, Zenon
<1>5. PICK ds \in Seq(Closes) : ds = Tail(cs)
  BY <1>1, <1>3, Behead, Zenon
<1>6. t.kind = "close" /\ t.to \in End
  BY CloseParts, Zenon
<1>7. /\ tasks' = ds /\ told' = [told EXCEPT ![t.to] = TRUE]
      /\ medium' = medium /\ sent' = sent /\ quit' = quit /\ got' = got
      /\ broken' = broken /\ closed' = closed /\ wire' = wire /\ buf' = buf
  <2>1. t.kind # "message"
    BY <1>6
  <2> QED
    BY <1>2, <1>4, <1>5, <2>1, Zenon DEF RunTask
<1>8. told \in [End -> BOOLEAN] /\ sent \in [End -> Seq(Text)] /\ got \in [End -> Seq(Text)]
  BY Zenon DEF Types
<1>9. told' \in [End -> BOOLEAN]
  BY <1>6, <1>7, <1>8, Zenon
<1>10. <<>> \o ds = ds /\ <<>> \in Seq(Messages)
  OBVIOUS
<1>11. \A x \in End : Waits(x, <<>>)'
  BY <1>1, <1>7, WaitsStill, Zenon
<1>12. Queued(<<>>, ds)'
  BY <1>1, <1>3, <1>5, <1>7, <1>10, <1>11, Zenon DEF Queued
<1>13. MemHolds'
  BY <1>12, Zenon DEF MemHolds
<1>14. Types'
  BY <1>7, <1>9, Zenon DEF Types
<1>15. Asked'
  BY <1>7, Zenon DEF Asked
<1> DEFINE e == t.to
<1>16. sent[Peer(e)] = got[e]
  <2>1. PICK ts \in Seq(Text) : sent[Peer(e)] = got[e] \o ts /\ Queue(<<>>, e, ts)
    BY <1>1, <1>6, Zenon DEF Waits
  <2>2. ts = <<>>
    BY <2>1, QueueEmpty, Zenon
  <2>3. got[e] \o <<>> = got[e]
    BY <1>6, <1>8
  <2> QED
    BY <2>1, <2>2, <2>3, Zenon
<1>17. got' = [got EXCEPT ![e] = sent[Peer(e)]]
  <2>1. [got EXCEPT ![e] = got[e]] = got
    BY <1>6, <1>8
  <2> QED
    BY <1>7, <1>16, <2>1, Zenon
<1>18. quit[e] \/ quit[Peer(e)]
  BY <1>1, <1>3, <1>6, Peers, Zenon
<1>19. Step
  BY <1>6, <1>7, <1>17, <1>18, StepTell, Zenon
<1> QED
  BY <1>13, <1>14, <1>15, <1>19

LEMMA RunTaskStep ==
  ASSUME Types, Asked, WsHolds, MemHolds, RunTask
  PROVE  Types' /\ Asked' /\ MemHolds' /\ Step
<1>1. medium = "mem"
  BY Zenon DEF Types, WsHolds, RunTask
<1>2. PICK ms, cs : Queued(ms, cs)
  BY <1>1, Zenon DEF MemHolds
<1>3. CASE ms # <<>>
  BY <1>2, <1>3, RunMessage, Zenon
<1>4. CASE ms = <<>>
  BY <1>2, <1>4, RunClose, Zenon
<1> QED
  BY <1>3, <1>4

-----------------------------------------------------------------------------
(* The two transports keep the invariant and do only what is promised. *)

Holds == Types /\ Asked /\ WsHolds /\ MemHolds

LEMMA HoldsFirst ==
  ASSUME Init
  PROVE  Holds
<1>0. <<>> \in Seq(Nat) /\ <<>> \in Seq(Text) /\ <<>> \in Seq(Closes) /\ <<>> \in Seq(Messages)
      /\ <<>> \o <<>> = <<>> /\ (<<>> \o <<>>) \o <<>> = <<>>
  OBVIOUS
<1>1. /\ medium \in {"ws", "mem"}
      /\ sent = [e \in End |-> <<>>] /\ got = [e \in End |-> <<>>]
      /\ quit = [e \in End |-> FALSE] /\ told = [e \in End |-> FALSE]
      /\ broken = FALSE /\ closed = [e \in End |-> FALSE]
      /\ wire = [e \in End |-> <<>>] /\ buf = [e \in End |-> <<>>] /\ tasks = <<>>
  BY Zenon DEF Init, Each
<1>2. \A e \in End : /\ sent[e] = <<>> /\ got[e] = <<>> /\ ~quit[e]
                     /\ wire[e] = <<>> /\ buf[e] = <<>>
  BY <1>1
<1>3. "server" \in End
  BY DEF End
<1>4. FALSE \in BOOLEAN
  OBVIOUS
<1>5. Types
  <2>1. /\ [e \in End |-> <<>>] \in [End -> Seq(Nat)] /\ [e \in End |-> <<>>] \in [End -> Seq(Text)]
        /\ [e \in End |-> FALSE] \in [End -> BOOLEAN]
    BY <1>0, <1>4, Zenon
  <2> QED
    BY <1>1, <1>4, <2>1, Zenon DEF Types
<1>6. Asked
  BY <1>2, Zenon DEF Asked
<1>7. Quiet
  BY <1>1, <1>2, <1>3, Zenon DEF Quiet
<1>8. ASSUME NEW e \in End PROVE Held(e)
  <2>1. Ending(FALSE) = <<>>
    BY Zenon DEF Ending
  <2>2. Stream(<<>>, FALSE, <<>>)
    BY <2>1, StreamEnding, Zenon
  <2>3. sent[Peer(e)] = <<>>
    BY <1>2, Peers, Zenon
  <2>4. HeldBy(e, <<>>, FALSE, <<>>)
    BY <1>0, <1>2, <1>4, <2>2, <2>3, Zenon DEF HeldBy
  <2> QED
    BY <2>4, Zenon DEF Held
<1>9. WsHolds
  BY <1>1, <1>7, <1>8, Zenon DEF WsHolds
<1>10. ASSUME NEW e \in End PROVE Waits(e, <<>>)
  <2>1. sent[Peer(e)] = <<>>
    BY <1>2, Peers, Zenon
  <2> QED
    BY <1>0, <1>2, <2>1, QueueEmpty, Zenon DEF Waits
<1>11. Queued(<<>>, <<>>)
  BY <1>0, <1>1, <1>10, Zenon DEF Queued
<1>12. MemHolds
  BY <1>11, Zenon DEF MemHolds
<1> QED
  BY <1>5, <1>6, <1>9, <1>12, Zenon DEF Holds

\* What an action that does not concern the other transport leaves of its half.
LEMMA MemOther ==
  ASSUME medium' = medium, medium = "ws"
  PROVE  MemHolds'
  BY DEF MemHolds

LEMMA WsOther ==
  ASSUME medium' = medium, medium = "mem"
  PROVE  WsHolds'
  BY DEF WsHolds

LEMMA HoldsNext ==
  ASSUME Holds, Next
  PROVE  Holds' /\ Step
<1>0. Types /\ Asked /\ WsHolds /\ MemHolds
  BY Zenon DEF Holds
<1>1. CASE Upgrade
  <2>1. medium' = medium /\ medium = "ws"
    BY <1>1 DEF Upgrade
  <2> QED
    BY <1>0, <1>1, <2>1, UpgradeStep, MemOther, Zenon DEF Holds
<1>2. CASE Opened
  <2>1. medium' = medium /\ medium = "ws"
    BY <1>2 DEF Opened
  <2> QED
    BY <1>0, <1>2, <2>1, OpenedStep, MemOther, Zenon DEF Holds
<1>3. CASE Break
  <2>1. medium' = medium /\ medium = "ws"
    BY <1>3 DEF Break
  <2> QED
    BY <1>0, <1>3, <2>1, BreakStep, MemOther, Zenon DEF Holds
<1>4. CASE RunTask
  <2>1. medium' = medium /\ medium = "mem"
    <3>1. medium' = medium /\ tasks # <<>>
      BY <1>4 DEF RunTask
    <3> QED
      BY <1>0, <3>1, Zenon DEF Types, WsHolds
  <2> QED
    BY <1>0, <1>4, <2>1, RunTaskStep, WsOther, Zenon DEF Holds
<1>5. ASSUME NEW e \in End, NEW m \in Says[e], WsSend(e, m) PROVE Holds' /\ Step
  <2>1. medium' = medium /\ medium = "ws"
    BY <1>5 DEF WsSend
  <2>2. m \in Text
    BY <1>5, BoundAssumption DEF End
  <2> QED
    BY <1>0, <1>5, <2>1, <2>2, WsSendStep, MemOther, Zenon DEF Holds
<1>6. ASSUME NEW e \in End, NEW m \in Says[e], MemSend(e, m) PROVE Holds' /\ Step
  <2>1. medium' = medium /\ medium = "mem"
    BY <1>6 DEF MemSend
  <2>2. m \in Text
    BY <1>6, BoundAssumption DEF End
  <2> QED
    BY <1>0, <1>6, <2>1, <2>2, MemSendStep, WsOther, Zenon DEF Holds
<1>7. ASSUME NEW e \in End, WsClose(e) PROVE Holds' /\ Step
  <2>1. medium' = medium /\ medium = "ws"
    BY <1>7 DEF WsClose
  <2> QED
    BY <1>0, <1>7, <2>1, WsCloseStep, MemOther, Zenon DEF Holds
<1>8. ASSUME NEW e \in End, WsReceive(e) PROVE Holds' /\ Step
  <2>1. medium' = medium /\ medium = "ws"
    BY <1>8 DEF WsReceive, Readable, Data
  <2> QED
    BY <1>0, <1>8, <2>1, WsReceiveStep, MemOther, Zenon DEF Holds
<1>9. ASSUME NEW e \in End, Lost(e) PROVE Holds' /\ Step
  <2>1. /\ medium' = medium /\ sent' = sent /\ got' = got /\ tasks' = tasks
        /\ closed' = closed /\ quit' = quit
    BY <1>9 DEF Lost
  <2>2. ASSUME medium = "mem" PROVE MemHolds'
    <3>1. PICK ms, cs : Queued(ms, cs)
      BY <1>0, <2>2, Zenon DEF MemHolds
    <3>2. \A x \in End : Waits(x, ms)'
      BY <2>1, <3>1, WaitsStill, Zenon DEF Queued
    <3>3. Queued(ms, cs)'
      BY <2>1, <3>1, <3>2, Zenon DEF Queued
    <3> QED
      BY <3>3, Zenon DEF MemHolds
  <2>3. MemHolds'
    BY <2>1, <2>2, Zenon DEF MemHolds
  <2> QED
    BY <1>0, <1>9, <2>3, LostStep, Zenon DEF Holds
<1>10. ASSUME NEW e \in End, MemClose(e) PROVE Holds' /\ Step
  <2>1. medium' = medium /\ medium = "mem"
    BY <1>10 DEF MemClose
  <2> QED
    BY <1>0, <1>10, <2>1, MemCloseStep, WsOther, Zenon DEF Holds
<1> QED
  BY <1>1, <1>2, <1>3, <1>4, <1>5, <1>6, <1>7, <1>8, <1>9, <1>10, Zenon DEF Next

LEMMA HoldsStill ==
  ASSUME Holds, UNCHANGED vars
  PROVE  Holds' /\ Step
<1>1. /\ medium' = medium /\ sent' = sent /\ got' = got /\ quit' = quit /\ told' = told
      /\ broken' = broken /\ closed' = closed /\ phase' = phase
      /\ wire' = wire /\ buf' = buf /\ tasks' = tasks
  BY DEF vars, promise
<1>2. Types' /\ Asked'
  BY <1>1, Zenon DEF Holds, Types, Asked
<1>3. ASSUME NEW e \in End, Held(e) PROVE Held(e)'
  BY <1>1, <1>3, HeldStill, Zenon
<1>4. WsHolds'
  BY <1>1, <1>3, Zenon DEF Holds, WsHolds, Quiet
<1>5. MemHolds'
  <2>1. ASSUME NEW ms, NEW cs, Queued(ms, cs) PROVE Queued(ms, cs)'
    <3>1. \A x \in End : Waits(x, ms)'
      BY <1>1, <2>1, WaitsStill, Zenon DEF Queued
    <3> QED
      BY <1>1, <2>1, <3>1, Zenon DEF Queued
  <2> QED
    BY <1>1, <2>1, Zenon DEF Holds, MemHolds
<1>6. Step
  BY <1>1, StepNothing, Zenon
<1> QED
  BY <1>2, <1>4, <1>5, <1>6, Zenon DEF Holds

LEMMA PromiseFirst ==
  ASSUME Init
  PROVE  Promise!Init
  BY PromiseEnds DEF Init, Each, Promise!Init

\* What an end has not heard of the peer's messages and close is in its buffer, on the
\* wire or in the task queue, whole and in order, unless the connection took it along; a
\* close is behind all messages, and nobody is told of one that nobody asked for.
THEOREM HeldUntilHeard == Spec => []Holds
<1>1. Holds /\ [Next]_vars => Holds'
  BY HoldsNext, HoldsStill
<1> QED
  BY HoldsFirst, <1>1, PTL DEF Spec

\* Both transports do only what the interface Transport promises, whatever the lengths of
\* the messages, the masking keys, the cuts the network makes and the moment it breaks.
THEOREM ImplementsTransportHolds == Spec => ImplementsTransport
<1>1. Holds /\ [Next]_vars => [Promise!Next]_(Promise!vars)
  BY HoldsNext, HoldsStill DEF Step
<1>2. Init => Promise!Init
  BY PromiseFirst
<1> QED
  BY <1>1, <1>2, HeldUntilHeard, PTL DEF Spec, ImplementsTransport, Promise!Spec

-----------------------------------------------------------------------------
(* What the channel gives to those who use it. *)

ChannelTypes ==
  /\ sent \in [End -> Seq(Text)] /\ got \in [End -> Seq(Text)]
  /\ quit \in [End -> BOOLEAN] /\ told \in [End -> BOOLEAN]
  /\ broken \in BOOLEAN

\* The close that an end hears of is its own, the peer's, or a lost connection;
\* a peer that hung up says nothing more.
ToldWhy ==
  \A e \in End : (told[e] /\ ~quit[e] /\ ~broken) => quit[Peer(e)] /\ got[e] = sent[Peer(e)]

Channel == ChannelTypes /\ Promise!InOrder /\ ToldWhy

LEMMA PeerIsEnd == \A e \in End : Peer(e) \in End /\ Peer(e) # e
  BY DEF End, Peer

LEMMA PrefixOfAppend ==
  ASSUME NEW s \in Seq(Text), NEW m \in Text, NEW n \in 0..Len(s)
  PROVE  SubSeq(Append(s, m), 1, n) = SubSeq(s, 1, n)
  OBVIOUS

LEMMA PrefixIsSeq ==
  ASSUME NEW s \in Seq(Text), NEW n \in 0..Len(s)
  PROVE  SubSeq(s, 1, n) \in Seq(Text) /\ Len(SubSeq(s, 1, n)) = n
  OBVIOUS

LEMMA WholePrefix ==
  ASSUME NEW s \in Seq(Text)
  PROVE  s = SubSeq(s, 1, Len(s))
  OBVIOUS

LEMMA InitOK == Promise!Init => Channel
  <1> SUFFICES ASSUME Promise!Init PROVE Channel
    OBVIOUS
  <1> DEFINE nothing == [e \in End |-> <<>>]
  <1>0. <<>> \in Seq(Text)
    OBVIOUS
  <1>1. ChannelTypes
    <2>1. nothing \in [End -> Seq(Text)]
      BY <1>0
    <2>2. [e \in End |-> FALSE] \in [End -> BOOLEAN]
      OBVIOUS
    <2>3. sent = nothing /\ got = nothing
      BY PromiseEnds DEF Promise!Init
    <2> HIDE DEF nothing
    <2> QED
      BY PromiseEnds, <2>1, <2>2, <2>3 DEF Promise!Init, ChannelTypes
  <1>2. Promise!InOrder
    <2> SUFFICES ASSUME NEW e \in End
                 PROVE  Len(got[e]) <= Len(sent[Peer(e)])
                        /\ got[e] = SubSeq(sent[Peer(e)], 1, Len(got[e]))
      BY PromiseEnds DEF Promise!InOrder
    <2>1. got[e] = sent[Peer(e)] /\ got[e] \in Seq(Text)
      BY PromiseEnds, <1>0, PeerIsEnd DEF Promise!Init
    <2> QED
      BY <2>1, WholePrefix
  <1>3. ToldWhy
    BY PromiseEnds DEF Promise!Init, ToldWhy
  <1> QED
    BY <1>1, <1>2, <1>3 DEF Channel

LEMMA SendOK ==
  ASSUME Channel, NEW e \in End, NEW m \in Text, Promise!Send(e, m)
  PROVE  Channel'
  <1> USE DEF Channel
  <1>1. ChannelTypes'
    BY DEF Promise!Send, ChannelTypes
  <1>2. Promise!InOrder'
    <2> SUFFICES ASSUME NEW d \in End
                 PROVE  Len(got'[d]) <= Len(sent'[Peer(d)])
                        /\ got'[d] = SubSeq(sent'[Peer(d)], 1, Len(got'[d]))
      BY PromiseEnds DEF Promise!InOrder
    <2> DEFINE p == Peer(d)
    <2>0. p \in End /\ got' = got /\ sent[p] \in Seq(Text) /\ got[d] \in Seq(Text)
      BY PeerIsEnd DEF Promise!Send, ChannelTypes
    <2>1. Len(got[d]) <= Len(sent[p]) /\ got[d] = SubSeq(sent[p], 1, Len(got[d]))
      BY PromiseEnds DEF Promise!InOrder
    <2>2. CASE p = e
      <3>1. sent'[p] = Append(sent[p], m)
        BY <2>0, <2>2 DEF Promise!Send, ChannelTypes
      <3>2. Len(got[d]) \in 0..Len(sent[p]) /\ Len(sent'[p]) = Len(sent[p]) + 1
        BY <2>0, <2>1, <3>1
      <3> QED
        BY <2>0, <2>1, <3>1, <3>2, PrefixOfAppend
    <2>3. CASE p # e
      BY <2>0, <2>1, <2>3 DEF Promise!Send, ChannelTypes
    <2> QED
      BY <2>2, <2>3
  <1>3. ToldWhy'
    BY PeerIsEnd DEF Promise!Send, ToldWhy, ChannelTypes
  <1> QED
    BY <1>1, <1>2, <1>3

LEMMA HandOK ==
  ASSUME Channel, NEW e \in End, Promise!Hand(e)
  PROVE  Channel'
  <1> USE DEF Channel
  <1> DEFINE p == Peer(e)
  <1>0. p \in End /\ sent[p] \in Seq(Text) /\ got[e] \in Seq(Text)
    BY PeerIsEnd DEF ChannelTypes
  <1>1. PICK n \in (Len(got[e]) + 1)..Len(sent[p]) :
          got' = [got EXCEPT ![e] = SubSeq(sent[p], 1, n)]
    BY PromiseEnds DEF Promise!Hand
  <1>2. n \in 0..Len(sent[p]) /\ n > Len(got[e])
    BY <1>0
  <1>3. got'[e] \in Seq(Text) /\ Len(got'[e]) = n /\ got'[e] = SubSeq(sent[p], 1, n)
    BY <1>0, <1>1, <1>2, PrefixIsSeq DEF ChannelTypes
  <1>4. ChannelTypes'
    BY PromiseEnds, <1>1, <1>3 DEF Promise!Hand, ChannelTypes
  <1>5. Promise!InOrder'
    BY PromiseEnds, <1>1, <1>2, <1>3 DEF Promise!Hand, Promise!InOrder, ChannelTypes
  <1>6. ToldWhy'
    <2>1. got[e] # sent[p]
      BY <1>0, <1>2
    <2> QED
      BY PromiseEnds, <1>1, <2>1 DEF Promise!Hand, ToldWhy, ChannelTypes
  <1> QED
    BY <1>4, <1>5, <1>6

LEMMA CloseOK ==
  ASSUME Channel, NEW e \in End, Promise!Close(e)
  PROVE  Channel'
  <1> USE DEF Channel
  <1>1. ChannelTypes'
    BY DEF Promise!Close, ChannelTypes
  <1>2. Promise!InOrder'
    BY PromiseEnds DEF Promise!Close, Promise!InOrder
  <1>3. ToldWhy'
    BY PeerIsEnd DEF Promise!Close, ToldWhy, ChannelTypes
  <1> QED
    BY <1>1, <1>2, <1>3

LEMMA TellOK ==
  ASSUME Channel, NEW e \in End, Promise!Tell(e)
  PROVE  Channel'
  <1> USE DEF Channel
  <1> DEFINE p == Peer(e)
  <1>0. p \in End /\ sent[p] \in Seq(Text)
    BY PeerIsEnd DEF ChannelTypes
  <1>1. CASE (quit[e] \/ broken) /\ UNCHANGED got
    <2>1. ChannelTypes'
      BY PromiseEnds, <1>1 DEF Promise!Tell, ChannelTypes
    <2>2. Promise!InOrder'
      BY PromiseEnds, <1>1 DEF Promise!Tell, Promise!InOrder
    <2>3. ToldWhy'
      BY PromiseEnds, <1>1 DEF Promise!Tell, ToldWhy, ChannelTypes
    <2> QED
      BY <2>1, <2>2, <2>3
  <1>2. CASE quit[p] /\ got' = [got EXCEPT ![e] = sent[p]]
    <2>1. ChannelTypes'
      BY PromiseEnds, <1>0, <1>2 DEF Promise!Tell, ChannelTypes
    <2>2. Promise!InOrder'
      BY PromiseEnds, <1>0, <1>2, WholePrefix DEF Promise!Tell, Promise!InOrder, ChannelTypes
    <2>3. ToldWhy'
      BY PromiseEnds, <1>0, <1>2 DEF Promise!Tell, ToldWhy, ChannelTypes
    <2> QED
      BY <2>1, <2>2, <2>3
  <1> QED
    BY PromiseEnds, <1>1, <1>2 DEF Promise!Tell

LEMMA BreakOK ==
  ASSUME Channel, Promise!Break
  PROVE  Channel'
  <1>1. ChannelTypes'
    BY DEF Channel, Promise!Break, ChannelTypes
  <1>2. Promise!InOrder'
    BY PromiseEnds DEF Channel, Promise!Break, Promise!InOrder
  <1>3. ToldWhy'
    BY DEF Channel, Promise!Break, ToldWhy
  <1> QED
    BY <1>1, <1>2, <1>3 DEF Channel

LEMMA StutterOK ==
  ASSUME Channel, UNCHANGED Promise!vars
  PROVE  Channel'
  BY PromiseEnds DEF Channel, ChannelTypes, Promise!InOrder, ToldWhy, Promise!vars

LEMMA StepOK == Channel /\ [Promise!Next]_(Promise!vars) => Channel'
  BY PromiseEnds, SendOK, HandOK, CloseOK, TellOK, BreakOK, StutterOK DEF Promise!Next

LEMMA Inductive == Promise!Spec => []Channel
  BY InitOK, StepOK, PTL DEF Promise!Spec

LEMMA ChannelHolds == Promise!Spec => []Promise!InOrder /\ []Promise!HeardAll
  <1>1. Channel => Promise!InOrder
    BY DEF Channel
  <1>2. Channel => Promise!HeardAll
    BY PromiseEnds DEF Channel, ToldWhy, Promise!HeardAll
  <1> QED
    BY <1>1, <1>2, Inductive, PTL

\* Over either transport, whatever the two ends do and whenever the connection is lost,
\* what an end has been handed is a prefix of what the other end sent.
THEOREM NothingMangled == Spec => []Promise!InOrder
  BY ImplementsTransportHolds, ChannelHolds, PTL DEF ImplementsTransport

\* Over either transport, an end that did not hang up itself, on a connection that was not
\* lost, hears of the close only when nothing the peer said is left unheard.
THEOREM CloseIsLast == Spec => []Promise!HeardAll
  BY ImplementsTransportHolds, ChannelHolds, PTL DEF ImplementsTransport
=============================================================================
