---------------------------- MODULE FlightProofs ----------------------------
(***************************************************************************)
(* The flight stack, for every set of stations and all scripts of their    *)
(* messages: every variable keeps its type; however the bytes are cut into *)
(* pieces, the drone does the commands that the whole stream holds; what a *)
(* station misses between two replies is answers to other stations, and    *)
(* what it is told is so; a command arrives as it was given, and nobody's  *)
(* commands are mixed with another's.                                      *)
(***************************************************************************)
EXTENDS Flight, WellFoundedInduction, TLAPS

-----------------------------------------------------------------------------
(* Induction and recursion over Nat, from the least element of a set of      *)
(* numbers; a recursive function of the codec is then what its equations say.*)
(* Joining gives the elements of two sequences put together.                 *)

LEMMA LeastNumber ==
  ASSUME NEW T, T \subseteq Nat, T # {}
  PROVE  \E x \in T : \A y \in T : x <= y
<1> DEFINE R == OpToRel(<, Nat)
<1>1. IsWellFoundedOn(R, Nat)
  BY NatLessThanWellFounded
<1> HIDE DEF R
<1>2. PICK x \in T : \A y \in T : <<y, x>> \notin R
  BY <1>1, WFMin
<1>3. ASSUME NEW y \in T PROVE x <= y
  <2>1. y \in Nat /\ x \in Nat /\ <<y, x>> \notin R
    BY <1>2
  <2> QED
    BY <2>1 DEF R, OpToRel
<1> QED
  BY <1>3

LEMMA Induct ==
  ASSUME NEW S, 0 \in S, \A n \in Nat : n \in S => n + 1 \in S
  PROVE  Nat \subseteq S
<1> SUFFICES ASSUME Nat \ S # {} PROVE FALSE
  OBVIOUS
<1>1. PICK x \in Nat \ S : \A y \in Nat \ S : x <= y
  BY LeastNumber
<1>2. x # 0 /\ x - 1 \in Nat /\ x - 1 \in S
  BY <1>1
<1> QED
  BY <1>1, <1>2

\* A function that iterates step from base exists.
Iterates(g, base, step) == g[0] = base /\ \A n \in Nat : g[n + 1] = step[n][g[n]]

LEMMA Recursion ==
  ASSUME NEW V, NEW base \in V, NEW step \in [Nat -> [V -> V]]
  PROVE  \E g \in [Nat -> V] : Iterates(g, base, step)
<1> DEFINE Good(g, m) == g[0] = base /\ \A n \in Nat : n < m => g[n + 1] = step[n][g[n]]
           S == {m \in Nat : \E g \in [Nat -> V] : Good(g, m)}
<1>1. 0 \in S
  <2>1. [n \in Nat |-> base] \in [Nat -> V] /\ Good([n \in Nat |-> base], 0)
    OBVIOUS
  <2> QED
    BY <2>1
<1>2. ASSUME NEW m \in Nat, m \in S PROVE m + 1 \in S
  <2>1. PICK g \in [Nat -> V] : Good(g, m)
    BY <1>2
  <2> DEFINE h == [n \in Nat |-> IF n = m + 1 THEN step[m][g[m]] ELSE g[n]]
  <2>2. step[m][g[m]] \in V
    OBVIOUS
  <2>3. h \in [Nat -> V]
    BY <2>2
  <2>4. h[0] = base
    BY <2>1
  <2>5. ASSUME NEW n \in Nat, n < m + 1 PROVE h[n + 1] = step[n][h[n]]
    <3>1. h[n] = g[n] /\ n + 1 \in Nat
      BY <2>5
    <3>2. CASE n = m
      BY <3>1, <3>2
    <3>3. CASE n # m
      <4>1. n < m /\ n + 1 # m + 1
        BY <2>5, <3>3
      <4> QED
        BY <2>1, <3>1, <4>1
    <3> QED
      BY <3>2, <3>3
  <2> HIDE DEF h
  <2> QED
    BY <2>3, <2>4, <2>5
<1>3. Nat \subseteq S
  <2> HIDE DEF S
  <2> QED
    BY <1>1, <1>2, Induct
<1> DEFINE at == [m \in Nat |-> CHOOSE g \in [Nat -> V] : Good(g, m)]
<1>4. ASSUME NEW m \in Nat PROVE at[m] \in [Nat -> V] /\ Good(at[m], m)
  <2>1. \E g \in [Nat -> V] : Good(g, m)
    BY <1>3
  <2> HIDE DEF Good
  <2> QED
    BY <2>1
<1> HIDE DEF at
<1>5. ASSUME NEW m \in Nat, NEW k \in Nat PROVE k <= m => at[m][k] = at[k][k]
  <2> DEFINE P == {n \in Nat : n <= k => at[m][n] = at[k][n]}
  <2> SUFFICES ASSUME k <= m PROVE at[m][k] = at[k][k]
    OBVIOUS
  <2>1. 0 \in P
    BY <1>4
  <2>2. ASSUME NEW n \in Nat, n \in P PROVE n + 1 \in P
    <3> SUFFICES ASSUME n + 1 <= k PROVE at[m][n + 1] = at[k][n + 1]
      OBVIOUS
    <3>1. n < k /\ n < m /\ at[m][n] = at[k][n]
      BY <2>2
    <3> QED
      BY <1>4, <3>1
  <2>3. Nat \subseteq P
    <3> HIDE DEF P
    <3> QED
      BY <2>1, <2>2, Induct
  <2> QED
    BY <2>3
<1> DEFINE f == [n \in Nat |-> at[n][n]]
<1>6. f \in [Nat -> V]
  BY <1>4
<1>7. f[0] = base
  BY <1>4
<1>8. ASSUME NEW n \in Nat PROVE f[n + 1] = step[n][f[n]]
  <2>1. at[n + 1][n + 1] = step[n][at[n + 1][n]]
    BY <1>4
  <2>2. at[n + 1][n] = at[n][n]
    BY <1>5
  <2> QED
    BY <2>1, <2>2
<1> HIDE DEF f
<1> QED
  BY <1>6, <1>7, <1>8 DEF Iterates

\* A function on 0..N that takes N steps from base.
Climbs(g, N, base, step) == g[0] = base /\ \A n \in 1..N : g[n] = step[n][g[n - 1]]

LEMMA Climb ==
  ASSUME NEW V, NEW base \in V, NEW N \in Nat, NEW step \in [1..N -> [V -> V]]
  PROVE  \E g \in [0..N -> V] : Climbs(g, N, base, step)
<1> DEFINE whole == [n \in Nat |-> [v \in V |-> IF n + 1 <= N THEN step[n + 1][v] ELSE v]]
<1>1. whole \in [Nat -> [V -> V]]
  OBVIOUS
<1>2. PICK f \in [Nat -> V] : Iterates(f, base, whole)
  <2> HIDE DEF whole
  <2> QED
    BY <1>1, Recursion
<1> DEFINE g == [n \in 0..N |-> f[n]]
<1>3. g \in [0..N -> V] /\ g[0] = base
  BY <1>2 DEF Iterates
<1>4. ASSUME NEW n \in 1..N PROVE g[n] = step[n][g[n - 1]]
  <2>1. n - 1 \in Nat /\ (n - 1) + 1 = n /\ n <= N /\ n \in 0..N /\ n - 1 \in 0..N
    OBVIOUS
  <2>2. f[(n - 1) + 1] = whole[n - 1][f[n - 1]]
    BY <1>2, <2>1 DEF Iterates
  <2>3. f[n - 1] \in V
    BY <2>1
  <2> QED
    BY <2>1, <2>2, <2>3
<1> HIDE DEF g
<1> QED
  BY <1>3, <1>4 DEF Climbs

LEMMA Members ==
  ASSUME NEW S, NEW s \in Seq(S)
  PROVE  \A i \in 1..Len(s) : s[i] \in S
  OBVIOUS

LEMMA Same ==
  ASSUME NEW S, NEW s \in Seq(S), NEW t \in Seq(S), Len(s) = Len(t),
         \A i \in 1..Len(s) : s[i] = t[i]
  PROVE  s = t
  OBVIOUS

LEMMA Joining ==
  ASSUME NEW S, NEW p \in Seq(S), NEW q \in Seq(S)
  PROVE  /\ p \o q \in Seq(S) /\ Len(p) \in Nat /\ Len(q) \in Nat
         /\ Len(p \o q) = Len(p) + Len(q)
         /\ \A i \in 1..Len(p) : (p \o q)[i] = p[i]
         /\ \A i \in 1..Len(q) : (p \o q)[Len(p) + i] = q[i]
  OBVIOUS

LEMMA Part ==
  ASSUME NEW S, NEW s \in Seq(S), NEW i \in Nat, NEW j \in Nat, i <= j, j <= Len(s)
  PROVE  /\ SubSeq(s, i + 1, j) \in Seq(S) /\ Len(SubSeq(s, i + 1, j)) = j - i
         /\ \A n \in 1..(j - i) : SubSeq(s, i + 1, j)[n] = s[i + n]
  OBVIOUS

-----------------------------------------------------------------------------
(* The parser's two tests, for a start byte and for a whole frame, give the  *)
(* same answer when more bytes have come.                                    *)

\* Where the parser finds its next start byte.
LEMMA SyncedIs ==
  ASSUME NEW b \in Seq(Byte)
  PROVE  \/ Synced(b) = <<>> /\ \A i \in 1..Len(b) : b[i] # STX
         \/ \E i \in 1..Len(b) : /\ b[i] = STX /\ \A j \in 1..(i - 1) : b[j] # STX
                                 /\ Synced(b) = SubSeq(b, i, Len(b))
<1> DEFINE at == {i \in DOMAIN b : b[i] = STX}
<1>1. CASE at = {}
  <2>1. Synced(b) = <<>>
    BY <1>1 DEF Synced
  <2> QED
    BY <1>1, <2>1
<1>2. CASE at # {}
  <2>1. PICK i \in at : \A j \in at : i <= j
    <3>1. at \subseteq Nat
      OBVIOUS
    <3> QED
      BY <1>2, <3>1, LeastNumber
  <2> DEFINE k == CHOOSE n \in at : \A j \in at : n <= j
  <2>2. k \in at /\ \A j \in at : k <= j
    BY <2>1
  <2>3. Synced(b) = SubSeq(b, k, Len(b))
    BY <1>2 DEF Synced
  <2>4. k \in 1..Len(b) /\ b[k] = STX
    BY <2>2
  <2>5. \A j \in 1..(k - 1) : b[j] # STX
    BY <2>2, <2>4
  <2> HIDE DEF k
  <2> QED
    BY <2>3, <2>4, <2>5
<1> QED
  BY <1>1, <1>2

LEMMA SyncedAt ==
  ASSUME NEW b \in Seq(Byte), NEW i \in 1..Len(b), b[i] = STX, \A j \in 1..(i - 1) : b[j] # STX
  PROVE  Synced(b) = SubSeq(b, i, Len(b))
<1>1. ~\A n \in 1..Len(b) : b[n] # STX
  OBVIOUS
<1>2. PICK n \in 1..Len(b) : /\ b[n] = STX /\ \A j \in 1..(n - 1) : b[j] # STX
                             /\ Synced(b) = SubSeq(b, n, Len(b))
  BY <1>1, SyncedIs
<1>3. n = i
  BY <1>2
<1> QED
  BY <1>2, <1>3

LEMMA SyncedNowhere ==
  ASSUME NEW b \in Seq(Byte), \A i \in 1..Len(b) : b[i] # STX
  PROVE  Synced(b) = <<>>
  BY SyncedIs

LEMMA SyncedType ==
  ASSUME NEW b \in Seq(Byte)
  PROVE  /\ Synced(b) \in Seq(Byte) /\ Len(Synced(b)) <= Len(b)
         /\ Synced(b) = <<>> \/ Synced(b)[1] = STX
<1>1. CASE Synced(b) = <<>>
  BY <1>1
<1>2. CASE Synced(b) # <<>>
  <2>1. PICK i \in 1..Len(b) : b[i] = STX /\ Synced(b) = SubSeq(b, i, Len(b))
    BY <1>2, SyncedIs
  <2>2. SubSeq(b, i, Len(b)) \in Seq(Byte) /\ Len(SubSeq(b, i, Len(b))) = Len(b) - i + 1
        /\ SubSeq(b, i, Len(b))[1] = b[i]
    OBVIOUS
  <2> QED
    BY <2>1, <2>2
<1> QED
  BY <1>1, <1>2

LEMMA SyncedStays ==
  ASSUME NEW b \in Seq(Byte), b = <<>> \/ b[1] = STX
  PROVE  Synced(b) = b
<1>1. CASE b = <<>>
  <2>1. \A i \in 1..Len(b) : b[i] # STX
    BY <1>1
  <2> QED
    BY <1>1, <2>1, SyncedNowhere
<1>2. CASE b # <<>>
  <2>1. 1 \in 1..Len(b) /\ \A j \in 1..(1 - 1) : b[j] # STX
    BY <1>2
  <2>2. Synced(b) = SubSeq(b, 1, Len(b))
    BY <1>2, <2>1, SyncedAt
  <2> QED
    BY <2>2
<1> QED
  BY <1>1, <1>2

LEMMA SubOfJoin ==
  ASSUME NEW b \in Seq(Byte), NEW c \in Seq(Byte), NEW i \in 1..Len(b)
  PROVE  SubSeq(b \o c, i, Len(b \o c)) = SubSeq(b, i, Len(b)) \o c
<1> DEFINE x == SubSeq(b \o c, i, Len(b \o c))
           y == SubSeq(b, i, Len(b)) \o c
<1>1. b \o c \in Seq(Byte) /\ Len(b \o c) = Len(b) + Len(c)
  OBVIOUS
<1>2. x \in Seq(Byte) /\ Len(x) = Len(b) + Len(c) - i + 1
  BY <1>1
<1>3. y \in Seq(Byte) /\ Len(y) = Len(b) + Len(c) - i + 1
  OBVIOUS
<1>4. ASSUME NEW n \in 1..(Len(b) + Len(c) - i + 1) PROVE x[n] = y[n]
  <2>1. x[n] = (b \o c)[n + i - 1]
    BY <1>1
  <2>2. CASE n <= Len(b) - i + 1
    BY <2>1, <2>2
  <2>3. CASE n > Len(b) - i + 1
    BY <2>1, <2>3
  <2> QED
    BY <2>2, <2>3
<1> HIDE DEF x, y
<1> QED
  BY <1>2, <1>3, <1>4

\* Resynchronising can wait for more bytes.
LEMMA SyncedJoin ==
  ASSUME NEW a \in Seq(Byte), NEW c \in Seq(Byte)
  PROVE  /\ Synced(a) # <<>> => Synced(a \o c) = Synced(a) \o c
         /\ Synced(Synced(a) \o c) = Synced(a \o c)
<1>0. a \o c \in Seq(Byte) /\ Len(a \o c) = Len(a) + Len(c)
  OBVIOUS
<1>1. CASE Synced(a) # <<>>
  <2>1. PICK i \in 1..Len(a) : /\ a[i] = STX /\ \A j \in 1..(i - 1) : a[j] # STX
                               /\ Synced(a) = SubSeq(a, i, Len(a))
    BY <1>1, SyncedIs
  <2>2. i \in 1..Len(a \o c) /\ (a \o c)[i] = STX /\ \A j \in 1..(i - 1) : (a \o c)[j] # STX
    BY <1>0, <2>1
  <2>3. Synced(a \o c) = SubSeq(a \o c, i, Len(a \o c))
    BY <1>0, <2>2, SyncedAt
  <2>4. Synced(a \o c) = Synced(a) \o c
    BY <2>1, <2>3, SubOfJoin
  <2>5. Synced(a) \in Seq(Byte) /\ Synced(a)[1] = STX
    BY <1>1, SyncedType
  <2>6. Synced(a) \o c \in Seq(Byte) /\ (Synced(a) \o c)[1] = STX
    BY <1>1, <2>5
  <2>7. Synced(Synced(a) \o c) = Synced(a) \o c
    BY <2>6, SyncedStays
  <2> QED
    BY <2>4, <2>7
<1>2. CASE Synced(a) = <<>>
  <2>1. \A i \in 1..Len(a) : a[i] # STX
    <3> SUFFICES ASSUME ~\A i \in 1..Len(a) : a[i] # STX PROVE FALSE
      OBVIOUS
    <3>1. PICK i \in 1..Len(a) : Synced(a) = SubSeq(a, i, Len(a))
      BY SyncedIs
    <3>2. SubSeq(a, i, Len(a)) # <<>>
      <4>1. Len(SubSeq(a, i, Len(a))) = Len(a) - i + 1 /\ Len(a) - i + 1 # 0
        OBVIOUS
      <4>2. Len(<<>>) = 0
        OBVIOUS
      <4> QED
        BY <4>1, <4>2
    <3> QED
      BY <1>2, <3>1, <3>2
  <2>2. <<>> \o c = c
    OBVIOUS
  <2>3. CASE Synced(c) = <<>> /\ \A i \in 1..Len(c) : c[i] # STX
    <3>1. \A i \in 1..Len(a \o c) : (a \o c)[i] # STX
      BY <1>0, <2>1, <2>3
    <3>2. Synced(a \o c) = <<>>
      BY <1>0, <3>1, SyncedNowhere
    <3> QED
      BY <1>2, <2>2, <2>3, <3>2
  <2>4. CASE \E i \in 1..Len(c) : /\ c[i] = STX /\ \A j \in 1..(i - 1) : c[j] # STX
                                  /\ Synced(c) = SubSeq(c, i, Len(c))
    <3>1. PICK i \in 1..Len(c) : /\ c[i] = STX /\ \A j \in 1..(i - 1) : c[j] # STX
                                 /\ Synced(c) = SubSeq(c, i, Len(c))
      BY <2>4
    <3> DEFINE k == Len(a) + i
    <3>2. k \in 1..Len(a \o c) /\ (a \o c)[k] = STX
      BY <1>0, <3>1
    <3>3. ASSUME NEW j \in 1..(k - 1) PROVE (a \o c)[j] # STX
      <4>1. CASE j <= Len(a)
        BY <2>1, <4>1
      <4>2. CASE j > Len(a)
        <5>1. j - Len(a) \in 1..(i - 1) /\ (a \o c)[j] = c[j - Len(a)]
          BY <4>2
        <5> QED
          BY <3>1, <5>1
      <4> QED
        BY <4>1, <4>2
    <3>4. Synced(a \o c) = SubSeq(a \o c, k, Len(a \o c))
      <4> HIDE DEF k
      <4> QED
        BY <1>0, <3>2, <3>3, SyncedAt
    <3>5. SubSeq(a \o c, k, Len(a \o c)) = SubSeq(c, i, Len(c))
      <4>1. SubSeq(a \o c, k, Len(a \o c)) \in Seq(Byte)
            /\ Len(SubSeq(a \o c, k, Len(a \o c))) = Len(c) - i + 1
        BY <1>0
      <4>2. SubSeq(c, i, Len(c)) \in Seq(Byte) /\ Len(SubSeq(c, i, Len(c))) = Len(c) - i + 1
        OBVIOUS
      <4>3. ASSUME NEW n \in 1..(Len(c) - i + 1)
            PROVE  SubSeq(a \o c, k, Len(a \o c))[n] = SubSeq(c, i, Len(c))[n]
        <5>1. SubSeq(a \o c, k, Len(a \o c))[n] = (a \o c)[n + k - 1]
          BY <1>0
        <5>2. (a \o c)[n + k - 1] = c[n + i - 1]
          OBVIOUS
        <5> QED
          BY <5>1, <5>2
      <4> DEFINE p == SubSeq(a \o c, k, Len(a \o c))
                 q == SubSeq(c, i, Len(c))
      <4>4. /\ p \in Seq(Byte) /\ q \in Seq(Byte) /\ Len(p) = Len(q)
            /\ \A n \in 1..Len(p) : p[n] = q[n]
        BY <4>1, <4>2, <4>3
      <4> HIDE DEF p, q
      <4>5. p = q
        BY <4>4, Same
      <4> QED
        BY <4>5 DEF p, q
    <3> QED
      BY <1>2, <2>2, <3>1, <3>4, <3>5
  <2> QED
    BY <2>3, <2>4, SyncedIs
<1> QED
  BY <1>1, <1>2

LEMMA Sizes ==
  ASSUME NEW p \in Byte, NEW x, x = SignatureLen \/ x = 0
  PROVE  /\ HeaderLen + p \in Nat /\ HeaderLen + p + CrcLen + x \in Nat
         /\ HeaderLen + p + CrcLen + x >= HeaderLen + p + CrcLen
         /\ HeaderLen + p + CrcLen + x <= HeaderLen + p + CrcLen + SignatureLen
  BY DEF Byte, HeaderLen, CrcLen, SignatureLen

\* The sizes a whole frame announces are its own.
LEMMA SizeOf ==
  ASSUME NEW b \in Seq(Byte), Len(b) >= HeaderLen
  PROVE  /\ b[2] \in Byte /\ b[3] \in Byte /\ FrameSize(b) \in Nat
         /\ HeaderLen + b[2] \in Nat /\ FrameSize(b) >= HeaderLen + b[2] + CrcLen
         /\ FrameSize(b) <= HeaderLen + b[2] + CrcLen + SignatureLen
<1>1. b[2] \in Byte /\ b[3] \in Byte
  BY DEF HeaderLen
<1>2. PICK x : x = IF IsSigned(b) THEN SignatureLen ELSE 0
  OBVIOUS
<1>3. x = SignatureLen \/ x = 0
  BY <1>2
<1>4. FrameSize(b) = HeaderLen + b[2] + CrcLen + x
  BY <1>2 DEF FrameSize
<1> QED
  BY <1>1, <1>3, <1>4, Sizes

LEMMA PieceOfJoin ==
  ASSUME NEW b \in Seq(Byte), NEW c \in Seq(Byte), NEW i \in Nat, NEW j \in Nat,
         1 <= i, j <= Len(b)
  PROVE  SubSeq(b \o c, i, j) = SubSeq(b, i, j)
<1> DEFINE x == SubSeq(b \o c, i, j)
           y == SubSeq(b, i, j)
           n == IF i <= j THEN j - i + 1 ELSE 0
<1>1. b \o c \in Seq(Byte) /\ Len(b \o c) = Len(b) + Len(c)
  OBVIOUS
<1>2. x \in Seq(Byte) /\ Len(x) = n
  BY <1>1
<1>3. y \in Seq(Byte) /\ Len(y) = n
  OBVIOUS
<1>4. ASSUME NEW k \in 1..n PROVE x[k] = y[k]
  <2>1. x[k] = (b \o c)[k + i - 1] /\ y[k] = b[k + i - 1]
    BY <1>1
  <2> QED
    BY <2>1
<1> HIDE DEF x, y, n
<1>5. Len(x) = Len(y) /\ \A k \in 1..Len(x) : x[k] = y[k]
  BY <1>2, <1>3, <1>4
<1> QED
  BY <1>2, <1>3, <1>5, Same DEF x, y

LEMMA ReadyJoin ==
  ASSUME NEW b \in Seq(Byte), NEW c \in Seq(Byte), Ready(b)
  PROVE  /\ Ready(b \o c) /\ FrameSize(b \o c) = FrameSize(b) /\ Decoded(b \o c) = Decoded(b)
         /\ SubSeq(b \o c, FrameSize(b \o c) + 1, Len(b \o c))
              = SubSeq(b, FrameSize(b) + 1, Len(b)) \o c
<1> DEFINE d == b \o c
           N == FrameSize(b)
           e == HeaderLen + b[2]
<1>1. /\ Len(b) >= HeaderLen /\ N \in Nat /\ N <= Len(b) /\ e + CrcLen <= N /\ b[2] \in Byte
      /\ e \in Nat
  <2>1. Len(b) >= HeaderLen /\ N <= Len(b)
    BY DEF Ready
  <2>2. b[2] \in Byte /\ N \in Nat /\ e \in Nat /\ N >= e + CrcLen
    BY <2>1, SizeOf
  <2>3. e + CrcLen <= N
    <3> HIDE DEF e, N
    <3> QED
      BY <2>2 DEF CrcLen
  <2> QED
    BY <2>1, <2>2, <2>3
<1>2. /\ d[2] = b[2] /\ d[3] = b[3] /\ d[5] = b[5] /\ d[6] = b[6] /\ d[7] = b[7]
      /\ Len(d) = Len(b) + Len(c) /\ Len(c) \in Nat /\ Len(b) \in Nat
  BY <1>1 DEF HeaderLen
<1>3. FrameSize(d) = N
  BY <1>2 DEF FrameSize, IsSigned
<1>4. Ready(d)
  BY <1>1, <1>2, <1>3 DEF Ready, HeaderLen
<1>5. /\ SubSeq(d, 8, 10) = SubSeq(b, 8, 10)
      /\ SubSeq(d, HeaderLen + 1, e) = SubSeq(b, HeaderLen + 1, e)
      /\ SubSeq(d, 2, e) = SubSeq(b, 2, e) /\ SubSeq(d, e + 1, e + 2) = SubSeq(b, e + 1, e + 2)
  <2> HIDE DEF e, N
  <2>1. /\ 10 <= Len(b) /\ e <= Len(b) /\ e + 2 <= Len(b) /\ e + 1 \in Nat /\ e + 2 \in Nat
    BY <1>1, <1>2 DEF HeaderLen, CrcLen
  <2>2. \A i, j \in Nat : 1 <= i /\ j <= Len(b) => SubSeq(d, i, j) = SubSeq(b, i, j)
    BY PieceOfJoin
  <2> HIDE DEF d
  <2>0. 8 \in Nat /\ 10 \in Nat /\ 1 <= 8 /\ HeaderLen + 1 \in Nat /\ 1 <= HeaderLen + 1
    BY DEF HeaderLen
  <2>3. SubSeq(d, 8, 10) = SubSeq(b, 8, 10)
    BY <2>0, <2>1, <2>2, Zenon
  <2>4. SubSeq(d, HeaderLen + 1, e) = SubSeq(b, HeaderLen + 1, e)
    BY <1>1, <2>0, <2>1, <2>2, Zenon
  <2>5. SubSeq(d, 2, e) = SubSeq(b, 2, e)
    BY <1>1, <2>1, <2>2
  <2>6. SubSeq(d, e + 1, e + 2) = SubSeq(b, e + 1, e + 2)
    BY <1>1, <2>1, <2>2
  <2> QED
    BY <2>3, <2>4, <2>5, <2>6
<1>6. Decoded(d) = Decoded(b)
  <2>1. \A m : CrcOk(d, m) = CrcOk(b, m)
    BY <1>2, <1>5, Zenon DEF CrcOk
  <2> QED
    BY <1>2, <1>5, <2>1, Zenon DEF Decoded
<1>7. SubSeq(d, N + 1, Len(d)) = SubSeq(b, N + 1, Len(b)) \o c
  <2>1. CASE N + 1 <= Len(b)
    <3>1. N + 1 \in 1..Len(b)
      BY <1>1, <2>1
    <3> HIDE DEF N
    <3> QED
      BY <3>1, SubOfJoin
  <2>2. CASE N = Len(b)
    <3>1. SubSeq(b, Len(b) + 1, Len(b)) = <<>> /\ <<>> \o c = c
      OBVIOUS
    <3>2. SubSeq(b \o c, Len(b) + 1, Len(b \o c)) = c
      OBVIOUS
    <3> QED
      BY <2>2, <3>1, <3>2
  <2> QED
    <3>1. N + 1 <= Len(b) \/ N = Len(b)
      BY <1>1, <1>2
    <3> QED
      BY <2>1, <2>2, <3>1
<1> QED
  BY <1>3, <1>4, <1>6, <1>7

Parsed == {Decoded(b) : b \in {x \in Seq(Byte) : Ready(x)}}

LEMMA ParsedType ==
  ASSUME NEW b \in Seq(Byte), Ready(b)
  PROVE  Decoded(b) \in Parsed
  BY DEF Parsed

-----------------------------------------------------------------------------
(* The parser's loop.  A turn takes twelve bytes off or changes nothing, so  *)
(* the loop ends; a stream fed in two pieces ends as the whole does.         *)

AppendsBehind(p, q, x) == Append(p \o q, x) = p \o Append(q, x)

LEMMA AppendJoin ==
  ASSUME NEW S, NEW p \in Seq(S), NEW q \in Seq(S), NEW x \in S
  PROVE  AppendsBehind(p, q, x)
<1> DEFINE a == Append(p \o q, x)
           b == p \o Append(q, x)
<1>1. a \in Seq(S) /\ Len(a) = Len(p) + Len(q) + 1
  OBVIOUS
<1>2. b \in Seq(S) /\ Len(b) = Len(p) + Len(q) + 1
  OBVIOUS
<1>3. ASSUME NEW i \in 1..Len(a) PROVE a[i] = b[i]
  OBVIOUS
<1> HIDE DEF a, b
<1>4. a = b
  BY <1>1, <1>2, <1>3, Same
<1> QED
  BY <1>4 DEF a, b, AppendsBehind

ParserStage == [frames : Seq(Parsed), rest : Seq(Byte)]

LEMMA MakeParserStage ==
  ASSUME NEW f \in Seq(Parsed), NEW r \in Seq(Byte)
  PROVE  [frames |-> f, rest |-> r] \in ParserStage
  BY DEF ParserStage

LEMMA ParserStageParts ==
  ASSUME NEW s \in ParserStage
  PROVE  /\ s.frames \in Seq(Parsed) /\ s.rest \in Seq(Byte)
         /\ s = [frames |-> s.frames, rest |-> s.rest]
  BY DEF ParserStage

LEMMA TurnTakes ==
  ASSUME NEW b \in Seq(Byte), Ready(b)
  PROVE  /\ SubSeq(b, FrameSize(b) + 1, Len(b)) \in Seq(Byte)
         /\ Len(SubSeq(b, FrameSize(b) + 1, Len(b))) + 12 <= Len(b)
<1> DEFINE n == FrameSize(b)
<1>1. n \in Nat /\ n >= HeaderLen + b[2] + CrcLen /\ n <= Len(b) /\ b[2] \in Byte
  BY SizeOf DEF Ready
<1>2. n >= 12
  <2>1. \A p \in Byte, m \in Nat : m >= HeaderLen + p + CrcLen => m >= 12
    BY DEF HeaderLen, CrcLen, Byte
  <2> QED
    BY <1>1, <2>1, Zenon
<1> HIDE DEF n
<1>3. SubSeq(b, n + 1, Len(b)) \in Seq(Byte) /\ Len(SubSeq(b, n + 1, Len(b))) = Len(b) - n
  BY <1>1
<1>4. Len(b) \in Nat
  OBVIOUS
<1> QED
  BY <1>1, <1>2, <1>3, <1>4 DEF n

LEMMA PassIs ==
  ASSUME NEW s \in ParserStage
  PROVE  /\ Pass(s) \in ParserStage
         /\ Ready(Synced(s.rest)) =>
              LET b == Synced(s.rest) IN
              Pass(s) = [frames |-> Append(s.frames, Decoded(b)),
                         rest |-> SubSeq(b, FrameSize(b) + 1, Len(b))]
         /\ ~Ready(Synced(s.rest)) => Pass(s) = [frames |-> s.frames, rest |-> Synced(s.rest)]
<1> DEFINE b == Synced(s.rest)
<1>1. s.frames \in Seq(Parsed) /\ s.rest \in Seq(Byte)
  BY ParserStageParts
<1>2. b \in Seq(Byte)
  BY <1>1, SyncedType
<1>3. CASE Ready(b)
  <2>1. Pass(s) = [frames |-> Append(s.frames, Decoded(b)),
                   rest |-> SubSeq(b, FrameSize(b) + 1, Len(b))]
    BY <1>3 DEF Pass
  <2> HIDE DEF b
  <2>2. Append(s.frames, Decoded(b)) \in Seq(Parsed)
    BY <1>1, <1>2, <1>3, ParsedType
  <2>3. SubSeq(b, FrameSize(b) + 1, Len(b)) \in Seq(Byte)
    BY <1>2, <1>3, TurnTakes
  <2>4. Pass(s) \in ParserStage
    BY <2>1, <2>2, <2>3, MakeParserStage
  <2> QED
    BY <1>3, <2>1, <2>4 DEF b
<1>4. CASE ~Ready(b)
  <2>1. Pass(s) = [frames |-> s.frames, rest |-> b]
    BY <1>4 DEF Pass
  <2>2. Pass(s) \in ParserStage
    <3> HIDE DEF b
    <3> QED
      BY <1>1, <1>2, <2>1, MakeParserStage
  <2> QED
    BY <1>4, <2>1, <2>2
<1> QED
  BY <1>3, <1>4

LEMMA PassesDef ==
  ASSUME NEW s \in ParserStage
  PROVE  /\ Passes(s, 0) = s
         /\ \A n \in Nat : Passes(s, n) \in ParserStage /\ Passes(s, n + 1) = Pass(Passes(s, n))
<1> DEFINE Eq(q) == q = [i \in Nat |-> IF i = 0 THEN s ELSE Pass(q[i - 1])]
           q0 == CHOOSE q : Eq(q)
<1>1. \E q : q \in [Nat -> ParserStage] /\ Eq(q)
  <2> DEFINE step == [i \in Nat |-> [v \in ParserStage |-> Pass(v)]]
  <2>1. step \in [Nat -> [ParserStage -> ParserStage]]
    BY PassIs
  <2>2. PICK g \in [Nat -> ParserStage] : Iterates(g, s, step)
    <3> HIDE DEF step
    <3> QED
      BY <2>1, Recursion
  <2>3. ASSUME NEW i \in Nat, i # 0 PROVE g[i] = Pass(g[i - 1])
    <3>1. i - 1 \in Nat /\ (i - 1) + 1 = i
      BY <2>3
    <3> QED
      BY <2>2, <3>1 DEF Iterates
  <2> QED
    BY <2>2, <2>3 DEF Iterates
<1>2. Eq(q0)
  BY <1>1
<1>3. \A n \in Nat : Passes(s, n) = q0[n]
  BY DEF Passes
<1> HIDE DEF q0
<1>4. q0[0] = s
  BY <1>2
<1>5. \A n \in Nat : q0[n + 1] = Pass(q0[n])
  BY <1>2
<1> HIDE DEF Eq
<1> DEFINE S == {n \in Nat : q0[n] \in ParserStage}
<1>6. Nat \subseteq S
  <2>1. 0 \in S
    BY <1>4
  <2>2. ASSUME NEW n \in Nat, n \in S PROVE n + 1 \in S
    BY <2>2, <1>5, PassIs
  <2> HIDE DEF S
  <2> QED
    BY <2>1, <2>2, Induct
<1> QED
  BY <1>3, <1>4, <1>5, <1>6

\* The first turn may be taken off the front.
LEMMA PassesShift ==
  ASSUME NEW s \in ParserStage, NEW n \in Nat
  PROVE  Passes(s, n + 1) = Passes(Pass(s), n)
<1> DEFINE S == {k \in Nat : Passes(s, k + 1) = Passes(Pass(s), k)}
<1>0. Pass(s) \in ParserStage
  BY PassIs
<1>1. 0 \in S
  <2>1. Passes(s, 0 + 1) = Pass(Passes(s, 0)) /\ Passes(s, 0) = s
    BY PassesDef
  <2>2. Passes(Pass(s), 0) = Pass(s)
    BY <1>0, PassesDef
  <2> QED
    BY <2>1, <2>2
<1>2. ASSUME NEW k \in Nat, k \in S PROVE k + 1 \in S
  <2>1. Passes(s, (k + 1) + 1) = Pass(Passes(s, k + 1))
    BY PassesDef
  <2>2. Passes(Pass(s), k + 1) = Pass(Passes(Pass(s), k))
    BY <1>0, PassesDef
  <2> QED
    BY <1>2, <2>1, <2>2
<1>3. Nat \subseteq S
  <2> HIDE DEF S
  <2> QED
    BY <1>1, <1>2, Induct
<1> QED
  BY <1>3

LEMMA PassesIdle ==
  ASSUME NEW s \in ParserStage, Pass(s) = s, NEW n \in Nat
  PROVE  Passes(s, n) = s
<1> DEFINE S == {k \in Nat : Passes(s, k) = s}
<1>1. 0 \in S
  BY PassesDef
<1>2. ASSUME NEW k \in Nat, k \in S PROVE k + 1 \in S
  BY <1>2, PassesDef
<1>3. Nat \subseteq S
  <2> HIDE DEF S
  <2> QED
    BY <1>1, <1>2, Induct
<1> QED
  BY <1>3

\* Once no frame is whole, further turns change nothing.
LEMMA PassIdle ==
  ASSUME NEW s \in ParserStage, ~Ready(Synced(s.rest))
  PROVE  Pass(Pass(s)) = Pass(s)
<1> DEFINE b == Synced(s.rest)
           t == [frames |-> s.frames, rest |-> b]
<1>1. s.frames \in Seq(Parsed) /\ s.rest \in Seq(Byte)
  BY ParserStageParts
<1>2. b \in Seq(Byte) /\ (b = <<>> \/ b[1] = STX)
  BY <1>1, SyncedType
<1>3. Pass(s) = t
  BY PassIs
<1>4. Synced(b) = b
  <2> HIDE DEF b
  <2> QED
    BY <1>2, SyncedStays
<1>5. t \in ParserStage /\ t.rest = b /\ t.frames = s.frames
  <2> HIDE DEF b
  <2> QED
    BY <1>1, <1>2, MakeParserStage
<1> HIDE DEF t, b
<1>6. Pass(t) = [frames |-> t.frames, rest |-> Synced(t.rest)]
  BY <1>4, <1>5, PassIs DEF b
<1> QED
  BY <1>3, <1>4, <1>5, <1>6 DEF t

\* Whatever was found before stays in front.
Behind(f, s) == [frames |-> f \o s.frames, rest |-> s.rest]

LEMMA PassBehind ==
  ASSUME NEW f \in Seq(Parsed), NEW s \in ParserStage
  PROVE  Behind(f, s) \in ParserStage /\ Pass(Behind(f, s)) = Behind(f, Pass(s))
<1> DEFINE t == Behind(f, s)
           b == Synced(s.rest)
<1>1. s.frames \in Seq(Parsed) /\ s.rest \in Seq(Byte) /\ f \o s.frames \in Seq(Parsed)
  BY ParserStageParts
<1>2. t.frames = f \o s.frames /\ t.rest = s.rest /\ t \in ParserStage
  BY <1>1, MakeParserStage DEF Behind
<1>3. b \in Seq(Byte)
  BY <1>1, SyncedType
<1>4. CASE Ready(b)
  <2> DEFINE d == Decoded(b)
             r == SubSeq(b, FrameSize(b) + 1, Len(b))
  <2>1. Pass(s) = [frames |-> Append(s.frames, d), rest |-> r]
    BY <1>4, PassIs
  <2> HIDE DEF t
  <2>2. Pass(t) = [frames |-> Append(f \o s.frames, d), rest |-> r]
    BY <1>2, <1>4, PassIs
  <2>3. d \in Parsed
    <3> HIDE DEF b
    <3> QED
      BY <1>3, <1>4, ParsedType
  <2> HIDE DEF d, r
  <2>4. Append(f \o s.frames, d) = f \o Append(s.frames, d)
    <3>1. AppendsBehind(f, s.frames, d)
      BY <1>1, <2>3, AppendJoin, Zenon
    <3> QED
      BY <3>1, Zenon DEF AppendsBehind
  <2>5. Behind(f, Pass(s)) = [frames |-> f \o Append(s.frames, d), rest |-> r]
    BY <2>1 DEF Behind
  <2> QED
    BY <1>2, <2>2, <2>4, <2>5 DEF t
<1>5. CASE ~Ready(b)
  <2>1. Pass(s) = [frames |-> s.frames, rest |-> b]
    BY <1>5, PassIs
  <2> HIDE DEF t
  <2>2. Pass(t) = [frames |-> f \o s.frames, rest |-> b]
    BY <1>2, <1>5, PassIs
  <2>3. Behind(f, Pass(s)) = [frames |-> f \o s.frames, rest |-> b]
    BY <2>1 DEF Behind
  <2> QED
    BY <1>2, <2>2, <2>3 DEF t
<1> QED
  BY <1>4, <1>5

LEMMA PassesBehind ==
  ASSUME NEW f \in Seq(Parsed), NEW s \in ParserStage, NEW n \in Nat
  PROVE  Passes(Behind(f, s), n) = Behind(f, Passes(s, n))
<1> DEFINE S == {k \in Nat : Passes(Behind(f, s), k) = Behind(f, Passes(s, k))}
<1>0. Behind(f, s) \in ParserStage
  BY PassBehind
<1>1. 0 \in S
  <2>1. Passes(Behind(f, s), 0) = Behind(f, s)
    BY <1>0, PassesDef
  <2>2. Passes(s, 0) = s
    BY PassesDef
  <2> QED
    BY <2>1, <2>2
<1>2. ASSUME NEW k \in Nat, k \in S PROVE k + 1 \in S
  <2>1. Passes(s, k) \in ParserStage /\ Passes(s, k + 1) = Pass(Passes(s, k))
    BY PassesDef
  <2>2. Passes(Behind(f, s), k + 1) = Pass(Passes(Behind(f, s), k))
    BY <1>0, PassesDef
  <2>3. Pass(Behind(f, Passes(s, k))) = Behind(f, Pass(Passes(s, k)))
    BY <2>1, PassBehind
  <2> QED
    BY <1>2, <2>1, <2>2, <2>3
<1>3. Nat \subseteq S
  <2> HIDE DEF S
  <2> QED
    BY <1>1, <1>2, Induct
<1> QED
  BY <1>3

\* A turn that finds a whole frame takes twelve bytes off at least.
LEMMA PassTakes ==
  ASSUME NEW s \in ParserStage, Ready(Synced(s.rest))
  PROVE  Len(Pass(s).rest) + 12 <= Len(s.rest)
<1> DEFINE b == Synced(s.rest)
<1>1. s.rest \in Seq(Byte)
  BY ParserStageParts
<1>2. b \in Seq(Byte) /\ Len(b) <= Len(s.rest)
  BY <1>1, SyncedType
<1>3. Pass(s).rest = SubSeq(b, FrameSize(b) + 1, Len(b))
  BY PassIs
<1> DEFINE r == SubSeq(b, FrameSize(b) + 1, Len(b))
<1>4. r \in Seq(Byte) /\ Len(r) + 12 <= Len(b)
  <2>1. Ready(b)
    OBVIOUS
  <2> HIDE DEF b
  <2> QED
    BY <1>2, <2>1, TurnTakes
<1>5. Len(r) \in Nat /\ Len(b) \in Nat /\ Len(s.rest) \in Nat
  BY <1>1, <1>2, <1>4
<1>6. Pass(s).rest = r
  BY <1>3
<1> HIDE DEF r, b
<1> QED
  BY <1>2, <1>4, <1>5, <1>6

\* So many turns leave nothing to do.
LEMMA Enough ==
  ASSUME NEW n \in Nat
  PROVE  \A s \in ParserStage : Len(s.rest) < 12 * n => Pass(Passes(s, n)) = Passes(s, n)
<1> DEFINE S == {k \in Nat : \A s \in ParserStage :
                   Len(s.rest) < 12 * k => Pass(Passes(s, k)) = Passes(s, k)}
<1>1. 0 \in S
  <2>1. ASSUME NEW s \in ParserStage PROVE ~(Len(s.rest) < 12 * 0)
    <3>1. s.rest \in Seq(Byte)
      BY ParserStageParts
    <3>2. Len(s.rest) \in Nat
      BY <3>1
    <3> QED
      BY <3>2
  <2> QED
    BY <2>1
<1>2. ASSUME NEW k \in Nat, k \in S PROVE k + 1 \in S
  <2>1. ASSUME NEW s \in ParserStage, Len(s.rest) < 12 * (k + 1)
        PROVE  Pass(Passes(s, k + 1)) = Passes(s, k + 1)
    <3>1. Passes(s, k + 1) = Passes(Pass(s), k) /\ Pass(s) \in ParserStage
      BY PassesShift, PassIs
    <3>2. s.rest \in Seq(Byte) /\ Pass(s).rest \in Seq(Byte)
      BY <3>1, ParserStageParts
    <3>3. Len(s.rest) \in Nat /\ Len(Pass(s).rest) \in Nat
      BY <3>2
    <3>4. CASE Ready(Synced(s.rest))
      <4>1. Len(Pass(s).rest) + 12 <= Len(s.rest)
        BY <3>4, PassTakes
      <4>2. Len(Pass(s).rest) < 12 * k
        BY <2>1, <3>3, <4>1
      <4> QED
        BY <1>2, <3>1, <4>2
    <3>5. CASE ~Ready(Synced(s.rest))
      <4>1. Pass(Pass(s)) = Pass(s)
        BY <3>5, PassIdle
      <4>2. Passes(Pass(s), k) = Pass(s)
        BY <3>1, <4>1, PassesIdle
      <4> QED
        BY <3>1, <4>1, <4>2
    <3> QED
      BY <3>4, <3>5
  <2> QED
    BY <2>1
<1>3. Nat \subseteq S
  <2> HIDE DEF S
  <2> QED
    BY <1>1, <1>2, Induct
<1> QED
  BY <1>3

LEMMA MoreTurns ==
  ASSUME NEW s \in ParserStage, NEW n \in Nat, Len(s.rest) < 12 * n, NEW m \in Nat, n <= m
  PROVE  Passes(s, m) = Passes(s, n)
<1> DEFINE S == {k \in Nat : n <= k => Passes(s, k) = Passes(s, n)}
<1>1. 0 \in S
  <2>1. n <= 0 => n = 0
    OBVIOUS
  <2> QED
    BY <2>1
<1>2. ASSUME NEW k \in Nat, k \in S PROVE k + 1 \in S
  <2>1. CASE n <= k
    <3>1. Passes(s, k + 1) = Pass(Passes(s, k)) /\ Passes(s, k) = Passes(s, n)
      BY <1>2, <2>1, PassesDef
    <3>2. Pass(Passes(s, n)) = Passes(s, n)
      BY Enough
    <3> QED
      BY <3>1, <3>2
  <2>2. CASE ~(n <= k)
    <3>1. n <= k + 1 => n = k + 1
      BY <2>2
    <3> QED
      BY <3>1
  <2> QED
    BY <2>1, <2>2
<1>3. Nat \subseteq S
  <2> HIDE DEF S
  <2> QED
    BY <1>1, <1>2, Induct
<1> QED
  BY <1>3

\* The parser's loop, run to its end.
Turns(k)   == k \div (HeaderLen + CrcLen) + 1
Settled(s) == Passes(s, Turns(Len(s.rest)))

LEMMA TurnsEnough ==
  ASSUME NEW k \in Nat
  PROVE  Turns(k) \in Nat /\ k < 12 * Turns(k) /\ \A m \in Nat : m <= k => Turns(m) <= Turns(k)
<1>1. HeaderLen + CrcLen = 12
  BY DEF HeaderLen, CrcLen
<1>2. \A m \in Nat : Turns(m) = (m \div 12) + 1
  BY <1>1 DEF Turns
<1>3. \A m \in Nat : (m \div 12) \in Nat /\ 12 * (m \div 12) <= m /\ m < 12 * (m \div 12) + 12
  OBVIOUS
<1> QED
  BY <1>2, <1>3

LEMMA SettledType ==
  ASSUME NEW s \in ParserStage
  PROVE  /\ Settled(s) \in ParserStage /\ Pass(Settled(s)) = Settled(s)
         /\ Len(s.rest) \in Nat
         /\ \A m \in Nat : Len(s.rest) < 12 * m => Settled(s) = Passes(s, m)
<1> DEFINE n == Turns(Len(s.rest))
<1>1. s.rest \in Seq(Byte)
  BY ParserStageParts
<1>2. Len(s.rest) \in Nat
  BY <1>1
<1>3. n \in Nat /\ Len(s.rest) < 12 * n
  BY <1>2, TurnsEnough
<1>4. Settled(s) = Passes(s, n)
  BY DEF Settled
<1> HIDE DEF n
<1>5. Passes(s, n) \in ParserStage /\ Pass(Passes(s, n)) = Passes(s, n)
  BY <1>3, PassesDef, Enough
<1>6. ASSUME NEW m \in Nat, Len(s.rest) < 12 * m PROVE Passes(s, n) = Passes(s, m)
  <2>1. n <= m \/ m <= n
    BY <1>3
  <2> QED
    BY <1>3, <1>6, <2>1, MoreTurns
<1> QED
  BY <1>2, <1>4, <1>5, <1>6

\* The first turn is part of it.
LEMMA SettledPass ==
  ASSUME NEW s \in ParserStage
  PROVE  Settled(Pass(s)) = Settled(s)
<1> DEFINE n == Turns(Len(s.rest))
<1>1. Pass(s) \in ParserStage
  BY PassIs
<1>2. Len(s.rest) \in Nat /\ Len(Pass(s).rest) \in Nat
  BY <1>1, SettledType
<1>3. n \in Nat /\ Len(s.rest) < 12 * n
  BY <1>2, TurnsEnough
<1> HIDE DEF n
<1>4. Settled(s) = Passes(s, n + 1)
  BY <1>2, <1>3, SettledType
<1>5. Passes(s, n + 1) = Passes(Pass(s), n)
  BY <1>3, PassesShift
<1>6. Len(Pass(s).rest) <= Len(s.rest)
  <2>1. CASE Ready(Synced(s.rest))
    BY <1>2, <2>1, PassTakes
  <2>2. CASE ~Ready(Synced(s.rest))
    <3>1. Pass(s).rest = Synced(s.rest) /\ s.rest \in Seq(Byte)
      BY <2>2, PassIs, ParserStageParts
    <3> QED
      BY <3>1, SyncedType
  <2> QED
    BY <2>1, <2>2
<1>7. Settled(Pass(s)) = Passes(Pass(s), n)
  <2>1. Len(Pass(s).rest) < 12 * n
    BY <1>2, <1>3, <1>6
  <2> QED
    BY <1>1, <1>3, <2>1, SettledType
<1> QED
  BY <1>4, <1>5, <1>7

Longer(s, c) == [frames |-> s.frames, rest |-> s.rest \o c]

LEMMA LongerType ==
  ASSUME NEW s \in ParserStage, NEW c \in Seq(Byte)
  PROVE  /\ Longer(s, c) \in ParserStage /\ Longer(s, c).frames = s.frames
         /\ Longer(s, c).rest = s.rest \o c
<1>1. s.frames \in Seq(Parsed) /\ s.rest \in Seq(Byte)
  BY ParserStageParts
<1>2. s.rest \o c \in Seq(Byte)
  BY <1>1
<1> QED
  BY <1>1, <1>2, MakeParserStage DEF Longer

\* What a turn does depends on the resynchronised bytes only.
LEMMA PassAgrees ==
  ASSUME NEW s \in ParserStage, NEW t \in ParserStage, s.frames = t.frames,
         Synced(s.rest) = Synced(t.rest)
  PROVE  Pass(s) = Pass(t)
  BY DEF Pass

\* A turn may be taken before more bytes come, or after.
LEMMA PassLonger ==
  ASSUME NEW s \in ParserStage, NEW c \in Seq(Byte)
  PROVE  Settled(Longer(s, c)) = Settled(Longer(Pass(s), c))
<1> DEFINE b == Synced(s.rest)
           u == Longer(s, c)
           v == Longer(Pass(s), c)
<1>1. s.rest \in Seq(Byte) /\ s.frames \in Seq(Parsed)
  BY ParserStageParts
<1>2. b \in Seq(Byte)
  BY <1>1, SyncedType
<1>3. Pass(s) \in ParserStage
  BY PassIs
<1>4. u \in ParserStage /\ u.frames = s.frames /\ u.rest = s.rest \o c
  BY LongerType
<1>5. v \in ParserStage /\ v.frames = Pass(s).frames /\ v.rest = Pass(s).rest \o c
  BY <1>3, LongerType
<1>6. CASE Ready(b)
  <2> DEFINE r == SubSeq(b, FrameSize(b) + 1, Len(b))
             d == b \o c
  <2>1. b # <<>>
    <3>1. Len(b) >= HeaderLen
      BY <1>6 DEF Ready
    <3>2. Len(<<>>) = 0 /\ ~(0 >= HeaderLen)
      BY DEF HeaderLen
    <3> HIDE DEF b
    <3> QED
      BY <3>1, <3>2
  <2>2. Synced(u.rest) = d
    BY <1>1, <1>4, <2>1, SyncedJoin
  <2>3. Pass(s) = [frames |-> Append(s.frames, Decoded(b)), rest |-> r]
    BY <1>6, PassIs
  <2>4. v = [frames |-> Append(s.frames, Decoded(b)), rest |-> r \o c]
    <3>1. v = [frames |-> Pass(s).frames, rest |-> Pass(s).rest \o c]
      BY DEF Longer
    <3> HIDE DEF v, r, b
    <3> QED
      BY <2>3, <3>1
  <2>5. /\ Ready(d) /\ Decoded(d) = Decoded(b)
        /\ SubSeq(d, FrameSize(d) + 1, Len(d)) = r \o c
    <3>1. Ready(b)
      BY <1>6
    <3> HIDE DEF b
    <3> QED
      BY <1>2, <3>1, ReadyJoin
  <2> HIDE DEF b, u, v, r
  <2>6. Pass(u) = [frames |-> Append(u.frames, Decoded(d)),
                   rest |-> SubSeq(d, FrameSize(d) + 1, Len(d))]
    BY <1>4, <2>2, <2>5, PassIs DEF b
  <2> HIDE DEF d
  <2>7. Pass(u) = v
    BY <1>4, <2>4, <2>5, <2>6
  <2>8. Settled(Pass(u)) = Settled(u)
    BY <1>4, SettledPass
  <2> QED
    BY <2>7, <2>8 DEF u, v
<1>7. CASE ~Ready(b)
  <2>1. Pass(s) = [frames |-> s.frames, rest |-> b]
    BY <1>7, PassIs
  <2>2. Synced(b \o c) = Synced(s.rest \o c)
    BY <1>1, SyncedJoin
  <2>3. v.frames = u.frames /\ Synced(v.rest) = Synced(u.rest)
    <3>1. Pass(s).frames = s.frames /\ Pass(s).rest = b
      BY <2>1
    <3>2. v.rest = b \o c /\ u.rest = s.rest \o c /\ v.frames = s.frames /\ u.frames = s.frames
      <4> HIDE DEF u, v, b
      <4> QED
        BY <1>4, <1>5, <3>1
    <3> QED
      BY <2>2, <3>2
  <2> HIDE DEF u, v, b
  <2>4. Pass(u) = Pass(v)
    BY <1>4, <1>5, <2>3, PassAgrees
  <2>5. Settled(Pass(u)) = Settled(u) /\ Settled(Pass(v)) = Settled(v)
    BY <1>4, <1>5, SettledPass
  <2> QED
    BY <2>4, <2>5 DEF u, v
<1> QED
  BY <1>6, <1>7

LEMMA PassesLonger ==
  ASSUME NEW s \in ParserStage, NEW c \in Seq(Byte), NEW n \in Nat
  PROVE  Settled(Longer(s, c)) = Settled(Longer(Passes(s, n), c))
<1> DEFINE S == {k \in Nat : Settled(Longer(s, c)) = Settled(Longer(Passes(s, k), c))}
<1>1. 0 \in S
  BY PassesDef
<1>2. ASSUME NEW k \in Nat, k \in S PROVE k + 1 \in S
  <2>1. Passes(s, k) \in ParserStage /\ Passes(s, k + 1) = Pass(Passes(s, k))
    BY PassesDef
  <2>2. Settled(Longer(Passes(s, k), c)) = Settled(Longer(Pass(Passes(s, k)), c))
    BY <2>1, PassLonger
  <2> QED
    BY <1>2, <2>1, <2>2
<1>3. Nat \subseteq S
  <2> HIDE DEF S
  <2> QED
    BY <1>1, <1>2, Induct
<1> QED
  BY <1>3

LEMMA SettledBehind ==
  ASSUME NEW f \in Seq(Parsed), NEW s \in ParserStage
  PROVE  Settled(Behind(f, s)) = Behind(f, Settled(s))
<1> DEFINE n == Turns(Len(s.rest))
<1>1. Len(s.rest) \in Nat
  BY SettledType
<1>2. n \in Nat
  BY <1>1, TurnsEnough
<1>3. Behind(f, s).rest = s.rest
  BY DEF Behind
<1>4. Settled(Behind(f, s)) = Passes(Behind(f, s), n)
  BY <1>3 DEF Settled
<1>5. Settled(s) = Passes(s, n)
  BY DEF Settled
<1> HIDE DEF n
<1>6. Passes(Behind(f, s), n) = Behind(f, Passes(s, n))
  BY <1>2, PassesBehind
<1> QED
  BY <1>4, <1>5, <1>6

\* The parser's result, what it keeps and what it makes of more bytes.
Start(bytes) == [frames |-> <<>>, rest |-> bytes]

LEMMA PushSettles ==
  ASSUME NEW b \in Seq(Byte)
  PROVE  Start(b) \in ParserStage /\ Push(b) = Settled(Start(b)) /\ Push(b) \in ParserStage
<1>1. <<>> \in Seq(Parsed)
  OBVIOUS
<1>2. Start(b) \in ParserStage
  BY <1>1, MakeParserStage DEF Start
<1>3. Start(b).rest = b
  BY DEF Start
<1>4. Push(b) = Settled(Start(b))
  BY <1>3 DEF Push, Settled, Turns, Start
<1> QED
  BY <1>2, <1>4, SettledType

LEMMA PushNothing ==
  ASSUME NEW b \in Seq(Byte), b = <<>>
  PROVE  Push(b).frames = <<>> /\ Push(b).rest = <<>>
<1> DEFINE s == Start(b)
<1>1. s \in ParserStage /\ Push(b) = Settled(s) /\ s.rest = b /\ s.frames = <<>>
  BY PushSettles DEF Start
<1>2. Synced(b) = <<>>
  BY SyncedStays
<1>3. ~Ready(<<>>)
  BY DEF Ready, HeaderLen
<1> HIDE DEF s
<1>4. Pass(s) = [frames |-> s.frames, rest |-> <<>>]
  BY <1>1, <1>2, <1>3, PassIs
<1>5. Pass(s) = [frames |-> <<>>, rest |-> <<>>]
  BY <1>1, <1>4
<1>6. Pass(Pass(s)) = Pass(s)
  BY <1>1, <1>2, <1>3, PassIdle
<1>7. Pass(s) \in ParserStage
  BY <1>1, PassIs
<1>8. Settled(Pass(s)) = Settled(s)
  BY <1>1, SettledPass
<1>9. Settled(Pass(s)) = Pass(s)
  <2>1. Turns(Len(Pass(s).rest)) \in Nat
    BY <1>7, SettledType, TurnsEnough
  <2> QED
    BY <1>6, <1>7, <2>1, PassesIdle DEF Settled
<1> QED
  BY <1>1, <1>5, <1>8, <1>9

\* Feeding a stream in two pieces, the second behind what was kept of the first,
\* finds the frames of the whole and keeps the same.
Joined(a, c) ==
  /\ Push(a \o c).frames = Push(a).frames \o Push(Push(a).rest \o c).frames
  /\ Push(a \o c).rest = Push(Push(a).rest \o c).rest

LEMMA PushJoin ==
  ASSUME NEW a \in Seq(Byte), NEW c \in Seq(Byte)
  PROVE  Joined(a, c)
<1> DEFINE s == Start(a)
           p == Push(a)
<1>1. s \in ParserStage /\ p = Settled(s) /\ p \in ParserStage
  BY PushSettles
<1>2. p.frames \in Seq(Parsed) /\ p.rest \in Seq(Byte)
  BY <1>1, ParserStageParts
<1>3. p.rest \o c \in Seq(Byte) /\ a \o c \in Seq(Byte)
  BY <1>2
<1>4. Longer(s, c) = Start(a \o c)
  BY DEF Longer, Start
<1>5. Push(a \o c) = Settled(Longer(s, c))
  BY <1>3, <1>4, PushSettles
<1>6. Settled(Longer(s, c)) = Settled(Longer(p, c))
  <2>1. Turns(Len(s.rest)) \in Nat
    BY <1>1, SettledType, TurnsEnough
  <2> HIDE DEF s
  <2> QED
    BY <1>1, <2>1, PassesLonger DEF Settled
<1> DEFINE q == Start(p.rest \o c)
<1>7. q \in ParserStage /\ Push(p.rest \o c) = Settled(q)
  BY <1>3, PushSettles
<1>8. Longer(p, c) = Behind(p.frames, q)
  <2>1. p.frames \o <<>> = p.frames
    BY <1>2
  <2> QED
    BY <2>1 DEF Longer, Behind, Start
<1> HIDE DEF q, p, s
<1>9. Settled(Behind(p.frames, q)) = Behind(p.frames, Settled(q))
  BY <1>2, <1>7, SettledBehind
<1>10. Push(a \o c) = Behind(p.frames, Push(p.rest \o c))
  BY <1>5, <1>6, <1>7, <1>8, <1>9
<1>11. /\ Push(a \o c).frames = p.frames \o Push(p.rest \o c).frames
       /\ Push(a \o c).rest = Push(p.rest \o c).rest
  <2> DEFINE f == p.frames \o Push(p.rest \o c).frames
             k == Push(p.rest \o c).rest
  <2>1. Push(a \o c) = [frames |-> f, rest |-> k]
    BY <1>10, Zenon DEF Behind
  <2> HIDE DEF f, k
  <2>2. Push(a \o c).frames = f /\ Push(a \o c).rest = k
    BY <2>1
  <2> QED
    BY <2>2, Zenon DEF f, k
<1> QED
  BY <1>11 DEF p, Joined

\* What is kept is short and begins with a start byte.
LEMMA PushKeeps ==
  ASSUME NEW b \in Seq(Byte)
  PROVE  /\ Push(b).frames \in Seq(Parsed) /\ Push(b).rest \in Seq(Byte)
         /\ Push(b).rest = <<>> \/ Push(b).rest[1] = STX
         /\ Len(Push(b).rest) < HeaderLen + 255 + CrcLen + SignatureLen
<1> DEFINE p == Push(b)
           r == p.rest
<1>1. p \in ParserStage /\ Pass(p) = p
  BY PushSettles, SettledType
<1>2. p.frames \in Seq(Parsed) /\ r \in Seq(Byte)
  BY <1>1, ParserStageParts
<1> HIDE DEF p
<1>3. ~Ready(Synced(r))
  <2> SUFFICES ASSUME Ready(Synced(r)) PROVE FALSE
    OBVIOUS
  <2>1. Len(Pass(p).rest) + 12 <= Len(p.rest)
    BY <1>1, PassTakes
  <2>2. Len(p.rest) \in Nat
    BY <1>1, SettledType
  <2> QED
    BY <1>1, <2>1, <2>2
<1>4. r = Synced(r)
  <2>1. Pass(p) = [frames |-> p.frames, rest |-> Synced(r)]
    BY <1>1, <1>3, PassIs
  <2> QED
    BY <1>1, <2>1
<1>5. r = <<>> \/ r[1] = STX
  BY <1>2, <1>4, SyncedType
<1>6. ~Ready(r)
  BY <1>3, <1>4
<1> HIDE DEF r
<1>7. Len(r) < HeaderLen + 255 + CrcLen + SignatureLen
  <2>0. Len(r) \in Nat
    BY <1>2
  <2>1. CASE Len(r) < HeaderLen
    BY <2>0, <2>1 DEF HeaderLen, CrcLen, SignatureLen
  <2>2. CASE Len(r) >= HeaderLen
    <3>1. r[2] \in Byte /\ FrameSize(r) \in Nat
          /\ FrameSize(r) <= HeaderLen + r[2] + CrcLen + SignatureLen
      BY <1>2, <2>2, SizeOf
    <3>2. ~(Len(r) >= FrameSize(r))
      BY <1>6, <2>2 DEF Ready
    <3>3. \A x \in Byte, m \in Nat, n \in Nat :
             m <= HeaderLen + x + CrcLen + SignatureLen /\ ~(n >= m)
               => n < HeaderLen + 255 + CrcLen + SignatureLen
      BY DEF Byte, HeaderLen, CrcLen, SignatureLen
    <3> QED
      BY <2>0, <3>1, <3>2, <3>3, Zenon
  <2>3. Len(r) < HeaderLen \/ Len(r) >= HeaderLen
    BY <2>0 DEF HeaderLen
  <2> QED
    BY <2>1, <2>2, <2>3
<1> QED
  BY <1>2, <1>5, <1>7 DEF r, p

-----------------------------------------------------------------------------
(* The commands in a sequence of frames.                                     *)

\* What a command frame may say.
CommandOf(f) == Unpack(COMMAND_LONG, f.payload)
Commands     == {CommandOf(f) : f \in {x \in Parsed : Addressed(x)}}

CommandLoop(g, frames) ==
  /\ g[0] = <<>>
  /\ \A n \in 1..Len(frames) :
       /\ Addressed(frames[n]) => g[n] = Append(g[n - 1], CommandOf(frames[n]))
       /\ ~Addressed(frames[n]) => g[n] = g[n - 1]
  /\ \A n \in 0..Len(frames) : g[n] \in Seq(Commands)

LEMMA CommandsInDef ==
  ASSUME NEW frames \in Seq(Parsed)
  PROVE  \E g : CommandLoop(g, frames) /\ CommandsIn(frames) = g[Len(frames)]
<1> DEFINE N == Len(frames)
           V == Seq(Commands)
           Eq(q) == q = [n \in 0..N |->
             IF n = 0 THEN <<>>
             ELSE IF Addressed(frames[n])
                  THEN Append(q[n - 1], Unpack(COMMAND_LONG, frames[n].payload))
             ELSE q[n - 1]]
           q0 == CHOOSE q : Eq(q)
           step == [n \in 1..N |-> [v \in V |->
                     IF Addressed(frames[n]) THEN Append(v, CommandOf(frames[n])) ELSE v]]
<1>0. N \in Nat /\ \A n \in 1..N : frames[n] \in Parsed
  OBVIOUS
<1>1. step \in [1..N -> [V -> V]] /\ <<>> \in V
  <2>1. ASSUME NEW n \in 1..N, NEW v \in Seq(Commands)
        PROVE  (IF Addressed(frames[n]) THEN Append(v, CommandOf(frames[n])) ELSE v)
                 \in Seq(Commands)
    <3>1. Addressed(frames[n]) => CommandOf(frames[n]) \in Commands
      BY <1>0 DEF Commands
    <3> HIDE DEF Commands
    <3> QED
      BY <3>1
  <2> HIDE DEF Commands
  <2> QED
    BY <2>1
<1> HIDE DEF V
<1>2. PICK g \in [0..N -> V] : Climbs(g, N, <<>>, step)
  <2> HIDE DEF step, N
  <2> QED
    BY <1>0, <1>1, Climb
<1>3. ASSUME NEW n \in 1..N
      PROVE  g[n] = IF Addressed(frames[n])
                    THEN Append(g[n - 1], CommandOf(frames[n])) ELSE g[n - 1]
  <2>1. g[n - 1] \in V
    <3>1. n - 1 \in 0..N
      BY <1>0
    <3> HIDE DEF N
    <3> QED
      BY <1>2, <3>1
  <2>2. g[n] = step[n][g[n - 1]]
    BY <1>2 DEF Climbs
  <2> QED
    BY <2>1, <2>2
<1> HIDE DEF step
<1>4. Eq(g)
  <2>1. g = [n \in 0..N |-> g[n]]
    BY <1>2
  <2>2. ASSUME NEW n \in 0..N
        PROVE  g[n] = IF n = 0 THEN <<>>
                      ELSE IF Addressed(frames[n])
                           THEN Append(g[n - 1], Unpack(COMMAND_LONG, frames[n].payload))
                      ELSE g[n - 1]
    <3>1. n = 0 \/ n \in 1..N
      BY <1>0
    <3>2. g[0] = <<>>
      BY <1>2 DEF Climbs
    <3>3. n \in 1..N => n # 0
      OBVIOUS
    <3> HIDE DEF N
    <3> QED
      BY <1>3, <3>1, <3>2, <3>3, Zenon DEF CommandOf
  <2> QED
    BY <2>1, <2>2, Zenon
<1>5. CommandsIn(frames) = q0[N] /\ Eq(q0)
  BY <1>4, Zenon DEF CommandsIn
<1> HIDE DEF q0
<1>6. ASSUME NEW n \in 1..N
      PROVE  /\ Addressed(frames[n]) => q0[n] = Append(q0[n - 1], CommandOf(frames[n]))
             /\ ~Addressed(frames[n]) => q0[n] = q0[n - 1]
  <2>1. n \in 0..N /\ n # 0
    BY <1>0
  <2>2. q0[n] = IF n = 0 THEN <<>>
                ELSE IF Addressed(frames[n])
                     THEN Append(q0[n - 1], Unpack(COMMAND_LONG, frames[n].payload))
                ELSE q0[n - 1]
    <3> HIDE DEF N
    <3> QED
      BY <1>5, <2>1
  <2> QED
    BY <2>1, <2>2, Zenon DEF CommandOf
<1>7. q0[0] = <<>>
  BY <1>0, <1>5
<1> HIDE DEF Eq
<1> DEFINE S == {n \in Nat : n <= N => q0[n] \in Seq(Commands)}
<1>8. Nat \subseteq S
  <2>1. 0 \in S
    <3>1. <<>> \in Seq(Commands)
      <4> HIDE DEF Commands
      <4> QED
        OBVIOUS
    <3> QED
      BY <1>7, <3>1, Zenon
  <2>2. ASSUME NEW n \in Nat, n \in S PROVE n + 1 \in S
    <3> SUFFICES ASSUME n + 1 <= N PROVE q0[n + 1] \in Seq(Commands)
      OBVIOUS
    <3>1. n + 1 \in 1..N /\ (n + 1) - 1 = n /\ q0[n] \in Seq(Commands)
      BY <1>0, <2>2
    <3>2. Addressed(frames[n + 1]) => CommandOf(frames[n + 1]) \in Commands
      BY <1>0, <3>1 DEF Commands
    <3>3. CASE Addressed(frames[n + 1])
      <4>1. q0[n + 1] = Append(q0[n], CommandOf(frames[n + 1]))
        BY <1>6, <3>1, <3>3
      <4> HIDE DEF Commands
      <4> QED
        BY <3>1, <3>2, <3>3, <4>1
    <3>4. CASE ~Addressed(frames[n + 1])
      BY <1>6, <3>1, <3>4
    <3> QED
      BY <3>3, <3>4
  <2> HIDE DEF S
  <2> QED
    BY <2>1, <2>2, Induct
<1>9. \A n \in 0..N : q0[n] \in Seq(Commands)
  BY <1>0, <1>8
<1>10. CommandLoop(q0, frames)
  BY <1>6, <1>7, <1>9, Zenon DEF CommandLoop
<1> QED
  BY <1>5, <1>10, Zenon

LEMMA CommandsInType ==
  ASSUME NEW frames \in Seq(Parsed)
  PROVE  CommandsIn(frames) \in Seq(Commands)
<1>1. PICK g : CommandLoop(g, frames) /\ CommandsIn(frames) = g[Len(frames)]
  BY CommandsInDef
<1>2. Len(frames) \in 0..Len(frames)
  OBVIOUS
<1> QED
  BY <1>1, <1>2 DEF CommandLoop

\* Frames that come later give commands that come later.
CommandsJoined(f, e) == CommandsIn(f \o e) = CommandsIn(f) \o CommandsIn(e)

SplitsAs(x, p, q) == x = p \o q

LEMMA CommandsInJoin ==
  ASSUME NEW f \in Seq(Parsed), NEW e \in Seq(Parsed)
  PROVE  CommandsJoined(f, e)
<1> DEFINE d == f \o e
<1>1. /\ d \in Seq(Parsed) /\ Len(d) = Len(f) + Len(e) /\ Len(f) \in Nat /\ Len(e) \in Nat
      /\ \A i \in 1..Len(f) : d[i] = f[i]
      /\ \A i \in 1..Len(e) : d[Len(f) + i] = e[i]
  BY Joining
<1> HIDE DEF d
<1>2. PICK u : CommandLoop(u, d) /\ CommandsIn(d) = u[Len(d)]
  BY <1>1, CommandsInDef
<1>3. PICK v : CommandLoop(v, f) /\ CommandsIn(f) = v[Len(f)]
  BY CommandsInDef
<1>4. PICK w : CommandLoop(w, e) /\ CommandsIn(e) = w[Len(e)]
  BY CommandsInDef
<1> DEFINE S == {n \in Nat : n <= Len(f) => u[n] = v[n]}
           T == {n \in Nat : n <= Len(e) => SplitsAs(u[Len(f) + n], v[Len(f)], w[n])}
<1>5. Nat \subseteq S
  <2>1. 0 \in S
    BY <1>2, <1>3 DEF CommandLoop
  <2>2. ASSUME NEW n \in Nat, n \in S PROVE n + 1 \in S
    <3> SUFFICES ASSUME n + 1 <= Len(f) PROVE u[n + 1] = v[n + 1]
      OBVIOUS
    <3>1. n + 1 \in 1..Len(f) /\ n + 1 \in 1..Len(d) /\ (n + 1) - 1 = n /\ u[n] = v[n]
      BY <1>1, <2>2
    <3>2. d[n + 1] = f[n + 1]
      BY <1>1, <3>1
    <3>3. /\ Addressed(d[n + 1]) => u[n + 1] = Append(u[n], CommandOf(d[n + 1]))
          /\ ~Addressed(d[n + 1]) => u[n + 1] = u[n]
      BY <1>2, <3>1 DEF CommandLoop
    <3>4. /\ Addressed(f[n + 1]) => v[n + 1] = Append(v[n], CommandOf(f[n + 1]))
          /\ ~Addressed(f[n + 1]) => v[n + 1] = v[n]
      BY <1>3, <3>1 DEF CommandLoop
    <3> QED
      BY <3>1, <3>2, <3>3, <3>4, Zenon
  <2> HIDE DEF S
  <2> QED
    BY <2>1, <2>2, Induct
<1>6. v[Len(f)] \in Seq(Commands)
  BY <1>3, CommandsInType
<1>7. Nat \subseteq T
  <2>1. 0 \in T
    <3>1. u[Len(f)] = v[Len(f)] /\ w[0] = <<>>
      BY <1>1, <1>4, <1>5 DEF CommandLoop
    <3>2. v[Len(f)] \o <<>> = v[Len(f)]
      BY <1>6
    <3>3. Len(f) + 0 = Len(f)
      BY <1>1
    <3> QED
      BY <3>1, <3>2, <3>3 DEF SplitsAs
  <2>2. ASSUME NEW n \in Nat, n \in T PROVE n + 1 \in T
    <3> SUFFICES ASSUME n + 1 <= Len(e) PROVE SplitsAs(u[Len(f) + (n + 1)], v[Len(f)], w[n + 1])
      OBVIOUS
    <3> DEFINE k == Len(f) + n
    <3>1. /\ n + 1 \in 1..Len(e) /\ n \in 0..Len(e) /\ (n + 1) - 1 = n
          /\ k + 1 \in 1..Len(d) /\ (k + 1) - 1 = k /\ Len(f) + (n + 1) = k + 1
      BY <1>1
    <3>2. d[k + 1] = e[n + 1] /\ SplitsAs(u[k], v[Len(f)], w[n])
      BY <1>1, <2>2, <3>1
    <3> HIDE DEF k
    <3>3. /\ Addressed(d[k + 1]) => u[k + 1] = Append(u[k], CommandOf(d[k + 1]))
          /\ ~Addressed(d[k + 1]) => u[k + 1] = u[k]
      BY <1>2, <3>1 DEF CommandLoop
    <3>4. /\ Addressed(e[n + 1]) => w[n + 1] = Append(w[n], CommandOf(e[n + 1]))
          /\ ~Addressed(e[n + 1]) => w[n + 1] = w[n]
      BY <1>4, <3>1 DEF CommandLoop
    <3>5. CASE Addressed(e[n + 1])
      <4>1. w[n] \in Seq(Commands)
        BY <1>4, <3>1 DEF CommandLoop
      <4>2. CommandOf(e[n + 1]) \in Commands
        <5>1. e[n + 1] \in Parsed
          BY <3>1
        <5> QED
          BY <3>5, <5>1 DEF Commands
      <4>3. AppendsBehind(v[Len(f)], w[n], CommandOf(e[n + 1]))
        BY <1>6, <4>1, <4>2, AppendJoin, Zenon
      <4> QED
        BY <3>1, <3>2, <3>3, <3>4, <3>5, <4>3, Zenon DEF AppendsBehind, SplitsAs
    <3>6. CASE ~Addressed(e[n + 1])
      BY <3>1, <3>2, <3>3, <3>4, <3>6, Zenon DEF SplitsAs
    <3> QED
      BY <3>5, <3>6
  <2> HIDE DEF T
  <2> QED
    BY <2>1, <2>2, Induct
<1>8. SplitsAs(u[Len(f) + Len(e)], v[Len(f)], w[Len(e)])
  <2>1. Len(e) \in T
    BY <1>1, <1>7
  <2> QED
    BY <1>1, <2>1
<1>9. CommandsIn(d) = CommandsIn(f) \o CommandsIn(e)
  BY <1>1, <1>2, <1>3, <1>4, <1>8, Zenon DEF SplitsAs
<1> QED
  BY <1>9 DEF d, CommandsJoined

-----------------------------------------------------------------------------
(* Numbers and their bytes; the checksum is a 16-bit word.                   *)

\* A property that each step of a function on 0..N keeps.
LEMMA Stays ==
  ASSUME NEW V, NEW N \in Nat, NEW q, q[0] \in V, \A n \in 1..N : q[n - 1] \in V => q[n] \in V
  PROVE  \A n \in 0..N : q[n] \in V
<1> DEFINE S == {n \in Nat : n <= N => q[n] \in V}
<1>1. 0 \in S
  OBVIOUS
<1>2. ASSUME NEW n \in Nat, n \in S PROVE n + 1 \in S
  <2> SUFFICES ASSUME n + 1 <= N PROVE q[n + 1] \in V
    OBVIOUS
  <2>1. n + 1 \in 1..N /\ (n + 1) - 1 = n /\ q[n] \in V
    BY <1>2
  <2> QED
    BY <2>1
<1>3. Nat \subseteq S
  <2> HIDE DEF S
  <2> QED
    BY <1>1, <1>2, Induct
<1> QED
  BY <1>3

LEMMA Powers ==
  ASSUME NEW x \in 0..23
  PROVE  2 ^ x \in Nat /\ 2 ^ x > 0
<1> DEFINE P(n) == 2 ^ n \in Nat /\ 2 ^ n > 0
<1>1. \/ x = 0 \/ x = 1 \/ x = 2 \/ x = 3 \/ x = 4 \/ x = 5 \/ x = 6 \/ x = 7 \/ x = 8
      \/ x = 9 \/ x = 10 \/ x = 11 \/ x = 12 \/ x = 13 \/ x = 14 \/ x = 15 \/ x = 16
      \/ x = 17 \/ x = 18 \/ x = 19 \/ x = 20 \/ x = 21 \/ x = 22 \/ x = 23
  OBVIOUS
<1>2. /\ P(0) /\ P(1) /\ P(2) /\ P(3) /\ P(4) /\ P(5) /\ P(6) /\ P(7) /\ P(8) /\ P(9) /\ P(10)
      /\ P(11) /\ P(12) /\ P(13) /\ P(14) /\ P(15) /\ P(16) /\ P(17) /\ P(18) /\ P(19) /\ P(20)
      /\ P(21) /\ P(22) /\ P(23)
  OBVIOUS
<1> HIDE DEF P
<1>3. P(x)
  BY <1>1, <1>2
<1> QED
  BY <1>3 DEF P

\* The bytes of a number.
LEMMA LittleEndianType ==
  ASSUME NEW n \in Int, NEW k \in {1, 2, 3, 4}
  PROVE  LittleEndian(n, k) \in Seq(Byte) /\ Len(LittleEndian(n, k)) = k
<1>1. 256 ^ 0 = 1 /\ 256 ^ 1 = 256 /\ 256 ^ 2 = 65536 /\ 256 ^ 3 = 16777216
  OBVIOUS
<1>2. ASSUME NEW i \in 1..k PROVE (n \div 256 ^ (i - 1)) % 256 \in Byte
  <2> DEFINE q(j) == n \div 256 ^ j
  <2>1. i - 1 = 0 \/ i - 1 = 1 \/ i - 1 = 2 \/ i - 1 = 3
    OBVIOUS
  <2>2. \A m \in Int : m % 256 \in Byte
    BY DEF Byte
  <2>3. q(0) \in Int /\ q(1) \in Int /\ q(2) \in Int /\ q(3) \in Int
    BY <1>1
  <2> HIDE DEF q
  <2>4. q(i - 1) \in Int
    BY <2>1, <2>3
  <2> QED
    BY <2>2, <2>4 DEF q
<1> QED
  BY <1>2 DEF LittleEndian

\* v[n] is the number that the last n of the bytes write.
Digits(v, bs) ==
  /\ v[0] = 0 /\ Unsigned(bs) = v[Len(bs)]
  /\ \A n \in 1..Len(bs) : v[n] = v[n - 1] * 256 + bs[Len(bs) - n + 1]
  /\ \A n \in 0..Len(bs) : v[n] \in Nat

LEMMA UnsignedDef ==
  ASSUME NEW bs \in Seq(Byte)
  PROVE  \E v : Digits(v, bs)
<1> DEFINE N == Len(bs)
           Eq(v) == v = [i \in 0..N |-> IF i = 0 THEN 0 ELSE v[i - 1] * 256 + bs[N - i + 1]]
           v0 == CHOOSE v : Eq(v)
           step == [i \in 1..N |-> [x \in Nat |-> x * 256 + bs[N - i + 1]]]
<1>0. N \in Nat
  OBVIOUS
<1>1. ASSUME NEW i \in 1..N PROVE bs[N - i + 1] \in Nat
  <2>1. PICK j \in 1..Len(bs) : j = N - i + 1
    BY <1>0
  <2>2. bs[j] \in Byte
    BY <2>1
  <2> QED
    <3>1. \A x \in Byte : x \in Nat
      BY DEF Byte
    <3> QED
      BY <2>1, <2>2, <3>1, Zenon
<1>2. step \in [1..N -> [Nat -> Nat]]
  <2>1. ASSUME NEW i \in 1..N, NEW x \in Nat PROVE x * 256 + bs[N - i + 1] \in Nat
    BY <1>1
  <2> QED
    BY <2>1
<1>3. PICK g \in [0..N -> Nat] : Climbs(g, N, 0, step)
  <2> HIDE DEF step, N
  <2> QED
    BY <1>0, <1>2, Climb
<1>4. Eq(g)
  <2>1. ASSUME NEW i \in 0..N
        PROVE  g[i] = IF i = 0 THEN 0 ELSE g[i - 1] * 256 + bs[N - i + 1]
    <3>1. CASE i = 0
      BY <1>3, <3>1 DEF Climbs
    <3>2. CASE i # 0
      <4>1. i \in 1..N /\ i - 1 \in 0..N
        BY <1>0, <3>2
      <4>2. g[i] = step[i][g[i - 1]] /\ g[i - 1] \in Nat
        <5> HIDE DEF step, N
        <5> QED
          BY <1>3, <4>1 DEF Climbs
      <4> QED
        BY <3>2, <4>1, <4>2
    <3> QED
      BY <3>1, <3>2
  <2> HIDE DEF N
  <2>2. g = [i \in 0..N |-> g[i]]
    OBVIOUS
  <2> QED
    BY <2>1, <2>2, Zenon
<1>5. Unsigned(bs) = v0[N] /\ Eq(v0)
  BY <1>4, Zenon DEF Unsigned
<1> HIDE DEF v0, step
<1>6. v0[0] = 0
  BY <1>0, <1>5
<1>7. ASSUME NEW i \in 1..N PROVE v0[i] = v0[i - 1] * 256 + bs[N - i + 1]
  <2>1. i \in 0..N /\ i # 0
    BY <1>0
  <2> HIDE DEF N
  <2> QED
    BY <1>5, <2>1
<1>8. \A i \in 0..N : v0[i] \in Nat
  <2>1. ASSUME NEW i \in 1..N, v0[i - 1] \in Nat PROVE v0[i] \in Nat
    <3>1. \A x \in Nat, y \in Nat : x * 256 + y \in Nat
      OBVIOUS
    <3>2. bs[N - i + 1] \in Nat
      BY <1>1
    <3>3. v0[i] = v0[i - 1] * 256 + bs[N - i + 1]
      BY <1>7
    <3> DEFINE y == bs[N - i + 1]
               x == v0[i - 1]
    <3> HIDE DEF x, y
    <3>4. x * 256 + y \in Nat
      BY <2>1, <3>2 DEF x, y
    <3> QED
      BY <3>3, <3>4 DEF x, y
  <2>2. v0[0] \in Nat
    BY <1>6
  <2> HIDE DEF N, Eq
  <2> QED
    BY <1>0, <2>1, <2>2, Stays
<1> QED
  BY <1>5, <1>6, <1>7, <1>8 DEF Digits

LEMMA UnsignedType ==
  ASSUME NEW bs \in Seq(Byte)
  PROVE  Unsigned(bs) \in Nat
<1>1. PICK v : Digits(v, bs)
  BY UnsignedDef
<1>2. Len(bs) \in 0..Len(bs)
  OBVIOUS
<1> QED
  BY <1>1, <1>2 DEF Digits

LEMMA WholeType ==
  ASSUME NEW bs \in Seq(Byte), Len(bs) = 4
  PROVE  Whole(bs) \in Int
<1>1. bs[1] \in Byte /\ bs[2] \in Byte /\ bs[3] \in Byte /\ bs[4] \in Byte
  <2>1. \A i \in 1..4 : bs[i] \in Byte
    BY Members
  <2> QED
    BY <2>1
<1> DEFINE x == (bs[4] % 128) * 2 + (bs[3] \div 128) - 127
           fraction == bs[1] + 256 * bs[2] + 65536 * (bs[3] % 128)
<1>2. \A a \in Byte, b \in Byte, c \in Byte : a + 256 * b + 65536 * (c % 128) \in Int
  <2> TAKE a \in Byte, b \in Byte, c \in Byte
  <2>1. a \in Int /\ b \in Int /\ c % 128 \in Int
    BY DEF Byte
  <2> QED
    BY <2>1
<1>3. fraction \in Int
  BY <1>1, <1>2
<1>4. Whole(bs) = IF x \in 0..23 THEN 2 ^ x + (fraction \div 2 ^ (23 - x)) ELSE 0
  BY DEF Whole
<1> HIDE DEF x, fraction
<1>5. CASE x \in 0..23
  <2>1. 2 ^ x \in Nat
    BY <1>5, Powers
  <2>2. 23 - x \in 0..23
    BY <1>5
  <2>3. 2 ^ (23 - x) \in Nat /\ 2 ^ (23 - x) > 0
    BY <2>2, Powers
  <2> DEFINE p == 2 ^ (23 - x)
  <2> HIDE DEF p
  <2>4. fraction \div p \in Int
    BY <1>3, <2>3 DEF p
  <2> QED
    BY <1>4, <1>5, <2>1, <2>4 DEF p
<1>6. CASE ~(x \in 0..23)
  BY <1>4, <1>6
<1> QED
  BY <1>5, <1>6

\* 65535 by its name: the provers read an interval better than a large number.
LEMMA WordRange == \A x : x \in Word <=> x \in Nat /\ x < 65536
<1>1. X25_INIT_CRC \in Nat /\ Word = 0..X25_INIT_CRC
  BY DEF X25_INIT_CRC, Word
<1>2. \A x : x \in Word <=> x \in Nat /\ x <= X25_INIT_CRC
  BY <1>1
<1> QED
  BY <1>2 DEF X25_INIT_CRC

LEMMA WordIs ==
  /\ \A x \in Word : x \in Nat /\ x % 256 \in Nat /\ x % 256 \in Byte /\ x \div 256 \in Nat
  /\ \A x \in Byte : x \in Nat
  BY WordRange DEF Byte

LEMMA XorBitType ==
  ASSUME NEW a \in Nat, NEW b \in Nat
  PROVE  /\ XorBit(a, b, 0) \in 0..1 /\ XorBit(a, b, 1) \in {0, 2}
         /\ XorBit(a, b, 2) \in {0, 4} /\ XorBit(a, b, 3) \in {0, 8}
<1>1. 2 ^ 0 = 1 /\ 2 ^ 1 = 2 /\ 2 ^ 2 = 4 /\ 2 ^ 3 = 8
  OBVIOUS
<1>2. \A x \in Int : x % 2 \in 0..1
  OBVIOUS
<1> QED
  BY <1>1, <1>2 DEF XorBit

LEMMA XorNibbleType ==
  ASSUME NEW a \in 0..15, NEW b \in 0..15
  PROVE  XorNibble[a][b] \in 0..15 /\ XorNibble[0][0] = 0
<1>1. /\ XorBit(a, b, 0) \in 0..1 /\ XorBit(a, b, 1) \in {0, 2}
      /\ XorBit(a, b, 2) \in {0, 4} /\ XorBit(a, b, 3) \in {0, 8}
  BY XorBitType
<1>2. XorNibble[a][b] = XorBit(a, b, 0) + XorBit(a, b, 1) + XorBit(a, b, 2) + XorBit(a, b, 3)
  BY DEF XorNibble
<1>3. XorBit(0, 0, 0) = 0 /\ XorBit(0, 0, 1) = 0 /\ XorBit(0, 0, 2) = 0 /\ XorBit(0, 0, 3) = 0
  BY DEF XorBit
<1>4. XorNibble[0][0] = 0
  BY <1>3 DEF XorNibble
<1> QED
  BY <1>1, <1>2, <1>4

\* A digit of the exclusive or; of two small numbers the upper ones are 0.
LEMMA XorDigitType ==
  ASSUME NEW a \in Nat, NEW b \in Nat, NEW p \in {1, 16, 256, 4096}
  PROVE  /\ XorNibble[(a \div p) % 16][(b \div p) % 16] \in 0..15
         /\ a < p /\ b < p => XorNibble[(a \div p) % 16][(b \div p) % 16] = 0
<1>1. (a \div p) % 16 \in 0..15 /\ (b \div p) % 16 \in 0..15
  OBVIOUS
<1>2. a < p => (a \div p) % 16 = 0
  OBVIOUS
<1>3. b < p => (b \div p) % 16 = 0
  OBVIOUS
<1>4. \A x \in 0..15 : \A y \in 0..15 : XorNibble[x][y] \in 0..15
  BY XorNibbleType, SMTT(30)
<1>5. XorNibble[0][0] = 0
  BY <1>1, XorNibbleType
<1> DEFINE x == (a \div p) % 16
           y == (b \div p) % 16
<1>6. x \in 0..15 /\ y \in 0..15
  BY <1>1
<1>7. a < p /\ b < p => x = 0 /\ y = 0
  BY <1>2, <1>3
<1> HIDE DEF x, y
<1>8. XorNibble[x][y] \in 0..15
  BY <1>4, <1>6, SMTT(30)
<1>9. a < p /\ b < p => XorNibble[x][y] = 0
  BY <1>5, <1>7
<1> QED
  BY <1>8, <1>9 DEF x, y

LEMMA XorType ==
  ASSUME NEW a \in Nat, NEW b \in Nat
  PROVE  Xor(a, b) \in Word /\ (a \in Byte /\ b \in Byte => Xor(a, b) \in Byte)
<1> DEFINE N(p) == XorNibble[(a \div p) % 16][(b \div p) % 16]
<1>1. 16 ^ 0 = 1 /\ 16 ^ 1 = 16 /\ 16 ^ 2 = 256 /\ 16 ^ 3 = 4096
  OBVIOUS
<1>2. Xor(a, b) = 1 * N(1) + 16 * N(16) + 256 * N(256) + 4096 * N(4096)
  BY <1>1 DEF Xor, XorDigit
<1>3. N(1) \in 0..15 /\ N(16) \in 0..15 /\ N(256) \in 0..15 /\ N(4096) \in 0..15
  <2>1. \A p \in {1, 16, 256, 4096} : N(p) \in 0..15
    BY XorDigitType
  <2> HIDE DEF N
  <2> QED
    BY <2>1
<1>4. a \in Byte /\ b \in Byte => N(256) = 0 /\ N(4096) = 0
  <2> SUFFICES ASSUME a \in Byte, b \in Byte PROVE N(256) = 0 /\ N(4096) = 0
    OBVIOUS
  <2>1. a < 256 /\ b < 256 /\ a < 4096 /\ b < 4096
    BY DEF Byte
  <2> QED
    BY <2>1, XorDigitType
<1> HIDE DEF N
<1> DEFINE n1 == N(1)
           n2 == N(16)
           n3 == N(256)
           n4 == N(4096)
           x == 1 * n1 + 16 * n2 + 256 * n3 + 4096 * n4
<1>5. n1 \in 0..15 /\ n2 \in 0..15 /\ n3 \in 0..15 /\ n4 \in 0..15
  BY <1>3
<1>6. Xor(a, b) = x /\ (a \in Byte /\ b \in Byte => n3 = 0 /\ n4 = 0)
  BY <1>2, <1>4
<1> HIDE DEF n1, n2, n3, n4
<1>7. x \in Word /\ (n3 = 0 /\ n4 = 0 => x \in Byte)
  BY <1>5, WordRange DEF Byte
<1> HIDE DEF x
<1> QED
  BY <1>6, <1>7

LEMMA FoldedType ==
  ASSUME NEW d \in Byte
  PROVE  Folded[d] \in Word
<1>1. \A x \in Word : x \in Nat
  BY WordIs
<1>2. d \in Nat /\ (d * 16) % 256 \in Nat
  BY DEF Byte
<1> DEFINE t == Xor(d, (d * 16) % 256)
<1>3. t \in Nat
  BY <1>1, <1>2, XorType
<1>4. Folded[d] = Xor(t * 256, Xor(t * 8, t \div 16))
  BY DEF Folded
<1> HIDE DEF t
<1>5. t * 256 \in Nat /\ t * 8 \in Nat /\ t \div 16 \in Nat
  BY <1>3
<1>6. Xor(t * 8, t \div 16) \in Nat
  BY <1>1, <1>5, XorType
<1> QED
  BY <1>4, <1>5, <1>6, XorType

LEMMA AccumulateType ==
  ASSUME NEW crc \in Word, NEW b \in Byte
  PROVE  Accumulate(b)[crc] \in Word
<1>1. \A x \in Word : x \in Nat
  BY WordIs
<1>2. crc \in Nat /\ b \in Nat /\ crc % 256 \in Byte /\ crc % 256 \in Nat /\ crc \div 256 \in Nat
  BY WordIs
<1>3. Accumulate(b)[crc] = Xor(crc \div 256, Folded[Xor(b, crc % 256)])
  BY DEF Accumulate
<1>4. Xor(b, crc % 256) \in Byte
  BY <1>2, XorType
<1>5. Folded[Xor(b, crc % 256)] \in Nat
  BY <1>1, <1>4, FoldedType
<1> QED
  BY <1>2, <1>3, <1>5, XorType

LEMMA ChecksumType ==
  ASSUME NEW bytes \in Seq(Byte), NEW extra \in Byte
  PROVE  Checksum(bytes, extra) \in Word
<1> DEFINE N == Len(bytes)
           Eq(q) == q = [i \in 0..N |-> IF i = 0 THEN X25_INIT_CRC
                                        ELSE Accumulate(bytes[i])[q[i - 1]]]
           q0 == CHOOSE q : Eq(q)
           step == [i \in 1..N |-> [x \in Word |-> Accumulate(bytes[i])[x]]]
<1>0. N \in Nat /\ X25_INIT_CRC \in Word /\ \A i \in 1..N : bytes[i] \in Byte
  <2>1. X25_INIT_CRC \in Word
    BY WordRange DEF X25_INIT_CRC
  <2> QED
    BY <2>1
<1>1. step \in [1..N -> [Word -> Word]]
  BY <1>0, AccumulateType
<1>2. PICK g \in [0..N -> Word] : Climbs(g, N, X25_INIT_CRC, step)
  <2> HIDE DEF step, N
  <2> QED
    BY <1>0, <1>1, Climb
<1>3. Eq(g)
  <2>1. ASSUME NEW i \in 0..N
        PROVE  g[i] = IF i = 0 THEN X25_INIT_CRC ELSE Accumulate(bytes[i])[g[i - 1]]
    <3>1. CASE i = 0
      BY <1>2, <3>1 DEF Climbs
    <3>2. CASE i # 0
      <4>1. i \in 1..N /\ i - 1 \in 0..N
        BY <1>0, <3>2
      <4>2. g[i] = step[i][g[i - 1]] /\ g[i - 1] \in Word
        <5> HIDE DEF step, N
        <5> QED
          BY <1>2, <4>1 DEF Climbs
      <4> QED
        BY <3>2, <4>1, <4>2
    <3> QED
      BY <3>1, <3>2
  <2> HIDE DEF N
  <2>2. g = [i \in 0..N |-> g[i]]
    OBVIOUS
  <2> QED
    BY <2>1, <2>2, Zenon
<1>4. Checksum(bytes, extra) = Accumulate(extra)[q0[N]] /\ Eq(q0)
  BY <1>3, Zenon DEF Checksum
<1> HIDE DEF q0, step
<1>5. q0[0] = X25_INIT_CRC
  BY <1>0, <1>4
<1>6. \A i \in 0..N : q0[i] \in Word
  <2>1. ASSUME NEW i \in 1..N, q0[i - 1] \in Word PROVE q0[i] \in Word
    <3>1. i \in 0..N /\ i # 0
      BY <1>0
    <3>2. q0[i] = Accumulate(bytes[i])[q0[i - 1]]
      <4> HIDE DEF N
      <4> QED
        BY <1>4, <3>1
    <3> QED
      BY <1>0, <2>1, <3>2, AccumulateType
  <2>2. q0[0] \in Word
    BY <1>0, <1>5
  <2> HIDE DEF N, Eq
  <2> QED
    BY <1>0, <2>1, <2>2, Stays
<1>7. q0[N] \in Word
  BY <1>0, <1>6
<1> QED
  BY <1>4, <1>7, AccumulateType

-----------------------------------------------------------------------------
(* Payloads: fields at offsets, and the trailing zeros that are not sent.    *)

Type == {"u8", "u16", "u32", "i16", "i32", "float"}

LEMMA WidthType ==
  ASSUME NEW type
  PROVE  Width(type) \in {1, 2, 4}
  BY DEF Width

LEMMA OffsetDef ==
  ASSUME NEW l \in Seq(Type)
  PROVE  /\ Offset(l, 1) = 0
         /\ \A i \in 1..Len(l) : Offset(l, i + 1) = Offset(l, i) + Width(l[i])
         /\ \A i \in 1..(Len(l) + 1) : Offset(l, i) \in Nat
<1> DEFINE N == Len(l)
           Eq(q) == q = [n \in 0..N |-> IF n = 0 THEN 0 ELSE q[n - 1] + Width(l[n])]
           q0 == CHOOSE q : Eq(q)
           step == [n \in 1..N |-> [x \in Nat |-> x + Width(l[n])]]
<1>0. N \in Nat /\ \A n \in 1..N : Width(l[n]) \in Nat
  BY WidthType
<1>1. step \in [1..N -> [Nat -> Nat]]
  BY <1>0
<1>2. PICK g \in [0..N -> Nat] : Climbs(g, N, 0, step)
  <2> HIDE DEF step, N
  <2> QED
    BY <1>0, <1>1, Climb
<1>3. Eq(g)
  <2>1. ASSUME NEW i \in 0..N
        PROVE  g[i] = IF i = 0 THEN 0 ELSE g[i - 1] + Width(l[i])
    <3>1. CASE i = 0
      BY <1>2, <3>1 DEF Climbs
    <3>2. CASE i # 0
      <4>1. i \in 1..N /\ i - 1 \in 0..N
        BY <1>0, <3>2
      <4>2. g[i] = step[i][g[i - 1]] /\ g[i - 1] \in Nat
        <5> HIDE DEF step, N
        <5> QED
          BY <1>2, <4>1 DEF Climbs
      <4> QED
        BY <3>2, <4>1, <4>2
    <3> QED
      BY <3>1, <3>2
  <2> HIDE DEF N
  <2>2. g = [i \in 0..N |-> g[i]]
    OBVIOUS
  <2> QED
    BY <2>1, <2>2, Zenon
<1>4. Eq(q0) /\ \A i : Offset(l, i) = q0[i - 1]
  BY <1>3, Zenon DEF Offset
<1> HIDE DEF q0, step
<1>5. q0[0] = 0
  BY <1>0, <1>4
<1>6. ASSUME NEW i \in 1..N PROVE q0[i] = q0[i - 1] + Width(l[i])
  <2>1. i \in 0..N /\ i # 0
    BY <1>0
  <2> HIDE DEF N
  <2> QED
    BY <1>4, <2>1
<1>7. \A i \in 0..N : q0[i] \in Nat
  <2>1. ASSUME NEW i \in 1..N, q0[i - 1] \in Nat PROVE q0[i] \in Nat
    <3>1. q0[i] = q0[i - 1] + Width(l[i]) /\ Width(l[i]) \in Nat
      BY <1>0, <1>6
    <3> QED
      BY <2>1, <3>1
  <2>2. q0[0] \in Nat
    BY <1>5
  <2> HIDE DEF N, Eq
  <2> QED
    BY <1>0, <2>1, <2>2, Stays
<1>8. Offset(l, 1) = 0
  <2>1. Offset(l, 1) = q0[1 - 1]
    BY <1>4, Zenon
  <2>2. 1 - 1 = 0
    OBVIOUS
  <2> QED
    BY <1>5, <2>1, <2>2
<1>9. ASSUME NEW i \in 1..N PROVE Offset(l, i + 1) = Offset(l, i) + Width(l[i])
  <2>1. (i + 1) - 1 = i
    OBVIOUS
  <2> QED
    BY <1>4, <1>6, <2>1
<1>10. ASSUME NEW i \in 1..(N + 1) PROVE Offset(l, i) \in Nat
  <2>1. i - 1 \in 0..N
    BY <1>0
  <2> QED
    BY <1>4, <1>7, <2>1
<1> QED
  BY <1>8, <1>9, <1>10

LEMMA LastPiece ==
  ASSUME NEW p \in Seq(Byte), NEW q \in Seq(Byte)
  PROVE  SubSeq(p \o q, Len(p) + 1, Len(p) + Len(q)) = q
<1> DEFINE x == SubSeq(p \o q, Len(p) + 1, Len(p) + Len(q))
<1>1. p \o q \in Seq(Byte) /\ Len(p \o q) = Len(p) + Len(q) /\ Len(p) \in Nat /\ Len(q) \in Nat
  OBVIOUS
<1>2. x \in Seq(Byte) /\ Len(x) = Len(q) /\ \A n \in 1..Len(q) : x[n] = (p \o q)[Len(p) + n]
  <2> DEFINE w == p \o q
  <2> HIDE DEF w
  <2>1. w \in Seq(Byte) /\ Len(w) = Len(p) + Len(q)
    BY <1>1 DEF w
  <2>2. /\ SubSeq(w, Len(p) + 1, Len(p) + Len(q)) \in Seq(Byte)
        /\ Len(SubSeq(w, Len(p) + 1, Len(p) + Len(q))) = (Len(p) + Len(q)) - Len(p)
        /\ \A n \in 1..((Len(p) + Len(q)) - Len(p)) :
              SubSeq(w, Len(p) + 1, Len(p) + Len(q))[n] = w[Len(p) + n]
    BY <1>1, <2>1, Part
  <2> QED
    BY <1>1, <2>2 DEF w
<1>3. \A n \in 1..Len(q) : (p \o q)[Len(p) + n] = q[n]
  OBVIOUS
<1> HIDE DEF x
<1>4. x = q
  BY <1>2, <1>3, Same
<1> QED
  BY <1>4 DEF x

LEMMA UnpackField ==
  ASSUME NEW msgid, NEW payload, NEW i \in DOMAIN Def(msgid).fields,
         \A j \in DOMAIN Def(msgid).fields :
            Def(msgid).fields[j] = Def(msgid).fields[i] => j = i
  PROVE  Unpack(msgid, payload)[Def(msgid).fields[i]]
           = Take(Def(msgid).types[i], FieldIn(Def(msgid).types, payload, i))
<1> DEFINE d == Def(msgid)
           At(f) == CHOOSE j \in DOMAIN d.fields : d.fields[j] = f
           Read(j) == Take(d.types[j], FieldIn(d.types, payload, j))
<1>1. Unpack(msgid, payload) = [f \in {d.fields[j] : j \in DOMAIN d.fields} |-> Read(At(f))]
  BY DEF Unpack
<1>2. i \in DOMAIN d.fields /\ \A j \in DOMAIN d.fields : d.fields[j] = d.fields[i] => j = i
  OBVIOUS
<1> HIDE DEF d
<1>3. At(d.fields[i]) = i
  BY <1>2
<1>4. d.fields[i] \in {d.fields[j] : j \in DOMAIN d.fields}
  BY <1>2
<1> HIDE DEF At, Read
<1>5. Unpack(msgid, payload)[d.fields[i]] = Read(At(d.fields[i]))
  BY <1>1, <1>4
<1> QED
  BY <1>3, <1>5 DEF Read, d

LEMMA LongDef == Def(COMMAND_LONG) = CommandLongDef
  BY DEF Def, COMMAND_LONG, HEARTBEAT, ATTITUDE, GLOBAL_POSITION_INT, COMMAND_ACK
LEMMA AckDef == Def(COMMAND_ACK) = CommandAckDef
  BY DEF Def, COMMAND_LONG, HEARTBEAT, ATTITUDE, GLOBAL_POSITION_INT, COMMAND_ACK
LEMMA BeatDef == Def(HEARTBEAT) = HeartbeatDef
  BY DEF Def, COMMAND_LONG, HEARTBEAT, ATTITUDE, GLOBAL_POSITION_INT, COMMAND_ACK
LEMMA PositionDef == Def(GLOBAL_POSITION_INT) = GlobalPositionIntDef
  BY DEF Def, COMMAND_LONG, HEARTBEAT, ATTITUDE, GLOBAL_POSITION_INT, COMMAND_ACK

LEMMA LongOffsets ==
  LET l == Def(COMMAND_LONG).types IN
  /\ l \in Seq(Type) /\ Len(l) = 11
  /\ \A i \in 1..11 : Offset(l, i) \in Nat /\ Offset(l, i) + Width(l[i]) <= 33
<1> DEFINE l == Def(COMMAND_LONG).types
<1>1. l = <<"float", "float", "float", "float", "float", "float", "float", "u16", "u8", "u8", "u8">>
  BY LongDef DEF CommandLongDef
<1>2. l \in Seq(Type) /\ Len(l) = 11
  BY <1>1 DEF Type
<1>3. /\ \A i \in 1..7 : Width(l[i]) = 4
      /\ Width(l[8]) = 2 /\ Width(l[9]) = 1 /\ Width(l[10]) = 1 /\ Width(l[11]) = 1
  <2>1. Width("float") = 4 /\ Width("u16") = 2 /\ Width("u8") = 1
    BY DEF Width
  <2> QED
    BY <1>1, <2>1
<1> HIDE DEF l
<1>4. /\ Offset(l, 1) = 0
      /\ \A i \in 1..11 : Offset(l, i + 1) = Offset(l, i) + Width(l[i])
      /\ \A i \in 1..11 : Offset(l, i) \in Nat
  <2>1. /\ Offset(l, 1) = 0
        /\ \A i \in 1..Len(l) : Offset(l, i + 1) = Offset(l, i) + Width(l[i])
        /\ \A i \in 1..(Len(l) + 1) : Offset(l, i) \in Nat
    BY <1>2, OffsetDef, Zenon
  <2>2. \A i \in 1..11 : i \in 1..Len(l) /\ i \in 1..(Len(l) + 1)
    BY <1>2
  <2> QED
    BY <2>1, <2>2
<1> DEFINE o(i) == Offset(l, i)
           w(i) == Width(l[i])
<1>5. o(1) = 0 /\ \A i \in 1..11 : o(i + 1) = o(i) + w(i)
  BY <1>4
<1>6. /\ \A i \in 1..7 : w(i) = 4
      /\ w(8) = 2 /\ w(9) = 1 /\ w(10) = 1 /\ w(11) = 1
  BY <1>3
<1> HIDE DEF o, w
<1>7. /\ o(2) = 4 /\ o(3) = 8 /\ o(4) = 12 /\ o(5) = 16 /\ o(6) = 20 /\ o(7) = 24
      /\ o(8) = 28 /\ o(9) = 30 /\ o(10) = 31 /\ o(11) = 32
  <2>1. o(1 + 1) = o(1) + w(1) /\ o(2 + 1) = o(2) + w(2) /\ o(3 + 1) = o(3) + w(3)
        /\ o(4 + 1) = o(4) + w(4) /\ o(5 + 1) = o(5) + w(5) /\ o(6 + 1) = o(6) + w(6)
        /\ o(7 + 1) = o(7) + w(7) /\ o(8 + 1) = o(8) + w(8) /\ o(9 + 1) = o(9) + w(9)
        /\ o(10 + 1) = o(10) + w(10)
    BY <1>5
  <2> QED
    BY <1>5, <1>6, <2>1
<1>8. \A i \in 1..11 : o(i) + w(i) <= 33
  BY <1>5, <1>6, <1>7
<1> QED
  BY <1>2, <1>4, <1>8 DEF o, w, l

LEMMA TakeType ==
  ASSUME NEW type \in Type \ {"i16", "i32"}, NEW bs \in Seq(Byte), Len(bs) = Width(type)
  PROVE  Take(type, bs) \in Int
<1>1. CASE type = "float"
  <2>1. Len(bs) = 4
    BY <1>1 DEF Width
  <2>2. Whole(bs) \in Int
    BY <2>1, WholeType
  <2> QED
    BY <1>1, <2>2 DEF Take
<1>2. CASE type # "float"
  <2>1. Unsigned(bs) \in Nat
    BY UnsignedType
  <2>2. Take(type, bs) = Unsigned(bs)
    BY <1>2 DEF Take, Type
  <2> QED
    BY <2>1, <2>2
<1> QED
  BY <1>1, <1>2

LEMMA FieldInType ==
  ASSUME NEW l, NEW i, NEW x \in Seq(Byte), Offset(l, i) \in Nat, Width(l[i]) \in Nat,
         Offset(l, i) + Width(l[i]) <= Len(x)
  PROVE  FieldIn(l, x, i) \in Seq(Byte) /\ Len(FieldIn(l, x, i)) = Width(l[i])
<1> DEFINE o == Offset(l, i)
           w == Width(l[i])
<1>1. FieldIn(l, x, i) = SubSeq(x, o + 1, o + w)
  BY DEF FieldIn
<1>2. o \in Nat /\ w \in Nat /\ o + w <= Len(x)
  OBVIOUS
<1> HIDE DEF o, w
<1>3. SubSeq(x, o + 1, o + w) \in Seq(Byte) /\ Len(SubSeq(x, o + 1, o + w)) = w
  BY <1>2
<1> QED
  BY <1>1, <1>3 DEF w

LEMMA LongFieldType ==
  ASSUME NEW x \in Seq(Byte), Len(x) >= 33, NEW i \in 1..11
  PROVE  Unpack(COMMAND_LONG, x)[Def(COMMAND_LONG).fields[i]] \in Int
<1> DEFINE l == Def(COMMAND_LONG).types
           fs == Def(COMMAND_LONG).fields
<1>1. /\ l \in Seq(Type) /\ Len(l) = 11 /\ Offset(l, i) \in Nat
      /\ Offset(l, i) + Width(l[i]) <= 33
  BY LongOffsets
<1>2. fs = <<"param1", "param2", "param3", "param4", "param5", "param6", "param7",
             "command", "targetSystem", "targetComponent", "confirmation">>
  BY LongDef DEF CommandLongDef
<1>3. i \in DOMAIN fs /\ \A j \in DOMAIN fs : fs[j] = fs[i] => j = i
  BY <1>2
<1>4. Unpack(COMMAND_LONG, x)[fs[i]] = Take(l[i], FieldIn(l, x, i))
  BY <1>3, UnpackField
<1>5. l[i] \in Type \ {"i16", "i32"}
  <2>1. l = <<"float", "float", "float", "float", "float", "float", "float",
              "u16", "u8", "u8", "u8">>
    BY LongDef DEF CommandLongDef
  <2> QED
    BY <2>1 DEF Type
<1>6. Width(l[i]) \in Nat
  <2>1. Width(l[i]) \in {1, 2, 4}
    BY WidthType
  <2> QED
    BY <2>1
<1> HIDE DEF l, fs
<1>7. Offset(l, i) + Width(l[i]) <= Len(x)
  <2>1. Len(x) \in Nat
    OBVIOUS
  <2> QED
    BY <1>1, <1>6, <2>1
<1>8. FieldIn(l, x, i) \in Seq(Byte) /\ Len(FieldIn(l, x, i)) = Width(l[i])
  BY <1>1, <1>6, <1>7, FieldInType
<1>9. Take(l[i], FieldIn(l, x, i)) \in Int
  BY <1>5, <1>8, TakeType
<1> QED
  BY <1>4, <1>9 DEF fs

LEMMA PadToType ==
  ASSUME NEW p \in Seq(Byte), NEW n \in Nat
  PROVE  PadTo(p, n) \in Seq(Byte) /\ Len(PadTo(p, n)) >= n
<1> DEFINE z == [i \in 1..(n - Len(p)) |-> 0]
           k == IF n > Len(p) THEN n - Len(p) ELSE 0
<1>0. Len(p) \in Nat /\ 0 \in Byte
  BY DEF Byte
<1>1. 1..(n - Len(p)) = 1..k /\ k \in Nat
  BY <1>0
<1>2. z \in Seq(Byte) /\ Len(z) = k
  <2> HIDE DEF k
  <2>1. z = [i \in 1..k |-> 0]
    BY <1>1, Zenon
  <2> HIDE DEF z
  <2> QED
    BY <1>0, <1>1, <2>1
<1>3. PadTo(p, n) = p \o z
  BY DEF PadTo
<1> HIDE DEF z
<1>4. p \o z \in Seq(Byte) /\ Len(p \o z) = Len(p) + k
  BY <1>2
<1> QED
  BY <1>0, <1>1, <1>3, <1>4

LEMMA PayloadType ==
  ASSUME NEW f \in Parsed, Addressed(f)
  PROVE  f.payload \in Seq(Byte) /\ Len(f.payload) >= 33
<1>1. PICK b \in Seq(Byte) : Ready(b) /\ f = Decoded(b)
  BY DEF Parsed
<1> DEFINE m == Unsigned(SubSeq(b, 8, 10))
           p == SubSeq(b, HeaderLen + 1, HeaderLen + b[2])
           y == IF m \in Known THEN PadTo(p, Def(m).payloadLen) ELSE p
<1>2. f.msgid = m /\ f.payload = y
  <2>1. f = [msgid |-> m, seq |-> b[5], sysid |-> b[6], compid |-> b[7], payload |-> y,
             crcOk |-> m \in Known /\ CrcOk(b, m)]
    BY <1>1 DEF Decoded
  <2> HIDE DEF m, y
  <2> QED
    BY <2>1
<1>3. m = COMMAND_LONG
  BY <1>2 DEF Addressed
<1>4. p \in Seq(Byte)
  <2>1. /\ b[2] \in Byte /\ HeaderLen + b[2] \in Nat /\ FrameSize(b) \in Nat
        /\ FrameSize(b) >= HeaderLen + b[2] + CrcLen
    BY <1>1, SizeOf DEF Ready
  <2>2. FrameSize(b) <= Len(b) /\ Len(b) \in Nat
    BY <1>1 DEF Ready
  <2>3. HeaderLen + b[2] <= Len(b) /\ HeaderLen \in Nat
    <3> DEFINE h == HeaderLen + b[2]
    <3> HIDE DEF h
    <3>1. h \in Nat /\ FrameSize(b) >= h + CrcLen
      BY <2>1 DEF h
    <3>2. h <= Len(b)
      BY <2>1, <2>2, <3>1 DEF CrcLen
    <3> QED
      BY <3>2 DEF h, HeaderLen
  <2> QED
    BY <2>1, <2>3
<1>5. m \in Known /\ Def(m).payloadLen = 33
  BY <1>3, LongDef DEF Known, CommandLongDef
<1> HIDE DEF m, p
<1>6. y = PadTo(p, 33)
  BY <1>5
<1> QED
  BY <1>2, <1>4, <1>6, PadToType

\* The numbers that a command's reply depends on.
LEMMA CommandParts ==
  ASSUME NEW c \in Commands
  PROVE  /\ c.param1 \in Int /\ c.param5 \in Int /\ c.param6 \in Int /\ c.param7 \in Int
         /\ c.command \in Int
<1>1. PICK f \in Parsed : Addressed(f) /\ c = Unpack(COMMAND_LONG, f.payload)
  BY DEF Commands, CommandOf
<1> DEFINE fs == Def(COMMAND_LONG).fields
<1>2. \A i \in 1..11 : Unpack(COMMAND_LONG, f.payload)[fs[i]] \in Int
  BY <1>1, PayloadType, LongFieldType
<1>3. /\ fs[1] = "param1" /\ fs[5] = "param5" /\ fs[6] = "param6" /\ fs[7] = "param7"
      /\ fs[8] = "command"
  BY LongDef DEF CommandLongDef
<1> HIDE DEF fs
<1>4. \A i \in 1..11 : c[fs[i]] \in Int
  BY <1>1, <1>2
<1>5. /\ c[fs[1]] \in Int /\ c[fs[5]] \in Int /\ c[fs[6]] \in Int
      /\ c[fs[7]] \in Int /\ c[fs[8]] \in Int
  BY <1>4
<1> QED
  BY <1>3, <1>5

\* x holds the first n fields of layout l, which are v.
Packed(l, v, x, n) ==
  /\ x \in Seq(Byte) /\ Len(x) = Offset(l, n + 1)
  /\ \A i \in 1..n : FieldIn(l, x, i) = v[i]

LEMMA FieldStays ==
  ASSUME NEW l, NEW i, NEW x \in Seq(Byte), NEW y \in Seq(Byte), Offset(l, i) \in Nat,
         Width(l[i]) \in Nat, Offset(l, i) + Width(l[i]) <= Len(x)
  PROVE  FieldIn(l, x \o y, i) = FieldIn(l, x, i)
<1> DEFINE o == Offset(l, i)
           w == Width(l[i])
<1>1. /\ FieldIn(l, x, i) = SubSeq(x, o + 1, o + w)
      /\ FieldIn(l, x \o y, i) = SubSeq(x \o y, o + 1, o + w)
  BY DEF FieldIn
<1>2. o + 1 \in Nat /\ o + w \in Nat /\ 1 <= o + 1 /\ o + w <= Len(x)
  OBVIOUS
<1> HIDE DEF o, w
<1>3. SubSeq(x \o y, o + 1, o + w) = SubSeq(x, o + 1, o + w)
  BY <1>2, PieceOfJoin
<1> QED
  BY <1>1, <1>3

LEMMA PackedMore ==
  ASSUME NEW l \in Seq(Type), NEW v, NEW x, NEW n \in 1..Len(l), Packed(l, v, x, n - 1),
         v[n] \in Seq(Byte), Len(v[n]) = Width(l[n])
  PROVE  Packed(l, v, x \o v[n], n)
<1>1. x \in Seq(Byte) /\ Len(x) = Offset(l, n)
  <2>1. (n - 1) + 1 = n
    OBVIOUS
  <2> QED
    BY <2>1 DEF Packed
<1>2. Offset(l, n + 1) = Offset(l, n) + Width(l[n])
  BY OffsetDef
<1>3. x \o v[n] \in Seq(Byte) /\ Len(x \o v[n]) = Offset(l, n + 1)
  <2> DEFINE w == v[n]
  <2>1. w \in Seq(Byte) /\ Len(w) = Width(l[n])
    OBVIOUS
  <2> HIDE DEF w
  <2>2. x \o w \in Seq(Byte) /\ Len(x \o w) = Len(x) + Len(w)
    <3>1. x \in Seq(Byte) /\ w \in Seq(Byte)
      BY <1>1, <2>1
    <3> QED
      BY <3>1, Joining
  <2> QED
    BY <1>1, <1>2, <2>1, <2>2 DEF w
<1>4. FieldIn(l, x \o v[n], n) = v[n]
  <2>1. SubSeq(x \o v[n], Len(x) + 1, Len(x) + Len(v[n])) = v[n]
    BY <1>1, LastPiece
  <2> QED
    BY <1>1, <2>1 DEF FieldIn
<1>5. ASSUME NEW i \in 1..(n - 1) PROVE FieldIn(l, x \o v[n], i) = v[i]
  <2>1. FieldIn(l, x, i) = v[i]
    BY DEF Packed
  <2>2. Offset(l, i) \in Nat /\ Width(l[i]) \in Nat
    <3>1. Offset(l, i) \in Nat
      <4>1. i \in 1..(Len(l) + 1)
        OBVIOUS
      <4> QED
        BY <4>1, OffsetDef
    <3>2. Width(l[i]) \in {1, 2, 4}
      BY WidthType
    <3> QED
      BY <3>1, <3>2
  <2>3. Offset(l, i) + Width(l[i]) <= Len(x)
    <3> DEFINE S == {k \in Nat : i + 1 + k <= n => Offset(l, i + 1) <= Offset(l, i + 1 + k)}
    <3>1. \A k \in 1..(Len(l) + 1) : Offset(l, k) \in Nat
      BY OffsetDef
    <3>2. 0 \in S
      <4>1. i + 1 \in 1..(Len(l) + 1) /\ i + 1 + 0 = i + 1
        OBVIOUS
      <4>2. Offset(l, i + 1) \in Nat
        BY <3>1, <4>1
      <4> QED
        BY <4>1, <4>2
    <3>3. ASSUME NEW k \in Nat, k \in S PROVE k + 1 \in S
      <4> SUFFICES ASSUME i + 1 + (k + 1) <= n PROVE Offset(l, i + 1) <= Offset(l, i + 1 + (k + 1))
        OBVIOUS
      <4>1. PICK j \in 1..Len(l) : j = i + 1 + k
        OBVIOUS
      <4>2. i + 1 + (k + 1) = j + 1 /\ i + 1 \in 1..(Len(l) + 1) /\ j \in 1..(Len(l) + 1)
        BY <4>1
      <4>3. Offset(l, j + 1) = Offset(l, j) + Width(l[j])
        BY OffsetDef
      <4>4. Offset(l, i + 1) <= Offset(l, j)
        BY <3>3, <4>1
      <4>5. Width(l[j]) \in {1, 2, 4}
        BY WidthType
      <4>6. Offset(l, i + 1) \in Nat /\ Offset(l, j) \in Nat
        BY <3>1, <4>2
      <4>7. Offset(l, i + 1) <= Offset(l, j + 1)
        BY <4>3, <4>4, <4>5, <4>6
      <4> QED
        BY <4>2, <4>7
    <3>4. Nat \subseteq S
      <4> HIDE DEF S
      <4> QED
        BY <3>2, <3>3, Induct
    <3>5. PICK k \in Nat : i + 1 + k = n
      <4>1. n - (i + 1) \in Nat /\ i + 1 + (n - (i + 1)) = n
        OBVIOUS
      <4> QED
        BY <4>1
    <3>6. Offset(l, i + 1) <= Offset(l, n)
      <4>1. k \in S /\ i + 1 + k <= n
        BY <3>4, <3>5
      <4>2. Offset(l, i + 1) <= Offset(l, i + 1 + k)
        BY <4>1
      <4> QED
        BY <3>5, <4>2
    <3>7. i \in 1..Len(l)
      OBVIOUS
    <3>8. Offset(l, i + 1) = Offset(l, i) + Width(l[i])
      BY <3>7, OffsetDef
    <3> QED
      BY <1>1, <3>6, <3>8
  <2>4. FieldIn(l, x \o v[n], i) = FieldIn(l, x, i)
    BY <1>1, <2>2, <2>3, FieldStays
  <2> QED
    BY <2>1, <2>4
<1>6. \A i \in 1..n : FieldIn(l, x \o v[n], i) = v[i]
  <2> TAKE i \in 1..n
  <2>1. i = n \/ i \in 1..(n - 1)
    OBVIOUS
  <2> QED
    BY <1>4, <1>5, <2>1
<1> QED
  BY <1>3, <1>6 DEF Packed

LEMMA PackDef ==
  ASSUME NEW msgid, NEW m, NEW l \in Seq(Type), l = Def(msgid).types,
         NEW v, v = [i \in 1..Len(l) |-> Put(l[i], m[Def(msgid).fields[i]])],
         \A i \in 1..Len(l) : v[i] \in Seq(Byte) /\ Len(v[i]) = Width(l[i])
  PROVE  Packed(l, v, Pack(msgid, m), Len(l))
<1> DEFINE d == Def(msgid)
           N == Len(d.types)
           Eq(q) == q = [n \in 0..N |->
             IF n = 0 THEN <<>> ELSE q[n - 1] \o Put(d.types[n], m[d.fields[n]])]
           q0 == CHOOSE q : Eq(q)
           step == [n \in 1..N |-> [x \in Seq(Byte) |-> x \o v[n]]]
<1>0. /\ N \in Nat /\ N = Len(l)
      /\ \A n \in 1..N : v[n] \in Seq(Byte) /\ v[n] = Put(d.types[n], m[d.fields[n]])
  <2>1. d.types = l /\ N = Len(l) /\ Len(l) \in Nat
    OBVIOUS
  <2>2. \A n \in 1..Len(l) : v[n] = Put(l[n], m[d.fields[n]])
    OBVIOUS
  <2> HIDE DEF d
  <2> QED
    BY <2>1, <2>2, Zenon
<1>1. step \in [1..N -> [Seq(Byte) -> Seq(Byte)]] /\ <<>> \in Seq(Byte)
  <2>1. \A n \in 1..N, x \in Seq(Byte) : x \o v[n] \in Seq(Byte)
    BY <1>0
  <2> HIDE DEF N
  <2> QED
    BY <2>1
<1>2. PICK g \in [0..N -> Seq(Byte)] : Climbs(g, N, <<>>, step)
  <2> HIDE DEF step, N
  <2> QED
    BY <1>0, <1>1, Climb
<1>3. Eq(g)
  <2>1. ASSUME NEW i \in 0..N
        PROVE  g[i] = IF i = 0 THEN <<>> ELSE g[i - 1] \o Put(d.types[i], m[d.fields[i]])
    <3>1. CASE i = 0
      BY <1>2, <3>1 DEF Climbs
    <3>2. CASE i # 0
      <4>1. i \in 1..N /\ i - 1 \in 0..N
        BY <1>0, <3>2
      <4>2. g[i] = step[i][g[i - 1]] /\ g[i - 1] \in Seq(Byte)
        <5> HIDE DEF step, N
        <5> QED
          BY <1>2, <4>1 DEF Climbs
      <4>3. g[i] = g[i - 1] \o v[i]
        <5> HIDE DEF N
        <5> QED
          BY <4>1, <4>2
      <4>4. v[i] = Put(d.types[i], m[d.fields[i]])
        BY <1>0, <4>1
      <4> QED
        BY <3>2, <4>3, <4>4, Zenon
    <3> QED
      BY <3>1, <3>2
  <2> HIDE DEF N
  <2>2. g = [i \in 0..N |-> g[i]]
    OBVIOUS
  <2> QED
    BY <2>1, <2>2, Zenon
<1>4. Eq(q0) /\ Pack(msgid, m) = q0[N]
  BY <1>3, Zenon DEF Pack
<1> HIDE DEF q0, step
<1>5. q0[0] = <<>>
  BY <1>0, <1>4
<1>6. ASSUME NEW i \in 1..N PROVE q0[i] = q0[i - 1] \o v[i]
  <2>1. i \in 0..N /\ i # 0
    BY <1>0
  <2>2. q0[i] = q0[i - 1] \o Put(d.types[i], m[d.fields[i]])
    <3> HIDE DEF N
    <3> QED
      BY <1>4, <2>1
  <2> QED
    BY <1>0, <2>2, Zenon
<1> HIDE DEF N, Eq, d
<1> DEFINE S == {n \in Nat : n <= N => Packed(l, v, q0[n], n)}
<1>7. Nat \subseteq S
  <2>1. 0 \in S
    <3>1. <<>> \in Seq(Byte) /\ Len(<<>>) = 0 /\ 0 + 1 = 1
      OBVIOUS
    <3>2. Offset(l, 1) = 0
      BY OffsetDef
    <3>3. \A i \in 1..0 : FALSE
      OBVIOUS
    <3>4. Packed(l, v, <<>>, 0)
      BY <3>1, <3>2, <3>3 DEF Packed
    <3> QED
      BY <1>5, <3>4
  <2>2. ASSUME NEW n \in Nat, n \in S PROVE n + 1 \in S
    <3> SUFFICES ASSUME n + 1 <= N PROVE Packed(l, v, q0[n + 1], n + 1)
      OBVIOUS
    <3>1. PICK k \in 1..N : k = n + 1 /\ k - 1 = n
      BY <1>0
    <3>2. Packed(l, v, q0[k - 1], k - 1)
      BY <1>0, <2>2, <3>1
    <3>3. Packed(l, v, q0[k - 1] \o v[k], k)
      BY <1>0, <3>2, PackedMore
    <3> QED
      BY <1>6, <3>1, <3>3
  <2> HIDE DEF S
  <2> QED
    BY <2>1, <2>2, Induct
<1>8. Packed(l, v, q0[N], N)
  BY <1>0, <1>7
<1> QED
  BY <1>0, <1>4, <1>8

LEMMA TrimIs ==
  ASSUME NEW x \in Seq(Byte), Len(x) >= 1
  PROVE  \E k \in 1..Len(x) : Trim(x) = SubSeq(x, 1, k) /\ \A n \in (k + 1)..Len(x) : x[n] = 0
<1> DEFINE keep == {1} \cup {n \in DOMAIN x : x[n] # 0}
           down == {Len(x) - n : n \in keep}
<1>1. keep \subseteq 1..Len(x) /\ 1 \in keep
  OBVIOUS
<1>2. down \subseteq Nat /\ down # {}
  <2>1. Len(x) \in Nat
    OBVIOUS
  <2> HIDE DEF keep
  <2>2. \A n \in keep : Len(x) - n \in Nat
    BY <1>1, <2>1
  <2> QED
    BY <1>1, <2>2
<1>3. PICK z \in down : \A y \in down : z <= y
  <2> HIDE DEF down
  <2> QED
    BY <1>2, LeastNumber
<1>4. PICK k \in keep : z = Len(x) - k
  OBVIOUS
<1>5. \A m \in keep : m <= k
  <2> TAKE m \in keep
  <2>1. Len(x) - m \in down
    OBVIOUS
  <2>2. Len(x) - k <= Len(x) - m
    BY <1>3, <1>4, <2>1
  <2> HIDE DEF keep
  <2> QED
    BY <1>1, <2>2
<1> DEFINE c == CHOOSE n \in keep : \A m \in keep : m <= n
<1>6. c \in keep /\ \A m \in keep : m <= c
  <2> HIDE DEF keep
  <2> QED
    BY <1>5
<1>7. Trim(x) = SubSeq(x, 1, c)
  BY DEF Trim
<1> HIDE DEF c, down
<1>8. \A n \in (c + 1)..Len(x) : x[n] = 0
  <2> TAKE n \in (c + 1)..Len(x)
  <2>1. c \in 1..Len(x)
    BY <1>1, <1>6
  <2>2. n \in DOMAIN x /\ ~(n <= c)
    BY <2>1
  <2> QED
    BY <1>6, <2>2
<1>9. c \in 1..Len(x)
  BY <1>1, <1>6
<1> QED
  BY <1>7, <1>8, <1>9

\* Trailing zeros that are cut are put back.
LEMMA TrimPad ==
  ASSUME NEW x \in Seq(Byte), Len(x) >= 1
  PROVE  /\ Trim(x) \in Seq(Byte) /\ Len(Trim(x)) \in 1..Len(x)
         /\ PadTo(Trim(x), Len(x)) = x
<1>1. PICK k \in 1..Len(x) : Trim(x) = SubSeq(x, 1, k) /\ \A n \in (k + 1)..Len(x) : x[n] = 0
  BY TrimIs
<1> DEFINE t == SubSeq(x, 1, k)
<1>2. t \in Seq(Byte) /\ Len(t) = k /\ \A n \in 1..k : t[n] = x[n]
  OBVIOUS
<1> DEFINE j == Len(x) - k
           z == [i \in 1..j |-> 0]
<1>3. j \in Nat /\ Len(x) = k + j /\ k \in Nat /\ \A i \in 1..j : k + i \in (k + 1)..Len(x)
  OBVIOUS
<1>4. PadTo(t, Len(x)) = t \o z
  BY <1>2 DEF PadTo
<1>5. z \in Seq(Byte) /\ Len(z) = j /\ \A i \in 1..j : z[i] = 0
  <2>1. 0 \in Byte
    BY DEF Byte
  <2> HIDE DEF j
  <2> QED
    BY <1>3, <2>1
<1> HIDE DEF t, z, j
<1>6. t \o z \in Seq(Byte) /\ Len(t \o z) = k + j
  <2>1. t \in Seq(Byte) /\ z \in Seq(Byte)
    BY <1>2, <1>5
  <2>2. t \o z \in Seq(Byte) /\ Len(t \o z) = Len(t) + Len(z)
    BY <2>1
  <2> QED
    BY <1>2, <1>5, <2>2
<1>7. \A n \in 1..k : (t \o z)[n] = x[n]
  BY <1>2, <1>5
<1>8. ASSUME NEW n \in 1..(k + j), ~(n <= k) PROVE (t \o z)[n] = x[n]
  <2>1. PICK i \in 1..j : n = k + i
    <3>1. n - k \in 1..j /\ n = k + (n - k)
      BY <1>3, <1>8
    <3> QED
      BY <3>1
  <2>2. (t \o z)[k + i] = z[i]
    BY <1>2, <1>5
  <2>3. x[k + i] = 0 /\ z[i] = 0
    BY <1>1, <1>3, <1>5
  <2> QED
    BY <2>1, <2>2, <2>3
<1>9. \A n \in 1..(k + j) : (t \o z)[n] = x[n]
  <2> TAKE n \in 1..(k + j)
  <2>1. n <= k => n \in 1..k
    BY <1>3
  <2> QED
    BY <1>7, <1>8, <2>1
<1>10. PadTo(t, Len(x)) = x
  <2> DEFINE y == t \o z
  <2> HIDE DEF y
  <2>1. y = x
    BY <1>3, <1>6, <1>9, Same DEF y
  <2> QED
    BY <1>4, <2>1 DEF y
<1> QED
  BY <1>1, <1>2, <1>10 DEF t

-----------------------------------------------------------------------------
(* The drone's state.                                                        *)

Drone == [armed : BOOLEAN, lat : Int, lon : Int, altMm : Int, bootMs : Nat, txSeq : Nat]

\* What was done, and a reply.
Done  == [command : Commands, after : Drone]
Reply == Seq(Byte)

LEMMA FreshType == Fresh \in Drone /\ Seasoned \in Drone
<1>1. Fresh \in Drone
  BY SMT DEF Fresh, Drone
<1> DEFINE f == Fresh
           x == 8400
           e == [f EXCEPT !.bootMs = x]
<1>2. f \in Drone /\ x \in Nat
  BY SMT, <1>1
<1>3. Seasoned = [f EXCEPT !.bootMs = x, !.txSeq = 252]
  BY SMT DEF Seasoned
<1> HIDE DEF f, x
<1>4. e \in Drone
  BY SMT, <1>2 DEF Drone
<1>5. e = [f EXCEPT !.bootMs = x]
  OBVIOUS
<1> HIDE DEF e
<1>6. Seasoned = [e EXCEPT !.txSeq = 252]
  BY <1>3, <1>5, Zenon
<1>7. [e EXCEPT !.txSeq = 252] \in Drone
  BY SMT, <1>4 DEF Drone
<1> QED
  BY <1>1, <1>6, <1>7, Zenon

\* What a command may set.
LEMMA ObeyedType ==
  ASSUME NEW d \in Drone, NEW c, c.param1 \in Int, c.param5 \in Int, c.param6 \in Int,
         c.param7 \in Int
  PROVE  /\ Obeyed(d, c) \in Drone
         /\ Obeyed(d, c).txSeq = d.txSeq /\ Obeyed(d, c).bootMs = d.bootMs
<1> DEFINE up == c.param1 >= 1
           z  == c.param7 * 1000
           x  == c.param5 * 10000000
           y  == c.param6 * 10000000
<1>1. up \in BOOLEAN
  OBVIOUS
<1>2. z \in Int /\ x \in Int /\ y \in Int
  BY SMT
<1> DEFINE names == {COMPONENT_ARM_DISARM, NAV_TAKEOFF, DO_REPOSITION, NAV_LAND}
<1>3. /\ c.command = COMPONENT_ARM_DISARM => Obeyed(d, c) = [d EXCEPT !.armed = up]
      /\ c.command = NAV_TAKEOFF => Obeyed(d, c) = [d EXCEPT !.altMm = z]
      /\ c.command = NAV_LAND => Obeyed(d, c) = [d EXCEPT !.altMm = 0]
      /\ c.command \notin names => Obeyed(d, c) = d
  BY SMT DEF Obeyed, COMPONENT_ARM_DISARM, NAV_TAKEOFF, DO_REPOSITION, NAV_LAND
<1>4. c.command = DO_REPOSITION
        => Obeyed(d, c) = [d EXCEPT !.lat = x, !.lon = y, !.altMm = z]
  BY SMT DEF Obeyed, COMPONENT_ARM_DISARM, NAV_TAKEOFF, DO_REPOSITION, NAV_LAND
<1> HIDE DEF up, z, x, y
<1>5. [d EXCEPT !.armed = up] \in Drone /\ [d EXCEPT !.armed = up].txSeq = d.txSeq
      /\ [d EXCEPT !.armed = up].bootMs = d.bootMs
  BY SMT, <1>1 DEF Drone
<1>6. [d EXCEPT !.altMm = z] \in Drone /\ [d EXCEPT !.altMm = z].txSeq = d.txSeq
      /\ [d EXCEPT !.altMm = z].bootMs = d.bootMs
  BY SMT, <1>2 DEF Drone
<1>7. [d EXCEPT !.altMm = 0] \in Drone /\ [d EXCEPT !.altMm = 0].txSeq = d.txSeq
      /\ [d EXCEPT !.altMm = 0].bootMs = d.bootMs
  BY SMT DEF Drone
<1>8. /\ [d EXCEPT !.lat = x, !.lon = y, !.altMm = z] \in Drone
      /\ [d EXCEPT !.lat = x, !.lon = y, !.altMm = z].txSeq = d.txSeq
      /\ [d EXCEPT !.lat = x, !.lon = y, !.altMm = z].bootMs = d.bootMs
  <2> DEFINE e == [d EXCEPT !.lat = x]
             f == [e EXCEPT !.lon = y]
  <2>1. e \in Drone /\ e.txSeq = d.txSeq /\ e.bootMs = d.bootMs
    BY SMT, <1>2 DEF Drone
  <2>2. e = [d EXCEPT !.lat = x]
    OBVIOUS
  <2> HIDE DEF e
  <2>3. f \in Drone /\ f.txSeq = e.txSeq /\ f.bootMs = e.bootMs
    BY SMT, <1>2, <2>1 DEF Drone
  <2>4. f = [e EXCEPT !.lon = y]
    OBVIOUS
  <2> HIDE DEF f
  <2>5. [d EXCEPT !.lat = x, !.lon = y, !.altMm = z] = [f EXCEPT !.altMm = z]
    BY <2>2, <2>4, Zenon
  <2>6. /\ [f EXCEPT !.altMm = z] \in Drone /\ [f EXCEPT !.altMm = z].txSeq = f.txSeq
        /\ [f EXCEPT !.altMm = z].bootMs = f.bootMs
    BY SMT, <1>2, <2>3 DEF Drone
  <2> QED
    BY <2>1, <2>3, <2>5, <2>6, Zenon
<1>9. \/ c.command = COMPONENT_ARM_DISARM \/ c.command = NAV_TAKEOFF \/ c.command = NAV_LAND
      \/ c.command = DO_REPOSITION \/ c.command \notin names
  OBVIOUS
<1> HIDE DEF names
<1> QED
  BY <1>3, <1>4, <1>5, <1>6, <1>7, <1>8, <1>9, Zenon

LEMMA AfterType ==
  ASSUME NEW d \in Drone, NEW c \in Commands
  PROVE  After(d, c) \in Drone /\ After(d, c).txSeq = d.txSeq + 3
<1> DEFINE o == Obeyed(d, c)
<1>1. o \in Drone /\ o.txSeq = d.txSeq
  <2>1. c.param1 \in Int /\ c.param5 \in Int /\ c.param6 \in Int /\ c.param7 \in Int
    BY CommandParts
  <2> QED
    BY <2>1, ObeyedType
<1> DEFINE x == o.bootMs + 100
           y == o.txSeq + 3
           e == [o EXCEPT !.bootMs = x]
<1>2. After(d, c) = [o EXCEPT !.bootMs = x, !.txSeq = y]
  BY Zenon DEF After
<1> HIDE DEF o
<1>3. x \in Nat /\ y \in Nat
  BY SMT, <1>1 DEF Drone
<1>4. y = o.txSeq + 3
  OBVIOUS
<1> HIDE DEF x, y
<1>5. e \in Drone
  BY SMT, <1>1, <1>3 DEF Drone
<1>6. e = [o EXCEPT !.bootMs = x]
  OBVIOUS
<1> HIDE DEF e
<1>7. After(d, c) = [e EXCEPT !.txSeq = y]
  BY <1>2, <1>6, Zenon
<1>8. [e EXCEPT !.txSeq = y] \in Drone /\ [e EXCEPT !.txSeq = y].txSeq = y
  BY SMT, <1>3, <1>5 DEF Drone
<1> QED
  BY <1>1, <1>4, <1>7, <1>8, Zenon

-----------------------------------------------------------------------------
(* What the drone sends: each answer is one frame, which a parser takes off  *)
(* whole and whose number it reads.                                          *)

\* j is p with q behind it.
Joins(j, p, q) ==
  /\ j \in Seq(Byte) /\ Len(j) = Len(p) + Len(q) /\ Len(p) \in Nat /\ Len(q) \in Nat
  /\ \A i \in 1..Len(p) : j[i] = p[i]
  /\ \A i \in 1..Len(q) : j[Len(p) + i] = q[i]
LEMMA JoinsIs ==
  ASSUME NEW p \in Seq(Byte), NEW q \in Seq(Byte)
  PROVE  Joins(p \o q, p, q)
  BY DEF Joins

\* What the checksum covers of a frame with payload p.
Covered(p, msgid, seq, sysid, compid) ==
  <<Len(p), 0, 0, seq % 256, sysid, compid>> \o LittleEndian(msgid, 3) \o p

CoveredIs(c, p, msgid, seq) ==
  /\ c \in Seq(Byte) /\ Len(c) = 9 + Len(p)
  /\ c[1] = Len(p) /\ c[2] = 0 /\ c[4] = seq % 256
  /\ \A i \in 1..3 : c[6 + i] = LittleEndian(msgid, 3)[i]
  /\ \A i \in 1..Len(p) : c[9 + i] = p[i]
LEMMA CoveredType ==
  ASSUME NEW p \in Seq(Byte), Len(p) <= 255, NEW msgid \in Int, NEW seq \in Int,
         NEW sysid \in Byte, NEW compid \in Byte,
         NEW c, c = Covered(p, msgid, seq, sysid, compid)
  PROVE  CoveredIs(c, p, msgid, seq)
<1> DEFINE h == <<Len(p), 0, 0, seq % 256, sysid, compid>>
           t == LittleEndian(msgid, 3)
           a == h \o t
<1>1. h \in Seq(Byte) /\ Len(h) = 6 /\ h[1] = Len(p) /\ h[2] = 0 /\ h[4] = seq % 256
  <2>1. Len(p) \in Byte /\ 0 \in Byte /\ seq % 256 \in Byte
    <3>1. \A x \in Nat : x <= 255 => x \in 0..255
      OBVIOUS
    <3>2. Len(p) \in Nat
      OBVIOUS
    <3>3. Len(p) \in 0..255
      BY <3>1, <3>2, Zenon
    <3>4. 0 \in 0..255 /\ seq % 256 \in 0..255
      OBVIOUS
    <3> QED
      BY <3>3, <3>4, Zenon DEF Byte
  <2> QED
    BY <2>1
<1>2. t \in Seq(Byte) /\ Len(t) = 3
  BY LittleEndianType
<1>3. c = a \o p
  BY DEF Covered
<1> HIDE DEF h, t
<1>4. /\ a \in Seq(Byte) /\ Len(a) = Len(h) + Len(t)
      /\ \A i \in 1..Len(h) : a[i] = h[i]
      /\ \A i \in 1..Len(t) : a[Len(h) + i] = t[i]
  <2>1. Joins(h \o t, h, t)
    BY <1>1, <1>2, JoinsIs
  <2> QED
    BY <2>1, Zenon DEF Joins
<1> HIDE DEF a
<1>5. /\ a \o p \in Seq(Byte) /\ Len(a \o p) = Len(a) + Len(p)
      /\ \A i \in 1..Len(a) : (a \o p)[i] = a[i]
      /\ \A i \in 1..Len(p) : (a \o p)[Len(a) + i] = p[i]
  <2>1. Joins(a \o p, a, p)
    BY <1>4, JoinsIs
  <2> QED
    BY <2>1, Zenon DEF Joins
<1>6. Len(a) = 9
  BY <1>1, <1>2, <1>4
<1>7. c \in Seq(Byte) /\ Len(c) = 9 + Len(p) /\ \A i \in 1..Len(p) : c[9 + i] = p[i]
  BY <1>3, <1>5, <1>6
<1>8. \A i \in 1..9 : c[i] = a[i]
  BY <1>3, <1>5, <1>6
<1>9. /\ \A i \in 1..6 : a[i] = h[i]
      /\ \A i \in 1..3 : a[6 + i] = t[i]
  BY <1>1, <1>2, <1>4
<1>10. c[1] = Len(p) /\ c[2] = 0 /\ c[4] = seq % 256
  <2>1. 1 \in 1..9 /\ 2 \in 1..9 /\ 4 \in 1..9 /\ 1 \in 1..6 /\ 2 \in 1..6 /\ 4 \in 1..6
    OBVIOUS
  <2> QED
    BY <1>1, <1>8, <1>9, <2>1, Zenon
<1>11. \A i \in 1..3 : c[6 + i] = t[i]
  <2>1. \A i \in 1..3 : 6 + i \in 1..9
    OBVIOUS
  <2> QED
    BY <1>8, <1>9, <2>1, Zenon
<1> QED
  BY <1>7, <1>10, <1>11, Zenon DEF t, CoveredIs

\* A start byte, what the checksum covers, and two bytes of checksum.
Framed(e, c, t) ==
  /\ e \in Seq(Byte) /\ Len(e) = 1 + Len(c) + 2 /\ e[1] = STX
  /\ \A i \in 1..Len(c) : e[1 + i] = c[i]
  /\ \A i \in 1..2 : e[1 + Len(c) + i] = t[i]

LEMMA FramedIs ==
  ASSUME NEW c \in Seq(Byte), NEW t \in Seq(Byte), Len(t) = 2
  PROVE  Framed(<<STX>> \o c \o t, c, t)
<1> DEFINE s == <<STX>>
           a == s \o c
<1>1. s \in Seq(Byte) /\ Len(s) = 1 /\ s[1] = STX
  BY DEF STX, Byte
<1> HIDE DEF s
<1>2. /\ a \in Seq(Byte) /\ Len(a) = Len(s) + Len(c) /\ Len(c) \in Nat
      /\ \A i \in 1..Len(s) : a[i] = s[i]
      /\ \A i \in 1..Len(c) : a[Len(s) + i] = c[i]
  <2>1. Joins(s \o c, s, c)
    BY <1>1, JoinsIs
  <2> QED
    BY <2>1, Zenon DEF Joins
<1> HIDE DEF a
<1>3. /\ a \o t \in Seq(Byte) /\ Len(a \o t) = Len(a) + Len(t)
      /\ \A i \in 1..Len(a) : (a \o t)[i] = a[i]
      /\ \A i \in 1..Len(t) : (a \o t)[Len(a) + i] = t[i]
  <2>1. Joins(a \o t, a, t)
    BY <1>2, JoinsIs
  <2> QED
    BY <2>1, Zenon DEF Joins
<1>4. Len(a) = 1 + Len(c) /\ a[1] = STX /\ \A i \in 1..Len(c) : a[1 + i] = c[i]
  BY <1>1, <1>2
<1>5. (a \o t)[1] = STX
  BY <1>2, <1>3, <1>4
<1>6. \A i \in 1..Len(c) : (a \o t)[1 + i] = c[i]
  BY <1>2, <1>3, <1>4
<1>7. \A i \in 1..2 : (a \o t)[1 + Len(c) + i] = t[i]
  BY <1>3, <1>4
<1>8. a \o t \in Seq(Byte) /\ Len(a \o t) = 1 + Len(c) + 2
  BY <1>3, <1>4
<1>9. Framed(a \o t, c, t)
  BY <1>5, <1>6, <1>7, <1>8 DEF Framed
<1> QED
  BY <1>9 DEF a, s

LEMMA EncodeIs ==
  ASSUME NEW msgid \in Int, NEW m, NEW seq \in Int, NEW sysid \in Byte, NEW compid \in Byte,
         Pack(msgid, m) \in Seq(Byte), Len(Pack(msgid, m)) \in 1..255,
         Def(msgid).crcExtra \in Byte,
         NEW p, p = Trim(Pack(msgid, m)),
         NEW c, c = Covered(p, msgid, seq, sysid, compid),
         NEW t, t = LittleEndian(Checksum(c, Def(msgid).crcExtra), 2)
  PROVE  /\ p \in Seq(Byte) /\ Len(p) \in 1..Len(Pack(msgid, m))
         /\ c \in Seq(Byte) /\ t \in Seq(Byte) /\ Len(t) = 2
         /\ CoveredIs(c, p, msgid, seq)
         /\ Framed(EncodeFrame(msgid, m, seq, sysid, compid), c, t)
<1> DEFINE x == Pack(msgid, m)
<1>1. p \in Seq(Byte) /\ Len(p) \in 1..Len(x) /\ Len(p) <= 255
  <2>0. x \in Seq(Byte) /\ Len(x) \in 1..255 /\ p = Trim(x)
    BY Zenon
  <2> HIDE DEF x
  <2>1. x \in Seq(Byte) /\ Len(x) \in Nat /\ Len(x) >= 1 /\ Len(x) <= 255 /\ p = Trim(x)
    <3>1. \A n \in 1..255 : n \in Nat /\ n >= 1 /\ n <= 255
      OBVIOUS
    <3> QED
      BY <2>0, <3>1, Zenon
  <2>2. Trim(x) \in Seq(Byte) /\ Len(Trim(x)) \in 1..Len(x)
    BY <2>1, TrimPad
  <2>3. p \in Seq(Byte) /\ Len(p) \in 1..Len(x)
    BY <2>1, <2>2, Zenon
  <2> QED
    BY <2>1, <2>3
<1>2. CoveredIs(c, p, msgid, seq) /\ c \in Seq(Byte)
  <2>1. CoveredIs(c, p, msgid, seq)
    BY <1>1, CoveredType
  <2> QED
    BY <2>1, Zenon DEF CoveredIs
<1>3. t \in Seq(Byte) /\ Len(t) = 2
  <2>1. Checksum(c, Def(msgid).crcExtra) \in Int
    BY <1>2, ChecksumType, WordRange
  <2> QED
    BY <2>1, LittleEndianType
<1>4. EncodeFrame(msgid, m, seq, sysid, compid) = <<STX>> \o c \o t
  BY Zenon DEF EncodeFrame, Covered
<1>5. Framed(<<STX>> \o c \o t, c, t)
  BY <1>2, <1>3, FramedIs
<1> QED
  BY <1>1, <1>2, <1>3, <1>4, <1>5, Zenon

\* A field takes from one to four bytes.
LEMMA OffsetBound ==
  ASSUME NEW l \in Seq(Type)
  PROVE  Len(l) <= Offset(l, Len(l) + 1) /\ Offset(l, Len(l) + 1) <= 4 * Len(l)
<1> DEFINE o(i) == Offset(l, i)
           w(i) == Width(l[i])
           N == Len(l)
<1>1. o(1) = 0 /\ \A i \in 1..N : o(i + 1) = o(i) + w(i)
  BY OffsetDef, Zenon
<1>2. \A i \in 1..(N + 1) : o(i) \in Nat
  BY OffsetDef, Zenon
<1>3. \A i \in 1..N : w(i) \in {1, 2, 4}
  BY WidthType, Zenon
<1>4. N \in Nat
  OBVIOUS
<1> HIDE DEF o, w, N
<1> DEFINE S == {n \in Nat : n <= N => n <= o(n + 1) /\ o(n + 1) <= 4 * n}
<1>5. 0 \in S
  BY <1>1
<1>6. ASSUME NEW n \in Nat, n \in S PROVE n + 1 \in S
  <2> SUFFICES ASSUME n + 1 <= N PROVE n + 1 <= o((n + 1) + 1) /\ o((n + 1) + 1) <= 4 * (n + 1)
    OBVIOUS
  <2>0. PICK k \in 1..N : k = n + 1
    BY <1>4
  <2>1. o(k + 1) = o(k) + w(k) /\ w(k) \in {1, 2, 4}
    BY <1>1, <1>3
  <2>2. o(k) \in Nat
    BY <1>2, <1>4
  <2>3. n <= o(k) /\ o(k) <= 4 * n
    BY <1>4, <1>6, <2>0
  <2>4. k <= o(k + 1) /\ o(k + 1) <= 4 * k
    BY <2>0, <2>1, <2>2, <2>3
  <2> QED
    BY <2>0, <2>4
<1>7. N \in S
  <2> HIDE DEF S
  <2>1. Nat \subseteq S
    BY <1>5, <1>6, Induct
  <2> QED
    BY <1>4, <2>1
<1>8. N <= o(N + 1) /\ o(N + 1) <= 4 * N
  BY <1>4, <1>7
<1> QED
  BY <1>8 DEF o, N

\* The bytes of a number, one by one.
Digit(n, p) == (n \div p) % 256
LEMMA LittleEndianIs ==
  ASSUME NEW n \in Int
  PROVE  /\ LittleEndian(n, 1)[1] = Digit(n, 1)
         /\ LittleEndian(n, 2)[1] = Digit(n, 1) /\ LittleEndian(n, 2)[2] = Digit(n, 256)
         /\ LittleEndian(n, 3)[1] = Digit(n, 1) /\ LittleEndian(n, 3)[2] = Digit(n, 256)
         /\ LittleEndian(n, 3)[3] = Digit(n, 65536)
         /\ LittleEndian(n, 4)[1] = Digit(n, 1) /\ LittleEndian(n, 4)[2] = Digit(n, 256)
         /\ LittleEndian(n, 4)[3] = Digit(n, 65536) /\ LittleEndian(n, 4)[4] = Digit(n, 16777216)
<1>1. 256 ^ 0 = 1 /\ 256 ^ 1 = 256 /\ 256 ^ 2 = 65536 /\ 256 ^ 3 = 16777216
  OBVIOUS
<1>2. 1 - 1 = 0 /\ 2 - 1 = 1 /\ 3 - 1 = 2 /\ 4 - 1 = 3
  OBVIOUS
<1> DEFINE D(i) == (n \div 256 ^ (i - 1)) % 256
<1>3. /\ D(1) = Digit(n, 1) /\ D(2) = Digit(n, 256)
      /\ D(3) = Digit(n, 65536) /\ D(4) = Digit(n, 16777216)
  BY <1>1 DEF Digit
<1> HIDE DEF D
<1>4. \A k \in {1, 2, 3, 4} : \A i \in 1..k : LittleEndian(n, k)[i] = D(i)
  BY DEF LittleEndian, D
<1>5. /\ 1 \in 1..1 /\ 1 \in 1..2 /\ 2 \in 1..2 /\ 1 \in 1..3 /\ 2 \in 1..3 /\ 3 \in 1..3
      /\ 1 \in 1..4 /\ 2 \in 1..4 /\ 3 \in 1..4 /\ 4 \in 1..4
  OBVIOUS
<1> QED
  BY <1>3, <1>4, <1>5

\* A number is read as it was written, cut to the width.
LEMMA DigitsAdd ==
  ASSUME NEW n \in Int
  PROVE  /\ Digit(n, 1) = n % 256
         /\ Digit(n, 1) + 256 * Digit(n, 256) = n % 65536
         /\ Digit(n, 1) + 256 * Digit(n, 256) + 65536 * Digit(n, 65536) = n % 16777216
         /\ Digit(n, 1) + 256 * Digit(n, 256) + 65536 * Digit(n, 65536)
              + 16777216 * Digit(n, 16777216) = n % 4294967296
<1>1. /\ n \div 65536 = (n \div 256) \div 256
      /\ n \div 16777216 = (n \div 65536) \div 256
      /\ n \div 4294967296 = (n \div 16777216) \div 256
  OBVIOUS
<1> QED
  BY <1>1 DEF Digit

-----------------------------------------------------------------------------
(* The floats: a whole number below 2^24 is read back from its four bytes. Half *)
(* and Limit are 2^23 and 2^24 by their names, which the provers read better.   *)

Half  == 8388608
Limit == 16777216

\* A fraction p <= n < 2 * p is shifted by q and back.
LEMMA Scaled ==
  ASSUME NEW p \in Nat, NEW q \in Nat, p > 0, q > 0, p * q = Half,
         NEW n \in Nat, p <= n, n < 2 * p
  PROVE  /\ (n - p) * q \in Nat /\ (n - p) * q < Half
         /\ ((n - p) * q) \div q = n - p
<1>1. (n - p) * q \in Nat
  BY SMT
<1>2. (n - p) * q <= (p - 1) * q
  BY SMT
<1>3. (p - 1) * q = p * q - q
  BY SMT
<1>4. ((n - p) * q) \div q = n - p
  BY SMT
<1> QED
  BY <1>1, <1>2, <1>3, <1>4, SMT

\* 2^x is the place of a number's first binary digit, 2^(23 - x) shifts what is behind it
\* to 23 digits.
Shifts(x, p, q) ==
  p \in Nat /\ q \in Nat /\ p > 0 /\ q > 0 /\ p * q = Half /\ 2 ^ (x + 1) = 2 * p
LEMMA ShiftsIs ==
  ASSUME NEW x \in 0..23
  PROVE  Shifts(x, 2 ^ x, 2 ^ (23 - x))
<1> DEFINE w(j) == 2 ^ j
<1>1. /\ w(0) = 1 /\ w(1) = 2 /\ w(2) = 4 /\ w(3) = 8 /\ w(4) = 16 /\ w(5) = 32 /\ w(6) = 64
      /\ w(7) = 128 /\ w(8) = 256 /\ w(9) = 512 /\ w(10) = 1024 /\ w(11) = 2048
      /\ w(12) = 4096 /\ w(13) = 8192 /\ w(14) = 16384 /\ w(15) = 32768 /\ w(16) = 65536
      /\ w(17) = 131072 /\ w(18) = 262144 /\ w(19) = 524288 /\ w(20) = 1048576
      /\ w(21) = 2097152 /\ w(22) = 4194304 /\ w(23) = 8388608 /\ w(24) = 16777216
  BY SMT
<1>2. \/ x = 0 \/ x = 1 \/ x = 2 \/ x = 3 \/ x = 4 \/ x = 5 \/ x = 6 \/ x = 7 \/ x = 8
      \/ x = 9 \/ x = 10 \/ x = 11 \/ x = 12 \/ x = 13 \/ x = 14 \/ x = 15 \/ x = 16
      \/ x = 17 \/ x = 18 \/ x = 19 \/ x = 20 \/ x = 21 \/ x = 22 \/ x = 23
  BY SMT
<1> HIDE DEF w
<1>3. /\ w(x) \in Nat /\ w(23 - x) \in Nat /\ w(x) > 0 /\ w(23 - x) > 0
      /\ w(x) * w(23 - x) = Half /\ w(x + 1) = 2 * w(x)
  BY <1>1, <1>2, SMT DEF Half
<1> QED
  BY <1>3, SMT DEF w, Shifts

\* The place of the first digit of a number below 2^24.
LEMMA ExponentIs ==
  ASSUME NEW n \in Nat, 0 < n, n < Limit
  PROVE  /\ Exponent(n) \in 0..23
         /\ 2 ^ Exponent(n) <= n /\ n < 2 ^ (Exponent(n) + 1)
<1> DEFINE w(j) == 2 ^ j
           h(j) == w(j) <= n /\ n < w(j + 1)
<1>1. /\ w(0) = 1 /\ w(1) = 2 /\ w(2) = 4 /\ w(3) = 8 /\ w(4) = 16 /\ w(5) = 32 /\ w(6) = 64
      /\ w(7) = 128 /\ w(8) = 256 /\ w(9) = 512 /\ w(10) = 1024 /\ w(11) = 2048
      /\ w(12) = 4096 /\ w(13) = 8192 /\ w(14) = 16384 /\ w(15) = 32768 /\ w(16) = 65536
      /\ w(17) = 131072 /\ w(18) = 262144 /\ w(19) = 524288 /\ w(20) = 1048576
      /\ w(21) = 2097152 /\ w(22) = 4194304 /\ w(23) = 8388608 /\ w(24) = 16777216
  BY SMT
<1> HIDE DEF w
<1>2. \/ (w(0) <= n /\ n < w(1)) \/ (w(1) <= n /\ n < w(2)) \/ (w(2) <= n /\ n < w(3))
      \/ (w(3) <= n /\ n < w(4)) \/ (w(4) <= n /\ n < w(5)) \/ (w(5) <= n /\ n < w(6))
      \/ (w(6) <= n /\ n < w(7)) \/ (w(7) <= n /\ n < w(8)) \/ (w(8) <= n /\ n < w(9))
      \/ (w(9) <= n /\ n < w(10)) \/ (w(10) <= n /\ n < w(11)) \/ (w(11) <= n /\ n < w(12))
      \/ (w(12) <= n /\ n < w(13)) \/ (w(13) <= n /\ n < w(14)) \/ (w(14) <= n /\ n < w(15))
      \/ (w(15) <= n /\ n < w(16)) \/ (w(16) <= n /\ n < w(17)) \/ (w(17) <= n /\ n < w(18))
      \/ (w(18) <= n /\ n < w(19)) \/ (w(19) <= n /\ n < w(20)) \/ (w(20) <= n /\ n < w(21))
      \/ (w(21) <= n /\ n < w(22)) \/ (w(22) <= n /\ n < w(23)) \/ (w(23) <= n /\ n < w(24))
  BY <1>1, SMT DEF Limit
<1>3. \/ h(0) \/ h(1) \/ h(2) \/ h(3) \/ h(4) \/ h(5) \/ h(6) \/ h(7) \/ h(8) \/ h(9)
      \/ h(10) \/ h(11) \/ h(12) \/ h(13) \/ h(14) \/ h(15) \/ h(16) \/ h(17) \/ h(18)
      \/ h(19) \/ h(20) \/ h(21) \/ h(22) \/ h(23)
  BY <1>2, SMT
<1>4. /\ 0 \in 0..23 /\ 1 \in 0..23 /\ 2 \in 0..23 /\ 3 \in 0..23 /\ 4 \in 0..23
      /\ 5 \in 0..23 /\ 6 \in 0..23 /\ 7 \in 0..23 /\ 8 \in 0..23 /\ 9 \in 0..23
      /\ 10 \in 0..23 /\ 11 \in 0..23 /\ 12 \in 0..23 /\ 13 \in 0..23 /\ 14 \in 0..23
      /\ 15 \in 0..23 /\ 16 \in 0..23 /\ 17 \in 0..23 /\ 18 \in 0..23 /\ 19 \in 0..23
      /\ 20 \in 0..23 /\ 21 \in 0..23 /\ 22 \in 0..23 /\ 23 \in 0..23
  BY SMT
<1> HIDE DEF h
<1>5. \E x \in 0..23 : h(x)
  BY <1>3, <1>4, SMT
<1>6. \E x \in 0..23 : 2 ^ x <= n /\ n < 2 ^ (x + 1)
  BY <1>5, Zenon DEF h, w
<1> QED
  BY <1>6, Zenon DEF Exponent

\* Three bytes of a fraction f, and above it the lowest digit r of the exponent.
LEMMA FloatDigits ==
  ASSUME NEW f \in Nat, f < Half, NEW r \in {0, 1}, NEW g \in Int, g = f + r * Half
  PROVE  /\ Digit(g, 65536) \div 128 = r
         /\ Digit(g, 1) + 256 * Digit(g, 256) + 65536 * (Digit(g, 65536) % 128) = f
<1> DEFINE a == Digit(g, 1)
           b == Digit(g, 256)
           c == Digit(g, 65536)
           d == c \div 128
           e == c % 128
<1>1. a + 256 * b + 65536 * c = g % 16777216
  BY DigitsAdd, SMT
<1>2. a \in 0..255 /\ b \in 0..255 /\ c \in 0..255
  BY SMT DEF Digit
<1>3. g \in Nat /\ g < 16777216
  BY SMT DEF Half
<1> HIDE DEF a, b, c
<1>4. g % 16777216 = g
  BY <1>3, SMT
<1>5. c = 128 * d + e /\ d \in 0..1 /\ e \in 0..127
  BY <1>2, SMT
<1> HIDE DEF d, e
<1>6. a + 256 * b + 65536 * e + 8388608 * d = f + r * 8388608
  BY <1>1, <1>2, <1>4, <1>5, SMT DEF Half
<1>7. a + 256 * b + 65536 * e < 8388608 /\ a + 256 * b + 65536 * e >= 0
  BY <1>2, <1>5, SMT
<1>8. d = r /\ a + 256 * b + 65536 * e = f
  BY <1>2, <1>5, <1>6, <1>7, SMT DEF Half
<1> QED
  BY <1>8 DEF a, b, c, d, e

\* What the four bytes of n > 0 are.
Low(n)  == (n - 2 ^ Exponent(n)) * 2 ^ (23 - Exponent(n)) + ((127 + Exponent(n)) % 2) * Half
High(n) == (127 + Exponent(n)) \div 2
Floated(bs, n) ==
  /\ bs \in Seq(Byte) /\ Len(bs) = 4
  /\ bs[1] = Digit(Low(n), 1) /\ bs[2] = Digit(Low(n), 256) /\ bs[3] = Digit(Low(n), 65536)
  /\ bs[4] = High(n)
LEMMA FloatIs ==
  ASSUME NEW n \in Nat, 0 < n, n < Limit
  PROVE  Floated(Float(n), n)
<1> DEFINE x == Exponent(n)
           g == Low(n)
           t == LittleEndian(g, 3)
           h == High(n)
<1>1. x \in 0..23
  BY ExponentIs
<1>2. Float(n) = t \o <<h>>
  <2>1. n # 0
    BY SMT
  <2>2. 2 ^ 23 = Half
    BY SMT DEF Half
  <2> QED
    BY <2>1, <2>2, Zenon DEF Float, Low, High
<1>3. h \in Byte
  <2>1. h = (127 + x) \div 2
    BY Zenon DEF High
  <2> HIDE DEF x, h
  <2> QED
    BY <1>1, <2>1, SMT DEF Byte
<1>4. g \in Int
  <2>1. Shifts(x, 2 ^ x, 2 ^ (23 - x))
    BY <1>1, ShiftsIs
  <2> DEFINE p == 2 ^ x
             q == 2 ^ (23 - x)
  <2>2. p \in Nat /\ q \in Nat
    BY <2>1, Zenon DEF Shifts
  <2> HIDE DEF x, p, q
  <2>3. (n - p) * q + ((127 + x) % 2) * Half \in Int
    BY <1>1, <2>2, SMT DEF Half
  <2> QED
    BY <2>3, Zenon DEF p, q, x, Low
<1> HIDE DEF x, g
<1>5. t \in Seq(Byte) /\ Len(t) = 3
  BY <1>4, LittleEndianType
<1>6. t[1] = Digit(g, 1) /\ t[2] = Digit(g, 256) /\ t[3] = Digit(g, 65536)
  BY <1>4, LittleEndianIs
<1> HIDE DEF t, h
<1>7. /\ t \o <<h>> \in Seq(Byte) /\ Len(t \o <<h>>) = 4
      /\ (t \o <<h>>)[1] = t[1] /\ (t \o <<h>>)[2] = t[2] /\ (t \o <<h>>)[3] = t[3]
      /\ (t \o <<h>>)[4] = h
  <2> DEFINE s == <<h>>
  <2>1. s \in Seq(Byte) /\ Len(s) = 1 /\ s[1] = h
    BY <1>3
  <2> HIDE DEF s
  <2>2. Joins(t \o s, t, s)
    BY <1>5, <2>1, JoinsIs
  <2>3. t \o s \in Seq(Byte) /\ Len(t \o s) = 3 + 1
        /\ (\A i \in 1..3 : (t \o s)[i] = t[i]) /\ \A i \in 1..1 : (t \o s)[3 + i] = s[i]
    BY <1>5, <2>1, <2>2, Zenon DEF Joins
  <2>4. 1 \in 1..3 /\ 2 \in 1..3 /\ 3 \in 1..3 /\ 1 \in 1..1 /\ 3 + 1 = 4
    OBVIOUS
  <2>5. /\ t \o s \in Seq(Byte) /\ Len(t \o s) = 4
        /\ (t \o s)[1] = t[1] /\ (t \o s)[2] = t[2] /\ (t \o s)[3] = t[3]
        /\ (t \o s)[4] = s[1]
    <3> DEFINE j == t \o s
    <3> HIDE DEF j
    <3>1. j \in Seq(Byte) /\ Len(j) = 3 + 1
          /\ (\A i \in 1..3 : j[i] = t[i]) /\ \A i \in 1..1 : j[3 + i] = s[i]
      BY <2>3 DEF j
    <3>2. j[1] = t[1] /\ j[2] = t[2] /\ j[3] = t[3] /\ j[4] = s[1] /\ Len(j) = 4
      BY <3>1
    <3> QED
      BY <3>1, <3>2 DEF j
  <2> QED
    BY <2>1, <2>5 DEF s
<1> DEFINE bs == t \o <<h>>
<1>8. /\ bs \in Seq(Byte) /\ Len(bs) = 4
      /\ bs[1] = Digit(g, 1) /\ bs[2] = Digit(g, 256) /\ bs[3] = Digit(g, 65536) /\ bs[4] = h
  <2> HIDE DEF bs
  <2>1. /\ bs \in Seq(Byte) /\ Len(bs) = 4
        /\ bs[1] = t[1] /\ bs[2] = t[2] /\ bs[3] = t[3] /\ bs[4] = h
    BY <1>7 DEF bs
  <2> QED
    BY <1>6, <2>1, SMT
<1> HIDE DEF bs
<1>9. Floated(bs, n)
  BY <1>8, SMT DEF Floated, g, h
<1> QED
  BY <1>2, <1>9, Zenon DEF bs

LEMMA FloatType ==
  ASSUME NEW n \in Nat, n < Limit
  PROVE  Float(n) \in Seq(Byte) /\ Len(Float(n)) = 4
<1>1. CASE n = 0
  <2>1. Float(n) = <<0, 0, 0, 0>>
    BY <1>1, Zenon DEF Float
  <2> QED
    BY <2>1 DEF Byte
<1>2. CASE n # 0
  BY <1>2, FloatIs DEF Floated
<1> QED
  BY <1>1, <1>2

\* A whole number below 2^24 is read back from its float.
LEMMA FloatBack ==
  ASSUME NEW n \in Nat, n < Limit
  PROVE  Whole(Float(n)) = n
<1>1. CASE n = 0
  <2>1. Float(n) = <<0, 0, 0, 0>>
    BY <1>1, Zenon DEF Float
  <2>2. (0 % 128) * 2 + 0 \div 128 - 127 \notin 0..23
    BY SMT
  <2>3. Whole(<<0, 0, 0, 0>>) = 0
    BY <2>2, SMT DEF Whole
  <2> QED
    BY <1>1, <2>1, <2>3
<1>2. CASE n # 0
  <2> DEFINE x == Exponent(n)
             p == 2 ^ x
             q == 2 ^ (23 - x)
             f == (n - p) * q
             r == (127 + x) % 2
             g == f + r * Half
             h == High(n)
             bs == Float(n)
             a == bs[1] + 256 * bs[2] + 65536 * (bs[3] % 128)
             y == (bs[4] % 128) * 2 + bs[3] \div 128 - 127
  <2>0. 0 < n
    BY <1>2, SMT
  <2>1. x \in 0..23 /\ p <= n /\ n < 2 ^ (x + 1)
    BY <2>0, ExponentIs
  <2>2. Shifts(x, p, q)
    BY <2>1, ShiftsIs
  <2>3. /\ bs[1] = Digit(g, 1) /\ bs[2] = Digit(g, 256) /\ bs[3] = Digit(g, 65536)
        /\ bs[4] = h
    <3>1. Floated(bs, n)
      BY <2>0, FloatIs
    <3>2. g = Low(n)
      BY Zenon DEF Low
    <3> HIDE DEF g, h, bs
    <3> QED
      BY <3>1, <3>2, SMT DEF Floated, h
  <2>4. Whole(bs) = IF y \in 0..23 THEN 2 ^ y + a \div 2 ^ (23 - y) ELSE 0
    <3> HIDE DEF bs
    <3> QED
      BY SMT DEF Whole
  <2>h. h = (127 + x) \div 2
    BY Zenon DEF High
  <2>5. p \in Nat /\ q \in Nat /\ p > 0 /\ q > 0 /\ p * q = Half /\ n < 2 * p
    BY <2>1, <2>2, Zenon DEF Shifts
  <2> HIDE DEF x, p, q, h, bs
  <2>6. f \in Nat /\ f < Half /\ f \div q = n - p
    BY <2>1, <2>5, Scaled
  <2>7. r \in {0, 1}
    BY <2>1, SMT
  <2> HIDE DEF f, r
  <2>8. g \in Int
    BY <2>6, <2>7, SMT DEF Half
  <2>9. /\ Digit(g, 65536) \div 128 = r
        /\ Digit(g, 1) + 256 * Digit(g, 256) + 65536 * (Digit(g, 65536) % 128) = f
    BY <2>6, <2>7, <2>8, FloatDigits
  <2> HIDE DEF g
  <2>10. a = f
    BY <2>3, <2>9, SMT
  <2>11. y = (h % 128) * 2 + r - 127
    BY <2>3, <2>9, SMT
  <2> HIDE DEF a, y
  <2>12. y = x
    BY <2>1, <2>h, <2>11, SMT DEF r
  <2>13. Whole(bs) = p + f \div q
    BY <2>1, <2>4, <2>10, <2>12, Zenon DEF p, q
  <2>14. Whole(bs) = n
    BY <2>5, <2>6, <2>13, SMT
  <2> QED
    BY <2>14 DEF bs
<1> QED
  BY <1>1, <1>2

-----------------------------------------------------------------------------
(* Frames: what is packed, framed, and taken off by the parser. *)

\* What is written of a number: a float holds the whole numbers below 2^24.
Writable(type, n) == n \in Int /\ (type = "float" => 0 <= n /\ n < Limit)
LEMMA PutType ==
  ASSUME NEW type \in Type, NEW n, Writable(type, n)
  PROVE  Put(type, n) \in Seq(Byte) /\ Len(Put(type, n)) = Width(type)
<1>1. CASE type = "float"
  <2>1. n \in Nat /\ n < Limit
    BY <1>1, SMT DEF Writable, Limit
  <2>2. Float(n) \in Seq(Byte) /\ Len(Float(n)) = 4
    BY <2>1, FloatType
  <2>3. Put("float", n) = Float(n) /\ Width("float") = 4
    BY Zenon DEF Put, Width
  <2> QED
    BY <1>1, <2>2, <2>3, Zenon
<1>2. CASE type # "float"
  <2> DEFINE k == Width(type)
  <2>1. k \in {1, 2, 3, 4}
    BY WidthType
  <2>2. Put(type, n) = LittleEndian(n, k)
    BY <1>2, Zenon DEF Put
  <2>3. n \in Int
    BY DEF Writable
  <2> HIDE DEF k
  <2>4. LittleEndian(n, k) \in Seq(Byte) /\ Len(LittleEndian(n, k)) = k
    BY <2>1, <2>3, LittleEndianType
  <2> QED
    BY <2>2, <2>4 DEF k
<1> QED
  BY <1>1, <1>2

\* Numbers in fields that are no floats.
LEMMA NoFloats ==
  ASSUME NEW l \in Seq(Type \ {"float"}), NEW m, NEW f, \A i \in 1..Len(l) : m[f[i]] \in Int
  PROVE  l \in Seq(Type) /\ \A i \in 1..Len(l) : Writable(l[i], m[f[i]])
<1>1. ASSUME NEW i \in 1..Len(l) PROVE Writable(l[i], m[f[i]])
  <2>1. l[i] # "float"
    OBVIOUS
  <2>2. m[f[i]] \in Int
    OBVIOUS
  <2> QED
    BY <2>1, <2>2, Zenon DEF Writable
<1>2. l \in Seq(Type)
  OBVIOUS
<1> QED
  BY <1>1, <1>2

\* A message packs into its fields' bytes.
LEMMA PackType ==
  ASSUME NEW msgid, NEW m, NEW l \in Seq(Type), l = Def(msgid).types,
         \A i \in 1..Len(l) : Writable(l[i], m[Def(msgid).fields[i]])
  PROVE  Packed(l, [i \in 1..Len(l) |-> Put(l[i], m[Def(msgid).fields[i]])], Pack(msgid, m),
                Len(l))
<1> DEFINE v == [i \in 1..Len(l) |-> Put(l[i], m[Def(msgid).fields[i]])]
<1>1. l \in Seq(Type)
  OBVIOUS
<1>2. ASSUME NEW i \in 1..Len(l) PROVE v[i] \in Seq(Byte) /\ Len(v[i]) = Width(l[i])
  <2>1. l[i] \in Type /\ Writable(l[i], m[Def(msgid).fields[i]])
    OBVIOUS
  <2>2. v[i] = Put(l[i], m[Def(msgid).fields[i]])
    OBVIOUS
  <2> HIDE DEF v
  <2>3. Put(l[i], m[Def(msgid).fields[i]]) \in Seq(Byte)
        /\ Len(Put(l[i], m[Def(msgid).fields[i]])) = Width(l[i])
    BY <2>1, PutType
  <2> QED
    BY <2>2, <2>3
<1>3. v = [i \in 1..Len(l) |-> Put(l[i], m[Def(msgid).fields[i]])]
  OBVIOUS
<1> HIDE DEF v
<1>4. Packed(l, v, Pack(msgid, m), Len(l))
  BY <1>1, <1>2, <1>3, PackDef
<1> QED
  BY <1>4 DEF v

\* A frame on its own: its start byte, its length, no signature, its number.
Alone(e, seq) ==
  /\ e \in Seq(Byte) /\ Len(e) >= 12 /\ e[1] = STX /\ e[2] = Len(e) - 12 /\ e[3] = 0
  /\ e[5] = seq % 256

LEMMA EncodeAlone ==
  ASSUME NEW msgid \in Int, NEW m, NEW seq \in Int, NEW sysid \in Byte, NEW compid \in Byte,
         NEW l \in Seq(Type), l = Def(msgid).types, Len(l) \in 1..60,
         Def(msgid).crcExtra \in Byte,
         \A i \in 1..Len(l) : Writable(l[i], m[Def(msgid).fields[i]])
  PROVE  Alone(EncodeFrame(msgid, m, seq, sysid, compid), seq)
<1> DEFINE x == Pack(msgid, m)
           v == [i \in 1..Len(l) |-> Put(l[i], m[Def(msgid).fields[i]])]
           p == Trim(x)
           c == Covered(p, msgid, seq, sysid, compid)
           t == LittleEndian(Checksum(c, Def(msgid).crcExtra), 2)
           e == EncodeFrame(msgid, m, seq, sysid, compid)
<1>1. x \in Seq(Byte) /\ Len(x) \in 1..255
  <2>1. Packed(l, v, x, Len(l))
    BY PackType, Zenon
  <2>2. x \in Seq(Byte) /\ Len(x) = Offset(l, Len(l) + 1)
    BY <2>1, Zenon DEF Packed
  <2>3. l \in Seq(Type)
    OBVIOUS
  <2>4. Len(l) <= Offset(l, Len(l) + 1) /\ Offset(l, Len(l) + 1) <= 4 * Len(l)
    BY <2>3, OffsetBound, Zenon
  <2> HIDE DEF x, v
  <2>5. Len(x) \in Nat
    BY <2>2
  <2> DEFINE n == Len(l)
             k == Len(x)
  <2>6. n \in 1..60 /\ k \in Nat /\ n <= k /\ k <= 4 * n
    BY <2>2, <2>4, <2>5, Zenon
  <2> HIDE DEF n, k
  <2>7. k \in 1..255
    BY <2>6
  <2> QED
    BY <2>2, <2>7 DEF k
<1>2. /\ p \in Seq(Byte) /\ Len(p) \in 1..Len(x)
      /\ c \in Seq(Byte) /\ t \in Seq(Byte) /\ Len(t) = 2 /\ Framed(e, c, t)
      /\ Len(c) = 9 + Len(p) /\ c[1] = Len(p) /\ c[2] = 0 /\ c[4] = seq % 256
  <2>1. /\ p \in Seq(Byte) /\ Len(p) \in 1..Len(x)
        /\ c \in Seq(Byte) /\ t \in Seq(Byte) /\ Len(t) = 2
        /\ CoveredIs(c, p, msgid, seq) /\ Framed(e, c, t)
    BY <1>1, EncodeIs, Zenon
  <2> QED
    BY <2>1, Zenon DEF CoveredIs
<1>3. Len(p) <= 255 /\ Len(p) \in Nat
  <2>1. \A a \in 1..255 : \A b \in 1..a : b <= 255 /\ b \in Nat
    OBVIOUS
  <2> QED
    BY <1>1, <1>2, <2>1, Zenon
<1> HIDE DEF x, v, p, c, t, e
<1>5. e \in Seq(Byte) /\ Len(e) = 1 + Len(c) + 2 /\ e[1] = STX
      /\ \A i \in 1..Len(c) : e[1 + i] = c[i]
  BY <1>2, Zenon DEF Framed
<1>6. Len(e) = 12 + Len(p)
  BY <1>3, <1>2, <1>5
<1>7. e[2] = c[1] /\ e[3] = c[2] /\ e[5] = c[4]
  <2>1. 1 \in 1..Len(c) /\ 2 \in 1..Len(c) /\ 4 \in 1..Len(c)
    BY <1>2, <1>3
  <2>2. e[1 + 1] = c[1] /\ e[1 + 2] = c[2] /\ e[1 + 4] = c[4]
    BY <1>5, <2>1, Zenon
  <2>3. 1 + 1 = 2 /\ 1 + 2 = 3 /\ 1 + 4 = 5
    OBVIOUS
  <2> QED
    BY <2>2, <2>3
<1>8. Len(e) >= 12 /\ Len(p) = Len(e) - 12
  BY <1>3, <1>6
<1>9. Alone(e, seq)
  BY <1>2, <1>5, <1>7, <1>8, Zenon DEF Alone
<1> QED
  BY <1>9 DEF e

\* The parser takes such a frame off whole.
LEMMA PushAlone ==
  ASSUME NEW e, NEW seq, Alone(e, seq)
  PROVE  /\ Push(e).frames = <<Decoded(e)>> /\ Decoded(e).seq = seq % 256
         /\ Push(e).rest = <<>> /\ Decoded(e) \in Parsed
<1> DEFINE s == Start(e)
           d == Decoded(e)
           z == [frames |-> <<d>>, rest |-> <<>>]
           y == Start(<<>>)
<1>1. e \in Seq(Byte) /\ Len(e) >= 12 /\ e[1] = STX /\ e[2] = Len(e) - 12 /\ e[3] = 0
      /\ d.seq = seq % 256
  BY DEF Alone, Decoded
<1>2. FrameSize(e) = Len(e)
  <2>1. ~IsSigned(e)
    BY <1>1 DEF IsSigned
  <2>2. FrameSize(e) = HeaderLen + e[2] + CrcLen + 0
    BY <2>1 DEF FrameSize
  <2> QED
    BY <1>1, <2>2 DEF HeaderLen, CrcLen
<1>3. Ready(e)
  BY <1>1, <1>2 DEF Ready, HeaderLen
<1>4. Synced(e) = e
  BY <1>1, SyncedStays
<1>5. d \in Parsed
  BY <1>1, <1>3, ParsedType
<1>6. s \in ParserStage /\ Push(e) = Settled(s) /\ s.frames = <<>> /\ s.rest = e
  BY <1>1, PushSettles DEF Start
<1> HIDE DEF s, d
<1>7. Pass(s) = z
  <2>0. Pass(s) = [frames |-> Append(s.frames, Decoded(Synced(s.rest))),
                   rest |-> SubSeq(Synced(s.rest), FrameSize(Synced(s.rest)) + 1,
                                   Len(Synced(s.rest)))]
    BY <1>3, <1>4, <1>6, Zenon DEF Pass
  <2>1. SubSeq(e, FrameSize(e) + 1, Len(e)) = <<>>
    BY <1>1, <1>2
  <2>2. Pass(s) = [frames |-> Append(<<>>, d), rest |-> SubSeq(e, FrameSize(e) + 1, Len(e))]
    BY <1>4, <1>6, <2>0, Zenon DEF d
  <2>3. Append(<<>>, d) = <<d>>
    OBVIOUS
  <2> QED
    BY <2>1, <2>2, <2>3, Zenon
<1>8. Push(e) = Settled(z)
  BY <1>6, <1>7, SettledPass
<1>9. y \in ParserStage /\ Push(<<>>) = Settled(y) /\ Push(<<>>).frames = <<>>
  <2>1. <<>> \in Seq(Byte)
    OBVIOUS
  <2> QED
    BY <2>1, PushSettles, PushNothing
<1>10. <<d>> \in Seq(Parsed)
  BY <1>5
<1>11. Settled(Behind(<<d>>, y)) = Behind(<<d>>, Settled(y))
  BY <1>9, <1>10, SettledBehind
<1>12. Behind(<<d>>, y) = z
  BY DEF Behind, Start
<1>14. Push(e) = Behind(<<d>>, Push(<<>>))
  <2> HIDE DEF y, z
  <2> QED
    BY <1>8, <1>9, <1>11, <1>12, Zenon
<1>13. Push(e).frames = <<d>> \o <<>>
  <2> DEFINE f == <<d>>
             q == Push(<<>>)
  <2>1. Push(e) = Behind(f, q) /\ q.frames = <<>>
    BY <1>9, <1>14, Zenon
  <2> HIDE DEF f, q
  <2>2. Behind(f, q).frames = f \o q.frames
    BY DEF Behind
  <2>3. Push(e).frames = f \o <<>>
    BY <2>1, <2>2, Zenon
  <2> QED
    BY <2>3 DEF f
<1>15. Push(e).rest = <<>>
  <2> DEFINE f == <<d>>
             q == Push(<<>>)
  <2>1. q.rest = <<>>
    <3>1. <<>> \in Seq(Byte)
      OBVIOUS
    <3> QED
      BY <3>1, PushNothing
  <2>2. Push(e) = Behind(f, q)
    BY <1>14, Zenon
  <2> HIDE DEF f, q
  <2>3. Behind(f, q).rest = q.rest
    BY DEF Behind
  <2> QED
    BY <2>1, <2>2, <2>3, Zenon
<1> QED
  BY <1>1, <1>5, <1>13, <1>15 DEF d

\* The three answers are frames on their own, numbered one after the other.
LEMMA AckAlone ==
  ASSUME NEW x \in Int, NEW y \in Int, NEW seq \in Int
  PROVE  Alone(EncodeFrame(COMMAND_ACK, [command |-> x, result |-> y], seq, DRONE_SYS, DRONE_COMP),
               seq)
<1> DEFINE l == Def(COMMAND_ACK).types
           f == Def(COMMAND_ACK).fields
           m == [command |-> x, result |-> y]
<1>1. l = <<"u16", "u8">> /\ f = <<"command", "result">> /\ Def(COMMAND_ACK).crcExtra = 143
  BY AckDef DEF CommandAckDef
<1>2. l \in Seq(Type \ {"float"}) /\ Len(l) = 2
  BY <1>1 DEF Type
<1>3. \A i \in 1..Len(l) : m[f[i]] \in Int
  BY <1>1, <1>2
<1>4. /\ COMMAND_ACK \in Int /\ DRONE_SYS \in Byte /\ DRONE_COMP \in Byte
      /\ Def(COMMAND_ACK).crcExtra \in Byte /\ Len(l) \in 1..60
  BY <1>1, <1>2 DEF COMMAND_ACK, DRONE_SYS, DRONE_COMP, Byte
<1> HIDE DEF m
<1>5. l \in Seq(Type) /\ \A i \in 1..Len(l) : Writable(l[i], m[f[i]])
  <2> HIDE DEF l, f
  <2> QED
    BY <1>2, <1>3, NoFloats
<1>6. Alone(EncodeFrame(COMMAND_ACK, m, seq, DRONE_SYS, DRONE_COMP), seq)
  BY <1>4, <1>5, EncodeAlone, Zenon
<1> QED
  BY <1>6, Zenon DEF m

Beating(n, m) ==
  [type |-> QUADROTOR, autopilot |-> GENERIC, customMode |-> 0, mavlinkVersion |-> 3,
   baseMode |-> n, systemStatus |-> m]
LEMMA BeatAlone ==
  ASSUME NEW x \in Int, NEW y \in Int, NEW seq \in Int
  PROVE  Alone(EncodeFrame(HEARTBEAT, Beating(x, y), seq, DRONE_SYS, DRONE_COMP), seq)
<1> DEFINE l == Def(HEARTBEAT).types
           f == Def(HEARTBEAT).fields
           m == Beating(x, y)
<1>1. l = <<"u32", "u8", "u8", "u8", "u8", "u8">> /\ Def(HEARTBEAT).crcExtra = 50
      /\ f = <<"customMode", "type", "autopilot", "baseMode", "systemStatus", "mavlinkVersion">>
  BY BeatDef DEF HeartbeatDef
<1>2. l \in Seq(Type \ {"float"}) /\ Len(l) = 6
  BY <1>1 DEF Type
<1>3. \A i \in 1..Len(l) : m[f[i]] \in Int
  <2>1. /\ m["customMode"] \in Int /\ m["type"] \in Int /\ m["autopilot"] \in Int
        /\ m["baseMode"] \in Int /\ m["systemStatus"] \in Int /\ m["mavlinkVersion"] \in Int
    BY DEF Beating, QUADROTOR, GENERIC
  <2> HIDE DEF m
  <2>2. \A i \in 1..6 : i = 1 \/ i = 2 \/ i = 3 \/ i = 4 \/ i = 5 \/ i = 6
    OBVIOUS
  <2>3. /\ f[1] = "customMode" /\ f[2] = "type" /\ f[3] = "autopilot"
        /\ f[4] = "baseMode" /\ f[5] = "systemStatus" /\ f[6] = "mavlinkVersion"
    BY <1>1
  <2> HIDE DEF f, l
  <2> QED
    BY <1>2, <2>1, <2>2, <2>3, Zenon
<1>4. /\ HEARTBEAT \in Int /\ DRONE_SYS \in Byte /\ DRONE_COMP \in Byte
      /\ Def(HEARTBEAT).crcExtra \in Byte /\ Len(l) \in 1..60
  BY <1>1, <1>2 DEF HEARTBEAT, DRONE_SYS, DRONE_COMP, Byte
<1> HIDE DEF m
<1>5. l \in Seq(Type) /\ \A i \in 1..Len(l) : Writable(l[i], m[f[i]])
  <2> HIDE DEF l, f
  <2> QED
    BY <1>2, <1>3, NoFloats
<1>6. Alone(EncodeFrame(HEARTBEAT, m, seq, DRONE_SYS, DRONE_COMP), seq)
  BY <1>4, <1>5, EncodeAlone, Zenon
<1> QED
  BY <1>6, Zenon DEF m

Telling(t, x, y, z) ==
  [timeBootMs |-> t, lat |-> x, lon |-> y, alt |-> z, relativeAlt |-> z,
   vx |-> 0, vy |-> 0, vz |-> 0, hdg |-> 0]
LEMMA PlaceAlone ==
  ASSUME NEW t \in Int, NEW x \in Int, NEW y \in Int, NEW z \in Int, NEW seq \in Int
  PROVE  Alone(EncodeFrame(GLOBAL_POSITION_INT, Telling(t, x, y, z), seq, DRONE_SYS, DRONE_COMP),
               seq)
<1> DEFINE l == Def(GLOBAL_POSITION_INT).types
           f == Def(GLOBAL_POSITION_INT).fields
           m == Telling(t, x, y, z)
<1>1. /\ l = <<"u32", "i32", "i32", "i32", "i32", "i16", "i16", "i16", "u16">>
      /\ Def(GLOBAL_POSITION_INT).crcExtra = 104
      /\ f = <<"timeBootMs", "lat", "lon", "alt", "relativeAlt", "vx", "vy", "vz", "hdg">>
  BY PositionDef DEF GlobalPositionIntDef
<1>2. l \in Seq(Type \ {"float"}) /\ Len(l) = 9
  BY <1>1 DEF Type
<1>3. \A i \in 1..Len(l) : m[f[i]] \in Int
  <2>1. /\ m["timeBootMs"] \in Int /\ m["lat"] \in Int /\ m["lon"] \in Int /\ m["alt"] \in Int
        /\ m["relativeAlt"] \in Int /\ m["vx"] \in Int /\ m["vy"] \in Int /\ m["vz"] \in Int
        /\ m["hdg"] \in Int
    BY DEF Telling
  <2> HIDE DEF m
  <2>2. \A i \in 1..9 : \/ i = 1 \/ i = 2 \/ i = 3 \/ i = 4 \/ i = 5 \/ i = 6 \/ i = 7
                        \/ i = 8 \/ i = 9
    OBVIOUS
  <2>3. /\ f[1] = "timeBootMs" /\ f[2] = "lat" /\ f[3] = "lon" /\ f[4] = "alt"
        /\ f[5] = "relativeAlt" /\ f[6] = "vx" /\ f[7] = "vy" /\ f[8] = "vz" /\ f[9] = "hdg"
    BY <1>1
  <2> HIDE DEF f, l
  <2> QED
    BY <1>2, <2>1, <2>2, <2>3, Zenon
<1>4. /\ GLOBAL_POSITION_INT \in Int /\ DRONE_SYS \in Byte /\ DRONE_COMP \in Byte
      /\ Def(GLOBAL_POSITION_INT).crcExtra \in Byte /\ Len(l) \in 1..60
  BY <1>1, <1>2 DEF GLOBAL_POSITION_INT, DRONE_SYS, DRONE_COMP, Byte
<1> HIDE DEF m
<1>5. l \in Seq(Type) /\ \A i \in 1..Len(l) : Writable(l[i], m[f[i]])
  <2> HIDE DEF l, f
  <2> QED
    BY <1>2, <1>3, NoFloats
<1>6. Alone(EncodeFrame(GLOBAL_POSITION_INT, m, seq, DRONE_SYS, DRONE_COMP), seq)
  BY <1>4, <1>5, EncodeAlone, Zenon
<1> QED
  BY <1>6, Zenon DEF m

Answers(r, n) ==
  /\ r \in Seq(Seq(Byte)) /\ Len(r) = 3
  /\ Alone(r[1], n) /\ Alone(r[2], n + 1) /\ Alone(r[3], n + 2)
LEMMA RepliesAre ==
  ASSUME NEW d \in Drone, NEW c \in Commands
  PROVE  Answers(Replies(d, c), d.txSeq - 3)
<1> DEFINE a == EncodeFrame(COMMAND_ACK, [command |-> c.command, result |-> Result(c)],
                            d.txSeq - 3, DRONE_SYS, DRONE_COMP)
           n == CUSTOM_MODE_ENABLED + (IF d.armed THEN SAFETY_ARMED ELSE 0)
           m == IF d.armed THEN ACTIVE ELSE STANDBY
           b == EncodeFrame(HEARTBEAT, Beating(n, m), d.txSeq - 2, DRONE_SYS, DRONE_COMP)
           e == EncodeFrame(GLOBAL_POSITION_INT, Telling(d.bootMs, d.lat, d.lon, d.altMm),
                            d.txSeq - 1, DRONE_SYS, DRONE_COMP)
<1>1. Replies(d, c) = <<a, b, e>>
  BY Zenon DEF Replies, Beating, Telling
<1>2. /\ d.txSeq - 3 \in Int /\ d.txSeq - 2 \in Int /\ d.txSeq - 1 \in Int
      /\ d.bootMs \in Int /\ d.lat \in Int /\ d.lon \in Int /\ d.altMm \in Int
      /\ d.txSeq - 2 = (d.txSeq - 3) + 1 /\ d.txSeq - 1 = (d.txSeq - 3) + 2
  BY DEF Drone
<1>3. c.command \in Int /\ Result(c) \in Int
  BY CommandParts DEF Result, ACCEPTED, UNSUPPORTED
<1>4. n \in Int /\ m \in Int
  BY DEF CUSTOM_MODE_ENABLED, SAFETY_ARMED, ACTIVE, STANDBY
<1> HIDE DEF n, m
<1>5. Alone(a, d.txSeq - 3)
  BY <1>2, <1>3, AckAlone, Zenon
<1>6. Alone(b, d.txSeq - 2)
  BY <1>2, <1>4, BeatAlone, Zenon
<1>7. Alone(e, d.txSeq - 1)
  BY <1>2, PlaceAlone, Zenon
<1> HIDE DEF a, b, e
<1>8. a \in Seq(Byte) /\ b \in Seq(Byte) /\ e \in Seq(Byte)
  BY <1>5, <1>6, <1>7, Zenon DEF Alone
<1>9. <<a, b, e>> \in Seq(Seq(Byte)) /\ Len(<<a, b, e>>) = 3
  <2> DEFINE B == Seq(Byte)
  <2>1. a \in B /\ b \in B /\ e \in B
    BY <1>8
  <2> HIDE DEF B
  <2>2. <<a, b, e>> \in Seq(B) /\ Len(<<a, b, e>>) = 3
    BY <2>1
  <2> QED
    BY <2>2 DEF B
<1>10. <<a, b, e>>[1] = a /\ <<a, b, e>>[2] = b /\ <<a, b, e>>[3] = e
  OBVIOUS
<1> DEFINE r == <<a, b, e>>
           q == d.txSeq - 3
<1>11. Alone(r[1], q) /\ Alone(r[2], q + 1) /\ Alone(r[3], q + 2)
  <2>1. Alone(r[1], d.txSeq - 3) /\ Alone(r[2], d.txSeq - 2) /\ Alone(r[3], d.txSeq - 1)
    BY <1>5, <1>6, <1>7, <1>10, Zenon
  <2> QED
    BY <1>2, <2>1, Zenon
<1>12. Answers(r, q)
  BY <1>9, <1>11, Zenon DEF Answers
<1> QED
  BY <1>1, <1>12, Zenon

-----------------------------------------------------------------------------
(* What is heard: a number that fits into its field is read back from it, a  *)
(* frame is decoded to the message that was encoded, and so the answers say  *)
(* what the drone wrote into them.                                           *)

\* Four bytes are read from the last to the first.
Rising(w, a, b, c, d) ==
  /\ w[0] = 0 /\ w[1] = w[0] * 256 + d /\ w[2] = w[1] * 256 + c
  /\ w[3] = w[2] * 256 + b /\ w[4] = w[3] * 256 + a
Quad(a, b, c, d) == a + 256 * b + 65536 * c + 16777216 * d
LEMMA Horner ==
  ASSUME NEW w, NEW a \in Int, NEW b \in Int, NEW c \in Int, NEW d \in Int, Rising(w, a, b, c, d)
  PROVE  w[4] = Quad(a, b, c, d)
<1>1. /\ w[0] = 0 /\ w[1] = w[0] * 256 + d /\ w[2] = w[1] * 256 + c
      /\ w[3] = w[2] * 256 + b /\ w[4] = w[3] * 256 + a
  BY DEF Rising
<1>2. w[1] = d
  BY <1>1, SMT
<1>3. w[2] = 256 * d + c
  BY <1>1, <1>2, SMT
<1>4. w[3] = 65536 * d + 256 * c + b
  BY <1>1, <1>3, SMT
<1> QED
  BY <1>1, <1>4, SMT DEF Quad

\* The number that up to four bytes write.
LEMMA UnsignedIs ==
  ASSUME NEW bs \in Seq(Byte)
  PROVE  /\ Len(bs) = 1 => Unsigned(bs) = bs[1]
         /\ Len(bs) = 2 => Unsigned(bs) = bs[1] + 256 * bs[2]
         /\ Len(bs) = 3 => Unsigned(bs) = bs[1] + 256 * bs[2] + 65536 * bs[3]
         /\ Len(bs) = 4 => Unsigned(bs) = bs[1] + 256 * bs[2] + 65536 * bs[3] + 16777216 * bs[4]
<1>1. PICK v : Digits(v, bs)
  BY UnsignedDef, Zenon
<1> DEFINE N == Len(bs)
<1>2. /\ v[0] = 0 /\ Unsigned(bs) = v[N]
      /\ \A n \in 1..N : v[n] = v[n - 1] * 256 + bs[N - n + 1]
  BY <1>1, Zenon DEF Digits
<1>3. N \in Nat /\ \A i \in 1..N : bs[i] \in Byte
  BY Members
<1>4. \A x \in Byte : x \in Int
  BY DEF Byte
<1> HIDE DEF N
<1>5. CASE N = 1
  <2>1. v[1] = v[0] * 256 + bs[1] /\ bs[1] \in Int
    BY <1>2, <1>3, <1>4, <1>5
  <2> QED
    BY <1>2, <1>5, <2>1 DEF N
<1>6. CASE N = 2
  <2>1. /\ v[1] = v[0] * 256 + bs[2] /\ v[2] = v[1] * 256 + bs[1]
        /\ bs[1] \in Int /\ bs[2] \in Int
    BY <1>2, <1>3, <1>4, <1>6
  <2> QED
    BY <1>2, <1>6, <2>1 DEF N
<1>7. CASE N = 3
  <2>1. /\ v[1] = v[0] * 256 + bs[3] /\ v[2] = v[1] * 256 + bs[2] /\ v[3] = v[2] * 256 + bs[1]
        /\ bs[1] \in Int /\ bs[2] \in Int /\ bs[3] \in Int
    BY <1>2, <1>3, <1>4, <1>7
  <2> QED
    BY <1>2, <1>7, <2>1 DEF N
<1>8. CASE N = 4
  <2>1. /\ v[1] = v[0] * 256 + bs[4] /\ v[2] = v[1] * 256 + bs[3] /\ v[3] = v[2] * 256 + bs[2]
        /\ v[4] = v[3] * 256 + bs[1]
        /\ bs[1] \in Int /\ bs[2] \in Int /\ bs[3] \in Int /\ bs[4] \in Int
    BY <1>2, <1>3, <1>4, <1>8
  <2> DEFINE a == bs[1]
             b == bs[2]
             c == bs[3]
             d == bs[4]
             u == Unsigned(bs)
             k == Len(bs)
  <2>2. a \in Int /\ b \in Int /\ c \in Int /\ d \in Int
    BY <2>1
  <2>3. Rising(v, a, b, c, d)
    BY <1>2, <2>1, Zenon DEF Rising
  <2>4. u = v[4] /\ k = 4
    BY <1>2, <1>8, Zenon DEF N
  <2> HIDE DEF a, b, c, d, u, k
  <2>5. v[4] = Quad(a, b, c, d)
    BY <2>2, <2>3, Horner, SMT
  <2>6. /\ k = 1 => u = a
        /\ k = 2 => u = a + 256 * b
        /\ k = 3 => u = a + 256 * b + 65536 * c
        /\ k = 4 => u = a + 256 * b + 65536 * c + 16777216 * d
    BY <2>2, <2>4, <2>5, SMT DEF Quad
  <2> QED
    BY <2>6, SMT DEF a, b, c, d, u, k
<1> QED
  BY <1>5, <1>6, <1>7, <1>8 DEF N

\* A word is read from two bytes, and from three, as it was written.
LEMMA WordBack ==
  ASSUME NEW n \in Word
  PROVE  Unsigned(LittleEndian(n, 2)) = n /\ Unsigned(LittleEndian(n, 3)) = n
<1> DEFINE L(k) == LittleEndian(n, k)
           a == Digit(n, 1)
           b == Digit(n, 256)
           c == Digit(n, 65536)
<1>1. n \in Int /\ 0 <= n /\ n < 65536
  BY SMT, WordRange
<1>2. L(2) \in Seq(Byte) /\ Len(L(2)) = 2 /\ L(3) \in Seq(Byte) /\ Len(L(3)) = 3
  BY <1>1, LittleEndianType
<1>3. /\ L(2)[1] = a /\ L(2)[2] = b
      /\ L(3)[1] = a /\ L(3)[2] = b /\ L(3)[3] = c
  BY <1>1, LittleEndianIs
<1>4. a + 256 * b = n % 65536 /\ a + 256 * b + 65536 * c = n % 16777216
  BY <1>1, DigitsAdd
<1>5. n % 65536 = n /\ n % 16777216 = n
  BY SMT, <1>1
<1> HIDE DEF L, a, b, c
<1>6. Unsigned(L(2)) = L(2)[1] + 256 * L(2)[2]
  BY <1>2, UnsignedIs
<1>7. Unsigned(L(3)) = L(3)[1] + 256 * L(3)[2] + 65536 * L(3)[3]
  BY <1>2, UnsignedIs
<1>8. Unsigned(L(2)) = n /\ Unsigned(L(3)) = n
  BY SMT, <1>3, <1>4, <1>5, <1>6, <1>7
<1> QED
  BY <1>8 DEF L

\* What fits into a field of a type is read back from it.
Fits(type, n) ==
  CASE type = "u8"  -> 0 <= n /\ n < 256
    [] type = "u16" -> 0 <= n /\ n < 65536
    [] type = "u32" -> 0 <= n /\ n < 4294967296
    [] type = "i32" -> -2147483648 <= n /\ n < 2147483648
    [] type = "float" -> 0 <= n /\ n < Limit
LEMMA TakeBack ==
  ASSUME NEW type \in {"u8", "u16", "u32", "i32", "float"}, NEW n \in Int, Fits(type, n)
  PROVE  Take(type, Put(type, n)) = n
<1> DEFINE L(k) == LittleEndian(n, k)
           a == Digit(n, 1)
           b == Digit(n, 256)
           c == Digit(n, 65536)
           d == Digit(n, 16777216)
<1>1. \A k \in {1, 2, 3, 4} : L(k) \in Seq(Byte) /\ Len(L(k)) = k
  BY LittleEndianType
<1>2. /\ L(1)[1] = a /\ L(2)[1] = a /\ L(2)[2] = b
      /\ L(4)[1] = a /\ L(4)[2] = b /\ L(4)[3] = c /\ L(4)[4] = d
  BY LittleEndianIs
<1>3. /\ a = n % 256 /\ a + 256 * b = n % 65536
      /\ a + 256 * b + 65536 * c + 16777216 * d = n % 4294967296
  BY DigitsAdd
<1>4. a \in Int /\ b \in Int /\ c \in Int /\ d \in Int
  BY DEF Digit
<1> HIDE DEF L
<1>5. Unsigned(L(1)) = n % 256 /\ Unsigned(L(2)) = n % 65536 /\ Unsigned(L(4)) = n % 4294967296
  <2>1. Unsigned(L(1)) = L(1)[1]
    BY <1>1, UnsignedIs
  <2>2. Unsigned(L(2)) = L(2)[1] + 256 * L(2)[2]
    BY <1>1, UnsignedIs
  <2>3. Unsigned(L(4)) = L(4)[1] + 256 * L(4)[2] + 65536 * L(4)[3] + 16777216 * L(4)[4]
    BY <1>1, UnsignedIs
  <2> QED
    BY <1>2, <1>3, <2>1, <2>2, <2>3
<1>6. CASE type = "u8"
  <2>1. Take("u8", Put("u8", n)) = Unsigned(L(1))
    BY DEF Take, Put, Width, L
  <2>2. n % 256 = n
    BY <1>6 DEF Fits
  <2> QED
    BY <1>5, <1>6, <2>1, <2>2
<1>7. CASE type = "u16"
  <2>1. Take("u16", Put("u16", n)) = Unsigned(L(2))
    BY DEF Take, Put, Width, L
  <2>2. n % 65536 = n
    BY <1>7 DEF Fits
  <2> QED
    BY <1>5, <1>7, <2>1, <2>2
<1>8. CASE type = "u32"
  <2>1. Take("u32", Put("u32", n)) = Unsigned(L(4))
    BY DEF Take, Put, Width, L
  <2>2. n % 4294967296 = n
    BY <1>8 DEF Fits
  <2> QED
    BY <1>5, <1>8, <2>1, <2>2
<1>9. CASE type = "i32"
  <2>1. Take("i32", Put("i32", n)) = Signed(L(4))
    BY DEF Take, Put, Width, L
  <2>2. Signed(L(4)) = Unsigned(L(4)) - (IF d < 128 THEN 0 ELSE 4294967296)
    <3>1. 256 ^ 4 = 4294967296
      OBVIOUS
    <3>2. Len(L(4)) = 4
      BY <1>1
    <3>3. Signed(L(4)) = Unsigned(L(4)) - (IF L(4)[4] < 128 THEN 0 ELSE 256 ^ 4)
      BY <3>2, Zenon DEF Signed
    <3> QED
      BY <1>2, <3>1, <3>3
  <2>3. -2147483648 <= n /\ n < 2147483648
    BY <1>9 DEF Fits
  <2>4. CASE n >= 0
    <3>1. n % 4294967296 = n /\ d < 128
      BY <2>3, <2>4 DEF Digit
    <3> QED
      BY <1>5, <1>9, <2>1, <2>2, <3>1
  <2>5. CASE n < 0
    <3>1. n % 4294967296 = n + 4294967296 /\ ~(d < 128)
      BY <2>3, <2>5 DEF Digit
    <3>2. Signed(L(4)) = n
      BY <1>5, <2>2, <3>1
    <3> QED
      BY <1>9, <2>1, <3>2
  <2> QED
    BY <2>4, <2>5
<1>10. CASE type = "float"
  <2>1. Take("float", Put("float", n)) = Whole(Float(n))
    BY Zenon DEF Take, Put
  <2>2. 0 <= n /\ n < Limit
    BY <1>10, SMT DEF Fits
  <2>3. n \in Nat /\ n < Limit
    BY <2>2, SMT DEF Limit
  <2> QED
    BY <1>10, <2>1, <2>3, FloatBack, Zenon
<1> QED
  BY <1>6, <1>7, <1>8, <1>9, <1>10

\* A part of a frame, byte for byte.
LEMMA PieceIs ==
  ASSUME NEW e \in Seq(Byte), NEW q \in Seq(Byte), NEW i \in Nat, i + Len(q) <= Len(e),
         \A n \in 1..Len(q) : e[i + n] = q[n]
  PROVE  SubSeq(e, i + 1, i + Len(q)) = q
<1> DEFINE s == SubSeq(e, i + 1, i + Len(q))
<1>1. Len(q) \in Nat /\ i + Len(q) \in Nat /\ i <= i + Len(q) /\ (i + Len(q)) - i = Len(q)
  OBVIOUS
<1> DEFINE j == i + Len(q)
           L == Len(q)
<1>2. s \in Seq(Byte) /\ Len(s) = j - i /\ \A n \in 1..(j - i) : s[n] = e[i + n]
  <2>1. j \in Nat /\ i <= j /\ j <= Len(e)
    BY <1>1
  <2> HIDE DEF j
  <2>2. /\ SubSeq(e, i + 1, j) \in Seq(Byte) /\ Len(SubSeq(e, i + 1, j)) = j - i
        /\ \A n \in 1..(j - i) : SubSeq(e, i + 1, j)[n] = e[i + n]
    BY <2>1, Part
  <2> QED
    BY <2>2 DEF j
<1> HIDE DEF s
<1>3. Len(s) = Len(q) /\ \A n \in 1..Len(s) : s[n] = q[n]
  BY <1>1, <1>2
<1>4. s = q
  BY <1>2, <1>3, Same
<1> QED
  BY <1>4 DEF s

\* A frame that was encoded is decoded as it was, with its padding, and its checksum is right.
LEMMA DecodeEncoded ==
  ASSUME NEW msgid \in Known, NEW m, NEW seq \in Int, NEW sysid \in Byte, NEW compid \in Byte,
         Pack(msgid, m) \in Seq(Byte), Len(Pack(msgid, m)) \in 1..255,
         Len(Pack(msgid, m)) = Def(msgid).payloadLen, Def(msgid).crcExtra \in Byte,
         NEW e, e = EncodeFrame(msgid, m, seq, sysid, compid)
  PROVE  Decoded(e).msgid = msgid /\ Decoded(e).payload = Pack(msgid, m) /\ Decoded(e).crcOk
<1> DEFINE x == Pack(msgid, m)
           p == Trim(x)
           c == Covered(p, msgid, seq, sysid, compid)
           t == LittleEndian(Checksum(c, Def(msgid).crcExtra), 2)
           g == LittleEndian(msgid, 3)
<1>0. msgid \in Word /\ msgid \in Int
  <2>1. msgid \in Nat /\ msgid < 100
    BY DEF Known, HEARTBEAT, COMMAND_LONG, COMMAND_ACK, GLOBAL_POSITION_INT, ATTITUDE
  <2> QED
    BY SMT, <2>1, WordRange
<1>1. msgid \in Int
  BY <1>0
<1>2. /\ p \in Seq(Byte) /\ Len(p) \in 1..Len(x)
      /\ c \in Seq(Byte) /\ t \in Seq(Byte) /\ Len(t) = 2
      /\ CoveredIs(c, p, msgid, seq) /\ Framed(e, c, t)
  <2> DEFINE f == EncodeFrame(msgid, m, seq, sysid, compid)
  <2>1. /\ p \in Seq(Byte) /\ Len(p) \in 1..Len(x)
        /\ c \in Seq(Byte) /\ t \in Seq(Byte) /\ Len(t) = 2
        /\ CoveredIs(c, p, msgid, seq) /\ Framed(f, c, t)
    BY <1>1, EncodeIs, Zenon
  <2>2. e = f
    OBVIOUS
  <2> HIDE DEF x, p, c, t, f
  <2> QED
    BY <2>1, <2>2, Zenon
<1>3. g \in Seq(Byte) /\ Len(g) = 3 /\ Unsigned(g) = msgid
  <2>1. g \in Seq(Byte) /\ Len(g) = 3
    BY <1>1, LittleEndianType
  <2> QED
    BY <1>0, <2>1, WordBack, Zenon
<1>4. Checksum(c, Def(msgid).crcExtra) = Unsigned(t)
  <2>1. Checksum(c, Def(msgid).crcExtra) \in Word
    <3> HIDE DEF c
    <3> QED
      BY <1>2, ChecksumType, Zenon
  <2> QED
    BY <2>1, WordBack, Zenon
<1>5. PadTo(p, Len(x)) = x
  <2>0. \A n \in 1..255 : n >= 1
    OBVIOUS
  <2>1. x \in Seq(Byte) /\ Len(x) \in 1..255
    BY Zenon
  <2> HIDE DEF x
  <2>2. Len(x) >= 1
    BY <2>0, <2>1, Zenon
  <2> QED
    BY <2>1, <2>2, TrimPad
<1>5a. Len(x) = Def(msgid).payloadLen
  BY Zenon
<1> HIDE DEF x, p, c, t, g
<1>6. /\ Len(c) = 9 + Len(p) /\ c[1] = Len(p) /\ \A i \in 1..3 : c[6 + i] = g[i]
      /\ \A i \in 1..Len(p) : c[9 + i] = p[i]
  BY <1>2, Zenon DEF CoveredIs, g
<1>7. /\ e \in Seq(Byte) /\ Len(e) = 1 + Len(c) + 2
      /\ \A i \in 1..Len(c) : e[1 + i] = c[i]
      /\ \A i \in 1..2 : e[1 + Len(c) + i] = t[i]
  BY <1>2, Zenon DEF Framed
<1> DEFINE P == Len(p)
<1>8. P \in Nat /\ Len(c) = 9 + P /\ Len(e) = 12 + P /\ c[1] = P
  <2>1. P \in Nat
    BY <1>2
  <2> HIDE DEF P
  <2> QED
    BY <1>6, <1>7, <2>1 DEF P
<1>9. \A n \in 1..3 : e[7 + n] = g[n]
  <2>1. ASSUME NEW n \in 1..3 PROVE e[7 + n] = g[n]
    <3>1. 6 + n \in 1..Len(c) /\ 1 + (6 + n) = 7 + n
      <4> HIDE DEF P
      <4> QED
        BY <1>8
    <3> QED
      BY <1>6, <1>7, <3>1
  <2> QED
    BY <2>1
<1>10. SubSeq(e, 8, 10) = g
  <2>1. SubSeq(e, 7 + 1, 7 + Len(g)) = g
    <3>1. 7 + Len(g) <= Len(e) /\ \A n \in 1..Len(g) : e[7 + n] = g[n]
      <4> HIDE DEF P
      <4> QED
        BY <1>3, <1>8, <1>9
    <3> QED
      BY <1>3, <1>7, <3>1, PieceIs
  <2> QED
    BY <1>3, <2>1
<1>11. \A n \in 1..P : e[10 + n] = p[n]
  <2>1. ASSUME NEW n \in 1..P PROVE e[10 + n] = p[n]
    <3> HIDE DEF P
    <3>1. 9 + n \in 1..Len(c) /\ 1 + (9 + n) = 10 + n
      BY <1>8
    <3>2. e[1 + (9 + n)] = c[9 + n] /\ c[9 + n] = p[n]
      BY <1>6, <1>7, <3>1, Zenon DEF P
    <3> QED
      BY <3>1, <3>2
  <2> QED
    BY <2>1
<1>12. SubSeq(e, 11, 10 + P) = p
  <2>1. 10 + Len(p) <= Len(e) /\ \A n \in 1..Len(p) : e[10 + n] = p[n]
    <3> HIDE DEF P
    <3>1. 10 + P <= Len(e)
      BY <1>8
    <3> QED
      BY <1>11, <3>1 DEF P
  <2>2. SubSeq(e, 10 + 1, 10 + Len(p)) = p
    BY <1>2, <1>7, <2>1, PieceIs
  <2> QED
    BY <2>2
<1>13. SubSeq(e, 2, 10 + P) = c
  <2>1. 1 + Len(c) <= Len(e) /\ \A n \in 1..Len(c) : e[1 + n] = c[n]
    <3> HIDE DEF P
    <3> QED
      BY <1>7, <1>8
  <2>2. SubSeq(e, 1 + 1, 1 + Len(c)) = c
    BY <1>2, <1>7, <2>1, PieceIs
  <2>3. 1 + Len(c) = 10 + P /\ 1 + 1 = 2
    <3> HIDE DEF P
    <3> QED
      BY <1>8
  <2> QED
    BY <2>2, <2>3
<1>14. SubSeq(e, 10 + P + 1, 10 + P + 2) = t
  <2>1. 1 + Len(c) = 10 + P /\ 10 + P \in Nat /\ (10 + P) + 2 <= Len(e)
    <3> HIDE DEF P
    <3> QED
      BY <1>8
  <2> DEFINE k == 10 + P
  <2>2. k \in Nat /\ k + Len(t) <= Len(e) /\ \A n \in 1..Len(t) : e[k + n] = t[n]
    <3> HIDE DEF P
    <3> QED
      BY <1>2, <1>7, <2>1
  <2> HIDE DEF k
  <2>3. SubSeq(e, k + 1, k + Len(t)) = t
    BY <1>2, <1>7, <2>2, PieceIs
  <2> QED
    BY <1>2, <2>3 DEF k
<1>15. e[2] = P
  <2>1. 1 \in 1..Len(c)
    <3> HIDE DEF P
    <3> QED
      BY <1>8
  <2> QED
    BY <1>7, <1>8, <2>1
<1> HIDE DEF P
<1>16. Decoded(e).msgid = msgid
  <2>1. Decoded(e).msgid = Unsigned(SubSeq(e, 8, 10))
    BY DEF Decoded
  <2> QED
    BY <1>3, <1>10, <2>1, Zenon
<1>17. Decoded(e).payload = x
  <2>1. Decoded(e).payload
          = IF Unsigned(SubSeq(e, 8, 10)) \in Known
            THEN PadTo(SubSeq(e, HeaderLen + 1, HeaderLen + e[2]),
                       Def(Unsigned(SubSeq(e, 8, 10))).payloadLen)
            ELSE SubSeq(e, HeaderLen + 1, HeaderLen + e[2])
    BY DEF Decoded
  <2>2. HeaderLen + 1 = 11 /\ HeaderLen + e[2] = 10 + P
    BY <1>15 DEF HeaderLen
  <2>3. Decoded(e).payload = PadTo(SubSeq(e, 11, 10 + P), Def(msgid).payloadLen)
    BY <1>3, <1>10, <2>1, <2>2, Zenon
  <2> QED
    BY <1>5, <1>12, <1>5a, <2>3, Zenon
<1>18. Decoded(e).crcOk
  <2>1. Decoded(e).crcOk = (/\ Unsigned(SubSeq(e, 8, 10)) \in Known
                            /\ CrcOk(e, Unsigned(SubSeq(e, 8, 10))))
    BY DEF Decoded
  <2>2. CrcOk(e, msgid)
    <3>1. HeaderLen + e[2] = 10 + P
      BY <1>15 DEF HeaderLen
    <3> QED
      BY <1>4, <1>13, <1>14, <3>1, Zenon DEF CrcOk
  <2> QED
    BY <1>3, <1>10, <2>1, <2>2, Zenon
<1> QED
  BY <1>16, <1>17, <1>18 DEF x

\* One frame with a right checksum is decoded to one message.
LEMMA DecodeOne ==
  ASSUME NEW e, NEW seq, Alone(e, seq), Decoded(e).crcOk
  PROVE  DecodeAll(e) = <<DecodeFields(Decoded(e))>>
<1> DEFINE fs == Push(e).frames
           x == DecodeFields(Decoded(e))
           N == Len(fs)
           Eq(q) == q = [n \in 0..N |->
             IF n = 0 THEN <<>>
             ELSE IF fs[n].crcOk THEN Append(q[n - 1], DecodeFields(fs[n])) ELSE q[n - 1]]
           q0 == CHOOSE q : Eq(q)
           g == [n \in 0..1 |-> IF n = 0 THEN <<>> ELSE <<x>>]
<1>1. N = 1 /\ fs[1] = Decoded(e)
  <2> DEFINE y == Decoded(e)
  <2>1. fs = <<y>>
    BY PushAlone
  <2> HIDE DEF fs, y
  <2>2. Len(fs) = 1 /\ fs[1] = y
    BY <2>1
  <2> QED
    BY <2>2 DEF y
<1> HIDE DEF fs
<1>2. fs[1].crcOk /\ DecodeFields(fs[1]) = x
  BY <1>1, Zenon
<1> HIDE DEF x, N
<1>3. Append(<<>>, x) = <<x>>
  OBVIOUS
<1>4. Eq(g)
  <2>1. ASSUME NEW n \in 0..N
        PROVE  g[n] = IF n = 0 THEN <<>>
                      ELSE IF fs[n].crcOk THEN Append(g[n - 1], DecodeFields(fs[n])) ELSE g[n - 1]
    <3>1. CASE n = 0
      BY <3>1
    <3>2. CASE n # 0
      <4>1. n = 1 /\ n - 1 = 0
        BY <1>1, <3>2
      <4>2. g[0] = <<>> /\ g[1] = <<x>>
        OBVIOUS
      <4> HIDE DEF g
      <4>3. g[n - 1] = <<>> /\ g[n] = <<x>> /\ fs[n].crcOk /\ DecodeFields(fs[n]) = x
        BY <1>2, <4>1, <4>2, Zenon
      <4>4. Append(g[n - 1], DecodeFields(fs[n])) = g[n]
        BY <1>3, <4>3, Zenon
      <4> QED
        BY <3>2, <4>3, <4>4, Zenon
    <3> QED
      BY <3>1, <3>2
  <2>2. g = [n \in 0..N |-> g[n]]
    BY <1>1
  <2> HIDE DEF g, N
  <2> QED
    BY <2>1, <2>2, Zenon
<1>5. DecodeAll(e) = q0[N] /\ Eq(q0)
  BY <1>4, Zenon DEF DecodeAll, fs, N
<1> HIDE DEF q0, g
<1>6. 0 \in 0..N /\ 1 \in 0..N /\ 1 # 0 /\ 1 - 1 = 0
  BY <1>1
<1>7. \A n \in 0..N : q0[n] = IF n = 0 THEN <<>>
        ELSE IF fs[n].crcOk THEN Append(q0[n - 1], DecodeFields(fs[n])) ELSE q0[n - 1]
  BY <1>5, Zenon
<1>8. q0[0] = <<>>
  BY <1>6, <1>7, Zenon
<1>9. q0[1] = Append(q0[0], DecodeFields(fs[1]))
  BY <1>2, <1>6, <1>7, Zenon
<1>10. q0[1] = <<x>>
  BY <1>2, <1>3, <1>8, <1>9, Zenon
<1> QED
  BY <1>1, <1>5, <1>10, Zenon DEF x

\* A message whose numbers can be written into its fields.
Carries(msgid, m, l) ==
  /\ l \in Seq(Type) /\ l = Def(msgid).types /\ Len(l) \in 1..60
  /\ \A i \in 1..Len(l) : Writable(l[i], m[Def(msgid).fields[i]])
  /\ \A i, j \in DOMAIN Def(msgid).fields : Def(msgid).fields[i] = Def(msgid).fields[j] => i = j
  /\ DOMAIN Def(msgid).fields = 1..Len(l)
  /\ Offset(l, Len(l) + 1) = Def(msgid).payloadLen
  /\ Def(msgid).payloadLen \in 1..255 /\ Def(msgid).crcExtra \in Byte

\* A field that fits is unpacked as it was packed.
Kept(type, n) == type \in {"u8", "u16", "u32", "i32", "float"} /\ Fits(type, n)
Back(msgid, m, i) ==
  Unpack(msgid, Pack(msgid, m))[Def(msgid).fields[i]] = m[Def(msgid).fields[i]]
LEMMA FieldBack ==
  ASSUME NEW msgid, NEW m, NEW l, Carries(msgid, m, l), NEW i \in 1..Len(l),
         Kept(l[i], m[Def(msgid).fields[i]])
  PROVE  Back(msgid, m, i)
<1> DEFINE fs == Def(msgid).fields
           v == [n \in 1..Len(l) |-> Put(l[n], m[Def(msgid).fields[n]])]
           x == Pack(msgid, m)
<1>1. /\ l \in Seq(Type) /\ l = Def(msgid).types
      /\ \A n \in 1..Len(l) : Writable(l[n], m[fs[n]])
      /\ \A n, j \in DOMAIN fs : fs[n] = fs[j] => n = j
      /\ DOMAIN fs = 1..Len(l)
  BY Zenon DEF Carries
<1>2. Packed(l, v, x, Len(l))
  BY <1>1, PackType, Zenon
<1>3. FieldIn(l, x, i) = v[i]
  BY <1>2, Zenon DEF Packed
<1>4. v[i] = Put(l[i], m[fs[i]])
  OBVIOUS
<1>5. Unpack(msgid, x)[fs[i]] = Take(l[i], FieldIn(l, x, i))
  <2>1. i \in DOMAIN Def(msgid).fields
        /\ \A j \in DOMAIN Def(msgid).fields : Def(msgid).fields[j] = Def(msgid).fields[i] => j = i
    BY <1>1, Zenon
  <2>2. Unpack(msgid, x)[fs[i]] = Take(Def(msgid).types[i], FieldIn(Def(msgid).types, x, i))
    <3> HIDE DEF x
    <3> QED
      BY <2>1, UnpackField, Zenon
  <2> QED
    BY <1>1, <2>2, Zenon
<1>6. m[fs[i]] \in Int
  BY <1>1, Zenon DEF Writable
<1> HIDE DEF fs, v, x
<1> DEFINE n == m[fs[i]]
           w == l[i]
<1>7. n \in Int /\ w \in {"u8", "u16", "u32", "i32", "float"} /\ Fits(w, n)
  BY <1>6 DEF Kept, fs
<1> HIDE DEF n, w
<1>8. Take(w, Put(w, n)) = n
  BY <1>7, TakeBack
<1>9. Unpack(msgid, x)[fs[i]] = m[fs[i]]
  BY <1>3, <1>4, <1>5, <1>8, Zenon DEF n, w
<1> QED
  BY <1>9, Zenon DEF Back, fs, x

\* Such a message, framed, is one frame with the packed message in it.
OnWire(e, msgid, m, seq) ==
  /\ Alone(e, seq) /\ Decoded(e).msgid = msgid /\ Decoded(e).payload = Pack(msgid, m)
  /\ Decoded(e).crcOk
LEMMA OnWireIs ==
  ASSUME NEW msgid \in Known, NEW m, NEW l, Carries(msgid, m, l), NEW seq \in Int,
         NEW sysid \in Byte, NEW compid \in Byte
  PROVE  OnWire(EncodeFrame(msgid, m, seq, sysid, compid), msgid, m, seq)
<1> DEFINE e == EncodeFrame(msgid, m, seq, sysid, compid)
           v == [n \in 1..Len(l) |-> Put(l[n], m[Def(msgid).fields[n]])]
           x == Pack(msgid, m)
<1>1. /\ l \in Seq(Type) /\ l = Def(msgid).types /\ Len(l) \in 1..60
      /\ \A n \in 1..Len(l) : Writable(l[n], m[Def(msgid).fields[n]])
      /\ Offset(l, Len(l) + 1) = Def(msgid).payloadLen
      /\ Def(msgid).payloadLen \in 1..255 /\ Def(msgid).crcExtra \in Byte
  BY Zenon DEF Carries
<1>2. Packed(l, v, x, Len(l))
  BY <1>1, PackType, Zenon
<1>3. x \in Seq(Byte) /\ Len(x) = Def(msgid).payloadLen /\ Len(x) \in 1..255
  <2>1. x \in Seq(Byte) /\ Len(x) = Offset(l, Len(l) + 1)
    <3> HIDE DEF x, v
    <3> QED
      BY <1>2, Zenon DEF Packed
  <2> DEFINE k == Len(x)
             n == Def(msgid).payloadLen
             o == Offset(l, Len(l) + 1)
  <2>2. k = o /\ o = n /\ n \in 1..255
    BY <1>1, <2>1, Zenon
  <2> HIDE DEF k, n, o
  <2>3. k = n /\ k \in 1..255
    BY <2>2
  <2> QED
    BY <2>1, <2>3 DEF k, n
<1>4. msgid \in Int
  BY DEF Known, HEARTBEAT, COMMAND_LONG, COMMAND_ACK, GLOBAL_POSITION_INT, ATTITUDE
<1>5. Alone(e, seq)
  BY <1>1, <1>4, EncodeAlone, Zenon
<1>6. Decoded(e).msgid = msgid /\ Decoded(e).payload = x /\ Decoded(e).crcOk
  BY <1>1, <1>3, DecodeEncoded, Zenon
<1> HIDE DEF e
<1>7. OnWire(e, msgid, m, seq)
  BY <1>5, <1>6, Zenon DEF OnWire
<1> QED
  BY <1>7 DEF e

\* A parser decodes it to its unpacked fields.
LEMMA Says ==
  ASSUME NEW msgid \in Known, NEW m, NEW l, Carries(msgid, m, l), NEW seq \in Int,
         NEW sysid \in Byte, NEW compid \in Byte
  PROVE  DecodeAll(EncodeFrame(msgid, m, seq, sysid, compid))
           = <<[name |-> Def(msgid).name, fields |-> Unpack(msgid, Pack(msgid, m))]>>
<1> DEFINE e == EncodeFrame(msgid, m, seq, sysid, compid)
           x == Pack(msgid, m)
<1>1. OnWire(e, msgid, m, seq)
  BY OnWireIs, Zenon
<1> HIDE DEF e
<1>2. Alone(e, seq) /\ Decoded(e).msgid = msgid /\ Decoded(e).payload = x /\ Decoded(e).crcOk
  BY <1>1, Zenon DEF OnWire
<1>3. DecodeAll(e) = <<DecodeFields(Decoded(e))>>
  BY <1>2, DecodeOne, Zenon
<1>4. DecodeFields(Decoded(e)) = [name |-> Def(msgid).name, fields |-> Unpack(msgid, x)]
  <2> HIDE DEF x
  <2> QED
    BY <1>2, Zenon DEF DecodeFields
<1> QED
  BY <1>3, <1>4, Zenon DEF e

\* The three answers say what was written into them.
Acking(x, y) == [command |-> x, result |-> y]
LEMMA AckSays ==
  ASSUME NEW x \in Int, NEW y \in Int, Fits("u16", x), Fits("u8", y), NEW seq \in Int
  PROVE  DecodeAll(EncodeFrame(COMMAND_ACK, Acking(x, y), seq, DRONE_SYS, DRONE_COMP))
           = <<[name |-> "COMMAND_ACK", fields |-> Acking(x, y)]>>
<1> DEFINE l == Def(COMMAND_ACK).types
           f == Def(COMMAND_ACK).fields
           m == Acking(x, y)
           u == Unpack(COMMAND_ACK, Pack(COMMAND_ACK, m))
<1>1. /\ l = <<"u16", "u8">> /\ f = <<"command", "result">> /\ Def(COMMAND_ACK).crcExtra = 143
      /\ Def(COMMAND_ACK).payloadLen = 3 /\ Def(COMMAND_ACK).name = "COMMAND_ACK"
  BY AckDef DEF CommandAckDef
<1>2. l \in Seq(Type \ {"float"}) /\ Len(l) = 2
  BY <1>1 DEF Type
<1>3. m["command"] = x /\ m["result"] = y /\ m = [n \in {"command", "result"} |-> m[n]]
  BY DEF Acking
<1>4. /\ COMMAND_ACK \in Known /\ DRONE_SYS \in Byte /\ DRONE_COMP \in Byte
      /\ Def(COMMAND_ACK).crcExtra \in Byte
  BY <1>1 DEF Known, DRONE_SYS, DRONE_COMP, Byte
<1>5. Offset(l, Len(l) + 1) = 3
  <2>1. Width("u16") = 2 /\ Width("u8") = 1
    BY DEF Width
  <2>2. l \in Seq(Type) /\ l[1] = "u16" /\ l[2] = "u8"
    BY <1>1, <1>2
  <2> HIDE DEF l
  <2>3. /\ Offset(l, 1) = 0
        /\ \A i \in 1..Len(l) : Offset(l, i + 1) = Offset(l, i) + Width(l[i])
    BY <2>2, OffsetDef, Zenon
  <2> DEFINE o(i) == Offset(l, i)
             w(i) == Width(l[i])
  <2>4. o(1) = 0 /\ \A i \in 1..2 : o(i + 1) = o(i) + w(i)
    BY <1>2, <2>3
  <2>5. w(1) = 2 /\ w(2) = 1
    BY <2>1, <2>2
  <2> HIDE DEF o, w
  <2>6. o(1 + 1) = o(1) + w(1) /\ o(2 + 1) = o(2) + w(2)
    BY <2>4
  <2>7. o(3) = 3
    BY <2>4, <2>5, <2>6
  <2> QED
    BY <1>2, <2>7 DEF o
<1>6. f[1] = "command" /\ f[2] = "result" /\ DOMAIN f = {1, 2} /\ 1..Len(l) = {1, 2}
  BY <1>1, <1>2
<1>7. Carries(COMMAND_ACK, m, l)
  <2>1. \A i \in 1..Len(l) : m[f[i]] \in Int
    <3> HIDE DEF m, f, l
    <3> QED
      BY <1>3, <1>6
  <2>2. \A i, j \in DOMAIN f : f[i] = f[j] => i = j
    BY <1>6
  <2>3. Len(l) \in 1..60 /\ Def(COMMAND_ACK).payloadLen \in 1..255 /\ DOMAIN f = 1..Len(l)
    BY <1>1, <1>2, <1>6
  <2>4. Offset(l, Len(l) + 1) = Def(COMMAND_ACK).payloadLen
    BY <1>1, <1>5, Zenon
  <2> HIDE DEF m
  <2>5. l \in Seq(Type) /\ \A i \in 1..Len(l) : Writable(l[i], m[f[i]])
    <3> HIDE DEF l, f
    <3> QED
      BY <1>2, <2>1, NoFloats
  <2> QED
    BY <1>4, <2>2, <2>3, <2>4, <2>5, Zenon DEF Carries
<1>8. l[1] = "u16" /\ l[2] = "u8" /\ 1 \in 1..Len(l) /\ 2 \in 1..Len(l)
  BY <1>1, <1>2
<1> HIDE DEF m, u
<1>9. u[f[1]] = m[f[1]] /\ u[f[2]] = m[f[2]]
  <2>1. Kept(l[1], m[f[1]])
    <3> HIDE DEF l, f
    <3> QED
      BY <1>3, <1>6, <1>8 DEF Kept
  <2>2. Kept(l[2], m[f[2]])
    <3> HIDE DEF l, f
    <3> QED
      BY <1>3, <1>6, <1>8 DEF Kept
  <2>3. Back(COMMAND_ACK, m, 1) /\ Back(COMMAND_ACK, m, 2)
    <3> HIDE DEF l
    <3> QED
      BY <1>7, <1>8, <2>1, <2>2, FieldBack
  <2> QED
    BY <2>3, Zenon DEF Back, u
<1>10. u = m
  <2>1. u = [n \in {f[i] : i \in DOMAIN f} |-> u[n]]
    BY DEF Unpack, u
  <2> HIDE DEF f
  <2>2. {f[i] : i \in DOMAIN f} = {"command", "result"}
    BY <1>6
  <2>3. u = [n \in {"command", "result"} |-> u[n]]
    BY <2>1, <2>2, Zenon
  <2>4. \A n \in {"command", "result"} : u[n] = m[n]
    BY <1>6, <1>9
  <2> QED
    BY <1>3, <2>3, <2>4, Zenon
<1>11. DecodeAll(EncodeFrame(COMMAND_ACK, m, seq, DRONE_SYS, DRONE_COMP))
         = <<[name |-> Def(COMMAND_ACK).name, fields |-> u]>>
  <2> HIDE DEF l, f
  <2> QED
    BY <1>4, <1>7, Says, Zenon DEF u
<1> QED
  BY <1>1, <1>10, <1>11, Zenon DEF m

LEMMA BeatSays ==
  ASSUME NEW x \in Int, Fits("u8", x), NEW y \in Int, NEW seq \in Int
  PROVE  \E u : /\ DecodeAll(EncodeFrame(HEARTBEAT, Beating(x, y), seq, DRONE_SYS, DRONE_COMP))
                     = <<[name |-> "HEARTBEAT", fields |-> u]>>
                /\ u["baseMode"] = x
<1> DEFINE l == Def(HEARTBEAT).types
           f == Def(HEARTBEAT).fields
           m == Beating(x, y)
           u == Unpack(HEARTBEAT, Pack(HEARTBEAT, m))
<1>1. /\ l = <<"u32", "u8", "u8", "u8", "u8", "u8">> /\ Def(HEARTBEAT).crcExtra = 50
      /\ f = <<"customMode", "type", "autopilot", "baseMode", "systemStatus", "mavlinkVersion">>
      /\ Def(HEARTBEAT).payloadLen = 9 /\ Def(HEARTBEAT).name = "HEARTBEAT"
  BY BeatDef DEF HeartbeatDef
<1>2. l \in Seq(Type \ {"float"}) /\ Len(l) = 6
  BY <1>1 DEF Type
<1>3. /\ m["customMode"] \in Int /\ m["type"] \in Int /\ m["autopilot"] \in Int
      /\ m["baseMode"] = x /\ m["systemStatus"] \in Int /\ m["mavlinkVersion"] \in Int
  BY DEF Beating, QUADROTOR, GENERIC
<1>4. /\ HEARTBEAT \in Known /\ DRONE_SYS \in Byte /\ DRONE_COMP \in Byte
      /\ Def(HEARTBEAT).crcExtra \in Byte
  BY <1>1 DEF Known, DRONE_SYS, DRONE_COMP, Byte
<1>5. Offset(l, Len(l) + 1) = 9
  <2>1. Width("u32") = 4 /\ Width("u8") = 1
    BY DEF Width
  <2>2. /\ l \in Seq(Type) /\ l[1] = "u32" /\ l[2] = "u8" /\ l[3] = "u8" /\ l[4] = "u8"
        /\ l[5] = "u8" /\ l[6] = "u8"
    BY <1>1, <1>2
  <2> HIDE DEF l
  <2>3. /\ Offset(l, 1) = 0
        /\ \A i \in 1..Len(l) : Offset(l, i + 1) = Offset(l, i) + Width(l[i])
    BY <2>2, OffsetDef, Zenon
  <2> DEFINE o(i) == Offset(l, i)
             w(i) == Width(l[i])
  <2>4. o(1) = 0 /\ \A i \in 1..6 : o(i + 1) = o(i) + w(i)
    BY <1>2, <2>3
  <2>5. w(1) = 4 /\ w(2) = 1 /\ w(3) = 1 /\ w(4) = 1 /\ w(5) = 1 /\ w(6) = 1
    BY <2>1, <2>2
  <2> HIDE DEF o, w
  <2>6. /\ o(1 + 1) = o(1) + w(1) /\ o(2 + 1) = o(2) + w(2) /\ o(3 + 1) = o(3) + w(3)
        /\ o(4 + 1) = o(4) + w(4) /\ o(5 + 1) = o(5) + w(5) /\ o(6 + 1) = o(6) + w(6)
    BY <2>4
  <2>7. o(7) = 9
    BY <2>4, <2>5, <2>6
  <2> QED
    BY <1>2, <2>7 DEF o
<1>6. /\ f[1] = "customMode" /\ f[2] = "type" /\ f[3] = "autopilot"
      /\ f[4] = "baseMode" /\ f[5] = "systemStatus" /\ f[6] = "mavlinkVersion"
      /\ DOMAIN f = 1..6 /\ \A i \in 1..6 : i = 1 \/ i = 2 \/ i = 3 \/ i = 4 \/ i = 5 \/ i = 6
  BY <1>1
<1>7. Carries(HEARTBEAT, m, l)
  <2>1. \A i \in 1..Len(l) : m[f[i]] \in Int
    <3> HIDE DEF m, f, l
    <3> QED
      BY <1>2, <1>3, <1>6, Zenon
  <2>2. \A i, j \in DOMAIN f : f[i] = f[j] => i = j
    <3> HIDE DEF f
    <3> QED
      BY <1>6
  <2>3. Len(l) \in 1..60 /\ Def(HEARTBEAT).payloadLen \in 1..255 /\ DOMAIN f = 1..Len(l)
    BY <1>1, <1>2, <1>6
  <2>4. Offset(l, Len(l) + 1) = Def(HEARTBEAT).payloadLen
    BY <1>1, <1>5, Zenon
  <2> HIDE DEF m
  <2>5. l \in Seq(Type) /\ \A i \in 1..Len(l) : Writable(l[i], m[f[i]])
    <3> HIDE DEF l, f
    <3> QED
      BY <1>2, <2>1, NoFloats
  <2> QED
    BY <1>4, <2>2, <2>3, <2>4, <2>5, Zenon DEF Carries
<1>8. l[4] = "u8" /\ 4 \in 1..Len(l)
  BY <1>1, <1>2
<1> HIDE DEF m, u
<1>9. u[f[4]] = m[f[4]]
  <2>1. Kept(l[4], m[f[4]])
    <3> HIDE DEF l, f
    <3> QED
      BY <1>3, <1>6, <1>8 DEF Kept
  <2>2. Back(HEARTBEAT, m, 4)
    <3> HIDE DEF l
    <3> QED
      BY <1>7, <1>8, <2>1, FieldBack
  <2> QED
    BY <2>2, Zenon DEF Back, u
<1>10. u["baseMode"] = x
  BY <1>3, <1>6, <1>9, Zenon
<1>11. DecodeAll(EncodeFrame(HEARTBEAT, m, seq, DRONE_SYS, DRONE_COMP))
         = <<[name |-> Def(HEARTBEAT).name, fields |-> u]>>
  <2> HIDE DEF l, f
  <2> QED
    BY <1>4, <1>7, Says, Zenon DEF u
<1>12. DecodeAll(EncodeFrame(HEARTBEAT, m, seq, DRONE_SYS, DRONE_COMP))
         = <<[name |-> "HEARTBEAT", fields |-> u]>>
  BY <1>1, <1>11, Zenon
<1> QED
  BY <1>10, <1>12, Zenon DEF m

\* The numbers that the answers' fields can carry: messages.ts writes them as 32-bit numbers,
\* with a sign and without.
InRange(d) ==
  Fits("i32", d.lat) /\ Fits("i32", d.lon) /\ Fits("i32", d.altMm) /\ Fits("u32", d.bootMs)

Placing(ms, d) ==
  \E u : /\ ms = <<[name |-> "GLOBAL_POSITION_INT", fields |-> u]>>
         /\ u["timeBootMs"] = d.bootMs /\ u["lat"] = d.lat /\ u["lon"] = d.lon
         /\ u["alt"] = d.altMm
LEMMA PlaceSays ==
  ASSUME NEW d \in Drone, InRange(d), NEW seq \in Int
  PROVE  Placing(DecodeAll(EncodeFrame(GLOBAL_POSITION_INT,
                                       Telling(d.bootMs, d.lat, d.lon, d.altMm), seq,
                                       DRONE_SYS, DRONE_COMP)), d)
<1> DEFINE t == d.bootMs
           x == d.lat
           y == d.lon
           z == d.altMm
<1>0. /\ t \in Int /\ x \in Int /\ y \in Int /\ z \in Int
      /\ Fits("u32", t) /\ Fits("i32", x) /\ Fits("i32", y) /\ Fits("i32", z)
  <2>1. t \in Int /\ x \in Int /\ y \in Int /\ z \in Int
    BY DEF Drone
  <2> QED
    BY <2>1, Zenon DEF InRange
<1> HIDE DEF t, x, y, z
<1> DEFINE l == Def(GLOBAL_POSITION_INT).types
           f == Def(GLOBAL_POSITION_INT).fields
           m == Telling(t, x, y, z)
           u == Unpack(GLOBAL_POSITION_INT, Pack(GLOBAL_POSITION_INT, m))
<1>1. /\ l = <<"u32", "i32", "i32", "i32", "i32", "i16", "i16", "i16", "u16">>
      /\ f = <<"timeBootMs", "lat", "lon", "alt", "relativeAlt", "vx", "vy", "vz", "hdg">>
      /\ Def(GLOBAL_POSITION_INT).crcExtra = 104 /\ Def(GLOBAL_POSITION_INT).payloadLen = 28
      /\ Def(GLOBAL_POSITION_INT).name = "GLOBAL_POSITION_INT"
  BY PositionDef DEF GlobalPositionIntDef
<1>2. l \in Seq(Type \ {"float"}) /\ Len(l) = 9
  BY <1>1 DEF Type
<1>3. /\ m["timeBootMs"] = t /\ m["lat"] = x /\ m["lon"] = y /\ m["alt"] = z
      /\ m["relativeAlt"] \in Int /\ m["vx"] \in Int /\ m["vy"] \in Int /\ m["vz"] \in Int
      /\ m["hdg"] \in Int
  BY <1>0 DEF Telling
<1>4. /\ GLOBAL_POSITION_INT \in Known /\ DRONE_SYS \in Byte /\ DRONE_COMP \in Byte
      /\ Def(GLOBAL_POSITION_INT).crcExtra \in Byte
  BY <1>1 DEF Known, DRONE_SYS, DRONE_COMP, Byte
<1>5. Offset(l, Len(l) + 1) = 28
  <2>1. Width("u32") = 4 /\ Width("i32") = 4 /\ Width("i16") = 2 /\ Width("u16") = 2
    BY DEF Width
  <2>2. /\ l \in Seq(Type) /\ l[1] = "u32" /\ l[2] = "i32" /\ l[3] = "i32" /\ l[4] = "i32"
        /\ l[5] = "i32" /\ l[6] = "i16" /\ l[7] = "i16" /\ l[8] = "i16" /\ l[9] = "u16"
    BY <1>1, <1>2
  <2> HIDE DEF l
  <2>3. /\ Offset(l, 1) = 0
        /\ \A i \in 1..Len(l) : Offset(l, i + 1) = Offset(l, i) + Width(l[i])
    BY <2>2, OffsetDef, Zenon
  <2> DEFINE o(i) == Offset(l, i)
             w(i) == Width(l[i])
  <2>4. o(1) = 0 /\ \A i \in 1..9 : o(i + 1) = o(i) + w(i)
    BY <1>2, <2>3
  <2>5. /\ w(1) = 4 /\ w(2) = 4 /\ w(3) = 4 /\ w(4) = 4 /\ w(5) = 4 /\ w(6) = 2 /\ w(7) = 2
        /\ w(8) = 2 /\ w(9) = 2
    BY <2>1, <2>2
  <2> HIDE DEF o, w
  <2>6. /\ o(1 + 1) = o(1) + w(1) /\ o(2 + 1) = o(2) + w(2) /\ o(3 + 1) = o(3) + w(3)
        /\ o(4 + 1) = o(4) + w(4) /\ o(5 + 1) = o(5) + w(5) /\ o(6 + 1) = o(6) + w(6)
        /\ o(7 + 1) = o(7) + w(7) /\ o(8 + 1) = o(8) + w(8) /\ o(9 + 1) = o(9) + w(9)
    BY <2>4
  <2>7. o(10) = 28
    BY <2>4, <2>5, <2>6
  <2> QED
    BY <1>2, <2>7 DEF o
<1>6. /\ f[1] = "timeBootMs" /\ f[2] = "lat" /\ f[3] = "lon" /\ f[4] = "alt"
      /\ f[5] = "relativeAlt" /\ f[6] = "vx" /\ f[7] = "vy" /\ f[8] = "vz" /\ f[9] = "hdg"
      /\ DOMAIN f = 1..9
      /\ \A i \in 1..9 : \/ i = 1 \/ i = 2 \/ i = 3 \/ i = 4 \/ i = 5 \/ i = 6 \/ i = 7
                         \/ i = 8 \/ i = 9
  BY <1>1
<1>7. Carries(GLOBAL_POSITION_INT, m, l)
  <2>1. \A i \in 1..Len(l) : m[f[i]] \in Int
    <3> HIDE DEF m, f, l
    <3> QED
      BY <1>0, <1>2, <1>3, <1>6, Zenon
  <2>2. \A i, j \in DOMAIN f : f[i] = f[j] => i = j
    <3> HIDE DEF f
    <3> QED
      BY <1>6
  <2>3. Len(l) \in 1..60 /\ Def(GLOBAL_POSITION_INT).payloadLen \in 1..255
        /\ DOMAIN f = 1..Len(l)
    BY <1>1, <1>2, <1>6
  <2>4. Offset(l, Len(l) + 1) = Def(GLOBAL_POSITION_INT).payloadLen
    BY <1>1, <1>5, Zenon
  <2> HIDE DEF m
  <2>5. l \in Seq(Type) /\ \A i \in 1..Len(l) : Writable(l[i], m[f[i]])
    <3> HIDE DEF l, f
    <3> QED
      BY <1>2, <2>1, NoFloats
  <2> QED
    BY <1>4, <2>2, <2>3, <2>4, <2>5, Zenon DEF Carries
<1>8. \A i \in 1..4 : i \in 1..Len(l) /\ l[i] \in {"u8", "u16", "u32", "i32"}
  BY <1>1, <1>2
<1>9. \A i \in 1..4 : Fits(l[i], m[f[i]])
  <2>1. l[1] = "u32" /\ l[2] = "i32" /\ l[3] = "i32" /\ l[4] = "i32"
    BY <1>1
  <2>2. \A i \in 1..4 : i = 1 \/ i = 2 \/ i = 3 \/ i = 4
    OBVIOUS
  <2> HIDE DEF l, f, m
  <2> QED
    BY <1>0, <1>3, <1>6, <2>1, <2>2, Zenon
<1> HIDE DEF m, u
<1>10. \A i \in 1..4 : u[f[i]] = m[f[i]]
  <2>1. \A i \in 1..4 : Kept(l[i], m[f[i]])
    BY <1>8, <1>9, Zenon DEF Kept
  <2>2. \A i \in 1..4 : Back(GLOBAL_POSITION_INT, m, i)
    <3> HIDE DEF l
    <3> QED
      BY <1>7, <1>8, <2>1, FieldBack
  <2> QED
    BY <2>2, Zenon DEF Back, u
<1>11. u["timeBootMs"] = t /\ u["lat"] = x /\ u["lon"] = y /\ u["alt"] = z
  <2>1. 1 \in 1..4 /\ 2 \in 1..4 /\ 3 \in 1..4 /\ 4 \in 1..4
    OBVIOUS
  <2> HIDE DEF f
  <2> QED
    BY <1>3, <1>6, <1>10, <2>1, Zenon
<1>12. DecodeAll(EncodeFrame(GLOBAL_POSITION_INT, m, seq, DRONE_SYS, DRONE_COMP))
         = <<[name |-> Def(GLOBAL_POSITION_INT).name, fields |-> u]>>
  <2> HIDE DEF l, f
  <2> QED
    BY <1>4, <1>7, Says, Zenon DEF u
<1>13. DecodeAll(EncodeFrame(GLOBAL_POSITION_INT, m, seq, DRONE_SYS, DRONE_COMP))
         = <<[name |-> "GLOBAL_POSITION_INT", fields |-> u]>>
  BY <1>1, <1>12, Zenon
<1> QED
  BY <1>11, <1>13, Zenon DEF Placing, m, t, x, y, z

\* A command's number is two bytes of its frame.
LEMMA CommandFits ==
  ASSUME NEW c \in Commands
  PROVE  Fits("u16", c.command)
<1>1. PICK f \in Parsed : Addressed(f) /\ c = Unpack(COMMAND_LONG, f.payload)
  BY DEF Commands, CommandOf
<1> DEFINE fs == Def(COMMAND_LONG).fields
           l  == Def(COMMAND_LONG).types
           x  == f.payload
           b  == FieldIn(l, x, 8)
<1>2. x \in Seq(Byte) /\ Len(x) >= 33
  BY <1>1, PayloadType
<1>3. fs = <<"param1", "param2", "param3", "param4", "param5", "param6", "param7",
             "command", "targetSystem", "targetComponent", "confirmation">>
  BY LongDef DEF CommandLongDef
<1>4. l = <<"float", "float", "float", "float", "float", "float", "float",
            "u16", "u8", "u8", "u8">>
  BY LongDef DEF CommandLongDef
<1>5. Unpack(COMMAND_LONG, x)[fs[8]] = Take(l[8], FieldIn(l, x, 8))
  <2>1. 8 \in DOMAIN fs /\ \A j \in DOMAIN fs : fs[j] = fs[8] => j = 8
    BY <1>3
  <2> HIDE DEF x
  <2> QED
    BY <2>1, UnpackField
<1>6. c.command = Unsigned(b)
  <2>1. fs[8] = "command" /\ l[8] = "u16"
    BY <1>3, <1>4
  <2>2. Take("u16", b) = Unsigned(b)
    BY DEF Take
  <2> HIDE DEF fs, l, x
  <2> QED
    BY <1>1, <1>5, <2>1, <2>2, Zenon DEF x
<1>7. b \in Seq(Byte) /\ Len(b) = 2
  <2>1. Width(l[8]) = 2
    BY <1>4 DEF Width
  <2>2. 8 \in 1..11
    OBVIOUS
  <2>3. Offset(l, 8) \in Nat /\ Offset(l, 8) + Width(l[8]) <= 33
    BY <2>2, LongOffsets, Zenon
  <2> HIDE DEF l, x
  <2>4. Offset(l, 8) + Width(l[8]) <= Len(x) /\ Width(l[8]) \in Nat
    <3> DEFINE n == Len(x)
    <3>1. n \in Nat /\ n >= 33
      BY <1>2
    <3> HIDE DEF n
    <3>2. Offset(l, 8) + Width(l[8]) <= n
      BY <2>1, <2>3, <3>1
    <3> QED
      BY <2>1, <3>2 DEF n
  <2>5. b \in Seq(Byte) /\ Len(b) = Width(l[8])
    BY <1>2, <2>3, <2>4, FieldInType
  <2> QED
    BY <2>1, <2>5, Zenon
<1> HIDE DEF b
<1>8. Unsigned(b) = b[1] + 256 * b[2]
  BY <1>7, UnsignedIs
<1>9. b[1] \in Byte /\ b[2] \in Byte
  BY <1>7
<1>10. 0 <= Unsigned(b) /\ Unsigned(b) < 65536
  <2> DEFINE p == b[1]
             q == b[2]
  <2>1. p \in 0..255 /\ q \in 0..255
    BY <1>9 DEF Byte
  <2> HIDE DEF p, q
  <2>2. 0 <= p + 256 * q /\ p + 256 * q < 65536
    BY SMT, <2>1
  <2> QED
    BY SMT, <1>8, <2>2 DEF p, q
<1> QED
  BY SMT, <1>6, <1>10 DEF Fits

\* Told to go somewhere, the drone is there.
LEMMA AfterGoto ==
  ASSUME NEW d \in Drone, NEW c \in Commands, c.command = DO_REPOSITION
  PROVE  After(d, c).lat = c.param5 * 10000000 /\ After(d, c).lon = c.param6 * 10000000
<1> DEFINE z == c.param7 * 1000
           x == c.param5 * 10000000
           y == c.param6 * 10000000
           f == [d EXCEPT !.lat = x]
           g == [f EXCEPT !.lon = y]
           o == Obeyed(d, c)
           u == o.bootMs + 100
           v == o.txSeq + 3
           e == [o EXCEPT !.bootMs = u]
<1>1. z \in Int /\ x \in Int /\ y \in Int
  BY SMT, CommandParts
<1>2. o = [d EXCEPT !.lat = x, !.lon = y, !.altMm = z]
  BY SMT DEF Obeyed, COMPONENT_ARM_DISARM, NAV_TAKEOFF, DO_REPOSITION, NAV_LAND
<1> HIDE DEF x, y, z
<1>3. f \in Drone /\ f.lat = x
  BY SMT, <1>1 DEF Drone
<1>4. f = [d EXCEPT !.lat = x]
  OBVIOUS
<1> HIDE DEF f
<1>5. g \in Drone /\ g.lat = x /\ g.lon = y
  BY SMT, <1>1, <1>3 DEF Drone
<1>6. g = [f EXCEPT !.lon = y]
  OBVIOUS
<1> HIDE DEF g
<1>7. o = [g EXCEPT !.altMm = z]
  BY <1>2, <1>4, <1>6, Zenon
<1> HIDE DEF o
<1>8. o \in Drone /\ o.lat = x /\ o.lon = y
  <2>1. /\ [g EXCEPT !.altMm = z] \in Drone /\ [g EXCEPT !.altMm = z].lat = g.lat
        /\ [g EXCEPT !.altMm = z].lon = g.lon
    BY SMT, <1>1, <1>5 DEF Drone
  <2> QED
    BY <1>5, <1>7, <2>1, Zenon
<1>9. After(d, c) = [o EXCEPT !.bootMs = u, !.txSeq = v]
  BY Zenon DEF After, o
<1>10. u \in Nat /\ v \in Nat
  BY SMT, <1>8 DEF Drone
<1> HIDE DEF u, v
<1>11. e \in Drone /\ e.lat = x /\ e.lon = y
  BY SMT, <1>8, <1>10 DEF Drone
<1>12. e = [o EXCEPT !.bootMs = u]
  OBVIOUS
<1> HIDE DEF e
<1>13. After(d, c) = [e EXCEPT !.txSeq = v]
  BY <1>9, <1>12, Zenon
<1>14. [e EXCEPT !.txSeq = v].lat = e.lat /\ [e EXCEPT !.txSeq = v].lon = e.lon
  BY SMT, <1>10, <1>11 DEF Drone
<1>15. After(d, c).lat = x /\ After(d, c).lon = y
  BY <1>11, <1>13, <1>14, Zenon
<1> QED
  BY <1>15 DEF x, y

\* Answer j to what was done, and what it says.
Answer(x, j) == Replies(x.after, x.command)[j]
LEMMA AnswerAlone ==
  ASSUME NEW x \in Done, NEW j \in 1..3
  PROVE  Answer(x, j) \in Reply /\ Alone(Answer(x, j), x.after.txSeq - 4 + j)
<1> DEFINE d == x.after
           r == Replies(d, x.command)
           n == d.txSeq
<1>1. d \in Drone /\ x.command \in Commands
  BY DEF Done
<1>2. Answers(r, n - 3)
  BY <1>1, RepliesAre
<1>3. n \in Int
  BY <1>1 DEF Drone
<1> HIDE DEF r, n
<1>4. Alone(r[1], n - 3) /\ Alone(r[2], (n - 3) + 1) /\ Alone(r[3], (n - 3) + 2)
  BY <1>2, Zenon DEF Answers
<1>5. /\ n - 3 = (n - 4) + 1 /\ (n - 3) + 1 = (n - 4) + 2 /\ (n - 3) + 2 = (n - 4) + 3
      /\ j = 1 \/ j = 2 \/ j = 3
  BY <1>3
<1>6. Alone(r[j], (n - 4) + j)
  BY <1>4, <1>5, Zenon
<1> QED
  BY <1>6, Zenon DEF Answer, Alone, Reply, r, n

Told(x) ==
  /\ DecodeAll(Answer(x, 1))
       = <<[name |-> "COMMAND_ACK", fields |-> Acking(x.command.command, Result(x.command))]>>
  /\ \E u : /\ DecodeAll(Answer(x, 2)) = <<[name |-> "HEARTBEAT", fields |-> u]>>
            /\ u["baseMode"] = CUSTOM_MODE_ENABLED + (IF x.after.armed THEN SAFETY_ARMED ELSE 0)
  /\ Placing(DecodeAll(Answer(x, 3)), x.after)
LEMMA AnswersTell ==
  ASSUME NEW x \in Done, InRange(x.after)
  PROVE  Told(x)
<1> DEFINE d == x.after
           c == x.command
           a == EncodeFrame(COMMAND_ACK, Acking(c.command, Result(c)),
                            d.txSeq - 3, DRONE_SYS, DRONE_COMP)
           n == CUSTOM_MODE_ENABLED + (IF d.armed THEN SAFETY_ARMED ELSE 0)
           m == IF d.armed THEN ACTIVE ELSE STANDBY
           b == EncodeFrame(HEARTBEAT, Beating(n, m), d.txSeq - 2, DRONE_SYS, DRONE_COMP)
           e == EncodeFrame(GLOBAL_POSITION_INT, Telling(d.bootMs, d.lat, d.lon, d.altMm),
                            d.txSeq - 1, DRONE_SYS, DRONE_COMP)
<1>0. d \in Drone /\ c \in Commands /\ InRange(d)
  BY DEF Done
<1>1. Answer(x, 1) = a /\ Answer(x, 2) = b /\ Answer(x, 3) = e
  <2>1. Replies(d, c) = <<a, b, e>>
    BY Zenon DEF Replies, Acking, Beating, Telling
  <2> HIDE DEF a, b, e
  <2>2. <<a, b, e>>[1] = a /\ <<a, b, e>>[2] = b /\ <<a, b, e>>[3] = e
    OBVIOUS
  <2> QED
    BY <2>1, <2>2, Zenon DEF Answer
<1>2. /\ d.txSeq - 3 \in Int /\ d.txSeq - 2 \in Int /\ d.txSeq - 1 \in Int
      /\ d.bootMs \in Int /\ d.lat \in Int /\ d.lon \in Int /\ d.altMm \in Int
  BY <1>0 DEF Drone
<1>3. c.command \in Int /\ Fits("u16", c.command) /\ Result(c) \in Int /\ Fits("u8", Result(c))
  <2>1. c.command \in Int /\ Fits("u16", c.command)
    BY <1>0, CommandParts, CommandFits
  <2>2. Result(c) \in Int /\ Fits("u8", Result(c))
    BY DEF Result, ACCEPTED, UNSUPPORTED, Fits
  <2> QED
    BY <2>1, <2>2
<1>4. n \in Int /\ Fits("u8", n) /\ m \in Int
  BY DEF CUSTOM_MODE_ENABLED, SAFETY_ARMED, ACTIVE, STANDBY, Fits
<1>5. Placing(DecodeAll(e), d)
  <2> HIDE DEF d
  <2> QED
    BY <1>0, <1>2, PlaceSays, Zenon
<1> HIDE DEF n, m, c, d
<1>6. DecodeAll(a) = <<[name |-> "COMMAND_ACK", fields |-> Acking(c.command, Result(c))]>>
  <2> DEFINE p == c.command
             q == Result(c)
             k == d.txSeq - 3
  <2>1. p \in Int /\ Fits("u16", p) /\ q \in Int /\ Fits("u8", q) /\ k \in Int
    BY <1>2, <1>3
  <2> HIDE DEF p, q, k
  <2>2. DecodeAll(EncodeFrame(COMMAND_ACK, Acking(p, q), k, DRONE_SYS, DRONE_COMP))
          = <<[name |-> "COMMAND_ACK", fields |-> Acking(p, q)]>>
    BY <2>1, AckSays
  <2> QED
    BY <2>2, Zenon DEF p, q, k
<1>7. \E u : DecodeAll(b) = <<[name |-> "HEARTBEAT", fields |-> u]>> /\ u["baseMode"] = n
  BY <1>2, <1>4, BeatSays, Zenon
<1> HIDE DEF a, b, e
<1> QED
  BY <1>1, <1>5, <1>6, <1>7, Zenon DEF Told, n, d, c

-----------------------------------------------------------------------------
(* Serving the commands of a piece: they are done in order, and their        *)
(* answers are numbered without a gap.                                       *)

ServeStage == [drone : Drone, out : Seq(Reply), applied : Seq(Done), asked : Seq(Nat)]

\* The drone after c is obeyed, and what Serve makes of each part of a stage.
LEMMA ServeIs ==
  ASSUME NEW v \in ServeStage, NEW c \in Commands
  PROVE  /\ Serve(v, c).drone = After(v.drone, c)
         /\ Serve(v, c).out = v.out \o Replies(After(v.drone, c), c)
         /\ Serve(v, c).applied = Append(v.applied, [command |-> c, after |-> After(v.drone, c)])
         /\ Serve(v, c).asked = Append(v.asked, Len(v.applied) + 1)
  BY DEF Serve

LEMMA ServeStageParts ==
  ASSUME NEW v \in ServeStage
  PROVE  /\ v.drone \in Drone /\ v.out \in Seq(Reply) /\ v.applied \in Seq(Done)
         /\ v.asked \in Seq(Nat) /\ Len(v.applied) \in Nat /\ Len(v.out) \in Nat
         /\ Len(v.asked) \in Nat
<1>1. v.drone \in Drone /\ v.out \in Seq(Reply) /\ v.applied \in Seq(Done) /\ v.asked \in Seq(Nat)
  BY DEF ServeStage
<1> QED
  BY <1>1

LEMMA ServeType ==
  ASSUME NEW v \in ServeStage, NEW c \in Commands
  PROVE  Serve(v, c) \in ServeStage
<1> DEFINE d == After(v.drone, c)
           r == Replies(d, c)
           x == [command |-> c, after |-> d]
           k == Len(v.applied) + 1
<1>1. v.drone \in Drone /\ v.out \in Seq(Reply) /\ v.applied \in Seq(Done) /\ v.asked \in Seq(Nat)
      /\ k \in Nat
  <2>1. /\ v.drone \in Drone /\ v.out \in Seq(Reply) /\ v.applied \in Seq(Done)
        /\ v.asked \in Seq(Nat) /\ Len(v.applied) \in Nat
    BY ServeStageParts
  <2> QED
    BY <2>1
<1>2. d \in Drone
  BY <1>1, AfterType
<1>3. x \in Done
  <2> HIDE DEF d
  <2> QED
    BY <1>2 DEF Done
<1> HIDE DEF d
<1>4. r \in Seq(Reply)
  <2>1. Answers(r, d.txSeq - 3)
    BY <1>2, RepliesAre
  <2> QED
    BY <2>1, Zenon DEF Answers, Reply
<1>5. Serve(v, c) = [drone |-> d, out |-> v.out \o r, applied |-> Append(v.applied, x),
                     asked |-> Append(v.asked, k)]
  BY Zenon DEF Serve, d
<1> HIDE DEF r, x, k
<1>6. v.out \o r \in Seq(Reply)
  BY <1>1, <1>4
<1>7. Append(v.applied, x) \in Seq(Done) /\ Append(v.asked, k) \in Seq(Nat)
  BY <1>1, <1>3
<1> DEFINE o == v.out \o r
           a == Append(v.applied, x)
           q == Append(v.asked, k)
<1>8. o \in Seq(Reply) /\ a \in Seq(Done) /\ q \in Seq(Nat)
  BY <1>6, <1>7
<1> HIDE DEF o, a, q
<1>9. [drone |-> d, out |-> o, applied |-> a, asked |-> q] \in ServeStage
  BY <1>2, <1>8 DEF ServeStage
<1> QED
  BY <1>5, <1>9, Zenon DEF o, a, q

\* Serving the commands one behind the other.
Before(s) == [drone |-> drone, out |-> inbox[s], applied |-> applied, asked |-> asked[s]]
ServeLoop(g, base, commands) ==
  /\ g[0] = base
  /\ \A n \in 1..Len(commands) : g[n] = Serve(g[n - 1], commands[n])
  /\ \A n \in 0..Len(commands) : g[n] \in ServeStage

LEMMA ServedDef ==
  ASSUME NEW s, NEW commands \in Seq(Commands), Before(s) \in ServeStage
  PROVE  \E g : ServeLoop(g, Before(s), commands) /\ Served(s, commands) = g[Len(commands)]
<1> DEFINE N == Len(commands)
           base == Before(s)
           step == [n \in 1..N |-> [v \in ServeStage |-> Serve(v, commands[n])]]
           after[n \in 0..N] == IF n = 0 THEN base ELSE Serve(after[n - 1], commands[n])
           ok(g) == /\ g = [n \in 0..N |-> IF n = 0 THEN base ELSE Serve(g[n - 1], commands[n])]
<1>1. N \in Nat /\ \A n \in 1..N : commands[n] \in Commands
  OBVIOUS
<1>2. step \in [1..N -> [ServeStage -> ServeStage]]
  <2>1. \A n \in 1..N : \A v \in ServeStage : Serve(v, commands[n]) \in ServeStage
    BY <1>1, ServeType
  <2> HIDE DEF N
  <2> QED
    BY <2>1
<1>3. PICK g \in [0..N -> ServeStage] : Climbs(g, N, base, step)
  <2> HIDE DEF N, step, base
  <2>1. base \in ServeStage
    BY DEF base
  <2> QED
    BY <1>1, <1>2, <2>1, Climb
<1>4. /\ g[0] = base /\ \A n \in 1..N : g[n] = Serve(g[n - 1], commands[n])
  <2>1. g[0] = base /\ \A n \in 1..N : g[n] = step[n][g[n - 1]]
    BY <1>3, Zenon DEF Climbs
  <2>2. ASSUME NEW n \in 1..N PROVE g[n] = Serve(g[n - 1], commands[n])
    <3>1. n - 1 \in 0..N
      BY <1>1
    <3>2. g[n - 1] \in ServeStage
      BY <3>1
    <3>3. step[n][g[n - 1]] = Serve(g[n - 1], commands[n])
      BY <3>2, Zenon
    <3> QED
      BY <2>1, <3>3, Zenon
  <2> QED
    BY <2>1, <2>2
<1>5. ok(g)
  <2> HIDE DEF base, N
  <2>1. \A n \in 0..N : n # 0 => n \in 1..N
    BY <1>1
  <2>2. \A n \in 0..N : g[n] = IF n = 0 THEN base ELSE Serve(g[n - 1], commands[n])
    BY <1>4, <2>1, Zenon
  <2> QED
    BY <2>2
<1>6. after = CHOOSE q : ok(q)
  BY Zenon
<1>7. ok(after)
  <2> HIDE DEF ok, after
  <2> QED
    BY <1>5, <1>6, Zenon
<1>8. Served(s, commands) = after[N]
  BY Zenon DEF Served, Before
<1> HIDE DEF after
<1>9. /\ after[0] = base /\ \A n \in 1..N : after[n] = Serve(after[n - 1], commands[n])
  <2> HIDE DEF base, N
  <2>1. 0 \in 0..N /\ \A n \in 1..N : n \in 0..N /\ n # 0
    BY <1>1
  <2>2. \A n \in 0..N : after[n] = IF n = 0 THEN base ELSE Serve(after[n - 1], commands[n])
    BY <1>7, Zenon
  <2> QED
    BY <2>1, <2>2, Zenon
<1>10. \A n \in 0..N : after[n] \in ServeStage
  <2>1. ASSUME NEW n \in 1..N, after[n - 1] \in ServeStage PROVE after[n] \in ServeStage
    <3>1. Serve(after[n - 1], commands[n]) \in ServeStage
      BY <1>1, <2>1, ServeType
    <3> QED
      BY <1>9, <3>1, Zenon
  <2>2. after[0] \in ServeStage
    BY <1>9
  <2> HIDE DEF N
  <2> QED
    BY <1>1, <2>1, <2>2, Stays
<1>11. ServeLoop(after, base, commands)
  BY <1>9, <1>10, Zenon DEF ServeLoop
<1> QED
  BY <1>8, <1>11, Zenon

\* Serving n of the commands puts them behind those applied before.
Applying(v, a, commands, n) ==
  /\ Len(v.applied) = Len(a) + n
  /\ \A i \in 1..Len(a) : v.applied[i] = a[i]
  /\ \A i \in 1..n : v.applied[Len(a) + i].command = commands[i]

LEMMA ApplyingMore ==
  ASSUME NEW v \in ServeStage, NEW a \in Seq(Done), NEW commands \in Seq(Commands),
         NEW n \in 1..Len(commands), Applying(v, a, commands, n - 1)
  PROVE  Applying(Serve(v, commands[n]), a, commands, n)
<1> DEFINE c == commands[n]
           d == After(v.drone, c)
           x == [command |-> c, after |-> d]
           b == v.applied
           w == Serve(v, c)
<1>1. c \in Commands
  OBVIOUS
<1>2. w.applied = Append(b, x) /\ b \in Seq(Done)
  BY <1>1, ServeIs, ServeStageParts
<1>3. d \in Drone
  BY <1>1, AfterType, ServeStageParts
<1>4. x.command = c
  OBVIOUS
<1> HIDE DEF d
<1>5. x \in Done
  BY <1>1, <1>3 DEF Done
<1>6. /\ Len(b) = Len(a) + (n - 1)
      /\ \A i \in 1..Len(a) : b[i] = a[i]
      /\ \A i \in 1..(n - 1) : b[Len(a) + i].command = commands[i]
  BY Zenon DEF Applying
<1>7. Len(a) \in Nat /\ n \in Nat /\ n >= 1
  OBVIOUS
<1> HIDE DEF x, b, w
<1> DEFINE e == Append(b, x)
<1>8. Len(e) = Len(b) + 1 /\ e[Len(b) + 1] = x /\ \A i \in 1..Len(b) : e[i] = b[i]
  BY <1>2, <1>5
<1> HIDE DEF e
<1>9. Len(b) + 1 = Len(a) + n /\ Len(a) <= Len(b)
  BY <1>6, <1>7
<1>10. \A i \in 1..Len(a) : e[i] = a[i]
  <2>1. \A i \in 1..Len(a) : i \in 1..Len(b)
    BY <1>7, <1>6
  <2> QED
    BY <1>6, <1>8, <2>1, Zenon
<1>11. ASSUME NEW i \in 1..n PROVE e[Len(a) + i].command = commands[i]
  <2>1. CASE i = n
    <3>1. e[Len(a) + n] = x
      BY <1>8, <1>9, Zenon
    <3> QED
      BY <1>4, <2>1, <3>1 DEF x
  <2>2. CASE i # n
    <3>1. i \in 1..(n - 1)
      BY <1>7, <2>2
    <3>2. Len(a) + i \in 1..Len(b)
      BY <1>6, <1>7, <3>1
    <3> QED
      BY <1>6, <1>8, <3>1, <3>2, Zenon
  <2> QED
    BY <2>1, <2>2
<1>12. Len(e) = Len(a) + n
  BY <1>8, <1>9, Zenon
<1>13. w.applied = e
  BY <1>2, Zenon DEF e
<1>14. Applying(w, a, commands, n)
  BY <1>10, <1>11, <1>12, <1>13, Zenon DEF Applying
<1> QED
  BY <1>14 DEF w

\* The commands done, in order.
DoneCommands(a) == [i \in DOMAIN a |-> a[i].command]
DoneMore(b, a, commands) == DoneCommands(b) = DoneCommands(a) \o commands

LEMMA DoneType ==
  ASSUME NEW a \in Seq(Done)
  PROVE  DoneCommands(a) \in Seq(Commands) /\ Len(DoneCommands(a)) = Len(a)
<1>1. \A i \in 1..Len(a) : a[i].command \in Commands
  <2>1. \A x \in Done : x.command \in Commands
    BY DEF Done
  <2>2. \A i \in 1..Len(a) : a[i] \in Done
    OBVIOUS
  <2> QED
    BY <2>1, <2>2
<1>2. DOMAIN a = 1..Len(a) /\ Len(a) \in Nat
  OBVIOUS
<1> QED
  BY <1>1, <1>2 DEF DoneCommands

LEMMA ServedApplies ==
  ASSUME NEW s, NEW commands \in Seq(Commands), Before(s) \in ServeStage
  PROVE  /\ Served(s, commands) \in ServeStage
         /\ DoneMore(Served(s, commands).applied, applied, commands)
         /\ Applying(Served(s, commands), applied, commands, Len(commands))
<1> DEFINE N == Len(commands)
<1>1. PICK g : ServeLoop(g, Before(s), commands) /\ Served(s, commands) = g[N]
  BY ServedDef
<1>2. N \in Nat /\ N \in 0..N
  OBVIOUS
<1>3. applied \in Seq(Done) /\ Before(s).applied = applied
  <2>1. Before(s).applied = applied
    BY DEF Before
  <2>2. Before(s).applied \in Seq(Done)
    BY ServeStageParts
  <2> QED
    BY <2>1, <2>2
<1>4. /\ g[0] = Before(s) /\ \A n \in 1..N : g[n] = Serve(g[n - 1], commands[n])
      /\ \A n \in 0..N : g[n] \in ServeStage
  BY <1>1, Zenon DEF ServeLoop
<1> DEFINE P(n) == Applying(g[n], applied, commands, n)
           S == {n \in Nat : n <= N => P(n)}
<1>5. P(0)
  <2>1. Len(applied) \in Nat /\ Len(applied) + 0 = Len(applied)
    BY <1>3
  <2>2. \A i \in 1..0 : FALSE
    OBVIOUS
  <2> QED
    BY <1>3, <1>4, <2>1, <2>2, Zenon DEF Applying
<1>6. ASSUME NEW n \in 1..N, P(n - 1) PROVE P(n)
  <2>1. g[n - 1] \in ServeStage
    <3>1. n - 1 \in 0..N
      BY <1>2
    <3> QED
      BY <1>4, <3>1
  <2>2. Applying(Serve(g[n - 1], commands[n]), applied, commands, n)
    BY <1>3, <1>6, <2>1, ApplyingMore
  <2> QED
    BY <1>4, <2>2, Zenon
<1> HIDE DEF P
<1>7. 0 \in S
  BY <1>5
<1>8. ASSUME NEW n \in Nat, n \in S PROVE n + 1 \in S
  <2> SUFFICES ASSUME n + 1 <= N PROVE P(n + 1)
    OBVIOUS
  <2>1. PICK k \in 1..N : k = n + 1
    BY <1>2
  <2>2. P(n) /\ n = k - 1
    BY <1>2, <1>8, <2>1
  <2>3. P(k)
    BY <1>6, <2>2
  <2> QED
    BY <2>1, <2>3
<1>9. P(N)
  <2>1. Nat \subseteq S
    <3> HIDE DEF S
    <3> QED
      BY <1>7, <1>8, Induct
  <2> QED
    BY <1>2, <2>1
<1>10. Served(s, commands) \in ServeStage
  <2> HIDE DEF N
  <2>1. g[N] \in ServeStage
    BY <1>2, <1>4
  <2> QED
    BY <1>1, <2>1, Zenon
<1>11. Applying(Served(s, commands), applied, commands, N)
  BY <1>1, <1>9, Zenon DEF P
<1> DEFINE v == Served(s, commands)
           b == v.applied
           A == Len(applied)
           p == DoneCommands(applied)
           q == DoneCommands(b)
<1>12. b \in Seq(Done)
  BY <1>10, ServeStageParts
<1> HIDE DEF v
<1>13. Len(b) = A + N /\ (\A i \in 1..A : b[i] = applied[i])
       /\ \A i \in 1..N : b[A + i].command = commands[i]
  BY <1>11, Zenon DEF Applying, v
<1> HIDE DEF b
<1>14. p \in Seq(Commands) /\ Len(p) = A /\ \A i \in 1..A : p[i] = applied[i].command
  <2>1. \A i \in 1..A : DoneCommands(applied)[i] = applied[i].command
    BY <1>3 DEF DoneCommands
  <2> QED
    BY <1>3, <2>1, DoneType
<1>15. q \in Seq(Commands) /\ Len(q) = Len(b) /\ \A i \in 1..Len(b) : q[i] = b[i].command
  <2>1. \A i \in 1..Len(b) : DoneCommands(b)[i] = b[i].command
    BY <1>12 DEF DoneCommands
  <2> QED
    BY <1>12, <2>1, DoneType
<1>16. A \in Nat
  BY <1>3
<1> HIDE DEF p, q, A
<1> DEFINE j == p \o commands
<1>17. /\ j \in Seq(Commands) /\ Len(j) = Len(p) + N
       /\ \A i \in 1..Len(p) : j[i] = p[i]
       /\ \A i \in 1..N : j[Len(p) + i] = commands[i]
  <2>1. p \in Seq(Commands)
    BY <1>14
  <2> QED
    BY <2>1, Joining
<1> HIDE DEF j, N
<1>18. q = j
  <2>1. Len(q) = Len(j)
    BY <1>13, <1>14, <1>15, <1>17
  <2>2. ASSUME NEW i \in 1..Len(q) PROVE q[i] = j[i]
    <3>0. i \in 1..Len(b) /\ q[i] = b[i].command
      BY <1>15
    <3>1. CASE i \in 1..A
      BY <1>13, <1>14, <1>17, <3>0, <3>1, Zenon
    <3>2. CASE i \notin 1..A
      <4>1. PICK m \in 1..N : i = A + m
        <5>1. i - A \in 1..N /\ i = A + (i - A)
          BY <1>2, <1>13, <1>16, <3>0, <3>2
        <5> QED
          BY <5>1
      <4> QED
        BY <1>13, <1>14, <1>17, <3>0, <4>1, Zenon
    <3> QED
      BY <3>1, <3>2
  <2> QED
    BY <1>15, <1>17, <2>1, <2>2, Same
<1>19. DoneMore(b, applied, commands)
  BY <1>18, Zenon DEF DoneMore, j, p, q
<1> QED
  BY <1>10, <1>11, <1>19, Zenon DEF b, v, N

\* The commands a station asked for and their answers on the way, of which it has heard h;
\* reply j to its command number k is the drone's answer j to what it did then.
Place(k, j)      == 3 * (k - 1) + j
Number(t, n, j)  == t + 3 * n - 4 + j
Ordered(asked1, n) ==
  /\ \A k \in 1..Len(asked1) : asked1[k] \in 1..n
  /\ \A k, m \in 1..Len(asked1) : k < m => asked1[k] < asked1[m]
Waiting(out, asked1, h, done) ==
  \A k \in 1..Len(asked1), j \in 1..3 :
    Place(k, j) > h => out[Place(k, j) - h] = Answer(done[asked1[k]], j)
\* What was done is recorded with the drone after it, whose number the order gives.
Record(x, n) == x.after.txSeq = n /\ \E d \in Drone : x.after = After(d, x.command)
Recorded(done, t) == \A n \in 1..Len(done) : Record(done[n], t + 3 * n)
Numbering(v, h, t) ==
  /\ v.drone.txSeq = t + 3 * Len(v.applied)
  /\ h + Len(v.out) = 3 * Len(v.asked)
  /\ Waiting(v.out, v.asked, h, v.applied)
  /\ Ordered(v.asked, Len(v.applied))
  /\ Recorded(v.applied, t)

LEMMA OrderedMore ==
  ASSUME NEW a \in Seq(Nat), NEW n \in Nat, Ordered(a, n), NEW b, b = Append(a, n + 1)
  PROVE  Ordered(b, n + 1)
<1> DEFINE K == Len(a)
<1>1. K \in Nat /\ Len(b) = K + 1 /\ b[K + 1] = n + 1 /\ \A i \in 1..K : b[i] = a[i]
  OBVIOUS
<1>2. /\ \A k \in 1..K : a[k] \in 1..n
      /\ \A k, m \in 1..K : k < m => a[k] < a[m]
  BY DEF Ordered
<1> HIDE DEF K
<1>3. \A k \in 1..(K + 1) : k \in 1..K \/ k = K + 1
  BY <1>1
<1>4. \A k \in 1..(K + 1) : b[k] \in 1..(n + 1)
  BY <1>1, <1>2, <1>3
<1>5. ASSUME NEW k \in 1..(K + 1), NEW m \in 1..(K + 1), k < m PROVE b[k] < b[m]
  <2>1. k \in 1..K
    BY <1>1, <1>5
  <2>2. b[k] = a[k] /\ a[k] \in 1..n
    BY <1>1, <1>2, <2>1
  <2>3. CASE m = K + 1
    <3>1. b[m] = n + 1
      BY <1>1, <2>3
    <3>2. \A x \in 1..n : x < n + 1
      OBVIOUS
    <3> QED
      BY <2>2, <3>1, <3>2, Zenon
  <2>4. CASE m \in 1..K
    BY <1>1, <1>2, <1>5, <2>1, <2>4, Zenon
  <2> QED
    BY <1>3, <2>3, <2>4
<1> QED
  BY <1>1, <1>4, <1>5, Zenon DEF Ordered

LEMMA NumberingMore ==
  ASSUME NEW v \in ServeStage, NEW c \in Commands, NEW h \in Nat, NEW t \in Int,
         Numbering(v, h, t)
  PROVE  Numbering(Serve(v, c), h, t)
<1> DEFINE d == After(v.drone, c)
           w == Serve(v, c)
           r == Replies(d, c)
           A == Len(v.applied)
           K == Len(v.asked)
           L == Len(v.out)
           a == v.asked
           b == w.asked
           o == v.out
           e == w.out
<1>1. /\ v.drone \in Drone /\ o \in Seq(Reply) /\ v.applied \in Seq(Done) /\ a \in Seq(Nat)
      /\ A \in Nat /\ L \in Nat /\ K \in Nat
  BY ServeStageParts
<1>2. /\ w.drone = d /\ e = o \o r /\ w.applied = Append(v.applied, [command |-> c, after |-> d])
      /\ b = Append(a, A + 1)
  BY ServeIs
<1>3. w \in ServeStage
  BY ServeType
<1>4. d \in Drone /\ d.txSeq = v.drone.txSeq + 3
  BY <1>1, AfterType
<1>5. r \in Seq(Reply) /\ Len(r) = 3
  <2>1. Answers(r, d.txSeq - 3)
    BY <1>4, RepliesAre
  <2> QED
    BY <2>1, Zenon DEF Answers, Reply
<1>6. /\ v.drone.txSeq = t + 3 * A /\ h + L = 3 * K
      /\ Waiting(o, a, h, v.applied) /\ Ordered(a, A) /\ Recorded(v.applied, t)
  BY Zenon DEF Numbering
<1> DEFINE x == [command |-> c, after |-> d]
           z == w.applied
<1>7. /\ Len(z) = A + 1 /\ z[A + 1] = x
      /\ \A n \in 1..A : z[n] = v.applied[n]
  <2> DEFINE q == v.applied
  <2>1. x \in Done
    <3>1. d \in Drone
      BY <1>4
    <3> HIDE DEF d
    <3> QED
      BY <3>1 DEF Done
  <2>2. q \in Seq(Done) /\ z = Append(q, x)
    BY <1>1, <1>2
  <2> HIDE DEF x, z, q
  <2>3. /\ Len(Append(q, x)) = Len(q) + 1 /\ Append(q, x)[Len(q) + 1] = x
        /\ \A n \in 1..Len(q) : Append(q, x)[n] = q[n]
    BY <2>1, <2>2
  <2> QED
    BY <2>2, <2>3, Zenon DEF q
<1> DEFINE y == d.txSeq
<1>8. y - 3 = t + 3 * A /\ w.drone.txSeq = t + 3 * (A + 1)
  <2>1. y = (t + 3 * A) + 3 /\ w.drone.txSeq = y
    BY <1>2, <1>4, <1>6, Zenon
  <2> HIDE DEF y, A
  <2> QED
    BY <1>1, <2>1
<1>9. Ordered(b, A + 1)
  BY <1>1, <1>2, <1>6, OrderedMore
<1>10. Record(x, t + 3 * (A + 1)) /\ \A i : Answer(x, i) = r[i]
  <2>1. x.command = c /\ x.after = d
    OBVIOUS
  <2>2. d.txSeq = t + 3 * (A + 1)
    BY <1>2, <1>8, Zenon
  <2> HIDE DEF x
  <2> QED
    BY <1>1, <2>1, <2>2, Zenon DEF Record, Answer
<1> HIDE DEF r, d, w, A, K, L, y, x, z
<1>11. Len(b) = K + 1 /\ b[K + 1] = A + 1 /\ \A k \in 1..K : b[k] = a[k]
  <2>1. a \in Seq(Nat) /\ A + 1 \in Nat /\ b = Append(a, A + 1)
    BY <1>1, <1>2
  <2> HIDE DEF a, b
  <2> QED
    BY <2>1 DEF K, a
<1>12. /\ Len(e) = L + 3 /\ \A i \in 1..L : e[i] = o[i]
       /\ \A j \in 1..3 : e[L + j] = r[j]
  <2>1. o \in Seq(Reply) /\ r \in Seq(Reply) /\ e = o \o r /\ L = Len(o)
    BY <1>1, <1>2, <1>5 DEF L
  <2> HIDE DEF o, e
  <2>2. /\ Len(o \o r) = Len(o) + Len(r)
        /\ \A i \in 1..Len(o) : (o \o r)[i] = o[i]
        /\ \A i \in 1..Len(r) : (o \o r)[Len(o) + i] = r[i]
    BY <2>1, Joining
  <2> QED
    BY <1>5, <2>1, <2>2, Zenon
<1> HIDE DEF a, b, o, e
<1>12a. \A k \in 1..K : a[k] \in 1..A /\ b[k] = a[k]
  <2>1. \A k \in 1..Len(a) : a[k] \in 1..A
    BY <1>6, Zenon DEF Ordered
  <2> QED
    BY <1>11, <2>1, Zenon DEF K, a
<1>13. Waiting(e, b, h, z)
  <2> SUFFICES ASSUME NEW k \in 1..(K + 1), NEW j \in 1..3, Place(k, j) > h
               PROVE  e[Place(k, j) - h] = Answer(z[b[k]], j)
    BY <1>11, Zenon DEF Waiting
  <2>1. CASE k \in 1..K
    <3>1. Place(k, j) - h \in 1..L
      BY <1>1, <1>6, <2>1 DEF Place
    <3>2. o[Place(k, j) - h] = Answer(v.applied[a[k]], j)
      <4>1. k \in 1..Len(a)
        BY <2>1 DEF K, a
      <4> QED
        BY <1>6, <4>1, Zenon DEF Waiting
    <3>3. z[b[k]] = v.applied[a[k]]
      BY <1>7, <1>12a, <2>1, Zenon
    <3> QED
      BY <1>12, <3>1, <3>2, <3>3, Zenon
  <2>2. CASE k \notin 1..K
    <3>1. k = K + 1
      BY <1>1, <2>2
    <3>2. Place(k, j) - h = L + j
      BY <1>1, <1>6, <3>1 DEF Place
    <3>3. e[Place(k, j) - h] = r[j] /\ b[k] = A + 1
      BY <1>11, <1>12, <3>1, <3>2, Zenon
    <3> QED
      BY <1>7, <1>10, <3>3, Zenon
  <2> QED
    BY <2>1, <2>2
<1>14. h + Len(e) = 3 * Len(b)
  BY <1>1, <1>6, <1>11, <1>12
<1>14a. Recorded(z, t)
  <2> SUFFICES ASSUME NEW n \in 1..(A + 1) PROVE Record(z[n], t + 3 * n)
    BY <1>7, Zenon DEF Recorded
  <2>1. CASE n \in 1..A
    BY <1>6, <1>7, <2>1, Zenon DEF Recorded, A
  <2>2. CASE n \notin 1..A
    <3>1. n = A + 1
      BY <1>1, <2>2
    <3> QED
      BY <1>7, <1>10, <3>1, Zenon
  <2> QED
    BY <2>1, <2>2
<1>15. Numbering(w, h, t)
  <2>1. w.drone.txSeq = t + 3 * Len(w.applied) /\ Ordered(b, Len(w.applied))
    BY <1>7, <1>8, <1>9, Zenon DEF z
  <2> QED
    BY <1>13, <1>14, <1>14a, <2>1, Zenon DEF Numbering, b, e, z
<1> QED
  BY <1>15 DEF w

\* An asked sequence that goes on from another.
GoesOn(b, a) == Len(a) <= Len(b) /\ \A k \in 1..Len(a) : b[k] = a[k]

LEMMA ServedNumbers ==
  ASSUME NEW s, NEW commands \in Seq(Commands), Before(s) \in ServeStage,
         NEW h \in Nat, NEW t \in Int, Numbering(Before(s), h, t)
  PROVE  /\ Numbering(Served(s, commands), h, t)
         /\ GoesOn(Served(s, commands).asked, asked[s])
<1> DEFINE N == Len(commands)
           P(v) == v \in ServeStage /\ Numbering(v, h, t) /\ GoesOn(v.asked, asked[s])
<1>1. PICK g : ServeLoop(g, Before(s), commands) /\ Served(s, commands) = g[N]
  BY ServedDef
<1>2. N \in Nat /\ N \in 0..N /\ \A n \in 1..N : commands[n] \in Commands
  OBVIOUS
<1>3. g[0] = Before(s) /\ \A n \in 1..N : g[n] = Serve(g[n - 1], commands[n])
  BY <1>1, Zenon DEF ServeLoop
<1>4. P(g[0])
  <2>1. Before(s).asked = asked[s]
    BY DEF Before
  <2>2. Len(Before(s).asked) \in Nat
    BY ServeStageParts
  <2>3. GoesOn(asked[s], asked[s])
    <3>1. \A x \in Nat : x <= x
      OBVIOUS
    <3> QED
      BY <2>1, <2>2, <3>1, Zenon DEF GoesOn
  <2> QED
    BY <1>3, <2>1, <2>3, Zenon
<1>5. ASSUME NEW n \in 1..N, P(g[n - 1]) PROVE P(g[n])
  <2> DEFINE v == g[n - 1]
             c == commands[n]
             w == Serve(v, c)
  <2>1. v \in ServeStage /\ Numbering(v, h, t) /\ GoesOn(v.asked, asked[s]) /\ c \in Commands
    BY <1>2, <1>5
  <2> HIDE DEF v, c
  <2>2. w \in ServeStage /\ Numbering(w, h, t)
    BY <2>1, ServeType, NumberingMore
  <2>3. w.asked = Append(v.asked, Len(v.applied) + 1)
    BY <2>1, ServeIs
  <2>4. GoesOn(w.asked, asked[s])
    <3> DEFINE a == v.asked
               b == w.asked
               x == Len(v.applied) + 1
               z == asked[s]
    <3>1. a \in Seq(Nat) /\ x \in Nat /\ b = Append(a, x)
      <4>1. a \in Seq(Nat) /\ Len(v.applied) \in Nat
        BY <2>1, ServeStageParts
      <4> QED
        BY <2>3, <4>1
    <3>2. Len(z) <= Len(a) /\ \A k \in 1..Len(z) : a[k] = z[k]
      BY <2>1, Zenon DEF GoesOn
    <3>3. Len(z) \in Nat
      <4>1. Before(s).asked = asked[s]
        BY DEF Before
      <4>2. Len(Before(s).asked) \in Nat
        BY ServeStageParts
      <4> QED
        BY <4>1, <4>2
    <3> HIDE DEF a, b, x, z
    <3>4. Len(b) = Len(a) + 1 /\ Len(a) \in Nat /\ \A k \in 1..Len(a) : b[k] = a[k]
      BY <3>1
    <3>5. Len(z) <= Len(b) /\ \A k \in 1..Len(z) : k \in 1..Len(a)
      BY <3>2, <3>3, <3>4
    <3> QED
      BY <3>2, <3>4, <3>5, Zenon DEF GoesOn, b, z
  <2> QED
    BY <1>3, <2>2, <2>4, Zenon DEF v, c
<1> HIDE DEF P
<1> DEFINE S == {n \in Nat : n <= N => P(g[n])}
<1>6. 0 \in S
  BY <1>4
<1>7. ASSUME NEW n \in Nat, n \in S PROVE n + 1 \in S
  <2> SUFFICES ASSUME n + 1 <= N PROVE P(g[n + 1])
    OBVIOUS
  <2>1. PICK k \in 1..N : k = n + 1
    BY <1>2
  <2>2. P(g[n]) /\ n = k - 1
    BY <1>2, <1>7, <2>1
  <2>3. P(g[k])
    BY <1>5, <2>2
  <2> QED
    BY <2>1, <2>3
<1>8. P(g[N])
  <2>1. Nat \subseteq S
    <3> HIDE DEF S
    <3> QED
      BY <1>6, <1>7, Induct
  <2> QED
    BY <1>2, <2>1
<1> QED
  BY <1>1, <1>8, Zenon DEF P

-----------------------------------------------------------------------------
(* The inductive invariant.  The parser keeps what a parser of all bytes    *)
(* fed so far would keep, the commands done are those found in all of them,  *)
(* each with the number that the order gives it, and the replies heard and   *)
(* on their way are the answers to them.                                     *)

Hearing == {Described(r) : r \in Reply}

\* What was sent is a beginning of the script.
Sending(s) == script[s] \in Seq(Message) /\ sent[s] \in Seq(Nat) /\ Len(sent[s]) <= Len(script[s])

FlightTypes ==
  /\ tidy \in BOOLEAN /\ DOMAIN sent = Station
  /\ drone \in Drone /\ applied \in Seq(Done) /\ fed \in Seq(Byte)
  /\ inbox \in [Station -> Seq(Reply)] /\ asked \in [Station -> Seq(Nat)]
  /\ heard \in [Station -> Seq(Hearing)]
  /\ \A s \in Station : Sending(s)

\* The parser keeps what a parser of all bytes would keep, and the drone has done
\* what they ask for.
Parsing == parser = Push(fed).rest /\ DoneCommands(applied) = CommandsIn(Push(fed).frames)

\* What the drone's number would be before the first command that was done.
Counted == drone.txSeq - 3 * Len(applied)

\* Every reply that was heard is the drone's answer to what it did.
HeardAs(hs, a, done) ==
  \A k \in 1..Len(a), j \in 1..3 :
    Place(k, j) <= Len(hs) => hs[Place(k, j)] = Described(Answer(done[a[k]], j))

Numbered(s) ==
  /\ Numbering(Before(s), Len(heard[s]), Counted)
  /\ HeardAs(heard[s], asked[s], applied)
FlightInv == FlightTypes /\ Parsing /\ \A s \in Station : Numbered(s)

LEMMA BeforeType ==
  ASSUME FlightTypes, NEW s \in Station
  PROVE  /\ Before(s) \in ServeStage /\ Before(s).drone = drone /\ Before(s).out = inbox[s]
         /\ Before(s).applied = applied /\ Before(s).asked = asked[s]
<1>1. drone \in Drone /\ inbox[s] \in Seq(Reply) /\ applied \in Seq(Done) /\ asked[s] \in Seq(Nat)
  BY DEF FlightTypes
<1> QED
  BY <1>1 DEF Before, ServeStage

LEMMA CountedType ==
  ASSUME FlightTypes
  PROVE  Counted \in Int /\ drone.txSeq \in Nat /\ Len(applied) \in Nat
<1>1. drone \in Drone /\ applied \in Seq(Done)
  BY DEF FlightTypes
<1>2. drone.txSeq \in Nat
  BY <1>1 DEF Drone
<1>3. Len(applied) \in Nat
  BY <1>1
<1> QED
  BY <1>2, <1>3 DEF Counted

LEMMA FlightStarts ==
  ASSUME ScriptAssumption, Init
  PROVE  FlightInv
<1>1. /\ sent = [s \in Station |-> <<>>] /\ parser = <<>> /\ drone \in {Fresh, Seasoned}
      /\ inbox = [s \in Station |-> <<>>] /\ heard = [s \in Station |-> <<>>]
      /\ fed = <<>> /\ applied = <<>> /\ asked = [s \in Station |-> <<>>]
  BY DEF Init
<1>2. tidy \in BOOLEAN
  <2>1. tidy = \A s \in Station : \A i \in DOMAIN script[s] : script[s][i].whole
    BY DEF Init
  <2>2. (\A s \in Station : \A i \in DOMAIN script[s] : script[s][i].whole) \in BOOLEAN
    BY Zenon
  <2> QED
    BY <2>1, <2>2, Zenon
<1>3. ASSUME NEW s \in Station PROVE Sending(s)
  <2>1. script[s] \in Scripts[s]
    BY <1>3 DEF Init
  <2>2. script[s] \in Seq(Message)
    BY <2>1, Zenon DEF ScriptAssumption
  <2>3. sent[s] = <<>>
    BY <1>1, <1>3
  <2> HIDE DEF Message
  <2> DEFINE x == script[s]
  <2>4. x \in Seq(Message)
    BY <2>2
  <2> HIDE DEF x
  <2>5. Len(x) \in Nat
    BY <2>4
  <2>6. <<>> \in Seq(Nat) /\ Len(<<>>) <= Len(x)
    BY <2>5
  <2> QED
    BY <2>2, <2>3, <2>6, Zenon DEF Sending, x
<1>4. drone \in Drone
  BY <1>1, FreshType
<1>5. FlightTypes
  <2>1. DOMAIN sent = Station /\ applied \in Seq(Done) /\ fed \in Seq(Byte)
    BY <1>1
  <2>2. inbox \in [Station -> Seq(Reply)]
    BY <1>1
  <2>3. asked \in [Station -> Seq(Nat)]
    BY <1>1
  <2>4. heard \in [Station -> Seq(Hearing)]
    BY <1>1
  <2> QED
    BY <1>2, <1>3, <1>4, <2>1, <2>2, <2>3, <2>4, Zenon DEF FlightTypes
<1>6. Parsing
  <2>1. Push(fed).frames = <<>> /\ Push(fed).rest = <<>>
    <3>1. fed \in Seq(Byte) /\ fed = <<>>
      BY <1>1
    <3> QED
      BY <3>1, PushNothing
  <2>2. DoneCommands(applied) = <<>>
    BY <1>1 DEF DoneCommands
  <2>3. CommandsIn(<<>>) = <<>>
    <3>1. <<>> \in Seq(Parsed)
      OBVIOUS
    <3>2. PICK g : CommandLoop(g, <<>>) /\ CommandsIn(<<>>) = g[Len(<<>>)]
      BY <3>1, CommandsInDef
    <3>3. Len(<<>>) = 0
      OBVIOUS
    <3>4. g[0] = <<>>
      BY <3>2, Zenon DEF CommandLoop
    <3> QED
      BY <3>2, <3>3, <3>4, Zenon
  <2> QED
    BY <1>1, <2>1, <2>2, <2>3, Zenon DEF Parsing
<1>7. ASSUME NEW s \in Station PROVE Numbered(s)
  <2>1. inbox[s] = <<>> /\ heard[s] = <<>> /\ asked[s] = <<>> /\ applied = <<>>
    BY <1>1, <1>7
  <2>2. /\ Before(s).drone = drone /\ Before(s).out = <<>> /\ Before(s).applied = <<>>
        /\ Before(s).asked = <<>>
    BY <1>5, <2>1, BeforeType
  <2>3. Len(<<>>) = 0 /\ 0 + 0 = 3 * 0 /\ \A k \in 1..0 : FALSE
    OBVIOUS
  <2>4. drone.txSeq = Counted + 3 * 0 /\ Len(applied) = 0
    BY <1>5, <2>1, CountedType DEF Counted
  <2>5. /\ Waiting(<<>>, <<>>, 0, <<>>) /\ Ordered(<<>>, 0) /\ HeardAs(<<>>, <<>>, <<>>)
        /\ Recorded(<<>>, Counted)
    BY <2>3, Zenon DEF Waiting, Ordered, HeardAs, Recorded
  <2> QED
    BY <2>1, <2>2, <2>3, <2>4, <2>5, Zenon DEF Numbered, Numbering
<1> QED
  BY <1>5, <1>6, <1>7, Zenon DEF FlightInv

\* The next piece is bytes, and is what Piece says is sent of the script.
LEMMA PieceType ==
  ASSUME FlightTypes, NEW s \in Station, HasNext(s)
  PROVE  /\ Piece(s).bytes \in Seq(Byte) /\ Piece(s).sent \in Seq(Nat)
         /\ Len(Piece(s).sent) <= Len(script[s])
<1> DEFINE x == script[s]
           y == sent[s]
           k == Len(y)
<1>1. x \in Seq(Message) /\ y \in Seq(Nat) /\ k <= Len(x)
  BY DEF FlightTypes, Sending
<1> HIDE DEF x, y
<1>2. ASSUME NEW i \in 1..Len(x)
      PROVE  /\ x[i].payloads \in Seq(Seq(Byte)) /\ x[i].payloads # <<>>
             /\ \A n \in 1..Len(x[i].payloads) : x[i].payloads[n] \in Seq(Byte)
             /\ Len(x[i].payloads) \in Nat /\ Len(x[i].payloads) >= 1
  <2>1. x[i] \in Message
    <3> HIDE DEF Message
    <3> QED
      BY <1>1
  <2> DEFINE B == Seq(Byte)
             p == x[i].payloads
  <2>2. p \in Seq(B) /\ p # <<>>
    BY <2>1 DEF Message
  <2> HIDE DEF B, p
  <2>3. Len(p) \in Nat /\ Len(p) >= 1 /\ \A n \in 1..Len(p) : p[n] \in B
    BY <2>2
  <2> QED
    BY <2>2, <2>3, Zenon DEF B, p
<1>3. k \in Nat /\ Len(x) \in Nat
  <2> HIDE DEF Message
  <2> QED
    BY <1>1
<1>4. CASE More(s)
  <2>1. y # <<>> /\ Last(y) < Len(x[k].payloads)
    BY <1>4, Zenon DEF More, x, y
  <2>2. Last(y) = y[k]
    BY Zenon DEF Last
  <2>3. k \in 1..Len(x) /\ k \in 1..Len(y) /\ y[k] \in Nat
    <3>1. k >= 1
      BY <1>1, <2>1
    <3>2. k \in 1..Len(y) /\ k \in 1..Len(x)
      BY <1>1, <1>3, <3>1
    <3> QED
      BY <1>1, <3>2
  <2>4. y[k] + 1 \in 1..Len(x[k].payloads)
    <3> DEFINE m == Len(x[k].payloads)
    <3>1. m \in Nat /\ y[k] < m
      BY <1>2, <2>1, <2>2, <2>3, Zenon
    <3> HIDE DEF m
    <3> QED
      BY <2>3, <3>1 DEF m
  <2>5. Piece(s) = [sent |-> [y EXCEPT ![k] = y[k] + 1], bytes |-> x[k].payloads[y[k] + 1]]
    BY <1>4, <2>2, Zenon DEF Piece, x, y
  <2>6. x[k].payloads[y[k] + 1] \in Seq(Byte)
    BY <1>2, <2>3, <2>4, Zenon
  <2>7. [y EXCEPT ![k] = y[k] + 1] \in Seq(Nat) /\ Len([y EXCEPT ![k] = y[k] + 1]) = k
    BY <1>1, <2>3
  <2> DEFINE b == x[k].payloads[y[k] + 1]
             z == [y EXCEPT ![k] = y[k] + 1]
  <2>8. Piece(s) = [sent |-> z, bytes |-> b] /\ z \in Seq(Nat) /\ Len(z) = k /\ b \in Seq(Byte)
    BY <2>5, <2>6, <2>7, Zenon
  <2> HIDE DEF b, z
  <2>9. Piece(s).sent = z /\ Piece(s).bytes = b
    BY <2>8
  <2> QED
    BY <1>1, <2>8, <2>9, Zenon DEF x
<1>5. CASE ~More(s)
  <2>1. k < Len(x)
    BY <1>5, Zenon DEF HasNext, x, y
  <2>2. k + 1 \in 1..Len(x)
    BY <1>3, <2>1
  <2> DEFINE b == x[k + 1].payloads[1]
             z == Append(y, 1)
  <2>3. Piece(s) = [sent |-> z, bytes |-> b]
    BY <1>5, Zenon DEF Piece, x, y
  <2>4. b \in Seq(Byte)
    <3> DEFINE i == k + 1
               m == Len(x[i].payloads)
    <3>1. i \in 1..Len(x)
      BY <2>2
    <3> HIDE DEF i
    <3>2. m \in Nat /\ m >= 1 /\ \A n \in 1..m : x[i].payloads[n] \in Seq(Byte)
      BY <1>2, <3>1, Zenon
    <3> HIDE DEF m
    <3>3. 1 \in 1..m
      BY <3>2
    <3>4. x[i].payloads[1] \in Seq(Byte)
      BY <3>2, <3>3, Zenon
    <3> QED
      BY <3>4, Zenon DEF i
  <2>5. z \in Seq(Nat) /\ Len(z) = k + 1
    BY <1>1
  <2> HIDE DEF b, z
  <2>6. Piece(s).sent = z /\ Piece(s).bytes = b
    BY <2>3
  <2>7. Len(z) <= Len(x)
    BY <1>3, <2>1, <2>5
  <2> QED
    BY <2>4, <2>5, <2>6, <2>7, Zenon DEF x
<1> QED
  BY <1>4, <1>5

\* What a station's piece brings about.
LEMMA FeedKeeps ==
  ASSUME FlightInv, NEW s \in Station, Feed(s)
  PROVE  FlightInv'
<1> DEFINE p == Piece(s)
           x == p.bytes
           fr == Push(parser \o x).frames
           cs == CommandsIn(fr)
           v == Served(s, cs)
           t == Counted
<1>1. FlightTypes /\ Parsing /\ \A r \in Station : Numbered(r)
  BY Zenon DEF FlightInv
<1>2. HasNext(s) /\ sent' = [sent EXCEPT ![s] = p.sent] /\ Ingest(s, x)
      /\ script' = script /\ tidy' = tidy /\ heard' = heard
  BY DEF Feed
<1>3. /\ parser' = Push(parser \o x).rest /\ fed' = fed \o x
      /\ drone' = v.drone /\ inbox' = [inbox EXCEPT ![s] = v.out]
      /\ applied' = v.applied /\ asked' = [asked EXCEPT ![s] = v.asked]
  BY <1>2, Zenon DEF Ingest, Keep
<1>4. x \in Seq(Byte) /\ p.sent \in Seq(Nat) /\ Len(p.sent) <= Len(script[s])
  BY <1>1, <1>2, PieceType, Zenon
<1>5. fed \in Seq(Byte) /\ parser \in Seq(Byte) /\ parser = Push(fed).rest
  <2>1. fed \in Seq(Byte)
    BY <1>1, Zenon DEF FlightTypes
  <2>2. parser = Push(fed).rest
    BY <1>1, Zenon DEF Parsing
  <2> QED
    BY <2>1, <2>2, PushKeeps
<1> HIDE DEF p, x
<1>6. fr \in Seq(Parsed)
  <2>1. parser \o x \in Seq(Byte)
    BY <1>4, <1>5
  <2> QED
    BY <2>1, PushKeeps
<1> HIDE DEF fr
<1>7. cs \in Seq(Commands)
  BY <1>6, CommandsInType
<1> HIDE DEF cs
<1>8. /\ Before(s) \in ServeStage /\ Before(s).drone = drone /\ Before(s).out = inbox[s]
      /\ Before(s).applied = applied /\ Before(s).asked = asked[s]
  BY <1>1, BeforeType
<1>9. v \in ServeStage /\ DoneMore(v.applied, applied, cs)
  BY <1>7, <1>8, ServedApplies
<1>10. Numbering(Before(s), Len(heard[s]), t) /\ HeardAs(heard[s], asked[s], applied)
  BY <1>1, Zenon DEF Numbered
<1>11. /\ inbox \in [Station -> Seq(Reply)] /\ asked \in [Station -> Seq(Nat)]
       /\ heard \in [Station -> Seq(Hearing)] /\ DOMAIN sent = Station
       /\ \A r \in Station : Sending(r)
  BY <1>1, Zenon DEF FlightTypes
<1>12. t \in Int /\ \A r \in Station : Len(heard[r]) \in Nat
  <2>1. t \in Int
    BY <1>1, CountedType
  <2>2. ASSUME NEW r \in Station PROVE Len(heard[r]) \in Nat
    <3>1. heard[r] \in Seq(Hearing)
      BY <1>11
    <3> QED
      BY <3>1
  <2> QED
    BY <2>1, <2>2
<1>13. Numbering(v, Len(heard[s]), t) /\ GoesOn(v.asked, asked[s])
  BY <1>7, <1>8, <1>10, <1>12, ServedNumbers
<1>14. /\ v.drone \in Drone /\ v.out \in Seq(Reply) /\ v.applied \in Seq(Done)
       /\ v.asked \in Seq(Nat) /\ Len(v.applied) \in Nat
  BY <1>9, ServeStageParts
<1>14a. /\ Len(applied) <= Len(v.applied) /\ Len(applied) \in Nat
        /\ \A n \in 1..Len(applied) : n \in 1..Len(v.applied) /\ v.applied[n] = applied[n]
  <2>1. applied \in Seq(Done)
    BY <1>1, Zenon DEF FlightTypes
  <2>2. Applying(v, applied, cs, Len(cs))
    BY <1>7, <1>8, ServedApplies
  <2> HIDE DEF v
  <2>3. /\ Len(v.applied) = Len(applied) + Len(cs)
        /\ \A n \in 1..Len(applied) : v.applied[n] = applied[n]
    BY <2>2, Zenon DEF Applying
  <2>4. Len(applied) \in Nat /\ Len(cs) \in Nat
    BY <1>7, <2>1
  <2>5. Len(applied) <= Len(v.applied) /\ \A n \in 1..Len(applied) : n \in 1..Len(v.applied)
    BY <1>14, <2>3, <2>4
  <2> QED
    BY <2>3, <2>4, <2>5, Zenon
<1>14b. \A r \in Station : \A k \in 1..Len(asked[r]) :
          v.applied[asked[r][k]] = applied[asked[r][k]]
  <2>1. ASSUME NEW r \in Station PROVE Ordered(asked[r], Len(applied))
    <3>1. Numbering(Before(r), Len(heard[r]), t)
      BY <1>1, Zenon DEF Numbered
    <3>2. Before(r).applied = applied /\ Before(r).asked = asked[r]
      BY <1>1, BeforeType
    <3> QED
      BY <3>1, <3>2, Zenon DEF Numbering
  <2> HIDE DEF v
  <2> QED
    BY <1>14a, <2>1, Zenon DEF Ordered
<1> HIDE DEF v
<1>15. fed \o x \in Seq(Byte)
  BY <1>4, <1>5
<1>16. FlightTypes'
  <2>1. tidy' \in BOOLEAN /\ DOMAIN sent' = Station
    BY <1>1, <1>2, <1>11 DEF FlightTypes
  <2>2. drone' \in Drone /\ applied' \in Seq(Done) /\ fed' \in Seq(Byte)
    BY <1>3, <1>14, <1>15
  <2>3. inbox' \in [Station -> Seq(Reply)]
    BY <1>3, <1>11, <1>14
  <2>4. asked' \in [Station -> Seq(Nat)]
    BY <1>3, <1>11, <1>14
  <2>5. heard' \in [Station -> Seq(Hearing)]
    BY <1>2, <1>11
  <2>6. ASSUME NEW r \in Station PROVE Sending(r)'
    <3>1. script[r] \in Seq(Message) /\ sent[r] \in Seq(Nat) /\ Len(sent[r]) <= Len(script[r])
      BY <1>11, Zenon DEF Sending
    <3>2. CASE r = s
      <4>1. sent'[s] = p.sent
        BY <1>2, <1>11
      <4> QED
        BY <1>2, <1>4, <3>1, <3>2, <4>1, Zenon DEF Sending
    <3>3. CASE r # s
      <4>1. sent'[r] = sent[r]
        BY <1>2, <1>11, <3>3
      <4> QED
        BY <1>2, <3>1, <4>1, Zenon DEF Sending
    <3> QED
      BY <3>2, <3>3
  <2> QED
    BY <2>1, <2>2, <2>3, <2>4, <2>5, <2>6, Zenon DEF FlightTypes
<1>17. Parsing'
  <2>1. Joined(fed, x)
    BY <1>4, <1>5, PushJoin
  <2>2. /\ Push(fed \o x).frames = Push(fed).frames \o fr
        /\ Push(fed \o x).rest = Push(parser \o x).rest
    BY <1>5, <2>1, Zenon DEF Joined, fr
  <2>3. Push(fed).frames \in Seq(Parsed)
    BY <1>5, PushKeeps
  <2> DEFINE q == Push(fed).frames
  <2>4. CommandsJoined(q, fr)
    <3> HIDE DEF q
    <3>1. q \in Seq(Parsed)
      BY <2>3 DEF q
    <3> QED
      BY <1>6, <3>1, CommandsInJoin
  <2>5. CommandsIn(q \o fr) = CommandsIn(q) \o cs
    BY <2>4, Zenon DEF CommandsJoined, cs
  <2>6. DoneCommands(applied) = CommandsIn(q)
    BY <1>1, Zenon DEF Parsing
  <2>7. DoneCommands(v.applied) = DoneCommands(applied) \o cs
    BY <1>9, Zenon DEF DoneMore
  <2>8. DoneCommands(applied') = CommandsIn(Push(fed').frames)
    BY <1>3, <2>2, <2>5, <2>6, <2>7, Zenon
  <2>9. parser' = Push(fed').rest
    BY <1>3, <2>2, Zenon
  <2> QED
    BY <2>8, <2>9, Zenon DEF Parsing
<1>18. Counted' = t
  <2>1. v.drone.txSeq = t + 3 * Len(v.applied)
    BY <1>13, Zenon DEF Numbering
  <2>2. Counted' = v.drone.txSeq - 3 * Len(v.applied)
    BY <1>3, Zenon DEF Counted
  <2> HIDE DEF t
  <2> QED
    BY <1>12, <1>14, <2>1, <2>2
<1>19. ASSUME NEW r \in Station PROVE Numbered(r)'
  <2>1. /\ Before(r)'.drone = drone' /\ Before(r)'.out = inbox'[r]
        /\ Before(r)'.applied = applied' /\ Before(r)'.asked = asked'[r]
    BY DEF Before
  <2>2. heard'[r] = heard[r]
    BY <1>2
  <2>3. CASE r = s
    <3>1. inbox'[s] = v.out /\ asked'[s] = v.asked
      BY <1>3, <1>11
    <3>2. Numbering(Before(s)', Len(heard[s]), t)
      BY <1>3, <1>13, <2>1, <2>3, <3>1, Zenon DEF Numbering
    <3>3. HeardAs(heard[s], v.asked, v.applied)
      <4> DEFINE h == heard[s]
                 a == asked[s]
                 b == v.asked
      <4>2. \A k \in 1..Len(a), j \in 1..3 :
              Place(k, j) <= Len(h) => h[Place(k, j)] = Described(Answer(applied[a[k]], j))
        BY <1>10, Zenon DEF HeardAs
      <4>3. Len(h) + Len(inbox[s]) = 3 * Len(a)
        BY <1>8, <1>10, Zenon DEF Numbering
      <4>4. Len(h) \in Nat /\ Len(inbox[s]) \in Nat /\ Len(a) \in Nat
        <5>1. inbox[s] \in Seq(Reply) /\ asked[s] \in Seq(Nat)
          BY <1>11
        <5> QED
          BY <1>12, <5>1
      <4>5. Len(a) <= Len(b) /\ \A k \in 1..Len(a) : b[k] = a[k]
        BY <1>13, Zenon DEF GoesOn
      <4>6. ASSUME NEW k \in 1..Len(b), NEW j \in 1..3, Place(k, j) <= Len(h)
            PROVE  k \in 1..Len(a)
        <5> DEFINE H == Len(h)
                   m == Len(a)
                   n == Len(inbox[s])
        <5>0. H + n = 3 * m /\ H \in Nat /\ n \in Nat /\ m \in Nat
          BY <4>3, <4>4, Zenon
        <5>1. H \in Nat /\ m \in Nat /\ H <= 3 * m
          <6> HIDE DEF H, m, n
          <6> QED
            BY <5>0
        <5>2. k \in Nat /\ k >= 1 /\ Place(k, j) <= H
          BY <4>6
        <5> HIDE DEF h, a, b, H, m
        <5>3. k <= m
          BY <5>1, <5>2 DEF Place
        <5>4. k \in 1..m
          BY <5>1, <5>2, <5>3
        <5> QED
          BY <5>4 DEF m
      <4>6a. \A k \in 1..Len(a) : v.applied[a[k]] = applied[a[k]]
        BY <1>14b, Zenon
      <4> HIDE DEF h, a, b
      <4>7. ASSUME NEW k \in 1..Len(b), NEW j \in 1..3, Place(k, j) <= Len(h)
            PROVE  h[Place(k, j)] = Described(Answer(v.applied[b[k]], j))
        <5>1. k \in 1..Len(a)
          BY <4>6, <4>7
        <5>2. h[Place(k, j)] = Described(Answer(applied[a[k]], j))
          BY <4>2, <4>7, <5>1, Zenon
        <5>3. b[k] = a[k] /\ v.applied[a[k]] = applied[a[k]]
          BY <4>5, <4>6a, <5>1, Zenon
        <5> QED
          BY <5>2, <5>3, Zenon
      <4>8. HeardAs(h, b, v.applied)
        BY <4>7, Zenon DEF HeardAs
      <4> QED
        BY <4>8 DEF h, b
    <3> QED
      BY <1>3, <1>18, <2>2, <2>3, <3>1, <3>2, <3>3, Zenon DEF Numbered
  <2>4. CASE r # s
    <3>1. inbox'[r] = inbox[r] /\ asked'[r] = asked[r]
      BY <1>3, <1>11, <2>4
    <3>2. /\ Before(r).out = inbox[r] /\ Before(r).applied = applied /\ Before(r).asked = asked[r]
      BY <1>1, BeforeType
    <3>3. /\ Numbering(Before(r), Len(heard[r]), t) /\ HeardAs(heard[r], asked[r], applied)
      BY <1>1, Zenon DEF Numbered
    <3>4. /\ Len(heard[r]) + Len(inbox[r]) = 3 * Len(asked[r])
          /\ Waiting(inbox[r], asked[r], Len(heard[r]), applied) /\ Ordered(asked[r], Len(applied))
      BY <3>2, <3>3, Zenon DEF Numbering
    <3>5. /\ Ordered(asked[r], Len(v.applied))
          /\ Waiting(inbox[r], asked[r], Len(heard[r]), v.applied)
          /\ HeardAs(heard[r], asked[r], v.applied)
      <4>1. Ordered(asked[r], Len(v.applied))
        BY <1>14a, <3>4, Zenon DEF Ordered
      <4>2. Waiting(inbox[r], asked[r], Len(heard[r]), v.applied)
        BY <1>14b, <3>4, Zenon DEF Waiting
      <4>3. HeardAs(heard[r], asked[r], v.applied)
        BY <1>14b, <3>3, Zenon DEF HeardAs
      <4> QED
        BY <4>1, <4>2, <4>3
    <3>6. v.drone.txSeq = t + 3 * Len(v.applied) /\ Recorded(v.applied, t)
      BY <1>13, Zenon DEF Numbering
    <3>7. Numbering(Before(r)', Len(heard[r]), t)
      BY <1>3, <2>1, <3>1, <3>4, <3>5, <3>6, Zenon DEF Numbering
    <3> QED
      BY <1>3, <1>18, <2>2, <3>1, <3>5, <3>7, Zenon DEF Numbered
  <2> QED
    BY <2>3, <2>4
<1> QED
  BY <1>16, <1>17, <1>19, Zenon DEF FlightInv

\* The number of a reply, as it is heard.
LEMMA HeardNumber ==
  ASSUME NEW x \in Done, NEW j \in 1..3
  PROVE  Described(Answer(x, j)).frames[1].seq = (x.after.txSeq - 4 + j) % 256
<1> DEFINE e == Answer(x, j)
           n == x.after.txSeq - 4 + j
           fs == Push(e).frames
           ms == DecodeAll(e)
           d == Decoded(e)
<1>1. Alone(e, n)
  BY AnswerAlone
<1> HIDE DEF e, n
<1>2. fs = <<d>> /\ d.seq = n % 256
  BY <1>1, PushAlone
<1>3. Described(e) = [frames |-> fs, says |-> ms]
  BY Zenon DEF Described
<1> HIDE DEF fs, ms, d
<1>4. Described(e).frames = fs /\ fs[1] = d
  BY <1>2, <1>3
<1> QED
  BY <1>2, <1>4, Zenon DEF e, n

\* The number after y, modulo 256, is one more.
LEMMA NextNumber ==
  \A y \in Int : (((y + 1) % 256) - (y % 256)) % 256 = 1
<1> SUFFICES ASSUME NEW y \in Int PROVE (((y + 1) % 256) - (y % 256)) % 256 = 1
  OBVIOUS
<1> DEFINE r == y % 256
           n == (y + 1) % 256
<1>1. r \in 0..255 /\ n = (IF r = 255 THEN 0 ELSE r + 1)
  OBVIOUS
<1> HIDE DEF r, n
<1>2. n \in Int /\ r \in Int /\ (n - r = 1 \/ n - r = 1 - 256)
  BY <1>1
<1>3. \A d \in Int : d = 1 \/ d = 1 - 256 => d % 256 = 1
  OBVIOUS
<1>4. (n - r) % 256 = 1
  BY <1>2, <1>3
<1> QED
  BY <1>4 DEF n, r

\* Of a queue that is not empty, what is behind its head.
LEMMA Behead ==
  ASSUME NEW S, NEW o \in Seq(S), o # <<>>
  PROVE  /\ Len(o) \in Nat /\ Len(o) >= 1 /\ o[1] \in S /\ Head(o) = o[1]
         /\ Tail(o) \in Seq(S) /\ Len(Tail(o)) = Len(o) - 1
         /\ \A i \in 1..(Len(o) - 1) : Tail(o)[i] = o[i + 1]
  OBVIOUS

\* Hearing a reply moves it from those on their way to those heard.
LEMMA HearKeeps ==
  ASSUME FlightInv, NEW s \in Station, Hear(s)
  PROVE  FlightInv'
<1> DEFINE o == inbox[s]
           h == heard[s]
           a == asked[s]
           x == Described(Head(o))
           t == Counted
           H == Len(h)
<1>1. FlightTypes /\ Parsing /\ \A r \in Station : Numbered(r)
  BY Zenon DEF FlightInv
<1>2. /\ o # <<>> /\ inbox' = [inbox EXCEPT ![s] = Tail(o)]
      /\ heard' = [heard EXCEPT ![s] = Append(h, x)]
      /\ script' = script /\ tidy' = tidy /\ sent' = sent /\ parser' = parser /\ drone' = drone
      /\ fed' = fed /\ applied' = applied /\ asked' = asked
  BY DEF Hear
<1>3. /\ inbox \in [Station -> Seq(Reply)] /\ asked \in [Station -> Seq(Nat)]
      /\ heard \in [Station -> Seq(Hearing)]
  BY <1>1, Zenon DEF FlightTypes
<1>4. o \in Seq(Reply) /\ h \in Seq(Hearing) /\ a \in Seq(Nat)
  BY <1>3
<1>5. /\ Len(o) \in Nat /\ Len(o) >= 1 /\ o[1] \in Reply /\ Head(o) = o[1]
      /\ Tail(o) \in Seq(Reply) /\ Len(Tail(o)) = Len(o) - 1
      /\ \A i \in 1..(Len(o) - 1) : Tail(o)[i] = o[i + 1]
  <2> HIDE DEF o
  <2> QED
    BY <1>2, <1>4, Behead
<1>6. x \in Hearing
  BY <1>5, Zenon DEF Hearing
<1> DEFINE g == Append(h, x)
           q == Tail(o)
<1>7. /\ g \in Seq(Hearing) /\ Len(g) = H + 1 /\ g[H + 1] = x /\ H \in Nat
      /\ \A i \in 1..H : g[i] = h[i]
  <2> HIDE DEF h, x
  <2> QED
    BY <1>4, <1>6
<1>8. inbox'[s] = q /\ heard'[s] = g
  BY <1>2, <1>3
<1>9. t \in Int /\ Counted' = t
  <2>1. t \in Int
    BY <1>1, CountedType
  <2> QED
    BY <1>2, <2>1, Zenon DEF Counted
<1>10. /\ Before(s).out = o /\ Before(s).applied = applied /\ Before(s).asked = a
       /\ Before(s).drone = drone
  BY <1>1, BeforeType
<1>11. /\ Numbering(Before(s), H, t) /\ HeardAs(h, a, applied)
  BY <1>1, Zenon DEF Numbered
<1>12. /\ drone.txSeq = t + 3 * Len(applied) /\ H + Len(o) = 3 * Len(a)
       /\ Waiting(o, a, H, applied) /\ Ordered(a, Len(applied)) /\ Recorded(applied, t)
  BY <1>10, <1>11, Zenon DEF Numbering
<1>13. Len(a) \in Nat
  <2> HIDE DEF a
  <2> QED
    BY <1>4
<1> HIDE DEF o, h, a, t, H, g, q, x
<1>14. FlightTypes'
  <2>1. inbox' \in [Station -> Seq(Reply)]
    <3>1. q \in Seq(Reply)
      BY <1>5 DEF q
    <3>2. inbox' = [inbox EXCEPT ![s] = q]
      BY <1>2 DEF q
    <3> QED
      BY <1>3, <3>1, <3>2
  <2>2. heard' \in [Station -> Seq(Hearing)]
    <3>1. heard' = [heard EXCEPT ![s] = g]
      BY <1>2 DEF g
    <3> QED
      BY <1>3, <1>7, <3>1
  <2>3. \A r \in Station : Sending(r)'
    BY <1>1, <1>2, Zenon DEF FlightTypes, Sending
  <2>4. asked' \in [Station -> Seq(Nat)]
    BY <1>2, <1>3
  <2>5. /\ tidy' \in BOOLEAN /\ DOMAIN sent' = Station
        /\ drone' \in Drone /\ applied' \in Seq(Done) /\ fed' \in Seq(Byte)
    <3>1. /\ tidy \in BOOLEAN /\ DOMAIN sent = Station
          /\ drone \in Drone /\ applied \in Seq(Done) /\ fed \in Seq(Byte)
      BY <1>1, Zenon DEF FlightTypes
    <3> QED
      BY <1>2, <3>1, Zenon
  <2> QED
    BY <2>1, <2>2, <2>3, <2>4, <2>5, Zenon DEF FlightTypes
<1>15. Parsing'
  BY <1>1, <1>2, Zenon DEF Parsing
<1>16. Waiting(q, a, H + 1, applied)
  <2> SUFFICES ASSUME NEW k \in 1..Len(a), NEW j \in 1..3, Place(k, j) > H + 1
               PROVE  q[Place(k, j) - (H + 1)] = Answer(applied[a[k]], j)
    BY Zenon DEF Waiting
  <2> DEFINE n == Place(k, j)
  <2>1. n \in Nat /\ n <= 3 * Len(a) /\ n > H + 1
    BY <1>13 DEF Place
  <2> DEFINE L == Len(o)
             A == Len(a)
  <2>2. H + L = 3 * A /\ L \in Nat /\ A \in Nat /\ n <= 3 * A
    BY <1>5, <1>12, <1>13, <2>1
  <2> HIDE DEF n, L, A
  <2>3. n > H /\ n - (H + 1) \in 1..(L - 1) /\ (n - (H + 1)) + 1 = n - H
    BY <1>7, <2>1, <2>2
  <2>4. q[n - (H + 1)] = o[n - H]
    <3>1. q[n - (H + 1)] = o[(n - (H + 1)) + 1]
      BY <1>5, <2>3, Zenon DEF q, L
    <3> QED
      BY <2>3, <3>1, Zenon
  <2>5. o[n - H] = Answer(applied[a[k]], j)
    BY <1>12, <2>3, Zenon DEF Waiting, n
  <2> QED
    BY <2>4, <2>5, Zenon DEF n
<1>17. HeardAs(g, a, applied)
  <2> SUFFICES ASSUME NEW k \in 1..Len(a), NEW j \in 1..3, Place(k, j) <= H + 1
               PROVE  g[Place(k, j)] = Described(Answer(applied[a[k]], j))
    BY <1>7, Zenon DEF HeardAs
  <2> DEFINE n == Place(k, j)
  <2>1. n \in Nat /\ n >= 1
    BY <1>13 DEF Place
  <2>2. CASE n <= H
    <3>1. n \in 1..H
      BY <1>7, <2>1, <2>2
    <3>2. g[n] = h[n]
      BY <1>7, <3>1, Zenon
    <3>3. h[n] = Described(Answer(applied[a[k]], j))
      BY <1>11, <2>2, Zenon DEF HeardAs, H
    <3> QED
      BY <3>2, <3>3, Zenon
  <2>3. CASE ~(n <= H)
    <3> HIDE DEF n
    <3>1. n = H + 1 /\ n > H /\ n - H = 1
      <4>1. n <= H + 1
        BY DEF n
      <4> QED
        BY <1>7, <2>1, <2>3, <4>1
    <3>2. o[1] = Answer(applied[a[k]], j)
      <4>1. o[n - H] = Answer(applied[a[k]], j)
        BY <1>12, <3>1, Zenon DEF Waiting, n
      <4> QED
        BY <3>1, <4>1, Zenon
    <3>3. g[n] = Described(o[1])
      BY <1>5, <1>7, <3>1, Zenon DEF x
    <3> QED
      BY <3>2, <3>3, Zenon DEF n
  <2> QED
    BY <2>2, <2>3
<1>18. ASSUME NEW r \in Station PROVE Numbered(r)'
  <2>1. /\ Before(r)'.drone = drone' /\ Before(r)'.out = inbox'[r]
        /\ Before(r)'.applied = applied' /\ Before(r)'.asked = asked'[r]
    BY DEF Before
  <2>2. CASE r = s
    <3>1. Len(q) = Len(o) - 1
      BY <1>5 DEF q
    <3>2. (H + 1) + Len(q) = 3 * Len(a) /\ Len(g) = H + 1
      <4> DEFINE L == Len(o)
                 A == Len(a)
                 Q == Len(q)
      <4>1. H + L = 3 * A /\ L \in Nat /\ A \in Nat /\ Q = L - 1
        BY <1>5, <1>12, <1>13, <3>1, Zenon
      <4> HIDE DEF L, A, Q
      <4>2. (H + 1) + Q = 3 * A
        BY <1>7, <4>1
      <4> QED
        BY <1>7, <4>2, Zenon DEF Q, A
    <3>3. asked'[s] = a
      BY <1>2, Zenon DEF a
    <3>4. Numbering(Before(s)', H + 1, t)
      BY <1>2, <1>8, <1>12, <1>16, <2>1, <2>2, <3>2, <3>3, Zenon DEF Numbering
    <3> QED
      BY <1>2, <1>8, <1>9, <1>17, <2>2, <3>2, <3>3, <3>4, Zenon DEF Numbered
  <2>3. CASE r # s
    <3>1. inbox'[r] = inbox[r] /\ heard'[r] = heard[r]
      BY <1>2, <1>3, <2>3
    <3>2. /\ Numbering(Before(r), Len(heard[r]), t) /\ HeardAs(heard[r], asked[r], applied)
      BY <1>1, Zenon DEF Numbered, t
    <3>3. Before(r)' = Before(r)
      BY <1>2, <3>1, Zenon DEF Before
    <3>4. asked' = asked /\ applied' = applied
      BY <1>2
    <3> QED
      BY <1>9, <3>1, <3>2, <3>3, <3>4, Zenon DEF Numbered
  <2> QED
    BY <2>2, <2>3
<1> QED
  BY <1>14, <1>15, <1>18, Zenon DEF FlightInv

LEMMA FlightStays ==
  ASSUME FlightInv, [Next]_vars
  PROVE  FlightInv'
<1>1. CASE Next
  BY <1>1, FeedKeeps, HearKeeps, Zenon DEF Next
<1>2. CASE vars' = vars
  <2>1. /\ script' = script /\ tidy' = tidy /\ sent' = sent /\ parser' = parser /\ drone' = drone
        /\ inbox' = inbox /\ heard' = heard /\ fed' = fed /\ applied' = applied /\ asked' = asked
    BY <1>2 DEF vars
  <2>2. FlightTypes' /\ Parsing'
    BY <2>1, Zenon DEF FlightInv, FlightTypes, Parsing, Sending
  <2>3. \A r \in Station : Before(r)' = Before(r)
    BY <2>1, Zenon DEF Before
  <2>4. Counted' = Counted
    BY <2>1, Zenon DEF Counted
  <2>5. \A r \in Station : Numbered(r)'
    BY <2>1, <2>3, <2>4, Zenon DEF FlightInv, Numbered
  <2> QED
    BY <2>2, <2>5, Zenon DEF FlightInv
<1> QED
  BY <1>1, <1>2

LEMMA FlightHolds ==
  ASSUME ScriptAssumption
  PROVE  Spec => []FlightInv
<1>1. Init => FlightInv
  BY FlightStarts
<1>2. FlightInv /\ [Next]_vars => FlightInv'
  BY FlightStays
<1> QED
  BY <1>1, <1>2, PTL DEF Spec

\* Every variable keeps its type.  The parser keeps only a beginning of a frame, shorter
\* than the longest one, and what it keeps begins with a start byte.
THEOREM TypeCorrect ==
  ASSUME ScriptAssumption
  PROVE  Spec => []TypeOK
<1>1. FlightInv => TypeOK
  <2> SUFFICES ASSUME FlightInv PROVE TypeOK
    OBVIOUS
  <2>1. FlightTypes /\ Parsing
    BY Zenon DEF FlightInv
  <2>2. /\ tidy \in BOOLEAN /\ DOMAIN sent = Station /\ drone \in Drone /\ fed \in Seq(Byte)
        /\ inbox \in [Station -> Seq(Reply)]
    BY <2>1, Zenon DEF FlightTypes
  <2>3. /\ parser \in Seq(Byte) /\ (parser # <<>> => parser[1] = STX)
        /\ Len(parser) < LongestFrame
    <3>1. parser = Push(fed).rest
      BY <2>1, Zenon DEF Parsing
    <3>2. /\ Push(fed).rest \in Seq(Byte)
          /\ Push(fed).rest = <<>> \/ Push(fed).rest[1] = STX
          /\ Len(Push(fed).rest) < HeaderLen + 255 + CrcLen + SignatureLen
      BY <2>2, PushKeeps
    <3> QED
      BY <3>1, <3>2, Zenon DEF LongestFrame
  <2>4. /\ drone.lat \in Int /\ drone.lon \in Int /\ drone.altMm \in Int
        /\ drone.armed \in BOOLEAN /\ drone.txSeq \in Nat /\ drone.bootMs \in Nat
    BY <2>2 DEF Drone
  <2>5. ASSUME NEW s \in Station, NEW i \in DOMAIN inbox[s] PROVE inbox[s][i] \in Seq(Byte)
    <3> DEFINE o == inbox[s]
    <3>1. o \in Seq(Reply) /\ i \in DOMAIN o
      BY <2>2, <2>5
    <3> HIDE DEF o
    <3>2. o[i] \in Reply
      BY <3>1
    <3> QED
      BY <3>2 DEF o, Reply
  <2> QED
    BY <2>2, <2>3, <2>4, <2>5, Zenon DEF TypeOK, Bytes
<1>2. Spec => []FlightInv
  BY FlightHolds
<1> QED
  BY <1>1, <1>2, PTL

\* However the streams are cut and mixed, the drone has done the commands that one look
\* at all the bytes would have found, in that order and each once.
THEOREM ChunkingInvisibleHolds ==
  ASSUME ScriptAssumption
  PROVE  Spec => []ChunkingInvisible
<1>1. FlightInv => ChunkingInvisible
  BY Zenon DEF FlightInv, Parsing, DoneCommands, ChunkingInvisible
<1>2. Spec => []FlightInv
  BY FlightHolds
<1> QED
  BY <1>1, <1>2, PTL

\* Two replies that a station hears one after the other are numbered one after the other,
\* modulo 256, unless a command of another station was answered in between.
THEOREM GapsExplainedHolds ==
  ASSUME ScriptAssumption
  PROVE  Spec => []GapsExplained
<1>1. FlightInv => GapsExplained
  <2> SUFFICES ASSUME FlightInv, NEW s \in Station, NEW i \in 1..(Len(heard[s]) - 1)
               PROVE  \/ (heard[s][i + 1].frames[1].seq - heard[s][i].frames[1].seq) % 256 = 1
                      \/ About(s, i + 1) > About(s, i) + 1
    BY Zenon DEF GapsExplained
  <2> DEFINE h == heard[s]
             a == asked[s]
             t == Counted
             H == Len(h)
             A == Len(a)
             L == Len(inbox[s])
             k == (i + 2) \div 3
             j == i - 3 * (k - 1)
             f(n) == h[n].frames[1].seq
  <2>1. FlightTypes /\ Numbered(s)
    BY Zenon DEF FlightInv
  <2>2. heard[s] \in Seq(Hearing) /\ inbox[s] \in Seq(Reply) /\ asked[s] \in Seq(Nat)
    BY <2>1 DEF FlightTypes
  <2>3. H \in Nat /\ A \in Nat /\ L \in Nat
    BY <2>2
  <2>4. /\ H + L = 3 * A /\ Ordered(a, Len(applied)) /\ HeardAs(h, a, applied)
        /\ Recorded(applied, t)
    <3>1. Numbering(Before(s), H, t) /\ HeardAs(h, a, applied)
      BY <2>1, Zenon DEF Numbered
    <3>2. Before(s).out = inbox[s] /\ Before(s).asked = a /\ Before(s).applied = applied
      BY <2>1, BeforeType
    <3> QED
      BY <3>1, <3>2, Zenon DEF Numbering
  <2>5. t \in Int /\ Len(applied) \in Nat /\ applied \in Seq(Done)
    <3>1. applied \in Seq(Done)
      BY <2>1, Zenon DEF FlightTypes
    <3> QED
      BY <2>1, <3>1, CountedType
  <2>6. i \in Nat /\ i >= 1 /\ i <= H - 1
    BY <2>3
  <2> HIDE DEF h, a, t, H, A, L, f
  <2>7. k \in Nat /\ k >= 1 /\ j \in 1..3 /\ i = Place(k, j)
    BY <2>6 DEF Place
  <2>8. k <= A
    BY <2>3, <2>4, <2>6
  <2>9. \A n \in 1..A, m \in 1..3 : Place(n, m) <= H => f(Place(n, m)) = Number(t, a[n], m) % 256
    <3> SUFFICES ASSUME NEW n \in 1..A, NEW m \in 1..3, Place(n, m) <= H
                 PROVE  f(Place(n, m)) = Number(t, a[n], m) % 256
      BY Zenon
    <3> DEFINE p == a[n]
               x == applied[p]
    <3>1. p \in 1..Len(applied)
      BY <2>4, Zenon DEF Ordered, A
    <3>2. h[Place(n, m)] = Described(Answer(x, m))
      BY <2>4, Zenon DEF HeardAs, A, H
    <3>3. Record(x, t + 3 * p)
      BY <2>4, <3>1, Zenon DEF Recorded
    <3>4. x \in Done
      BY <2>5, <3>1
    <3> HIDE DEF x
    <3>5. Described(Answer(x, m)).frames[1].seq = (x.after.txSeq - 4 + m) % 256
      BY <3>4, HeardNumber
    <3>6. x.after.txSeq - 4 + m = Number(t, p, m)
      <4>1. x.after.txSeq = t + 3 * p
        BY <3>3, Zenon DEF Record
      <4>2. t \in Int /\ p \in Int /\ m \in Int
        BY <2>5, <3>1
      <4> HIDE DEF p
      <4> QED
        BY <4>1, <4>2 DEF Number
    <3> QED
      BY <3>2, <3>5, <3>6, Zenon DEF f
  <2>10. \A n \in 1..A : a[n] \in Nat
    <3>1. \A n \in 1..A : a[n] \in 1..Len(applied)
      BY <2>4, Zenon DEF Ordered, A
    <3> QED
      BY <2>5, <3>1
  <2> HIDE DEF k, j
  <2>11. k \in 1..A
    BY <2>3, <2>7, <2>8
  <2>12. f(i) = Number(t, a[k], j) % 256
    <3>1. Place(k, j) <= H
      BY <2>3, <2>6, <2>7
    <3> QED
      BY <2>7, <2>9, <2>11, <3>1, Zenon
  <2>13. About(s, i) = a[k]
    BY Zenon DEF About, a, k
  <2>14. CASE j < 3
    <3>1. j + 1 \in 1..3 /\ i + 1 = Place(k, j + 1) /\ i + 1 <= H
      BY <2>3, <2>6, <2>7, <2>14 DEF Place
    <3>2. f(i + 1) = Number(t, a[k], j + 1) % 256
      <4>1. Place(k, j + 1) <= H
        BY <3>1, Zenon
      <4>2. f(Place(k, j + 1)) = Number(t, a[k], j + 1) % 256
        BY <2>9, <2>11, <3>1, <4>1, Zenon
      <4> QED
        BY <3>1, <4>2, Zenon
    <3>3. (f(i + 1) - f(i)) % 256 = 1
      <4> DEFINE x == a[k]
                 y == t + 3 * x - 4 + j
      <4>1. x \in Nat
        BY <2>10, <2>11
      <4> HIDE DEF x
      <4>2. y \in Int /\ Number(t, x, j) = y /\ Number(t, x, j + 1) = y + 1
        BY <2>5, <2>7, <4>1 DEF Number
      <4> HIDE DEF y
      <4>3. (((y + 1) % 256) - (y % 256)) % 256 = 1
        BY <4>2, NextNumber, Zenon
      <4> QED
        BY <2>12, <3>2, <4>2, <4>3, Zenon DEF x
    <3> QED
      BY <3>3 DEF f, h
  <2>15. CASE ~(j < 3)
    <3>0. j = 3
      BY <2>7, <2>15
    <3>1. i = 3 * k /\ i + 1 = Place(k + 1, 1) /\ i + 1 <= H /\ ((i + 1) + 2) \div 3 = k + 1
      BY <2>3, <2>6, <2>7, <3>0 DEF Place
    <3>2. k + 1 \in 1..A /\ k < k + 1
      BY <2>3, <2>4, <2>7, <2>8, <3>1
    <3>3. f(i + 1) = Number(t, a[k + 1], 1) % 256
      <4>1. 1 \in 1..3
        OBVIOUS
      <4>2. Place(k + 1, 1) <= H
        BY <3>1, Zenon
      <4>3. f(Place(k + 1, 1)) = Number(t, a[k + 1], 1) % 256
        BY <2>9, <3>2, <4>1, <4>2, Zenon
      <4> QED
        BY <3>1, <4>3, Zenon
    <3>4. About(s, i + 1) = a[k + 1]
      BY <3>1, Zenon DEF About, a
    <3> DEFINE x == a[k]
               z == a[k + 1]
    <3>5. x \in Nat /\ z \in Nat /\ x < z
      <4>1. x < z
        BY <2>4, <2>11, <3>2, Zenon DEF Ordered, A
      <4> QED
        BY <2>10, <2>11, <3>2, <4>1
    <3> HIDE DEF x, z
    <3>6. CASE z > x + 1
      BY <2>13, <3>4, <3>6, Zenon DEF x, z
    <3>7. CASE ~(z > x + 1)
      <4> DEFINE y == t + 3 * x - 1
      <4>1. z = x + 1
        BY <3>5, <3>7
      <4>2. y \in Int /\ Number(t, x, 3) = y /\ Number(t, z, 1) = y + 1
        BY <2>5, <3>5, <4>1 DEF Number
      <4> HIDE DEF y
      <4>3. (((y + 1) % 256) - (y % 256)) % 256 = 1
        BY <4>2, NextNumber, Zenon
      <4>4. (f(i + 1) - f(i)) % 256 = 1
        BY <2>12, <3>0, <3>3, <4>2, <4>3, Zenon DEF x, z
      <4> QED
        BY <4>4 DEF f, h
    <3> QED
      BY <3>6, <3>7
  <2> QED
    BY <2>14, <2>15
<1>2. Spec => []FlightInv
  BY FlightHolds
<1> QED
  BY <1>1, <1>2, PTL

\* The place that c names is the one in u.
Sent(u, c) == u.lat = c.param5 * 10000000 /\ u.lon = c.param6 * 10000000

\* A station hears the truth about x in the i-th reply it decodes, as m.
Truth(x, m, i) ==
  /\ Len(m) = 1
  /\ i % 3 = 1 => m[1].fields = [command |-> x.command.command, result |-> Result(x.command)]
  /\ i % 3 = 2 => (m[1].fields.baseMode >= SAFETY_ARMED) = x.after.armed
  /\ i % 3 = 0 =>
       /\ m[1].fields.lat = x.after.lat /\ m[1].fields.lon = x.after.lon
       /\ m[1].fields.alt = x.after.altMm /\ m[1].fields.timeBootMs = x.after.bootMs
       /\ x.command.command = DO_REPOSITION => Sent(m[1].fields, x.command)

LEMMA PlaceInThree ==
  ASSUME NEW k \in Nat, NEW j \in 1..3, NEW i, i = Place(k, j)
  PROVE  (j = 1 => i % 3 = 1) /\ (j = 2 => i % 3 = 2) /\ (j = 3 => i % 3 = 0)
BY DEF Place

\* One message whose fields are u.
Only(m, u) == Len(m) = 1 /\ m[1].fields = u
LEMMA OnlyOne ==
  ASSUME NEW m, NEW n, NEW u, m = <<[name |-> n, fields |-> u]>>
  PROVE  Only(m, u)
BY DEF Only

LEMMA ToldTruth ==
  ASSUME NEW x \in Done, Told(x), NEW d \in Drone, x.after = After(d, x.command),
         NEW k \in Nat, NEW j \in 1..3, NEW i, i = Place(k, j)
  PROVE  Truth(x, DecodeAll(Answer(x, j)), i)
<1> DEFINE m == DecodeAll(Answer(x, j))
           e == x.after
           c == x.command
<1>0. e \in Drone /\ c \in Commands
  BY DEF Done
<1>1. (j = 1 => i % 3 = 1) /\ (j = 2 => i % 3 = 2) /\ (j = 3 => i % 3 = 0)
  BY PlaceInThree, Zenon
<1>2. 0 # 1 /\ 1 # 2 /\ 0 # 2
  OBVIOUS
<1>3. CASE j = 1
  <2>1. m = <<[name |-> "COMMAND_ACK", fields |-> Acking(c.command, Result(c))]>>
    BY <1>3, Zenon DEF Told
  <2> HIDE DEF m
  <2>2. Only(m, Acking(c.command, Result(c)))
    BY <2>1, OnlyOne, Zenon
  <2> QED
    BY <1>1, <1>2, <1>3, <2>2, Zenon DEF Only, Truth, Acking, m
<1>4. CASE j = 2
  <2>1. PICK u : /\ m = <<[name |-> "HEARTBEAT", fields |-> u]>>
                 /\ u["baseMode"] = CUSTOM_MODE_ENABLED + (IF e.armed THEN SAFETY_ARMED ELSE 0)
    BY <1>4, Zenon DEF Told
  <2> HIDE DEF m
  <2>2. Only(m, u)
    BY <2>1, OnlyOne, Zenon
  <2>3. e.armed \in BOOLEAN
    BY <1>0 DEF Drone
  <2> HIDE DEF e
  <2>4. (u.baseMode >= SAFETY_ARMED) = e.armed
    <3>1. CASE e.armed = TRUE
      <4>1. u.baseMode = 129
        BY <2>1, <3>1 DEF CUSTOM_MODE_ENABLED, SAFETY_ARMED
      <4>2. (u.baseMode >= SAFETY_ARMED) = TRUE
        BY <4>1 DEF SAFETY_ARMED
      <4> QED
        BY <3>1, <4>2, Zenon
    <3>2. CASE e.armed = FALSE
      <4>1. u.baseMode = 1
        BY <2>1, <3>2 DEF CUSTOM_MODE_ENABLED, SAFETY_ARMED
      <4>2. (u.baseMode >= SAFETY_ARMED) = FALSE
        BY <4>1 DEF SAFETY_ARMED
      <4> QED
        BY <3>2, <4>2, Zenon
    <3> QED
      BY <2>3, <3>1, <3>2, Zenon
  <2> QED
    BY <1>1, <1>2, <1>4, <2>2, <2>4, Zenon DEF Only, Truth, m, e
<1>5. CASE j = 3
  <2>1. Placing(m, e)
    BY <1>5, Zenon DEF Told
  <2>2. PICK u : /\ m = <<[name |-> "GLOBAL_POSITION_INT", fields |-> u]>>
                 /\ u["timeBootMs"] = e.bootMs /\ u["lat"] = e.lat /\ u["lon"] = e.lon
                 /\ u["alt"] = e.altMm
    BY <2>1, Zenon DEF Placing
  <2> HIDE DEF m
  <2>3. Only(m, u)
    BY <2>2, OnlyOne, Zenon
  <2>4. c.command = DO_REPOSITION =>
          e.lat = c.param5 * 10000000 /\ e.lon = c.param6 * 10000000
    <3>1. c.command = DO_REPOSITION =>
            After(d, c).lat = c.param5 * 10000000 /\ After(d, c).lon = c.param6 * 10000000
      BY <1>0, AfterGoto, SMT
    <3>2. e = After(d, c)
      OBVIOUS
    <3> HIDE DEF e
    <3> QED
      BY <3>1, <3>2, SMT
  <2>5. /\ u.lat = e.lat /\ u.lon = e.lon /\ u.alt = e.altMm /\ u.timeBootMs = e.bootMs
        /\ m[1].fields = u /\ Len(m) = 1
    BY <2>2, <2>3, Zenon DEF Only
  <2> HIDE DEF e, c
  <2>6. c.command = DO_REPOSITION => Sent(u, c)
    BY <2>4, <2>5, SMT DEF Sent
  <2>7. i % 3 # 1 /\ i % 3 # 2
    BY <1>1, <1>2, <1>5, SMT
  <2> QED
    BY <2>5, <2>6, <2>7, Zenon DEF Truth, m, e, c
<1> QED
  BY <1>3, <1>4, <1>5

\* Every command that was done left the drone where the wire formats can hold it.
WithinWire == \A n \in DOMAIN applied : InRange(applied[n].after)

\* As long as the drone is within the range of the wire formats, every reply that a
\* station has decoded is what the drone was after the station's command: the
\* acknowledgement names that command, the heartbeat says whether it was armed, the
\* position is where it was, and where it was told to go if the command said so.
THEOREM TelemetryTrueHolds ==
  ASSUME ScriptAssumption
  PROVE  Spec => [](WithinWire => TelemetryTrue)
<1>1. FlightInv => (WithinWire => TelemetryTrue)
  <2> SUFFICES ASSUME FlightInv, WithinWire, NEW s \in Station, NEW i \in DOMAIN heard[s]
               PROVE  Truth(applied[About(s, i)], heard[s][i].says, i)
    BY SMT DEF TelemetryTrue, Truth, Sent
  <2> DEFINE h == heard[s]
             a == asked[s]
             t == Counted
             H == Len(h)
             A == Len(a)
             L == Len(inbox[s])
             k == (i + 2) \div 3
             j == i - 3 * (k - 1)
             p == a[k]
             x == applied[p]
  <2>1. FlightTypes /\ Numbered(s)
    BY Zenon DEF FlightInv
  <2>2. heard[s] \in Seq(Hearing) /\ inbox[s] \in Seq(Reply) /\ asked[s] \in Seq(Nat)
    BY <2>1 DEF FlightTypes
  <2>3. H \in Nat /\ A \in Nat /\ L \in Nat
    BY <2>2
  <2>4. /\ H + L = 3 * A /\ Ordered(a, Len(applied)) /\ HeardAs(h, a, applied)
        /\ Recorded(applied, t)
    <3>1. Numbering(Before(s), H, t) /\ HeardAs(h, a, applied)
      BY <2>1, Zenon DEF Numbered
    <3>2. Before(s).out = inbox[s] /\ Before(s).asked = a /\ Before(s).applied = applied
      BY <2>1, BeforeType
    <3> QED
      BY <3>1, <3>2, Zenon DEF Numbering
  <2>5. applied \in Seq(Done)
    BY <2>1, Zenon DEF FlightTypes
  <2>6. i \in Nat /\ i >= 1 /\ i <= H
    BY <2>2
  <2> HIDE DEF h, a, t, H, A, L
  <2>7. k \in Nat /\ k >= 1 /\ j \in 1..3 /\ i = Place(k, j)
    BY <2>6 DEF Place
  <2>8. k \in 1..A
    BY <2>3, <2>4, <2>6
  <2> HIDE DEF k, j
  <2>9. p \in 1..Len(applied)
    BY <2>4, <2>8, Zenon DEF Ordered, A
  <2>10. h[i] = Described(Answer(x, j))
    <3>1. Place(k, j) <= H
      BY <2>6, <2>7, Zenon
    <3>2. h[Place(k, j)] = Described(Answer(x, j))
      BY <2>4, <2>7, <2>8, <3>1, Zenon DEF HeardAs, A, H
    <3> QED
      BY <2>7, <3>2, Zenon
  <2>11. x \in Done
    BY <2>5, <2>9
  <2>12. p \in DOMAIN applied
    BY <2>5, <2>9
  <2>13. InRange(x.after)
    BY <2>12, Zenon DEF WithinWire
  <2>14. PICK d \in Drone : x.after = After(d, x.command)
    BY <2>4, <2>9, Zenon DEF Recorded, Record
  <2>15. heard[s][i].says = DecodeAll(Answer(x, j))
    <3> DEFINE y == Answer(x, j)
    <3>1. h[i] = Described(y)
      BY <2>10
    <3> HIDE DEF y
    <3>2. Described(y).says = DecodeAll(y)
      BY DEF Described
    <3> QED
      BY <3>1, <3>2, Zenon DEF h, y
  <2>16. About(s, i) = p
    BY Zenon DEF About, p, a, k
  <2> HIDE DEF x, p
  <2>17. Told(x)
    BY <2>11, <2>13, AnswersTell, Zenon
  <2>18. Truth(x, DecodeAll(Answer(x, j)), i)
    BY <2>7, <2>11, <2>14, <2>17, ToldTruth, Zenon
  <2> QED
    BY <2>15, <2>16, <2>18, Zenon DEF x
<1>2. Spec => []FlightInv
  BY FlightHolds
<1> QED
  BY <1>1, <1>2, PTL

-----------------------------------------------------------------------------
(* What a station was done for.  In a tidy run no frame is ever cut, so what *)
(* the drone did for a station is told by what the station has sent alone.   *)

\* One sequence out of a sequence of them, piece by piece.
FlatLoop(g, f, V) ==
  /\ g[1] = f[1]
  /\ \A n \in 2..Len(f) : g[n] = g[n - 1] \o f[n]
  /\ \A n \in 1..Len(f) : g[n] \in Seq(V)

LEMMA FlattenDef ==
  ASSUME NEW V, NEW f \in Seq(Seq(V)), f # <<>>
  PROVE  \E g : FlatLoop(g, f, V) /\ FlattenSeq(f) = g[Len(f)]
<1> DEFINE N == Len(f)
           W == Seq(V)
           Eq(q) == q = [i \in 1..N |-> IF i = 1 THEN f[i] ELSE q[i - 1] \o f[i]]
           q0 == CHOOSE q : Eq(q)
           e == <<>>
           step == [n \in 1..N |-> [v \in W |-> IF n = 1 THEN f[n] ELSE v \o f[n]]]
<1>1. \A v, w \in W : v \o w \in W
  OBVIOUS
<1>2. e \in W
  OBVIOUS
<1> HIDE DEF W, e
<1>3. N \in Nat /\ N # 0 /\ \A n \in 1..N : f[n] \in W
  BY DEF W
<1> HIDE DEF N
<1>4. step \in [1..N -> [W -> W]]
  <2>1. \A n \in 1..N : \A v \in W : (IF n = 1 THEN f[n] ELSE v \o f[n]) \in W
    BY <1>1, <1>3, Zenon
  <2> QED
    BY <2>1
<1>5. PICK g \in [0..N -> W] : Climbs(g, N, e, step)
  <2> HIDE DEF step
  <2> QED
    BY <1>2, <1>3, <1>4, Climb
<1>6. \A n \in 1..N : g[n] = (IF n = 1 THEN f[n] ELSE g[n - 1] \o f[n])
  <2> SUFFICES ASSUME NEW n \in 1..N PROVE g[n] = (IF n = 1 THEN f[n] ELSE g[n - 1] \o f[n])
    OBVIOUS
  <2>1. n - 1 \in 0..N
    BY <1>3
  <2>2. g[n] = step[n][g[n - 1]]
    BY <1>5, Zenon DEF Climbs
  <2>3. g[n - 1] \in W
    BY <1>5, <2>1
  <2>4. step[n][g[n - 1]] = (IF n = 1 THEN f[n] ELSE g[n - 1] \o f[n])
    BY <2>3, Zenon
  <2> QED
    BY <2>2, <2>4, Zenon
<1> HIDE DEF step
<1> DEFINE h == [i \in 1..N |-> g[i]]
<1>7. Eq(h)
  <2>1. \A n \in 1..N : n # 1 => n - 1 \in 1..N
    BY <1>3
  <2>2. \A n \in 1..N : h[n] = g[n]
    OBVIOUS
  <2>3. \A n \in 1..N : g[n] = (IF n = 1 THEN f[n] ELSE h[n - 1] \o f[n])
    <3> HIDE DEF h
    <3> QED
      BY <1>6, <2>1, <2>2, Zenon
  <2> QED
    BY <2>3, Zenon
<1>8. FlattenSeq(f) = q0[N] /\ Eq(q0)
  <2>1. ~(Len(f) = 0)
    BY <1>3, Zenon DEF N
  <2> HIDE DEF h
  <2>2. Eq(q0)
    BY <1>7, Zenon
  <2>3. FlattenSeq(f) = q0[N]
    BY <2>1, Zenon DEF FlattenSeq, N
  <2> QED
    BY <2>2, <2>3
<1> HIDE DEF q0
<1>9. \A n \in 1..N : q0[n] = IF n = 1 THEN f[n] ELSE q0[n - 1] \o f[n]
  BY <1>8, Zenon
<1> HIDE DEF Eq
<1>10. q0[1] = f[1] /\ \A n \in 2..N : q0[n] = q0[n - 1] \o f[n]
  <2>1. 1 \in 1..N /\ \A n \in 2..N : n \in 1..N /\ n # 1
    BY <1>3
  <2> QED
    BY <1>9, <2>1, Zenon
<1> DEFINE S == {n \in Nat : n \in 1..N => q0[n] \in W}
<1>11. Nat \subseteq S
  <2>1. 0 \in S
    OBVIOUS
  <2>2. ASSUME NEW n \in Nat, n \in S PROVE n + 1 \in S
    <3> SUFFICES ASSUME n + 1 \in 1..N PROVE q0[n + 1] \in W
      OBVIOUS
    <3>1. CASE n = 0
      <4>1. n + 1 = 1
        BY <3>1
      <4> QED
        BY <1>3, <1>10, <4>1
    <3>2. CASE n # 0
      <4>1. n \in 1..N /\ n + 1 \in 2..N /\ (n + 1) - 1 = n
        BY <1>3, <3>2
      <4>2. q0[n] \in W /\ f[n + 1] \in W
        BY <1>3, <2>2, <4>1
      <4>3. q0[n + 1] = q0[n] \o f[n + 1]
        <5> DEFINE k == n + 1
        <5>1. k \in 2..N /\ k - 1 = n
          BY <4>1
        <5> HIDE DEF k
        <5>2. q0[k] = q0[n] \o f[k]
          BY <1>10, <5>1, Zenon
        <5> QED
          BY <5>2, Zenon DEF k
      <4> QED
        BY <1>1, <4>2, <4>3, Zenon
    <3> QED
      BY <3>1, <3>2
  <2> HIDE DEF S
  <2> QED
    BY <2>1, <2>2, Induct
<1>12. \A n \in 1..N : q0[n] \in W
  BY <1>3, <1>11
<1>13. FlatLoop(q0, f, V)
  BY <1>10, <1>12, Zenon DEF FlatLoop, N, W
<1> QED
  BY <1>8, <1>13, Zenon DEF N

\* What is flattened goes on with the last piece.
FlatMore(f, x, V) ==
  FlattenSeq(f) \in Seq(V) /\ FlattenSeq(Append(f, x)) = FlattenSeq(f) \o x

LEMMA FlattenMore ==
  ASSUME NEW V, NEW f \in Seq(Seq(V)), NEW x \in Seq(V)
  PROVE  FlatMore(f, x, V)
<1> DEFINE W == Seq(V)
           N == Len(f)
           e == Append(f, x)
<1>1. /\ N \in Nat /\ Len(e) = N + 1 /\ e \in Seq(W) /\ e # <<>>
      /\ e[N + 1] = x /\ \A i \in 1..N : e[i] = f[i]
  <2>1. f \in Seq(W) /\ x \in W
    OBVIOUS
  <2> HIDE DEF W
  <2> QED
    BY <2>1
<1> HIDE DEF e
<1>2. PICK h : FlatLoop(h, e, V) /\ FlattenSeq(e) = h[N + 1]
  BY <1>1, FlattenDef DEF W
<1>3. CASE f = <<>>
  <2>1. N = 0 /\ FlattenSeq(f) = <<>>
    <3>1. Len(f) = 0
      BY <1>3
    <3>2. FlattenSeq(f) = f
      BY <3>1, Zenon DEF FlattenSeq
    <3> QED
      BY <1>3, <3>1, <3>2
  <2>2. h[1] = x
    BY <1>1, <1>2, <2>1 DEF FlatLoop
  <2>3. FlattenSeq(e) = x
    BY <1>2, <2>1, <2>2
  <2>4. <<>> \o x = x /\ <<>> \in Seq(V)
    OBVIOUS
  <2> QED
    BY <2>1, <2>3, <2>4, Zenon DEF FlatMore, e
<1>4. CASE f # <<>>
  <2>1. PICK g : FlatLoop(g, f, V) /\ FlattenSeq(f) = g[N]
    BY <1>4, FlattenDef
  <2>2. N >= 1
    BY <1>1, <1>4
  <2> HIDE DEF N
  <2>3. /\ g[1] = f[1] /\ \A n \in 2..N : g[n] = g[n - 1] \o f[n]
        /\ \A n \in 1..N : g[n] \in Seq(V)
    BY <2>1, Zenon DEF FlatLoop, N
  <2>4. h[1] = e[1] /\ \A n \in 2..(N + 1) : h[n] = h[n - 1] \o e[n]
    BY <1>1, <1>2, Zenon DEF FlatLoop
  <2> DEFINE S == {n \in Nat : n \in 1..N => h[n] = g[n]}
  <2>5. Nat \subseteq S
    <3>1. 0 \in S
      OBVIOUS
    <3>2. ASSUME NEW n \in Nat, n \in S PROVE n + 1 \in S
      <4> SUFFICES ASSUME n + 1 \in 1..N PROVE h[n + 1] = g[n + 1]
        OBVIOUS
      <4>1. CASE n = 0
        <5>1. n + 1 = 1 /\ 1 \in 1..N
          BY <2>2, <4>1, <1>1 DEF N
        <5> QED
          BY <1>1, <2>3, <2>4, <5>1, Zenon
      <4>2. CASE n # 0
        <5> DEFINE k == n + 1
        <5>1. k \in 2..N /\ k \in 2..(N + 1) /\ k \in 1..N /\ k - 1 = n /\ n \in 1..N
          BY <1>1, <4>2 DEF N
        <5>2. h[n] = g[n]
          BY <3>2, <5>1
        <5> HIDE DEF k
        <5>3. h[k] = h[n] \o e[k] /\ g[k] = g[n] \o f[k] /\ e[k] = f[k]
          BY <1>1, <2>3, <2>4, <5>1, Zenon
        <5>4. h[k] = g[k]
          BY <5>2, <5>3, Zenon
        <5> QED
          BY <5>4, Zenon DEF k
      <4> QED
        BY <4>1, <4>2
    <3> HIDE DEF S
    <3> QED
      BY <3>1, <3>2, Induct
  <2>6. N \in 1..N /\ N + 1 \in 2..(N + 1) /\ (N + 1) - 1 = N
    BY <1>1, <2>2 DEF N
  <2>7. h[N] = g[N]
    BY <1>1, <2>5, <2>6
  <2>8. h[N + 1] = h[N] \o x
    <3> DEFINE k == N + 1
    <3>1. k \in 2..k /\ k - 1 = N
      BY <2>6
    <3> HIDE DEF k
    <3>2. h[k] = h[N] \o e[k] /\ e[k] = x
      BY <1>1, <2>4, <3>1, Zenon DEF k
    <3> QED
      BY <3>2, Zenon DEF k
  <2>9. g[N] \in Seq(V)
    BY <2>3, <2>6
  <2> QED
    BY <1>2, <2>1, <2>7, <2>8, <2>9, Zenon DEF FlatMore, e
<1> QED
  BY <1>3, <1>4

LEMMA FlattenType ==
  ASSUME NEW V, NEW f \in Seq(Seq(V))
  PROVE  FlattenSeq(f) \in Seq(V)
<1>1. <<>> \in Seq(V)
  OBVIOUS
<1> QED
  BY <1>1, FlattenMore, Zenon DEF FlatMore

\* The first n pieces.
Upto(f, n) == [i \in 1..n |-> f[i]]

LEMMA UptoIs ==
  ASSUME NEW V, NEW f \in Seq(V)
  PROVE  /\ Upto(f, 0) = <<>> /\ Upto(f, Len(f)) = f
         /\ \A n \in 0..Len(f) : Upto(f, n) \in Seq(V)
<1>1. Upto(f, 0) = <<>>
  BY DEF Upto
<1>2. Upto(f, Len(f)) = f
  BY DEF Upto
<1>3. \A n \in 0..Len(f) : Upto(f, n) \in Seq(V)
  BY DEF Upto
<1> QED
  BY <1>1, <1>2, <1>3

LEMMA UptoMore ==
  ASSUME NEW V, NEW f \in Seq(V), NEW n \in Nat, n < Len(f)
  PROVE  Upto(f, n + 1) = Append(Upto(f, n), f[n + 1])
<1> DEFINE p == Upto(f, n)
           q == Upto(f, n + 1)
           r == Append(p, f[n + 1])
<1>1. n + 1 \in 1..Len(f) /\ n + 1 \in 0..Len(f) /\ n \in 0..Len(f)
  OBVIOUS
<1>2. p \in Seq(V) /\ q \in Seq(V)
  BY <1>1, UptoIs
<1>3. /\ Len(p) = n /\ Len(q) = n + 1
      /\ \A i \in 1..n : p[i] = f[i]
      /\ \A i \in 1..(n + 1) : q[i] = f[i]
  BY <1>1 DEF Upto
<1> HIDE DEF p, q
<1>4. r \in Seq(V) /\ Len(r) = n + 1 /\ r[n + 1] = f[n + 1] /\ \A i \in 1..n : r[i] = p[i]
  BY <1>1, <1>2, <1>3
<1> HIDE DEF r
<1>5. \A i \in 1..(n + 1) : i \in 1..n \/ i = n + 1
  OBVIOUS
<1>6. \A i \in 1..Len(q) : q[i] = r[i]
  BY <1>3, <1>4, <1>5, Zenon
<1>7. q = r
  BY <1>2, <1>3, <1>4, <1>6, Same
<1> QED
  BY <1>7, Zenon DEF p, q, r

\* One piece more.
FlatStep(f, n, V) ==
  /\ FlattenSeq(Upto(f, n)) \in Seq(V)
  /\ n < Len(f) => FlattenSeq(Upto(f, n + 1)) = FlattenSeq(Upto(f, n)) \o f[n + 1]

LEMMA FlattenUpto ==
  ASSUME NEW V, NEW f \in Seq(Seq(V)), NEW n \in 0..Len(f)
  PROVE  FlatStep(f, n, V)
<1> DEFINE W == Seq(V)
           p == Upto(f, n)
<1>1. p \in Seq(W)
  <2> HIDE DEF W
  <2> QED
    BY UptoIs DEF W
<1>2. FlattenSeq(p) \in Seq(V)
  BY <1>1, FlattenType
<1>3. ASSUME n < Len(f) PROVE FlattenSeq(Upto(f, n + 1)) = FlattenSeq(p) \o f[n + 1]
  <2>1. f[n + 1] \in W /\ Upto(f, n + 1) = Append(p, f[n + 1])
    <3> HIDE DEF W
    <3>1. n \in Nat /\ n + 1 \in 1..Len(f)
      BY <1>3 DEF W
    <3>2. f \in Seq(W)
      BY DEF W
    <3>3. f[n + 1] \in W
      BY <3>1, <3>2
    <3> QED
      BY <1>3, <3>1, <3>2, <3>3, UptoMore
  <2> DEFINE x == f[n + 1]
  <2>2. x \in Seq(V) /\ Upto(f, n + 1) = Append(p, x)
    BY <2>1
  <2> HIDE DEF p, x
  <2>3. FlatMore(p, x, V)
    BY <1>1, <2>2, FlattenMore
  <2> QED
    BY <2>2, <2>3, Zenon DEF FlatMore, x
<1> QED
  BY <1>2, <1>3, Zenon DEF FlatStep

\* The first pieces are what the whole begins with.
LEMMA FlattenBegins ==
  ASSUME NEW V, NEW f \in Seq(Seq(V)), NEW n \in 0..Len(f)
  PROVE  GoesOn(FlattenSeq(f), FlattenSeq(Upto(f, n)))
<1> DEFINE N == Len(f)
           h(m) == FlattenSeq(Upto(f, m))
           p == h(n)
<1>1. N \in Nat /\ n \in Nat /\ n <= N
  OBVIOUS
<1>2. \A m \in 0..N : h(m) \in Seq(V) /\ (m < N => h(m + 1) = h(m) \o f[m + 1])
  BY FlattenUpto, Zenon DEF FlatStep
<1>3. \A m \in 1..N : f[m] \in Seq(V)
  <2> DEFINE W == Seq(V)
  <2>1. f \in Seq(W)
    OBVIOUS
  <2> HIDE DEF W
  <2>2. \A m \in 1..N : f[m] \in W
    BY <2>1
  <2> QED
    BY <2>2 DEF W
<1>4. h(N) = FlattenSeq(f)
  <2> DEFINE W == Seq(V)
  <2>1. f \in Seq(W)
    OBVIOUS
  <2> HIDE DEF W
  <2>2. Upto(f, N) = f
    BY <2>1, UptoIs
  <2> QED
    BY <2>2, Zenon
<1> HIDE DEF h, N
<1> DEFINE S == {m \in Nat : n <= m /\ m <= N => GoesOn(h(m), p)}
<1>5. 0 \in S /\ p \in Seq(V) /\ GoesOn(p, p)
  <2>1. p \in Seq(V)
    BY <1>1, <1>2
  <2> HIDE DEF p
  <2>2. GoesOn(p, p)
    <3>1. Len(p) \in Nat
      BY <2>1
    <3> QED
      BY <3>1 DEF GoesOn
  <2>3. n <= 0 => n = 0
    BY <1>1
  <2> QED
    BY <2>1, <2>2, <2>3 DEF p
<1>6. ASSUME NEW m \in Nat, m \in S PROVE m + 1 \in S
  <2> SUFFICES ASSUME n <= m + 1, m + 1 <= N PROVE GoesOn(h(m + 1), p)
    OBVIOUS
  <2>1. CASE n = m + 1
    BY <1>5, <2>1, Zenon
  <2>2. CASE n # m + 1
    <3>1. n <= m /\ m < N /\ m \in 0..N /\ m + 1 \in 1..N
      BY <1>1, <2>2
    <3> DEFINE a == h(m)
               b == f[m + 1]
               c == h(m + 1)
    <3>2. GoesOn(a, p) /\ a \in Seq(V) /\ b \in Seq(V) /\ c = a \o b
      BY <1>2, <1>3, <1>6, <3>1
    <3> HIDE DEF a, b, c, p
    <3>3. Len(c) = Len(a) + Len(b) /\ Len(a) \in Nat /\ Len(b) \in Nat
          /\ \A i \in 1..Len(a) : c[i] = a[i]
      BY <3>2, Joining
    <3>4. Len(p) <= Len(a) /\ \A i \in 1..Len(p) : a[i] = p[i]
      BY <3>2, Zenon DEF GoesOn
    <3>5. Len(p) \in Nat
      BY <1>5
    <3>6. Len(p) <= Len(c) /\ \A i \in 1..Len(p) : i \in 1..Len(a)
      BY <3>3, <3>4, <3>5
    <3> QED
      BY <3>3, <3>4, <3>6, Zenon DEF GoesOn, c
  <2> QED
    BY <2>1, <2>2
<1>7. Nat \subseteq S
  <2> HIDE DEF S
  <2> QED
    BY <1>5, <1>6, Induct
<1>8. GoesOn(h(N), p)
  BY <1>1, <1>7
<1> QED
  BY <1>4, <1>8, Zenon DEF h

\* What is ordered, and what the pieces and the messages order.
Orders      == Commands \union [DOMAIN Plain -> Nat]
Asks(p)     == [j \in DOMAIN p |-> CommandsIn(Push(p[j]).frames)]
Wants(said) == [i \in DOMAIN said |-> said[i].commands]

LEMMA Wider ==
  ASSUME NEW S, NEW T, S \subseteq T, NEW x \in Seq(S)
  PROVE  x \in Seq(T)
  OBVIOUS

Tacked(z, p, q) ==
  /\ Len(z) = Len(p) + Len(q)
  /\ \A i \in 1..Len(p) : z[i] = p[i]
  /\ \A i \in 1..Len(q) : z[Len(p) + i] = q[i]
LEMMA Tack ==
  ASSUME NEW V, NEW p \in Seq(V), NEW q \in Seq(V)
  PROVE  p \o q \in Seq(V) /\ Tacked(p \o q, p, q)
BY DEF Tacked

\* Joining is associative.
Regroups(a, b, c) == (a \o b) \o c = a \o (b \o c)
LEMMA Regroup ==
  ASSUME NEW V, NEW a \in Seq(V), NEW b \in Seq(V), NEW c \in Seq(V)
  PROVE  Regroups(a, b, c) /\ a \o b \in Seq(V)
<1> DEFINE d == a \o b
           e == b \o c
           x == d \o c
           y == a \o e
<1>1. d \in Seq(V) /\ Tacked(d, a, b)
  BY Tack, Zenon
<1>2. e \in Seq(V) /\ Tacked(e, b, c)
  BY Tack, Zenon
<1> HIDE DEF d, e
<1> DEFINE A == Len(a)
           B == Len(b)
           C == Len(c)
<1>3. A \in Nat /\ B \in Nat /\ C \in Nat
  OBVIOUS
<1>4. x \in Seq(V) /\ Tacked(x, d, c)
  BY <1>1, Tack, Zenon
<1>5. y \in Seq(V) /\ Tacked(y, a, e)
  BY <1>2, Tack, Zenon
<1> HIDE DEF x, y, A, B, C
<1>6. Len(x) = A + B + C /\ Len(y) = A + B + C /\ Len(d) = A + B /\ Len(e) = B + C
  BY <1>1, <1>2, <1>3, <1>4, <1>5 DEF Tacked, A, B, C
<1>7. ASSUME NEW i \in 1..Len(x) PROVE x[i] = y[i]
  <2>1. i \in Int /\ 1 <= i /\ i <= A + B + C
    BY <1>3, <1>6
  <2>2. CASE i <= A
    <3>1. i \in 1..Len(a) /\ i \in 1..Len(d)
      BY <1>3, <1>6, <2>1, <2>2 DEF A
    <3> QED
      BY <1>1, <1>4, <1>5, <3>1, Zenon DEF Tacked
  <2>3. CASE i > A /\ i <= A + B
    <3> DEFINE j == i - A
    <3>1. j \in 1..Len(b) /\ i = Len(a) + j /\ i \in 1..Len(d) /\ j \in 1..Len(e)
      BY <1>3, <1>6, <2>1, <2>3 DEF A, B
    <3> HIDE DEF j
    <3> QED
      BY <1>1, <1>2, <1>4, <1>5, <3>1, Zenon DEF Tacked
  <2>4. CASE i > A + B
    <3> DEFINE j == i - (A + B)
               m == B + j
    <3>1. j \in 1..Len(c) /\ i = Len(d) + j /\ m = Len(b) + j /\ m \in 1..Len(e) /\ i = Len(a) + m
      BY <1>3, <1>6, <2>1, <2>4 DEF A, B, C
    <3> HIDE DEF j, m
    <3>2. x[i] = c[j]
      BY <1>4, <3>1, Zenon DEF Tacked
    <3>3. e[m] = c[j]
      BY <1>2, <3>1, Zenon DEF Tacked
    <3>4. y[i] = e[m]
      BY <1>5, <3>1, Zenon DEF Tacked
    <3> QED
      BY <3>2, <3>3, <3>4, Zenon
  <2> QED
    BY <1>3, <2>1, <2>2, <2>3, <2>4
<1>8. x = y
  BY <1>4, <1>5, <1>6, <1>7, Same
<1> QED
  BY <1>1, <1>8, Zenon DEF x, y, d, e, Regroups

LEMMA AsksType ==
  ASSUME NEW p \in Seq(Seq(Byte))
  PROVE  /\ Asks(p) \in Seq(Seq(Orders)) /\ Len(Asks(p)) = Len(p)
         /\ \A j \in 1..Len(p) : Asks(p)[j] = CommandsIn(Push(p[j]).frames)
<1> DEFINE B == Seq(Byte)
           S == Seq(Orders)
           c(j) == CommandsIn(Push(p[j]).frames)
<1>1. ASSUME NEW b \in B PROVE CommandsIn(Push(b).frames) \in S
  <2>1. CommandsIn(Push(b).frames) \in Seq(Commands)
    BY PushKeeps, CommandsInType
  <2>2. Commands \subseteq Orders
    BY Zenon DEF Orders
  <2> QED
    BY <2>1, <2>2, Wider
<1>2. p \in Seq(B)
  OBVIOUS
<1> HIDE DEF B, S
<1>3. DOMAIN p = 1..Len(p) /\ Len(p) \in Nat /\ \A j \in 1..Len(p) : p[j] \in B
  BY <1>2
<1>4. \A j \in 1..Len(p) : c(j) \in S
  BY <1>1, <1>3, Zenon
<1>5. Asks(p) = [j \in 1..Len(p) |-> c(j)]
  BY <1>3, Zenon DEF Asks
<1> HIDE DEF c
<1>6. Asks(p) \in Seq(S) /\ Len(Asks(p)) = Len(p) /\ \A j \in 1..Len(p) : Asks(p)[j] = c(j)
  BY <1>3, <1>4, <1>5
<1> QED
  BY <1>6, Zenon DEF c, S

LEMMA WantsType ==
  ASSUME NEW said \in Seq(Message)
  PROVE  /\ Wants(said) \in Seq(Seq(Orders)) /\ Len(Wants(said)) = Len(said)
         /\ \A i \in 1..Len(said) : Wants(said)[i] = said[i].commands
<1> DEFINE S == Seq(Orders)
           P == [DOMAIN Plain -> Nat]
           c(i) == said[i].commands
<1>1. ASSUME NEW m \in Message PROVE m.commands \in S
  <2>1. m.commands \in Seq(P)
    BY DEF Message
  <2>2. P \subseteq Orders
    BY Zenon DEF Orders
  <2> HIDE DEF P
  <2> QED
    BY <2>1, <2>2, Wider
<1> HIDE DEF S
<1>2. DOMAIN said = 1..Len(said) /\ Len(said) \in Nat /\ \A i \in 1..Len(said) : said[i] \in Message
  <2> HIDE DEF Message
  <2> QED
    OBVIOUS
<1>3. \A i \in 1..Len(said) : c(i) \in S
  BY <1>1, <1>2, Zenon
<1>4. Wants(said) = [i \in 1..Len(said) |-> c(i)]
  BY <1>2, Zenon DEF Wants
<1> HIDE DEF c
<1>5. Wants(said) \in Seq(S) /\ Len(Wants(said)) = Len(said)
      /\ \A i \in 1..Len(said) : Wants(said)[i] = c(i)
  BY <1>2, <1>3, <1>4
<1> QED
  BY <1>5, Zenon DEF c, S

LEMMA WantedIs ==
  ASSUME NEW said \in Seq(Message), NEW n \in 0..Len(said)
  PROVE  Wanted(SubSeq(said, 1, n)) = FlattenSeq(Upto(Wants(said), n))
<1> DEFINE p == SubSeq(said, 1, n)
           q == [i \in DOMAIN p |-> p[i].commands]
<1>1. DOMAIN p = 1..n /\ DOMAIN said = 1..Len(said) /\ n \in Nat /\ Len(said) \in Nat /\ n <= Len(said)
      /\ \A i \in 1..n : p[i] = said[i]
  <2> HIDE DEF Message
  <2> QED
    OBVIOUS
<1> HIDE DEF p
<1>2. \A i \in 1..n : i \in 1..Len(said)
  BY <1>1
<1>3. q = [i \in 1..n |-> said[i].commands]
  BY <1>1, Zenon
<1>4. Upto(Wants(said), n) = [i \in 1..n |-> said[i].commands]
  BY <1>1, <1>2, Zenon DEF Upto, Wants
<1> QED
  BY <1>3, <1>4, Zenon DEF Wanted, p

\* The message leaves nothing unread, and its pieces order what it orders.
Tidied(m) ==
  /\ \A j \in DOMAIN m.payloads : Push(m.payloads[j]).rest = <<>>
  /\ m.commands = FlattenSeq(Asks(m.payloads))

\* What was ordered when so much of a script was sent.
Sofar(w, k, p, j) == FlattenSeq(Upto(w, k)) \o FlattenSeq(Upto(Asks(p), j))
Said(said, n) ==
  IF n = <<>> THEN <<>> ELSE Sofar(Wants(said), Len(n) - 1, said[Len(n)].payloads, n[Len(n)])
Within(said, n) == n # <<>> => n[Len(n)] \in 1..Len(said[Len(n)].payloads)

\* The messages before, and then the one of which one piece more is sent.
LEMMA SofarMore ==
  ASSUME NEW w \in Seq(Seq(Orders)), NEW k \in 0..Len(w), NEW p \in Seq(Seq(Byte)),
         NEW j \in Nat, j < Len(p)
  PROVE  /\ Sofar(w, k, p, j) \in Seq(Orders)
         /\ Sofar(w, k, p, j + 1) = Sofar(w, k, p, j) \o CommandsIn(Push(p[j + 1]).frames)
<1> DEFINE f == Asks(p)
           a == FlattenSeq(Upto(w, k))
           b == FlattenSeq(Upto(f, j))
           c == f[j + 1]
           B == Seq(Byte)
<1>1. Len(p) \in Nat /\ j \in 0..Len(p) /\ j + 1 \in 1..Len(p)
  <2>1. p \in Seq(B)
    OBVIOUS
  <2> HIDE DEF B
  <2>2. Len(p) \in Nat
    BY <2>1
  <2> QED
    BY <2>2
<1>2. f \in Seq(Seq(Orders)) /\ Len(f) = Len(p) /\ c = CommandsIn(Push(p[j + 1]).frames)
  BY <1>1, AsksType
<1> HIDE DEF f, c
<1>3. FlatStep(w, k, Orders) /\ FlatStep(f, j, Orders)
  BY <1>1, <1>2, FlattenUpto
<1>4. a \in Seq(Orders) /\ b \in Seq(Orders) /\ FlattenSeq(Upto(f, j + 1)) = b \o c
  BY <1>2, <1>3, Zenon DEF FlatStep, c
<1>5. c \in Seq(Orders)
  <2> DEFINE S == Seq(Orders)
  <2>1. f \in Seq(S)
    BY <1>2
  <2> HIDE DEF S
  <2>2. f[j + 1] \in S
    BY <1>1, <1>2, <2>1
  <2> QED
    BY <2>2 DEF S, c
<1> HIDE DEF a, b
<1>6. Regroups(a, b, c) /\ a \o b \in Seq(Orders)
  <2>1. a \in Seq(Orders) /\ b \in Seq(Orders)
    BY <1>4
  <2> QED
    BY <1>5, <2>1, Regroup, Zenon
<1> QED
  BY <1>2, <1>4, <1>6, Zenon DEF Regroups, Sofar, f, a, b

\* What one piece more makes of what was ordered.
SaysMore(said, n, n1, bytes) ==
  /\ Within(said, n1) /\ Push(bytes).rest = <<>>
  /\ Said(said, n1) = Said(said, n) \o CommandsIn(Push(bytes).frames)

LEMMA SaidType ==
  ASSUME NEW said \in Seq(Message), NEW n \in Seq(Nat), Len(n) <= Len(said), Within(said, n)
  PROVE  Said(said, n) \in Seq(Orders)
<1>1. CASE n = <<>>
  <2>1. <<>> \in Seq(Orders)
    OBVIOUS
  <2> QED
    BY <1>1, <2>1, Zenon DEF Said
<1>2. CASE n # <<>>
  <2> DEFINE k == Len(n)
             p == said[k].payloads
             w == Wants(said)
             f == Asks(p)
             a == FlattenSeq(Upto(w, k - 1))
             b == FlattenSeq(Upto(f, n[k]))
  <2>1. k \in 1..Len(said) /\ k - 1 \in 0..Len(said)
    <3> HIDE DEF Message
    <3> QED
      BY <1>2
  <2> HIDE DEF k
  <2>2. p \in Seq(Seq(Byte)) /\ n[k] \in 0..Len(p)
    <3>1. n[k] \in 1..Len(p)
      BY <1>2, Zenon DEF Within, k
    <3>2. said[k] \in Message
      <4> HIDE DEF Message
      <4> QED
        BY <2>1
    <3>3. p \in Seq(Seq(Byte))
      BY <3>2 DEF Message
    <3> HIDE DEF p
    <3> QED
      BY <3>1, <3>3
  <2>3. f \in Seq(Seq(Orders)) /\ Len(f) = Len(p)
    BY <2>2, AsksType
  <2>4. w \in Seq(Seq(Orders)) /\ Len(w) = Len(said)
    BY WantsType
  <2> HIDE DEF p, w, f
  <2>5. FlatStep(w, k - 1, Orders) /\ FlatStep(f, n[k], Orders)
    BY <2>1, <2>2, <2>3, <2>4, FlattenUpto
  <2>6. a \in Seq(Orders) /\ b \in Seq(Orders)
    BY <2>5, Zenon DEF FlatStep
  <2> HIDE DEF a, b
  <2>7. a \o b \in Seq(Orders)
    BY <2>6
  <2> QED
    BY <1>2, <2>7, Zenon DEF Said, Sofar, a, b, w, f, p, k
<1> QED
  BY <1>1, <1>2

\* When a message is sent to its end, it is one of the messages before.
LEMMA SaidWhole ==
  ASSUME NEW said \in Seq(Message), NEW n \in Seq(Nat), Len(n) <= Len(said),
         \A i \in 1..Len(said) : Tidied(said[i]),
         n # <<>> => n[Len(n)] = Len(said[Len(n)].payloads)
  PROVE  Said(said, n) = FlattenSeq(Upto(Wants(said), Len(n)))
<1> DEFINE w == Wants(said)
           k == Len(n)
           h(i) == FlattenSeq(Upto(w, i))
<1>1. w \in Seq(Seq(Orders)) /\ Len(w) = Len(said) /\ \A i \in 1..Len(said) : w[i] = said[i].commands
  BY WantsType
<1>2. CASE n = <<>>
  <2>1. k = 0
    BY <1>2
  <2>2. Upto(w, 0) = <<>>
    <3> DEFINE S == Seq(Orders)
    <3>1. w \in Seq(S)
      BY <1>1
    <3> HIDE DEF S, w
    <3> QED
      BY <3>1, UptoIs
  <2>3. FlattenSeq(<<>>) = <<>>
    <3>1. Len(<<>>) = 0
      OBVIOUS
    <3> QED
      BY <3>1, Zenon DEF FlattenSeq
  <2> QED
    BY <1>2, <2>1, <2>2, <2>3, Zenon DEF Said
<1>3. CASE n # <<>>
  <2> DEFINE p == said[k].payloads
             f == Asks(p)
  <2>1. k \in 1..Len(said) /\ k - 1 \in 0..Len(said) /\ k - 1 < Len(said) /\ (k - 1) + 1 = k
    <3> HIDE DEF Message
    <3> QED
      BY <1>3
  <2>2. p \in Seq(Seq(Byte)) /\ said[k].commands = FlattenSeq(f) /\ n[k] = Len(p)
    <3>1. said[k] \in Message
      <4> HIDE DEF Message
      <4> QED
        BY <2>1
    <3>2. p \in Seq(Seq(Byte))
      BY <3>1 DEF Message
    <3> QED
      BY <1>3, <2>1, <3>2, Zenon DEF Tidied
  <2> HIDE DEF w, k, p, f
  <2>3. Upto(f, n[k]) = f
    <3> DEFINE S == Seq(Orders)
    <3>1. f \in Seq(S) /\ Len(f) = Len(p)
      BY <2>2, AsksType DEF f
    <3> HIDE DEF S
    <3> QED
      BY <2>2, <3>1, UptoIs
  <2>4. FlatStep(w, k - 1, Orders)
    BY <1>1, <2>1, FlattenUpto
  <2>5. h((k - 1) + 1) = h(k - 1) \o w[(k - 1) + 1]
    BY <1>1, <2>1, <2>4, Zenon DEF FlatStep
  <2>6. h(k) = h(k - 1) \o FlattenSeq(f)
    <3> HIDE DEF h
    <3>1. w[k] = FlattenSeq(f)
      BY <1>1, <2>1, <2>2, Zenon
    <3> QED
      BY <2>1, <2>5, <3>1, Zenon
  <2> QED
    BY <1>3, <2>3, <2>6, Zenon DEF Said, Sofar, w, k, p, f
<1> QED
  BY <1>2, <1>3

LEMMA PieceSays ==
  ASSUME FlightTypes, NEW s \in Station, HasNext(s), Within(script[s], sent[s]),
         \A i \in 1..Len(script[s]) : Tidied(script[s][i])
  PROVE  SaysMore(script[s], sent[s], Piece(s).sent, Piece(s).bytes)
<1> DEFINE x == script[s]
           y == sent[s]
           k == Len(y)
           w == Wants(x)
<1>1. x \in Seq(Message) /\ y \in Seq(Nat) /\ k <= Len(x)
  BY DEF FlightTypes, Sending
<1>2. \A i \in 1..Len(x) : Tidied(x[i])
  OBVIOUS
<1>3. Within(x, y)
  OBVIOUS
<1> HIDE DEF x, y
<1>4. w \in Seq(Seq(Orders)) /\ Len(w) = Len(x)
  BY <1>1, WantsType
<1>5. k \in Nat /\ Len(x) \in Nat
  <2> HIDE DEF Message
  <2> QED
    BY <1>1
<1>6. ASSUME NEW i \in 1..Len(x)
      PROVE  /\ x[i].payloads \in Seq(Seq(Byte)) /\ Len(x[i].payloads) \in Nat
             /\ Len(x[i].payloads) >= 1
             /\ \A j \in 1..Len(x[i].payloads) : Push(x[i].payloads[j]).rest = <<>>
  <2>1. x[i] \in Message
    <3> HIDE DEF Message
    <3> QED
      BY <1>1
  <2> DEFINE B == Seq(Byte)
             p == x[i].payloads
  <2>2. p \in Seq(B) /\ p # <<>>
    BY <2>1 DEF Message
  <2>3. \A j \in DOMAIN p : Push(p[j]).rest = <<>>
    BY <1>2, Zenon DEF Tidied
  <2> HIDE DEF B, p
  <2>4. Len(p) \in Nat /\ Len(p) >= 1 /\ DOMAIN p = 1..Len(p)
    BY <2>2
  <2> QED
    BY <2>2, <2>3, <2>4, Zenon DEF B, p
<1> HIDE DEF w
<1>7. CASE More(s)
  <2> DEFINE p == x[k].payloads
             j == y[k]
             m == j + 1
             b == p[m]
             z == [y EXCEPT ![k] = m]
  <2>1. y # <<>> /\ Last(y) < Len(x[k].payloads)
    BY <1>7, Zenon DEF More, x, y
  <2>2. Last(y) = y[k]
    BY Zenon DEF Last
  <2>3. /\ k \in 1..Len(x) /\ k \in 1..Len(y) /\ j \in Nat /\ k - 1 \in 0..Len(w)
    <3>1. k >= 1
      BY <1>1, <2>1
    <3>2. k \in 1..Len(y) /\ k \in 1..Len(x) /\ k - 1 \in 0..Len(w)
      BY <1>1, <1>4, <1>5, <3>1
    <3> QED
      BY <1>1, <3>2
  <2>4. Piece(s) = [sent |-> z, bytes |-> b]
    BY <1>7, <2>2, Zenon DEF Piece, x, y
  <2>5. z \in Seq(Nat) /\ Len(z) = k /\ z # <<>> /\ z[k] = m
    BY <1>1, <2>3
  <2>6. p \in Seq(Seq(Byte)) /\ Len(p) \in Nat /\ j < Len(p)
        /\ \A i \in 1..Len(p) : Push(p[i]).rest = <<>>
    BY <1>6, <2>1, <2>2, <2>3, Zenon
  <2> HIDE DEF z, j, p, b, k
  <2>7. m \in 1..Len(p) /\ m \in Nat
    BY <2>3, <2>6
  <2>8. Sofar(w, k - 1, p, m) = Sofar(w, k - 1, p, j) \o CommandsIn(Push(b).frames)
    BY <1>4, <2>3, <2>6, SofarMore, Zenon DEF b
  <2> HIDE DEF m
  <2>9. Said(x, z) = Sofar(w, k - 1, p, m) /\ Said(x, y) = Sofar(w, k - 1, p, j)
    <3>1. Said(x, z) = Sofar(w, k - 1, p, m)
      BY <2>5, Zenon DEF Said, w, p
    <3>2. Said(x, y) = Sofar(w, k - 1, p, j)
      BY <2>1, Zenon DEF Said, w, p, j, k
    <3> QED
      BY <3>1, <3>2
  <2>10. Within(x, z)
    BY <2>5, <2>7, Zenon DEF Within, p
  <2>11. Push(b).rest = <<>>
    BY <2>6, <2>7, Zenon DEF b
  <2>12. SaysMore(x, y, z, b)
    BY <2>8, <2>9, <2>10, <2>11, Zenon DEF SaysMore
  <2>13. Piece(s).sent = z /\ Piece(s).bytes = b
    BY <2>4
  <2> QED
    BY <2>12, <2>13, Zenon DEF x, y
<1>8. CASE ~More(s)
  <2> DEFINE k1 == k + 1
             p == x[k1].payloads
             b == p[1]
             z == Append(y, 1)
  <2>1. k < Len(x) /\ Rested(s)
    BY <1>8, Zenon DEF HasNext, x, y
  <2>2. k1 \in 1..Len(x) /\ k1 - 1 = k /\ k \in 0..Len(w)
    BY <1>4, <1>5, <2>1
  <2>3. Piece(s) = [sent |-> z, bytes |-> b]
    BY <1>8, Zenon DEF Piece, x, y
  <2>4. z \in Seq(Nat) /\ Len(z) = k1 /\ z # <<>> /\ z[k1] = 1
    BY <1>1
  <2>5. y # <<>> => y[k] = Len(x[k].payloads)
    BY <2>1, Zenon DEF Rested, Last, x, y
  <2>6. Said(x, y) = FlattenSeq(Upto(w, k))
    BY <1>1, <1>2, <2>5, SaidWhole, Zenon DEF w, k
  <2> HIDE DEF k1
  <2>7. p \in Seq(Seq(Byte)) /\ Len(p) \in Nat /\ Len(p) >= 1
        /\ \A i \in 1..Len(p) : Push(p[i]).rest = <<>>
    BY <1>6, <2>2, Zenon
  <2> HIDE DEF z, p, b, k
  <2>8. 1 \in 1..Len(p) /\ 0 < Len(p) /\ 0 \in Nat /\ 0 + 1 = 1
    BY <2>7
  <2> DEFINE c == CommandsIn(Push(b).frames)
             a == FlattenSeq(Upto(w, k))
  <2>9. Sofar(w, k, p, 1) = Sofar(w, k, p, 0) \o c
    <3>1. Sofar(w, k, p, 0 + 1) = Sofar(w, k, p, 0) \o CommandsIn(Push(p[0 + 1]).frames)
      BY <1>4, <2>2, <2>7, <2>8, SofarMore, Zenon
    <3> QED
      BY <2>8, <3>1, Zenon DEF b
  <2>10. Sofar(w, k, p, 0) = a
    <3> DEFINE f == Asks(p)
               S == Seq(Orders)
    <3>1. f \in Seq(S)
      BY <2>7, AsksType
    <3>2. FlatStep(w, k, Orders)
      BY <1>4, <2>2, FlattenUpto
    <3>3. a \in S
      BY <3>2, Zenon DEF FlatStep
    <3> HIDE DEF f, S, a
    <3>4. Upto(f, 0) = <<>>
      BY <3>1, UptoIs
    <3>5. FlattenSeq(<<>>) = <<>>
      <4>1. Len(<<>>) = 0
        OBVIOUS
      <4> QED
        BY <4>1, Zenon DEF FlattenSeq
    <3>6. a \o <<>> = a
      BY <3>3 DEF S
    <3> QED
      BY <3>4, <3>5, <3>6, Zenon DEF Sofar, f, a
  <2> HIDE DEF c, a
  <2>11. Said(x, z) = Sofar(w, k, p, 1)
    BY <2>2, <2>4, Zenon DEF Said, w, p
  <2>12. Within(x, z)
    BY <2>4, <2>8, Zenon DEF Within, p
  <2>13. Push(b).rest = <<>>
    BY <2>7, <2>8, Zenon DEF b
  <2>14. SaysMore(x, y, z, b)
    BY <2>6, <2>9, <2>10, <2>11, <2>12, <2>13, Zenon DEF SaysMore, c, a
  <2>15. Piece(s).sent = z /\ Piece(s).bytes = b
    BY <2>3
  <2> QED
    BY <2>14, <2>15, Zenon DEF x, y
<1> QED
  BY <1>7, <1>8

\* The commands in done that the numbers in a name.
Named(a, done) == [i \in DOMAIN a |-> done[a[i]].command]

\* Serving n commands puts that many numbers behind a, those of what is then done.
Asking(v, a, b, n) ==
  /\ Len(v.applied) = Len(b) + n /\ Len(v.asked) = Len(a) + n
  /\ \A i \in 1..Len(a) : v.asked[i] = a[i]
  /\ \A i \in 1..n : v.asked[Len(a) + i] = Len(b) + i

LEMMA AskingMore ==
  ASSUME NEW v \in ServeStage, NEW c \in Commands, NEW a \in Seq(Nat), NEW b \in Seq(Done),
         NEW n \in Nat, Asking(v, a, b, n)
  PROVE  Asking(Serve(v, c), a, b, n + 1)
<1> DEFINE p == v.asked
           w == Serve(v, c)
           k == Len(v.applied) + 1
           q == Append(p, k)
           d == [command |-> c, after |-> After(v.drone, c)]
           A == Len(a)
           B == Len(b)
<1>1. p \in Seq(Nat) /\ v.applied \in Seq(Done) /\ Len(v.applied) \in Nat
  BY ServeStageParts
<1>2. w.asked = q /\ w.applied = Append(v.applied, d)
  BY ServeIs
<1> HIDE DEF d
<1>3. Len(w.applied) = Len(v.applied) + 1
  <2> DEFINE e == v.applied
  <2>1. e \in Seq(Done) /\ w.applied = Append(e, d)
    BY <1>1, <1>2
  <2> HIDE DEF e, w
  <2>2. Len(Append(e, d)) = Len(e) + 1
    BY <2>1
  <2> QED
    BY <2>1, <2>2, Zenon DEF e
<1>4. A \in Nat /\ B \in Nat
  OBVIOUS
<1>5. /\ Len(v.applied) = B + n /\ Len(p) = A + n
      /\ \A i \in 1..A : p[i] = a[i]
      /\ \A i \in 1..n : p[A + i] = B + i
  BY Zenon DEF Asking
<1> HIDE DEF w, A, B, p
<1>6. k = B + (n + 1) /\ k \in Nat
  BY <1>1, <1>4, <1>5
<1> HIDE DEF k
<1>7. Len(q) = Len(p) + 1 /\ q[Len(p) + 1] = k /\ \A i \in 1..Len(p) : q[i] = p[i]
  <2>1. p \in Seq(Nat)
    BY <1>1
  <2> QED
    BY <1>6, <2>1
<1> HIDE DEF q
<1>8. Len(q) = A + (n + 1) /\ Len(w.applied) = B + (n + 1)
  BY <1>3, <1>4, <1>5, <1>7
<1>9. \A i \in 1..A : q[i] = a[i]
  <2>1. \A i \in 1..A : i \in 1..Len(p)
    BY <1>4, <1>5
  <2> QED
    BY <1>5, <1>7, <2>1, Zenon
<1>10. ASSUME NEW i \in 1..(n + 1) PROVE q[A + i] = B + i
  <2>1. CASE i = n + 1
    <3>1. A + i = Len(p) + 1
      BY <1>4, <1>5, <2>1
    <3>2. q[A + i] = k
      BY <1>7, <3>1, Zenon
    <3> QED
      BY <1>6, <2>1, <3>2
  <2>2. CASE i # n + 1
    <3>1. i \in 1..n /\ A + i \in 1..Len(p)
      BY <1>4, <1>5, <2>2
    <3> QED
      BY <1>5, <1>7, <3>1, Zenon
  <2> QED
    BY <2>1, <2>2
<1> QED
  BY <1>2, <1>8, <1>9, <1>10, Zenon DEF Asking, A, B, w

LEMMA ServedAsks ==
  ASSUME NEW s, NEW commands \in Seq(Commands), Before(s) \in ServeStage
  PROVE  Asking(Served(s, commands), asked[s], applied, Len(commands))
<1> DEFINE N == Len(commands)
           a == asked[s]
<1>1. PICK g : ServeLoop(g, Before(s), commands) /\ Served(s, commands) = g[N]
  BY ServedDef
<1>2. N \in Nat /\ \A n \in 1..N : commands[n] \in Commands
  OBVIOUS
<1>3. applied \in Seq(Done) /\ Before(s).applied = applied /\ a \in Seq(Nat) /\ Before(s).asked = a
  <2>1. Before(s).applied = applied /\ Before(s).asked = asked[s]
    BY DEF Before
  <2>2. Before(s).applied \in Seq(Done) /\ Before(s).asked \in Seq(Nat)
    BY ServeStageParts
  <2> QED
    BY <2>1, <2>2
<1>4. /\ g[0] = Before(s) /\ \A n \in 1..N : g[n] = Serve(g[n - 1], commands[n])
      /\ \A n \in 0..N : g[n] \in ServeStage
  BY <1>1, Zenon DEF ServeLoop
<1> HIDE DEF N, a
<1> DEFINE P(n) == Asking(g[n], a, applied, n)
           S == {n \in Nat : n <= N => P(n)}
<1>5. P(0)
  <2>1. Len(applied) \in Nat /\ Len(applied) + 0 = Len(applied)
    BY <1>3
  <2>2. Len(a) \in Nat /\ Len(a) + 0 = Len(a)
    BY <1>3
  <2>3. \A i \in 1..0 : FALSE
    OBVIOUS
  <2> QED
    BY <1>3, <1>4, <2>1, <2>2, <2>3, Zenon DEF Asking
<1>6. ASSUME NEW n \in Nat, n \in S PROVE n + 1 \in S
  <2> SUFFICES ASSUME n + 1 <= N PROVE P(n + 1)
    OBVIOUS
  <2> DEFINE k == n + 1
             c == commands[k]
  <2>1. k \in 1..N /\ k - 1 = n /\ n \in 0..N /\ P(n)
    BY <1>2, <1>6
  <2> HIDE DEF k
  <2>2. g[k] = Serve(g[n], c) /\ g[n] \in ServeStage /\ c \in Commands
    BY <1>2, <1>4, <2>1, Zenon
  <2> HIDE DEF c
  <2>3. Asking(Serve(g[n], c), a, applied, n + 1)
    BY <1>3, <2>1, <2>2, AskingMore
  <2> QED
    BY <2>2, <2>3, Zenon DEF k
<1> HIDE DEF P
<1>7. P(N)
  <2>1. Nat \subseteq S
    <3>1. 0 \in S
      BY <1>5
    <3> HIDE DEF S
    <3> QED
      BY <1>6, <3>1, Induct
  <2> QED
    BY <1>2, <2>1
<1> QED
  BY <1>1, <1>7, Zenon DEF P, N, a

\* What is done for a station grows by its commands.
NamesMore(b, a, done1, done, commands) == Named(b, done1) = Named(a, done) \o commands

LEMMA NamedType ==
  ASSUME NEW a \in Seq(Nat), NEW done \in Seq(Done), \A i \in 1..Len(a) : a[i] \in 1..Len(done)
  PROVE  /\ Named(a, done) \in Seq(Commands) /\ Len(Named(a, done)) = Len(a)
         /\ \A i \in 1..Len(a) : Named(a, done)[i] = done[a[i]].command
<1> DEFINE c(i) == done[a[i]].command
<1>1. \A i \in 1..Len(a) : c(i) \in Commands
  <2>1. \A x \in Done : x.command \in Commands
    BY DEF Done
  <2>2. \A i \in 1..Len(done) : done[i] \in Done
    OBVIOUS
  <2> QED
    BY <2>1, <2>2, Zenon
<1>2. DOMAIN a = 1..Len(a) /\ Len(a) \in Nat
  OBVIOUS
<1>3. Named(a, done) = [i \in 1..Len(a) |-> c(i)]
  BY <1>2, Zenon DEF Named
<1> HIDE DEF c
<1>4. /\ Named(a, done) \in Seq(Commands) /\ Len(Named(a, done)) = Len(a)
      /\ \A i \in 1..Len(a) : Named(a, done)[i] = c(i)
  BY <1>1, <1>2, <1>3
<1> QED
  BY <1>4, Zenon DEF c

LEMMA ServedNames ==
  ASSUME NEW s, NEW commands \in Seq(Commands), Before(s) \in ServeStage,
         Ordered(asked[s], Len(applied))
  PROVE  NamesMore(Served(s, commands).asked, asked[s], Served(s, commands).applied, applied, commands)
<1> DEFINE v == Served(s, commands)
           a == asked[s]
           b == v.asked
           d == applied
           e == v.applied
           A == Len(a)
           D == Len(d)
           N == Len(commands)
           p == Named(a, d)
           q == Named(b, e)
           j == p \o commands
<1>1. d \in Seq(Done) /\ a \in Seq(Nat)
  <2>1. Before(s).applied = applied /\ Before(s).asked = asked[s]
    BY DEF Before
  <2>2. Before(s).applied \in Seq(Done) /\ Before(s).asked \in Seq(Nat)
    BY ServeStageParts
  <2> QED
    BY <2>1, <2>2
<1>2. v \in ServeStage /\ Applying(v, d, commands, N) /\ Asking(v, a, d, N)
  BY ServedApplies, ServedAsks
<1>3. \A i \in 1..A : a[i] \in 1..D
  BY Zenon DEF Ordered
<1> HIDE DEF v
<1>4. e \in Seq(Done) /\ b \in Seq(Nat)
  BY <1>2, ServeStageParts
<1>5. /\ Len(e) = D + N /\ Len(b) = A + N
      /\ \A i \in 1..D : e[i] = d[i]
      /\ \A i \in 1..N : e[D + i].command = commands[i]
      /\ \A i \in 1..A : b[i] = a[i]
      /\ \A i \in 1..N : b[A + i] = D + i
  BY <1>2, Zenon DEF Applying, Asking
<1>6. A \in Nat /\ D \in Nat /\ N \in Nat
  BY <1>1
<1>7. p \in Seq(Commands) /\ Len(p) = A /\ \A i \in 1..A : p[i] = d[a[i]].command
  BY <1>1, <1>3, NamedType
<1> HIDE DEF a, d, b, e, A, D, N
<1>8. \A i \in 1..(A + N) : i \in 1..A \/ \E m \in 1..N : i = A + m
  <2> SUFFICES ASSUME NEW i \in 1..(A + N), i \notin 1..A PROVE \E m \in 1..N : i = A + m
    OBVIOUS
  <2>1. i - A \in 1..N /\ i = A + (i - A)
    BY <1>6
  <2> QED
    BY <2>1
<1>9. \A i \in 1..D : i \in 1..(D + N)
  BY <1>6
<1>10. \A m \in 1..N : D + m \in 1..(D + N)
  BY <1>6
<1>11. ASSUME NEW i \in 1..Len(b) PROVE b[i] \in 1..Len(e)
  <2>1. i \in 1..(A + N)
    BY <1>5, Zenon
  <2>2. b[i] \in 1..(D + N)
    <3>1. CASE i \in 1..A
      <4>1. b[i] = a[i] /\ a[i] \in 1..D
        BY <1>3, <1>5, <3>1, Zenon DEF A, D
      <4> QED
        BY <1>9, <4>1, Zenon
    <3>2. ASSUME NEW m \in 1..N, i = A + m PROVE b[i] \in 1..(D + N)
      <4>1. b[A + m] = D + m /\ D + m \in 1..(D + N)
        BY <1>5, <1>10, Zenon
      <4> QED
        BY <3>2, <4>1, Zenon
    <3> QED
      BY <1>8, <2>1, <3>1, <3>2, Zenon
  <2> QED
    BY <1>5, <2>2, Zenon
<1>12. q \in Seq(Commands) /\ Len(q) = Len(b) /\ \A i \in 1..Len(b) : q[i] = e[b[i]].command
  BY <1>4, <1>11, NamedType
<1> HIDE DEF p, q
<1>13. j \in Seq(Commands) /\ Tacked(j, p, commands)
  <2>1. p \in Seq(Commands)
    BY <1>7
  <2> QED
    BY <2>1, Tack, Zenon
<1> HIDE DEF j
<1>14. /\ Len(j) = A + N
       /\ \A i \in 1..A : j[i] = p[i]
       /\ \A i \in 1..N : j[A + i] = commands[i]
  BY <1>7, <1>13, Zenon DEF Tacked, N
<1>15. ASSUME NEW i \in 1..Len(q) PROVE q[i] = j[i]
  <2>1. i \in 1..(A + N) /\ q[i] = e[b[i]].command
    BY <1>5, <1>12, Zenon
  <2>2. CASE i \in 1..A
    <3>1. b[i] = a[i] /\ a[i] \in 1..D
      BY <1>3, <1>5, <2>2, Zenon DEF A, D
    <3>2. e[a[i]] = d[a[i]]
      BY <1>5, <3>1, Zenon
    <3>3. e[b[i]] = d[a[i]]
      BY <3>1, <3>2, Zenon
    <3> QED
      BY <1>7, <1>14, <2>1, <2>2, <3>3, Zenon
  <2>3. ASSUME NEW m \in 1..N, i = A + m PROVE q[i] = j[i]
    <3>1. b[A + m] = D + m /\ e[D + m].command = commands[m]
      BY <1>5, <2>3, Zenon
    <3>2. e[b[i]].command = commands[m]
      BY <2>3, <3>1, Zenon
    <3> QED
      BY <1>14, <2>1, <2>3, <3>2, Zenon
  <2> QED
    BY <1>8, <2>1, <2>2, <2>3, Zenon
<1>16. q = j
  <2>1. Len(q) = Len(j)
    BY <1>5, <1>12, <1>14, Zenon
  <2> QED
    BY <1>12, <1>13, <1>15, <2>1, Same
<1> QED
  BY <1>16, Zenon DEF NamesMore, q, j, p, a, b, d, e, v

\* In a tidy run the parser keeps nothing between two payloads, and the commands done
\* for a station are those in what it has sent.
Ordering(s) ==
  /\ \A i \in 1..Len(script[s]) : Tidied(script[s][i])
  /\ Within(script[s], sent[s])
  /\ Named(asked[s], applied) = Said(script[s], sent[s])
Unmixed == tidy => parser = <<>> /\ \A s \in Station : Ordering(s)

LEMMA UnmixedStarts ==
  ASSUME ScriptAssumption, WholeScripts, Init
  PROVE  Unmixed
<1>1. /\ sent = [s \in Station |-> <<>>] /\ parser = <<>> /\ applied = <<>>
      /\ asked = [s \in Station |-> <<>>]
      /\ \A s \in Station : script[s] \in Scripts[s]
      /\ tidy = \A s \in Station : \A i \in DOMAIN script[s] : script[s][i].whole
  BY DEF Init
<1>2. ASSUME tidy, NEW s \in Station PROVE Ordering(s)
  <2>1. sent[s] = <<>> /\ asked[s] = <<>>
    BY <1>1
  <2>2. script[s] \in Scripts[s] /\ \A i \in DOMAIN script[s] : script[s][i].whole
    BY <1>1, <1>2, Zenon
  <2>3. script[s] \in Seq(Message)
    BY <2>2, Zenon DEF ScriptAssumption
  <2>4. \A i \in DOMAIN script[s] : Tidied(script[s][i])
    BY <2>2, Zenon DEF WholeScripts, Tidied, Asks
  <2>5. DOMAIN script[s] = 1..Len(script[s])
    <3> DEFINE x == script[s]
    <3>1. x \in Seq(Message)
      BY <2>3
    <3> HIDE DEF x, Message
    <3> QED
      BY <3>1 DEF x
  <2>6. Within(script[s], <<>>) /\ Said(script[s], <<>>) = <<>>
    BY Zenon DEF Within, Said
  <2>7. Named(<<>>, applied) = <<>>
    BY DEF Named
  <2> QED
    BY <2>1, <2>4, <2>5, <2>6, <2>7, Zenon DEF Ordering
<1> QED
  BY <1>1, <1>2, Zenon DEF Unmixed

LEMMA FeedUnmixed ==
  ASSUME FlightInv, Unmixed, NEW s \in Station, Feed(s)
  PROVE  Unmixed'
<1> DEFINE p == Piece(s)
           x == p.bytes
           cs == CommandsIn(Push(x).frames)
           v == Served(s, cs)
<1>0. SUFFICES ASSUME tidy' PROVE parser' = <<>> /\ \A r \in Station : Ordering(r)'
  BY Zenon DEF Unmixed
<1>1. FlightTypes /\ \A r \in Station : Numbered(r)
  BY Zenon DEF FlightInv
<1>2. /\ HasNext(s) /\ sent' = [sent EXCEPT ![s] = p.sent] /\ Ingest(s, x)
      /\ script' = script /\ tidy' = tidy
  BY DEF Feed
<1>3. parser = <<>> /\ \A r \in Station : Ordering(r)
  BY <1>0, <1>2, Zenon DEF Unmixed
<1>4. x \in Seq(Byte)
  BY <1>1, <1>2, PieceType, Zenon
<1>5. SaysMore(script[s], sent[s], p.sent, x)
  <2>1. Within(script[s], sent[s]) /\ \A i \in 1..Len(script[s]) : Tidied(script[s][i])
    BY <1>3, Zenon DEF Ordering
  <2> QED
    BY <1>1, <1>2, <2>1, PieceSays, Zenon
<1>6. parser \o x = x
  <2> HIDE DEF x
  <2> QED
    BY <1>3, <1>4
<1>7. /\ parser' = Push(x).rest /\ applied' = v.applied
      /\ asked' = [asked EXCEPT ![s] = v.asked]
  BY <1>2, <1>6, Zenon DEF Ingest, Keep
<1>8. parser' = <<>>
  BY <1>5, <1>7, Zenon DEF SaysMore
<1> HIDE DEF p, x
<1>9. cs \in Seq(Commands)
  <2>1. Push(x).frames \in Seq(Parsed)
    BY <1>4, PushKeeps
  <2> QED
    BY <2>1, CommandsInType
<1>10. Said(script[s], p.sent) = Said(script[s], sent[s]) \o cs /\ Within(script[s], p.sent)
  BY <1>5, Zenon DEF SaysMore
<1> HIDE DEF cs
<1>11. \A r \in Station : Ordered(asked[r], Len(applied))
  <2> SUFFICES ASSUME NEW r \in Station PROVE Ordered(asked[r], Len(applied))
    OBVIOUS
  <2>1. Numbering(Before(r), Len(heard[r]), Counted)
    BY <1>1, Zenon DEF Numbered
  <2>2. Before(r).applied = applied /\ Before(r).asked = asked[r]
    BY <1>1, BeforeType
  <2> QED
    BY <2>1, <2>2, Zenon DEF Numbering
<1>12. Before(s) \in ServeStage
  BY <1>1, BeforeType
<1>13. NamesMore(v.asked, asked[s], v.applied, applied, cs)
  BY <1>9, <1>11, <1>12, ServedNames
<1>14. \A i \in 1..Len(applied) : v.applied[i] = applied[i]
  <2>1. Applying(v, applied, cs, Len(cs))
    BY <1>9, <1>12, ServedApplies
  <2> QED
    BY <2>1, Zenon DEF Applying
<1> HIDE DEF v
<1>15. asked \in [Station -> Seq(Nat)] /\ DOMAIN sent = Station
  BY <1>1, Zenon DEF FlightTypes
<1>16. ASSUME NEW r \in Station PROVE Ordering(r)'
  <2>1. /\ \A i \in 1..Len(script[r]) : Tidied(script[r][i])
        /\ Within(script[r], sent[r])
        /\ Named(asked[r], applied) = Said(script[r], sent[r])
    BY <1>3, Zenon DEF Ordering
  <2>2. \A i \in 1..Len(script'[r]) : Tidied(script'[r][i])
    BY <1>2, <2>1, Zenon
  <2>3. CASE r = s
    <3>1. sent'[s] = p.sent /\ asked'[s] = v.asked
      BY <1>2, <1>7, <1>15
    <3>2. Within(script'[s], sent'[s])
      BY <1>2, <1>10, <3>1, Zenon
    <3>3. Named(asked'[s], applied') = Said(script'[s], sent'[s])
      BY <1>2, <1>7, <1>10, <1>13, <2>1, <2>3, <3>1, Zenon DEF NamesMore
    <3> QED
      BY <2>2, <2>3, <3>2, <3>3, Zenon DEF Ordering
  <2>4. CASE r # s
    <3>1. sent'[r] = sent[r] /\ asked'[r] = asked[r]
      BY <1>2, <1>7, <1>15, <2>4
    <3>2. Named(asked[r], v.applied) = Named(asked[r], applied)
      <4> DEFINE a == asked[r]
      <4>1. a \in Seq(Nat)
        BY <1>15
      <4>2. DOMAIN a = 1..Len(a)
        BY <4>1
      <4>3. \A i \in DOMAIN a : v.applied[a[i]].command = applied[a[i]].command
        BY <1>11, <1>14, <4>2, Zenon DEF Ordered
      <4> HIDE DEF a
      <4> QED
        BY <4>3, Zenon DEF Named, a
    <3>3. Within(script'[r], sent'[r])
      BY <1>2, <2>1, <3>1, Zenon
    <3>4. Named(asked'[r], applied') = Said(script'[r], sent'[r])
      BY <1>2, <1>7, <2>1, <3>1, <3>2, Zenon
    <3> QED
      BY <2>2, <3>3, <3>4, Zenon DEF Ordering
  <2> QED
    BY <2>3, <2>4
<1> QED
  BY <1>8, <1>16

LEMMA UnmixedStays ==
  ASSUME FlightInv, Unmixed, [Next]_vars
  PROVE  Unmixed'
<1>1. ASSUME NEW s \in Station, Feed(s) PROVE Unmixed'
  BY <1>1, FeedUnmixed
<1>2. ASSUME NEW s \in Station, Hear(s) PROVE Unmixed'
  <2>1. /\ script' = script /\ tidy' = tidy /\ sent' = sent /\ parser' = parser
        /\ applied' = applied /\ asked' = asked
    BY <1>2, Zenon DEF Hear
  <2> QED
    BY <2>1, Zenon DEF Unmixed, Ordering
<1>3. ASSUME UNCHANGED vars PROVE Unmixed'
  <2>1. /\ script' = script /\ tidy' = tidy /\ sent' = sent /\ parser' = parser
        /\ applied' = applied /\ asked' = asked
    BY <1>3, Zenon DEF vars
  <2> QED
    BY <2>1, Zenon DEF Unmixed, Ordering
<1> QED
  BY <1>1, <1>2, <1>3, Zenon DEF Next

\* A sequence that another goes on from is a subsequence of it.
LEMMA BeginningIs ==
  ASSUME NEW V, NEW a \in Seq(V), NEW b \in Seq(V), GoesOn(b, a)
  PROVE  IsSubsequence(a, b)
<1> DEFINE at == [i \in DOMAIN a |-> i]
<1>1. DOMAIN a = 1..Len(a) /\ DOMAIN b = 1..Len(b) /\ Len(a) \in Nat /\ Len(b) \in Nat
  OBVIOUS
<1>2. Len(a) <= Len(b) /\ \A k \in 1..Len(a) : b[k] = a[k]
  BY Zenon DEF GoesOn
<1>3. \A i \in DOMAIN a : i \in DOMAIN b
  BY <1>1, <1>2
<1>4. at \in [DOMAIN a -> DOMAIN b]
  BY <1>3, Zenon
<1>5. \A i \in DOMAIN a : a[i] = b[at[i]]
  BY <1>1, <1>2, Zenon
<1>6. \A i, j \in DOMAIN a : i < j => at[i] < at[j]
  BY Zenon
<1> QED
  BY <1>4, <1>5, <1>6, Zenon DEF IsSubsequence

LEMMA SaidBegins ==
  ASSUME NEW said \in Seq(Message), NEW n \in Seq(Nat), Len(n) <= Len(said), Within(said, n),
         \A i \in 1..Len(said) : Tidied(said[i])
  PROVE  GoesOn(FlattenSeq(Upto(Wants(said), Len(n))), Said(said, n))
<1> DEFINE w == Wants(said)
           k == Len(n)
           h(i) == FlattenSeq(Upto(w, i))
<1>1. w \in Seq(Seq(Orders)) /\ Len(w) = Len(said) /\ \A i \in 1..Len(said) : w[i] = said[i].commands
  BY WantsType
<1>2. CASE n = <<>>
  <2>1. Said(said, n) = <<>>
    BY <1>2, Zenon DEF Said
  <2>2. k = 0 /\ k \in 0..Len(said)
    <3> HIDE DEF Message
    <3> QED
      BY <1>2
  <2>3. FlatStep(w, k, Orders)
    BY <1>1, <2>2, FlattenUpto
  <2>4. h(k) \in Seq(Orders)
    BY <2>3, Zenon DEF FlatStep
  <2> HIDE DEF h
  <2>5. Len(<<>>) <= Len(h(k)) /\ \A i \in 1..Len(<<>>) : FALSE
    BY <2>4
  <2>6. GoesOn(h(k), <<>>)
    BY <2>5, Zenon DEF GoesOn
  <2> QED
    BY <2>1, <2>6, Zenon DEF h
<1>3. CASE n # <<>>
  <2> DEFINE p == said[k].payloads
             f == Asks(p)
             a == h(k - 1)
             b == FlattenSeq(Upto(f, n[k]))
             c == FlattenSeq(f)
  <2>1. k \in 1..Len(said) /\ k - 1 \in 0..Len(said) /\ k - 1 < Len(said) /\ (k - 1) + 1 = k
    <3> HIDE DEF Message
    <3> QED
      BY <1>3
  <2>2. p \in Seq(Seq(Byte)) /\ said[k].commands = c /\ n[k] \in 1..Len(p)
    <3>1. said[k] \in Message
      <4> HIDE DEF Message
      <4> QED
        BY <2>1
    <3>2. p \in Seq(Seq(Byte))
      BY <3>1 DEF Message
    <3> QED
      BY <1>3, <2>1, <3>2, Zenon DEF Tidied, Within
  <2>3. Said(said, n) = a \o b
    BY <1>3, Zenon DEF Said, Sofar
  <2> HIDE DEF w, k, p, f, c
  <2>4. f \in Seq(Seq(Orders)) /\ Len(f) = Len(p)
    BY <2>2, AsksType DEF f
  <2>5. n[k] \in 0..Len(f)
    BY <2>2, <2>4
  <2>6. GoesOn(c, b) /\ b \in Seq(Orders) /\ c \in Seq(Orders)
    <3>1. FlatStep(f, n[k], Orders) /\ GoesOn(c, b)
      BY <2>4, <2>5, FlattenUpto, FlattenBegins DEF c
    <3>2. c \in Seq(Orders)
      BY <2>4, FlattenType DEF c
    <3> QED
      BY <3>1, <3>2, Zenon DEF FlatStep
  <2>7. FlatStep(w, k - 1, Orders)
    BY <1>1, <2>1, FlattenUpto
  <2>8. a \in Seq(Orders) /\ h((k - 1) + 1) = a \o w[(k - 1) + 1]
    BY <1>1, <2>1, <2>7, Zenon DEF FlatStep
  <2>9. h(k) = a \o c
    <3> HIDE DEF h
    <3>1. w[k] = c
      BY <1>1, <2>1, <2>2, Zenon
    <3> QED
      BY <2>1, <2>8, <3>1, Zenon
  <2> HIDE DEF h, a, b
  <2> DEFINE y == a \o b
             z == a \o c
  <2>10. y \in Seq(Orders) /\ z \in Seq(Orders) /\ Tacked(y, a, b) /\ Tacked(z, a, c)
    <3>1. a \in Seq(Orders) /\ b \in Seq(Orders) /\ c \in Seq(Orders)
      BY <2>6, <2>8
    <3> QED
      BY <3>1, Tack, Zenon
  <2> DEFINE A == Len(a)
             B == Len(b)
             C == Len(c)
  <2>11. A \in Nat /\ B \in Nat /\ C \in Nat
    BY <2>6, <2>8
  <2> HIDE DEF y, z
  <2>12. /\ Len(y) = A + B /\ Len(z) = A + C
         /\ \A i \in 1..A : y[i] = a[i]
         /\ \A i \in 1..A : z[i] = a[i]
         /\ \A i \in 1..B : y[A + i] = b[i]
         /\ \A i \in 1..C : z[A + i] = c[i]
    BY <2>10, Zenon DEF Tacked
  <2>13. B <= C /\ \A i \in 1..B : c[i] = b[i]
    BY <2>6, Zenon DEF GoesOn
  <2> HIDE DEF A, B, C
  <2>14. Len(y) <= Len(z)
    BY <2>11, <2>12, <2>13
  <2>15. ASSUME NEW i \in 1..Len(y) PROVE z[i] = y[i]
    <3>1. CASE i \in 1..A
      BY <2>12, <3>1, Zenon
    <3>2. CASE i \notin 1..A
      <4>1. i - A \in 1..B /\ i - A \in 1..C /\ i = A + (i - A)
        BY <2>11, <2>12, <2>13, <3>2
      <4> DEFINE m == i - A
      <4>2. m \in 1..B /\ m \in 1..C /\ i = A + m
        BY <4>1
      <4> HIDE DEF m
      <4>3. y[A + m] = b[m] /\ z[A + m] = c[m] /\ c[m] = b[m]
        BY <2>12, <2>13, <4>2, Zenon
      <4> QED
        BY <4>2, <4>3, Zenon
    <3> QED
      BY <3>1, <3>2
  <2>16. GoesOn(z, y)
    BY <2>14, <2>15, Zenon DEF GoesOn
  <2> QED
    BY <2>3, <2>9, <2>16, Zenon DEF h, y, z, w, k
<1> QED
  BY <1>2, <1>3

\* When every station sends whole frames, what the drone did for a station is what
\* the station has sent, in that order and each command once, however the stations'
\* payloads come between each other: no command is made of parts of two, and no
\* station has the replies to another's.
THEOREM NoChimeraHolds ==
  ASSUME ScriptAssumption, WholeScripts
  PROVE  Spec => [](tidy => NoChimera)
<1>1. Init => FlightInv /\ Unmixed
  BY FlightStarts, UnmixedStarts
<1>2. FlightInv /\ Unmixed /\ [Next]_vars => FlightInv' /\ Unmixed'
  BY FlightStays, UnmixedStays
<1>3. FlightInv /\ Unmixed => (tidy => NoChimera)
  <2> SUFFICES ASSUME FlightInv, Unmixed, tidy, NEW s \in Station
               PROVE  IsSubsequence(AppliedFor(s), Wanted(Messages(s)))
    BY Zenon DEF NoChimera
  <2> DEFINE said == script[s]
             n == sent[s]
             k == Len(n)
  <2>1. FlightTypes /\ Numbered(s) /\ Ordering(s)
    BY Zenon DEF FlightInv, Unmixed
  <2>2. said \in Seq(Message) /\ n \in Seq(Nat) /\ k <= Len(said)
    BY <2>1 DEF FlightTypes, Sending
  <2>3. /\ \A i \in 1..Len(said) : Tidied(said[i])
        /\ Within(said, n)
        /\ AppliedFor(s) = Said(said, n)
    BY <2>1, Zenon DEF Ordering, AppliedFor, Named
  <2> HIDE DEF said, n
  <2>4. k \in 0..Len(said)
    <3> HIDE DEF Message
    <3> QED
      BY <2>2
  <2>5. Wanted(Messages(s)) = FlattenSeq(Upto(Wants(said), k))
    <3>1. Wanted(SubSeq(said, 1, k)) = FlattenSeq(Upto(Wants(said), k))
      BY <2>2, <2>4, WantedIs
    <3> QED
      BY <3>1, Zenon DEF Messages, said, n
  <2>6. GoesOn(FlattenSeq(Upto(Wants(said), k)), Said(said, n))
    BY <2>2, <2>3, SaidBegins
  <2>7. Said(said, n) \in Seq(Orders)
    BY <2>2, <2>3, SaidType
  <2>8. FlattenSeq(Upto(Wants(said), k)) \in Seq(Orders)
    <3>1. Wants(said) \in Seq(Seq(Orders)) /\ Len(Wants(said)) = Len(said)
      BY <2>2, WantsType
    <3>2. FlatStep(Wants(said), k, Orders)
      BY <2>4, <3>1, FlattenUpto
    <3> QED
      BY <3>2, Zenon DEF FlatStep
  <2> QED
    BY <2>3, <2>5, <2>6, <2>7, <2>8, BeginningIs, Zenon
<1> QED
  BY <1>1, <1>2, <1>3, PTL DEF Spec

-----------------------------------------------------------------------------
(* A command of a ground station, from its numbers through the bytes to the  *)
(* drone.                                                                    *)

\* A command whose numbers fit into their fields, to this drone.
LongTypes  == Def(COMMAND_LONG).types
LongFields == Def(COMMAND_LONG).fields
Flyable ==
  {c \in [DOMAIN Plain -> Nat] :
     /\ c.targetSystem = DRONE_SYS
     /\ \A i \in 1..11 : Fits(LongTypes[i], c[LongFields[i]])}

LEMMA LongIs ==
  /\ LongTypes = <<"float", "float", "float", "float", "float", "float", "float",
                   "u16", "u8", "u8", "u8">>
  /\ LongFields = <<"param1", "param2", "param3", "param4", "param5", "param6", "param7",
                    "command", "targetSystem", "targetComponent", "confirmation">>
  /\ Def(COMMAND_LONG).crcExtra = 152 /\ Def(COMMAND_LONG).payloadLen = 33
  BY LongDef DEF CommandLongDef, LongTypes, LongFields

\* The fields are the members of a command, each once.
LEMMA LongNames ==
  /\ LongTypes \in Seq(Type) /\ Len(LongTypes) = 11
  /\ DOMAIN LongFields = 1..11
  /\ {LongFields[i] : i \in DOMAIN LongFields} = DOMAIN Plain
  /\ \A i, j \in DOMAIN LongFields : LongFields[i] = LongFields[j] => i = j
  /\ \A i \in 1..11 : LongTypes[i] \in {"u8", "u16", "float"}
<1> DEFINE l == LongTypes
           f == LongFields
<1>1. /\ l = <<"float", "float", "float", "float", "float", "float", "float",
               "u16", "u8", "u8", "u8">>
      /\ f = <<"param1", "param2", "param3", "param4", "param5", "param6", "param7",
               "command", "targetSystem", "targetComponent", "confirmation">>
  BY LongIs
<1> HIDE DEF l, f
<1>2. l \in Seq(Type) /\ Len(l) = 11 /\ \A i \in 1..11 : l[i] \in {"u8", "u16", "float"}
  BY <1>1 DEF Type
<1>3. DOMAIN f = 1..11
  BY <1>1
<1>4. /\ f[1] = "param1" /\ f[2] = "param2" /\ f[3] = "param3" /\ f[4] = "param4"
      /\ f[5] = "param5" /\ f[6] = "param6" /\ f[7] = "param7" /\ f[8] = "command"
      /\ f[9] = "targetSystem" /\ f[10] = "targetComponent" /\ f[11] = "confirmation"
  BY <1>1
<1>5. \A i \in 1..11 : \/ i = 1 \/ i = 2 \/ i = 3 \/ i = 4 \/ i = 5 \/ i = 6 \/ i = 7
                       \/ i = 8 \/ i = 9 \/ i = 10 \/ i = 11
  OBVIOUS
<1>6. \A i, j \in DOMAIN f : f[i] = f[j] => i = j
  BY <1>3, <1>4, <1>5
<1>7. DOMAIN Plain = {"param1", "param2", "param3", "param4", "param5", "param6", "param7",
                      "command", "targetSystem", "targetComponent", "confirmation"}
  BY DEF Plain
<1>8. {f[i] : i \in 1..11} = DOMAIN Plain
  <2>1. \A i \in 1..11 : f[i] \in DOMAIN Plain
    BY <1>4, <1>5, <1>7
  <2>2. \A n \in DOMAIN Plain : \E i \in 1..11 : n = f[i]
    <3>1. 1 \in 1..11 /\ 2 \in 1..11 /\ 3 \in 1..11 /\ 4 \in 1..11 /\ 5 \in 1..11 /\ 6 \in 1..11
          /\ 7 \in 1..11 /\ 8 \in 1..11 /\ 9 \in 1..11 /\ 10 \in 1..11 /\ 11 \in 1..11
      OBVIOUS
    <3> QED
      BY <1>4, <1>7, <3>1
  <2> QED
    BY <2>1, <2>2
<1> QED
  BY <1>2, <1>3, <1>6, <1>8 DEF l, f

\* Seven floats, a word and three bytes are 33 bytes.
LEMMA LongLength ==
  Offset(LongTypes, Len(LongTypes) + 1) = 33
<1> DEFINE l == LongTypes
           o(i) == Offset(l, i)
           w(i) == Width(l[i])
<1>1. l \in Seq(Type) /\ Len(l) = 11
  BY LongNames
<1>2. o(1) = 0 /\ \A i \in 1..Len(l) : o(i + 1) = o(i) + w(i)
  BY <1>1, OffsetDef, Zenon
<1>3. /\ w(1) = 4 /\ w(2) = 4 /\ w(3) = 4 /\ w(4) = 4 /\ w(5) = 4 /\ w(6) = 4 /\ w(7) = 4
      /\ w(8) = 2 /\ w(9) = 1 /\ w(10) = 1 /\ w(11) = 1
  <2>1. Width("float") = 4 /\ Width("u16") = 2 /\ Width("u8") = 1
    BY DEF Width
  <2>2. /\ l[1] = "float" /\ l[2] = "float" /\ l[3] = "float" /\ l[4] = "float"
        /\ l[5] = "float" /\ l[6] = "float" /\ l[7] = "float" /\ l[8] = "u16"
        /\ l[9] = "u8" /\ l[10] = "u8" /\ l[11] = "u8"
    BY LongIs
  <2> QED
    BY <2>1, <2>2
<1> HIDE DEF o, w
<1>4. \A i \in 1..11 : o(i + 1) = o(i) + w(i)
  BY <1>1, <1>2
<1>5. /\ o(1 + 1) = o(1) + w(1) /\ o(2 + 1) = o(2) + w(2) /\ o(3 + 1) = o(3) + w(3)
      /\ o(4 + 1) = o(4) + w(4) /\ o(5 + 1) = o(5) + w(5) /\ o(6 + 1) = o(6) + w(6)
      /\ o(7 + 1) = o(7) + w(7) /\ o(8 + 1) = o(8) + w(8) /\ o(9 + 1) = o(9) + w(9)
      /\ o(10 + 1) = o(10) + w(10) /\ o(11 + 1) = o(11) + w(11)
  BY <1>4
<1>6. o(12) = 33
  BY <1>2, <1>3, <1>5
<1>7. Len(l) + 1 = 12
  BY <1>1
<1> QED
  BY <1>6, <1>7 DEF o

LEMMA FlyableCarried ==
  ASSUME NEW c \in Flyable
  PROVE  /\ Carries(COMMAND_LONG, c, LongTypes)
         /\ \A i \in 1..11 : Kept(LongTypes[i], c[LongFields[i]])
<1> DEFINE l == LongTypes
           f == LongFields
<1>0. l = Def(COMMAND_LONG).types /\ f = Def(COMMAND_LONG).fields
  BY Zenon DEF LongTypes, LongFields
<1>1. /\ c \in [DOMAIN Plain -> Nat] /\ \A i \in 1..11 : Fits(l[i], c[f[i]])
  BY DEF Flyable
<1>2. /\ l \in Seq(Type) /\ Len(l) = 11 /\ DOMAIN f = 1..11
      /\ {f[i] : i \in DOMAIN f} = DOMAIN Plain
      /\ \A i, j \in DOMAIN f : f[i] = f[j] => i = j
      /\ \A i \in 1..11 : l[i] \in {"u8", "u16", "float"}
  BY LongNames
<1>3. Def(COMMAND_LONG).crcExtra = 152 /\ Def(COMMAND_LONG).payloadLen = 33
      /\ Offset(l, Len(l) + 1) = 33
  BY LongIs, LongLength
<1> HIDE DEF l, f
<1>4. ASSUME NEW i \in 1..11
      PROVE  Writable(l[i], c[f[i]]) /\ Kept(l[i], c[f[i]])
  <2> DEFINE n == c[f[i]]
             t == l[i]
  <2>1. n \in Nat
    <3>1. f[i] \in DOMAIN Plain
      BY <1>2, Zenon
    <3> QED
      BY <1>1, <3>1
  <2>2. t \in {"u8", "u16", "float"} /\ Fits(t, n)
    BY <1>1, <1>2
  <2> HIDE DEF n, t
  <2>3. t = "float" => 0 <= n /\ n < Limit
    BY <2>2 DEF Fits
  <2>4. Writable(t, n)
    BY <2>1, <2>3, SMT DEF Writable, Limit
  <2>5. Kept(t, n)
    BY <2>2 DEF Kept
  <2> QED
    BY <2>4, <2>5 DEF n, t
<1>5. Len(l) \in 1..60 /\ 1..Len(l) = 1..11 /\ 152 \in Byte /\ 33 \in 1..255
  BY <1>2 DEF Byte
<1>6. \A i \in 1..Len(l) : Writable(l[i], c[f[i]])
  BY <1>4, <1>5, Zenon
<1>7. /\ Def(COMMAND_LONG).crcExtra \in Byte /\ Def(COMMAND_LONG).payloadLen \in 1..255
      /\ DOMAIN f = 1..Len(l) /\ Offset(l, Len(l) + 1) = Def(COMMAND_LONG).payloadLen
  BY <1>2, <1>3, <1>5
<1>8. Carries(COMMAND_LONG, c, l)
  BY <1>0, <1>2, <1>5, <1>6, <1>7, Zenon DEF Carries
<1> QED
  BY <1>4, <1>8 DEF l, f

\* Such a command is unpacked as it was packed.
LEMMA CommandBack ==
  ASSUME NEW c \in Flyable
  PROVE  Unpack(COMMAND_LONG, Pack(COMMAND_LONG, c)) = c
<1> DEFINE l == LongTypes
           f == LongFields
           u == Unpack(COMMAND_LONG, Pack(COMMAND_LONG, c))
<1>0. l = Def(COMMAND_LONG).types /\ f = Def(COMMAND_LONG).fields
  BY Zenon DEF LongTypes, LongFields
<1>1. /\ Carries(COMMAND_LONG, c, l) /\ \A i \in 1..11 : Kept(l[i], c[f[i]])
  BY FlyableCarried
<1>2. /\ Len(l) = 11 /\ DOMAIN f = 1..11 /\ {f[i] : i \in DOMAIN f} = DOMAIN Plain
  BY LongNames
<1>3. c = [n \in DOMAIN Plain |-> c[n]]
  BY DEF Flyable
<1>4. u = [n \in {f[i] : i \in DOMAIN f} |-> u[n]]
  BY DEF Unpack, LongFields
<1> HIDE DEF l, f, u
<1>5. \A i \in 1..11 : u[f[i]] = c[f[i]]
  <2> SUFFICES ASSUME NEW i \in 1..11 PROVE u[f[i]] = c[f[i]]
    OBVIOUS
  <2>1. i \in 1..Len(l) /\ Kept(l[i], c[Def(COMMAND_LONG).fields[i]])
    BY <1>0, <1>1, <1>2, Zenon
  <2>2. Back(COMMAND_LONG, c, i)
    BY <1>1, <2>1, FieldBack, Zenon
  <2> QED
    BY <1>0, <2>2, Zenon DEF Back, u
<1>6. \A n \in DOMAIN Plain : u[n] = c[n]
  BY <1>2, <1>5, Zenon
<1>7. u = [n \in DOMAIN Plain |-> u[n]]
  BY <1>2, <1>4, Zenon
<1>8. u = c
  BY <1>3, <1>6, <1>7, Zenon
<1> QED
  BY <1>8 DEF u

\* The drone's parser takes such a command's frame off whole and finds that command:
\* packed by gcsMission with encodeFrame, which cuts trailing zeros, it is unpacked by
\* ingest with every parameter as it was.
THEOREM CommandArrives ==
  ASSUME NEW c \in Flyable, NEW seq \in Nat
  PROVE  /\ CommandFrame(c, seq) \in Seq(Byte)
         /\ Push(CommandFrame(c, seq)).rest = <<>>
         /\ CommandsIn(Push(CommandFrame(c, seq)).frames) = <<c>>
<1> DEFINE e == CommandFrame(c, seq)
           x == Pack(COMMAND_LONG, c)
           d == Decoded(e)
<1>1. OnWire(e, COMMAND_LONG, c, seq)
  <2> DEFINE l == LongTypes
  <2>1. Carries(COMMAND_LONG, c, l)
    BY FlyableCarried
  <2>2. COMMAND_LONG \in Known /\ GCS_SYS \in Byte /\ GCS_COMP \in Byte /\ seq \in Int
    BY DEF Known, COMMAND_LONG, GCS_SYS, GCS_COMP, Byte
  <2> HIDE DEF l
  <2>3. OnWire(EncodeFrame(COMMAND_LONG, c, seq, GCS_SYS, GCS_COMP), COMMAND_LONG, c, seq)
    BY <2>1, <2>2, OnWireIs
  <2> QED
    BY <2>3, Zenon DEF CommandFrame
<1> HIDE DEF e
<1>4. Alone(e, seq)
  BY <1>1, Zenon DEF OnWire
<1>5. d.msgid = COMMAND_LONG /\ d.payload = x /\ d.crcOk
  BY <1>1, Zenon DEF OnWire
<1>6. e \in Seq(Byte)
  BY <1>4, Zenon DEF Alone
<1>7. Push(e).frames = <<d>> /\ Push(e).rest = <<>> /\ d \in Parsed
  BY <1>4, PushAlone
<1>8. Unpack(COMMAND_LONG, d.payload) = c
  <2> HIDE DEF d, x
  <2>1. Unpack(COMMAND_LONG, d.payload) = Unpack(COMMAND_LONG, x)
    BY <1>5, Zenon
  <2>2. Unpack(COMMAND_LONG, x) = c
    BY CommandBack, Zenon DEF x
  <2> QED
    BY <2>1, <2>2, Zenon
<1> HIDE DEF d, x
<1>9. Addressed(d)
  <2>1. c.targetSystem = DRONE_SYS
    BY DEF Flyable
  <2> QED
    BY <1>5, <1>8, <2>1, Zenon DEF Addressed
<1>10. CommandsIn(<<d>>) = <<c>>
  <2> DEFINE s == <<d>>
  <2>1. s \in Seq(Parsed) /\ Len(s) = 1 /\ s[1] = d
    BY <1>7
  <2> HIDE DEF s
  <2>2. PICK g : CommandLoop(g, s) /\ CommandsIn(s) = g[Len(s)]
    BY <2>1, CommandsInDef
  <2>3. g[0] = <<>> /\ 1 \in 1..Len(s) /\ 1 - 1 = 0
    BY <2>1, <2>2 DEF CommandLoop
  <2>4. g[1] = Append(g[1 - 1], CommandOf(s[1]))
    BY <1>9, <2>1, <2>2, <2>3, Zenon DEF CommandLoop
  <2>5. CommandOf(d) = c
    BY <1>8, Zenon DEF CommandOf
  <2>6. CommandsIn(s) = Append(<<>>, c)
    BY <2>1, <2>2, <2>3, <2>4, <2>5
  <2>7. Append(<<>>, c) = <<c>>
    OBVIOUS
  <2> QED
    BY <2>6, <2>7 DEF s
<1> QED
  BY <1>6, <1>7, <1>10 DEF e

\* What a station that flies says: a message is one command in one frame.
Flights ==
  {[payloads |-> <<CommandFrame(c, n)>>, commands |-> <<c>>, whole |-> TRUE] :
     c \in Flyable, n \in Nat}

LEMMA FlightsWhole ==
  ASSUME NEW m \in Flights
  PROVE  m \in Message /\ m.whole = TRUE /\ Tidied(m)
<1>1. PICK c \in Flyable, n \in Nat :
        m = [payloads |-> <<CommandFrame(c, n)>>, commands |-> <<c>>, whole |-> TRUE]
  BY DEF Flights
<1> DEFINE e == CommandFrame(c, n)
           p == <<e>>
           cs == <<c>>
<1>2. e \in Seq(Byte) /\ Push(e).rest = <<>> /\ CommandsIn(Push(e).frames) = cs
  BY CommandArrives
<1>3. c \in [DOMAIN Plain -> Nat]
  BY DEF Flyable
<1>4. m.payloads = p /\ m.commands = cs /\ m.whole = TRUE
      /\ m = [payloads |-> p, commands |-> cs, whole |-> TRUE]
  BY <1>1
<1> HIDE DEF e
<1>5. /\ p \in Seq(Seq(Byte)) /\ p # <<>> /\ DOMAIN p = {1} /\ p[1] = e
      /\ \A j \in DOMAIN p : p[j] = e
  <2> DEFINE S == Seq(Byte)
  <2>1. e \in S
    BY <1>2
  <2> HIDE DEF S
  <2>2. p \in Seq(S) /\ p # <<>> /\ DOMAIN p = {1} /\ p[1] = e
    BY <2>1
  <2> QED
    BY <2>2 DEF S
<1>6. cs \in Seq([DOMAIN Plain -> Nat])
  <2> DEFINE C == [DOMAIN Plain -> Nat]
  <2>1. c \in C
    BY <1>3
  <2> HIDE DEF C
  <2>2. cs \in Seq(C)
    BY <2>1
  <2> QED
    BY <2>2 DEF C
<1> HIDE DEF p
<1>7. m \in Message
  <2> DEFINE S == Seq(Seq(Byte))
             D == Seq([DOMAIN Plain -> Nat])
  <2>1. p \in S /\ p # <<>> /\ cs \in D
    BY <1>5, <1>6
  <2> HIDE DEF S, D, cs
  <2>2. m \in [payloads : S \ {<<>>}, commands : D, whole : BOOLEAN]
    BY <1>4, <2>1
  <2> QED
    BY <2>2, Zenon DEF Message, S, D
<1>8. FlattenSeq(Asks(p)) = cs
  <2> DEFINE f == Asks(p)
             V == [DOMAIN Plain -> Nat]
             W == Seq(V)
  <2>1. f = [j \in DOMAIN p |-> CommandsIn(Push(p[j]).frames)]
    BY Zenon DEF Asks
  <2>2. f = [j \in {1} |-> cs]
    BY <1>2, <1>5, <2>1, Zenon
  <2>3. cs \in W
    BY <1>6
  <2> HIDE DEF f, W, cs
  <2>4. f = <<cs>>
    <3>1. \A x : [j \in {1} |-> x] = <<x>>
      OBVIOUS
    <3> QED
      BY <2>2, <3>1, Zenon
  <2>5. f \in Seq(W) /\ f # <<>> /\ Len(f) = 1 /\ f[1] = cs
    BY <2>3, <2>4
  <2>6. f \in Seq(Seq(V))
    BY <2>5 DEF W
  <2>7. PICK g : FlatLoop(g, f, V) /\ FlattenSeq(f) = g[Len(f)]
    BY <2>5, <2>6, FlattenDef
  <2>8. FlattenSeq(f) = cs
    BY <2>5, <2>7, Zenon DEF FlatLoop
  <2> QED
    BY <2>8 DEF f
<1>9. \A j \in DOMAIN m.payloads : Push(m.payloads[j]).rest = <<>>
  BY <1>2, <1>4, <1>5, Zenon
<1>10. Tidied(m)
  BY <1>4, <1>8, <1>9, Zenon DEF Tidied
<1> QED
  BY <1>4, <1>7, <1>10

\* Whatever commands the stations fly, in whatever order they come to the one parser:
\* what the drone did for a station is what the station has sent, in that order and each
\* command once.  Nothing is left to suppose of the parser.
THEOREM MissionsNotMixed ==
  ASSUME \A s \in Station : Scripts[s] \subseteq Seq(Flights)
  PROVE  Spec => []NoChimera
<1>0. ASSUME NEW s \in Station, NEW said \in Scripts[s]
      PROVE  said \in Seq(Flights) /\ said \in Seq(Message)
  <2>1. said \in Seq(Flights)
    BY <1>0
  <2>2. Flights \subseteq Message
    BY FlightsWhole
  <2>3. said \in Seq(Message)
    BY <2>1, <2>2, Wider
  <2> QED
    BY <2>1, <2>3
<1>1. ASSUME NEW s \in Station, NEW said \in Scripts[s], NEW i \in DOMAIN said
      PROVE  said[i] \in Flights
  <2>1. said \in Seq(Flights)
    BY <1>0
  <2>2. \A S : \A x \in Seq(S) : \A j \in DOMAIN x : x[j] \in S
    OBVIOUS
  <2> QED
    BY <1>1, <2>1, <2>2, Zenon
<1>2. ScriptAssumption
  BY <1>0, Zenon DEF ScriptAssumption
<1>3. WholeScripts
  <2> SUFFICES ASSUME NEW s \in Station, NEW said \in Scripts[s], NEW i \in DOMAIN said
               PROVE  Tidied(said[i])
    BY Zenon DEF WholeScripts, Tidied, Asks
  <2> QED
    BY <1>1, FlightsWhole
<1>4. Spec => [](tidy => NoChimera)
  BY <1>2, <1>3, NoChimeraHolds
<1>5. Init => tidy
  <2> SUFFICES ASSUME Init PROVE tidy
    OBVIOUS
  <2>1. /\ tidy = \A s \in Station : \A i \in DOMAIN script[s] : script[s][i].whole
        /\ \A s \in Station : script[s] \in Scripts[s]
    BY DEF Init
  <2>2. ASSUME NEW s \in Station, NEW i \in DOMAIN script[s] PROVE script[s][i].whole
    <3>1. script[s][i] \in Flights
      BY <1>1, <2>1
    <3>2. script[s][i].whole = TRUE
      BY <3>1, FlightsWhole
    <3> QED
      BY <3>2
  <2> QED
    BY <2>1, <2>2, Zenon
<1>6. tidy /\ [Next]_vars => tidy'
  BY Zenon DEF Next, Feed, Hear, vars
<1> QED
  BY <1>4, <1>5, <1>6, PTL DEF Spec
=============================================================================
