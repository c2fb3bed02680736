----------------------------- MODULE MMCodec_proofs -----------------------------
EXTENDS MMCodec, SequenceTheorems, WellFoundedInduction, TLAPS
LOCAL INSTANCE FiniteSetsExt

---------------------------------------------------------------------------
(* Induction over the naturals, in the form of sets: what the provers can instantiate. *)

\* A set of natural numbers has a least one.
LEMMA NatMin ==
  ASSUME NEW T, T \subseteq Nat, T # {}
  PROVE  \E x \in T : \A y \in T : x <= y
<1> DEFINE R == OpToRel(<, Nat)
<1>1. R = {ss \in Nat \X Nat : ss[1] < ss[2]}
  BY DEF OpToRel
<1>2. IsWellFoundedOn(R, Nat)
  BY NatLessThanWellFounded
<1> HIDE DEF R
<1>3. PICK x \in T : \A y \in T : ~ (<<y, x>> \in R)
  BY <1>2, WFMin
<1>4. \A y \in Nat, z \in Nat : y < z => <<y, z>> \in R
  <2> SUFFICES ASSUME NEW y \in Nat, NEW z \in Nat, y < z PROVE <<y, z>> \in R
    OBVIOUS
  <2>1. <<y, z>> \in Nat \X Nat /\ <<y, z>>[1] < <<y, z>>[2]
    OBVIOUS
  <2>2. QED
    BY <2>1, <1>1
<1>5. \A y \in T : ~(y < x)
  BY <1>3, <1>4
<1>6. QED
  BY <1>5

\* A set that has 0, and n + 1 with every n, has every natural number.
LEMMA NatInd ==
  ASSUME NEW S, 0 \in S, \A n \in Nat : n \in S => n + 1 \in S
  PROVE  \A n \in Nat : n \in S
<1> SUFFICES ASSUME NEW m \in Nat, m \notin S PROVE FALSE
  OBVIOUS
<1> DEFINE T == Nat \ S
<1>1. PICK x \in T : \A y \in T : x <= y
  BY NatMin
<1>2. x # 0 /\ x - 1 \in Nat /\ x - 1 \in S
  BY <1>1
<1>3. QED
  BY <1>2

\* The same up to a bound.
LEMMA UpTo ==
  ASSUME NEW b \in Nat, NEW S, 0 \in S, \A n \in 0..b - 1 : n \in S => n + 1 \in S
  PROVE  \A n \in 0..b : n \in S
<1> DEFINE P == {n \in Nat : n <= b => n \in S}
<1>1. 0 \in P
  OBVIOUS
<1>2. \A n \in Nat : n \in P => n + 1 \in P
  OBVIOUS
<1>3. \A n \in Nat : n \in P
  <2> HIDE DEF P
  <2>1. QED
    BY <1>1, <1>2, NatInd
<1>4. QED
  BY <1>3

\* Values that are made one of the other, as often as one likes.
Chain(f, v, n, D) == f[0] = v /\ \A k \in 1..n : f[k] = D[k][f[k - 1]]

\* Steps taken one after the other make such a chain.
LEMMA Iterates ==
  ASSUME NEW V, NEW v \in V, NEW n \in Nat, NEW D \in [1..n -> [V -> V]]
  PROVE  \E f \in [0..n -> V] : Chain(f, v, n, D)
<1> DEFINE Is(f, m) == f \in [0..m -> V] /\ f[0] = v /\ \A k \in 1..m : f[k] = D[k][f[k - 1]]
           Has(m) == \E f : Is(f, m)
           S == {m \in 0..n : Has(m)}
<1>1. Has(0)
  <2> DEFINE f == [k \in 0..0 |-> v]
  <2>1. Is(f, 0)
    OBVIOUS
  <2> HIDE DEF Is, f
  <2>2. QED
    BY <2>1
<1>2. ASSUME NEW m \in 0..n - 1, Has(m)
      PROVE  Has(m + 1)
  <2>1. PICK f : Is(f, m)
    BY <1>2
  <2> DEFINE g == [k \in 0..m + 1 |-> IF k = m + 1 THEN D[m + 1][f[m]] ELSE f[k]]
  <2>2. D[m + 1][f[m]] \in V
    BY <2>1
  <2>3. g \in [0..m + 1 -> V]
    BY <2>1, <2>2
  <2>4. g[0] = v
    BY <2>1
  <2>5. ASSUME NEW k \in 1..m + 1 PROVE g[k] = D[k][g[k - 1]]
    <3>1. CASE k = m + 1
      BY <3>1
    <3>2. CASE k # m + 1
      BY <3>2, <2>1
    <3>3. QED
      BY <3>1, <3>2
  <2>6. Is(g, m + 1)
    BY <2>3, <2>4, <2>5
  <2> HIDE DEF Is, g
  <2>7. QED
    BY <2>6
<1>3. n \in S
  <2> HIDE DEF Has
  <2>1. 0 \in S /\ \A m \in 0..n - 1 : m \in S => m + 1 \in S
    BY <1>1, <1>2
  <2> HIDE DEF S
  <2>2. \A m \in 0..n : m \in S
    BY <2>1, UpTo
  <2>3. QED
    BY <2>2
<1>4. QED
  BY <1>3 DEF Chain

---------------------------------------------------------------------------
(* Sequences: two of them joined, and a piece cut out, with their places named. *)

Joins(c, a, m, b, n) == (\A i \in 1..m : c[i] = a[i]) /\ \A i \in 1..n : c[m + i] = b[i]

\* Two sequences joined have the elements of the first, then those of the second.
LEMMA Joined ==
  ASSUME NEW T, NEW a \in Seq(T), NEW b \in Seq(T)
  PROVE  /\ a \o b \in Seq(T) /\ Len(a \o b) = Len(a) + Len(b)
         /\ Joins(a \o b, a, Len(a), b, Len(b))
<1> DEFINE m == Len(a)
           n == Len(b)
<1>1. m \in Nat /\ n \in Nat
  BY LenProperties
<1>2. a \o b \in Seq(T) /\ Len(a \o b) = m + n
      /\ \A i \in 1..m + n : (a \o b)[i] = IF i <= m THEN a[i] ELSE b[i - m]
  BY ConcatProperties
<1> HIDE DEF m, n
<1>3. \A i \in 1..m : i \in 1..m + n /\ i <= m
  BY <1>1
<1>4. \A i \in 1..n : m + i \in 1..m + n /\ ~(m + i <= m) /\ (m + i) - m = i
  BY <1>1
<1>5. Joins(a \o b, a, m, b, n)
  BY <1>2, <1>3, <1>4 DEF Joins
<1>6. QED
  BY <1>2, <1>5 DEF m, n

Piece(c, s, a, n) == \A i \in 1..n : c[i] = s[a + i]

\* A piece cut out of a sequence has the elements of its places.
LEMMA Cut ==
  ASSUME NEW T, NEW s \in Seq(T), NEW a \in Nat, NEW n \in Nat, a + n <= Len(s)
  PROVE  /\ SubSeq(s, a + 1, a + n) \in Seq(T) /\ Len(SubSeq(s, a + 1, a + n)) = n
         /\ Piece(SubSeq(s, a + 1, a + n), s, a, n)
<1> DEFINE l == Len(s)
           b == a + 1
           e == a + n
           c == SubSeq(s, b, e)
<1>1. l \in Nat /\ \A i \in 1..l : s[i] \in T
  BY LenProperties, ElementOfSeq
<1>2. b \in Int /\ e \in Int /\ e - b + 1 = n /\ (b <= e <=> n # 0)
        /\ \A i \in 1..n : b + i - 1 = a + i
  OBVIOUS
<1>3. \A i \in b..e : i \in 1..l
  BY <1>1
<1> HIDE DEF b, e, l, c
<1>4. /\ c \in Seq(T) /\ Len(c) = IF b <= e THEN e - b + 1 ELSE 0
      /\ \A i \in 1..e - b + 1 : c[i] = s[b + i - 1]
  BY <1>1, <1>2, <1>3, SubSeqProperties DEF c
<1>5. QED
  BY <1>2, <1>4 DEF b, e, c, Piece

---------------------------------------------------------------------------
(* crc16 *)

\* What is between two numbers, for the provers, which would list the numbers one by one.
LEMMA Between == \A m \in Nat : \A n : n \in 0..m <=> n \in Nat /\ n <= m
  OBVIOUS

\* A checksum is a number of 16 bits: what the proofs use of Checksum, not the interval.
LEMMA ChecksumDef == \A n : n \in Checksum <=> n \in Nat /\ n < 65536
<1>1. UINT16_MAX \in Nat /\ UINT16_MAX + 1 = 65536
  BY DEF UINT16_MAX
<1>2. QED
  BY <1>1, Between DEF Checksum

\* A byte is a number of 8 bits.
LEMMA ByteDef == \A n : n \in Byte <=> n \in Nat /\ n < 256
<1>1. UINT8_MAX \in Nat /\ UINT8_MAX + 1 = 256
  BY DEF UINT8_MAX
<1>2. QED
  BY <1>1, Between DEF Byte

\* A checksum stays one, bit by bit.
LEMMA PolyType ==
  ASSUME NEW c \in Nat, c < 32768
  PROVE  POLY(c) \in Checksum
<1>1. PICK q \in 0..3, r \in Nat : c = 8192 * q + r /\ r < 8192
  <2>1. c \div 8192 \in 0..3
    OBVIOUS
  <2>2. c % 8192 \in Nat /\ c % 8192 < 8192 /\ c = 8192 * (c \div 8192) + (c % 8192)
    OBVIOUS
  <2>3. QED
    BY <2>1, <2>2
<1>2. c \div 8192 = q
  BY <1>1
<1>3. PICK p \in {0, 1} : c % 2 = p /\ r % 2 = p
  BY <1>1
<1>4. p = 0 => r # 8191
  BY <1>3
<1>5. p = 1 => r # 0
  BY <1>3
<1>6. POLY(c) = c + 32768 + (IF q % 2 = 0 THEN 8192 ELSE 0) + (IF p = 0 THEN 1 ELSE 0)
                 - (IF q % 2 = 1 THEN 8192 ELSE 0) - (IF p = 1 THEN 1 ELSE 0)
  BY <1>2, <1>3 DEF POLY
<1>7. CASE q \in {1, 3}
  <2>1. q % 2 = 1
    BY <1>7
  <2>2. POLY(c) = c + 32768 - 8192 + (IF p = 0 THEN 1 ELSE 0) - (IF p = 1 THEN 1 ELSE 0)
    BY <1>6, <2>1
  <2>3. POLY(c) \in Nat /\ POLY(c) < 65536
    BY <2>2, <1>1, <1>4, <1>5, <1>7
  <2>4. QED
    BY <2>3, ChecksumDef
<1>8. CASE q \in {0, 2}
  <2>1. q % 2 = 0
    BY <1>8
  <2>2. POLY(c) = c + 32768 + 8192 + (IF p = 0 THEN 1 ELSE 0) - (IF p = 1 THEN 1 ELSE 0)
    BY <1>6, <2>1
  <2>3. POLY(c) \in Nat /\ POLY(c) < 65536
    BY <2>2, <1>1, <1>4, <1>5, <1>8
  <2>4. QED
    BY <2>3, ChecksumDef
<1>9. QED
  BY <1>7, <1>8

\* crc16 stays a number of 16 bits with every byte.
LEMMA ShiftType ==
  ASSUME NEW crc \in Checksum, NEW byte \in Nat
  PROVE  Shift(crc, byte) \in Checksum
<1>1. crc \div 2 \in Nat /\ crc \div 2 < 32768 /\ crc \div 2 \in Checksum
  BY ChecksumDef
<1>2. POLY(crc \div 2) \in Checksum
  BY <1>1, PolyType
<1>3. QED
  BY <1>1, <1>2 DEF Shift

\* And byte by byte.
LEMMA ShiftedType ==
  ASSUME NEW crc \in Checksum, NEW byte \in Nat
  PROVE  Shifted(crc, byte) \in Checksum
<1> DEFINE V == Checksum \X Nat
           Bit == [b \in V |-> <<Shift(b[1], b[2]), b[2] \div 2>>]
           D == [n \in 1..8 |-> Bit]
           bits[n \in 0..8] ==
                IF n = 0 THEN <<crc, byte>>
                ELSE LET b == bits[n - 1] IN <<Shift(b[1], b[2]), b[2] \div 2>>
           Is(f) == f = [n \in 0..8 |-> IF n = 0 THEN <<crc, byte>>
                          ELSE LET b == f[n - 1] IN <<Shift(b[1], b[2]), b[2] \div 2>>]
<1>1. Shifted(crc, byte) = bits[8][1]
  BY DEF Shifted
<1> HIDE DEF bits
<1>2. ASSUME NEW b \in V PROVE <<Shift(b[1], b[2]), b[2] \div 2>> \in V
  <2>1. b[1] \in Checksum /\ b[2] \in Nat /\ b[2] \div 2 \in Nat
    OBVIOUS
  <2>2. QED
    BY <2>1, ShiftType
<1>3. <<crc, byte>> \in V /\ D \in [1..8 -> [V -> V]]
  <2> HIDE DEF V
  <2>1. QED
    BY <1>2 DEF V
<1>4. PICK f \in [0..8 -> V] : f[0] = <<crc, byte>> /\ \A k \in 1..8 : f[k] = D[k][f[k - 1]]
  <2> HIDE DEF V, D
  <2> DEFINE e == 8
             x == <<crc, byte>>
  <2>1. e \in Nat /\ x \in V /\ D \in [1..e -> [V -> V]]
    BY <1>3
  <2> HIDE DEF e, x
  <2>2. \E f \in [0..e -> V] : Chain(f, x, e, D)
    BY <2>1, Iterates
  <2>3. QED
    BY <2>2 DEF e, x, Chain
<1>5. ASSUME NEW n \in 0..8
      PROVE  f[n] = IF n = 0 THEN <<crc, byte>>
                     ELSE LET b == f[n - 1] IN <<Shift(b[1], b[2]), b[2] \div 2>>
  <2> HIDE DEF V
  <2>1. n # 0 => n - 1 \in 0..8 /\ f[n - 1] \in V /\ n \in 1..8
    OBVIOUS
  <2>2. QED
    BY <1>4, <2>1
<1>6. Is(f)
  <2> HIDE DEF V, D
  <2>1. QED
    BY <1>5
<1>7. Is(bits)
  <2> HIDE DEF V, D, Bit
  <2>1. QED
    BY <1>6 DEF bits
<1> DEFINE S == {n \in 0..8 : bits[n] \in V}
<1>8. 0 \in S
  BY <1>7, <1>3
<1>9. ASSUME NEW n \in 0..8 - 1, n \in S PROVE n + 1 \in S
  <2>1. n + 1 \in 0..8 /\ n + 1 # 0 /\ (n + 1) - 1 = n
    OBVIOUS
  <2>2. bits[n + 1] = <<Shift(bits[n][1], bits[n][2]), bits[n][2] \div 2>>
    BY <1>7, <2>1
  <2>3. bits[n] \in V
    BY <1>9
  <2>4. bits[n + 1] \in V
    <3> HIDE DEF V
    <3>1. QED
      BY <2>2, <2>3, <1>2
  <2>5. QED
    BY <2>1, <2>4
<1>10. bits[8] \in V
  <2> HIDE DEF S
  <2>1. \A n \in 0..8 : n \in S
    BY <1>8, <1>9, UpTo
  <2>2. QED
    BY <2>1 DEF S
<1>11. QED
  BY <1>1, <1>10

\* The steps of crc16: what it makes of a checksum from the i-th byte on.
CrcSteps(from, bytes) ==
    /\ from \in [1..Len(bytes) + 1 -> [Checksum -> Checksum]]
    /\ \A c \in Checksum : from[Len(bytes) + 1][c] = c
    /\ \A i \in 1..Len(bytes) : \A c \in Checksum : from[i][c] = from[i + 1][Shifted(c, bytes[i])]

\* crc16 takes a sequence of bytes one after the other.
LEMMA CrcUnfolds ==
  ASSUME NEW bytes \in Seq(Byte)
  PROVE  \E from : CrcSteps(from, bytes) /\ \A crc \in Checksum : crc16(crc, bytes) = from[1][crc]
<1> DEFINE n == Len(bytes)
           W == Checksum
           V == [W -> W]
           D == [k \in 1..n |-> [v \in V |-> [c \in W |-> v[Shifted(c, bytes[n + 1 - k])]]]]
           id == [c \in W |-> c]
           Step(f, i) == [c \in W |-> IF i > n THEN c ELSE f[i + 1][Shifted(c, bytes[i])]]
           Is(f) == f = [i \in 1..n + 1 |-> Step(f, i)]
           from[i \in 1..n + 1] == [c \in W |-> IF i > n THEN c
             ELSE from[i + 1][Shifted(c, bytes[i])]]
<1>1. n \in Nat /\ \A i \in 1..n : bytes[i] \in Nat
  BY LenProperties, ElementOfSeq, ByteDef
<1>2. \A crc \in W : crc16(crc, bytes) = from[1][crc]
  BY DEF crc16
<1> HIDE DEF from, n, W
<1>3. ASSUME NEW i \in 1..n, NEW c \in W PROVE Shifted(c, bytes[i]) \in W
  BY <1>1, ShiftedType DEF W
<1>4. id \in V
  OBVIOUS
<1>5. D \in [1..n -> [V -> V]]
  <2> SUFFICES ASSUME NEW k \in 1..n, NEW v \in V
               PROVE  [c \in W |-> v[Shifted(c, bytes[n + 1 - k])]] \in V
    OBVIOUS
  <2>1. n + 1 - k \in 1..n
    BY <1>1
  <2>2. QED
    BY <2>1, <1>3
<1>6. PICK f \in [0..n -> V] : f[0] = id /\ \A k \in 1..n : f[k] = D[k][f[k - 1]]
  <2>1. n \in Nat
    BY <1>1
  <2> HIDE DEF V, D, id, Step
  <2>2. \E f \in [0..n -> V] : Chain(f, id, n, D)
    BY <2>1, <1>4, <1>5, Iterates
  <2>3. QED
    BY <2>2 DEF Chain
<1> DEFINE g == [i \in 1..n + 1 |-> f[n + 1 - i]]
<1>7. ASSUME NEW i \in 1..n + 1 PROVE g[i] = Step(g, i)
  <2>1. CASE i > n
    <3>1. i = n + 1 /\ n + 1 - i = 0
      BY <1>1, <2>1
    <3>2. g[i] = id
      BY <3>1, <1>6
    <3>3. QED
      BY <3>2, <2>1
  <2>2. CASE ~(i > n)
    <3>1. n + 1 - i \in 1..n /\ n + 1 - (n + 1 - i) = i /\ i + 1 \in 1..n + 1
          /\ n + 1 - (i + 1) = (n + 1 - i) - 1
      BY <1>1, <2>2
    <3> DEFINE k == n + 1 - i
    <3>2. g[i] = f[k] /\ g[i + 1] = f[k - 1] /\ f[k - 1] \in V
      BY <3>1, <1>1
    <3> HIDE DEF k, g
    <3>3. f[k] = D[k][f[k - 1]] /\ k \in 1..n /\ n + 1 - k = i
      BY <3>1, <1>6 DEF k
    <3>4. D[k][f[k - 1]] = [c \in W |-> f[k - 1][Shifted(c, bytes[n + 1 - k])]]
      BY <3>2, <3>3
    <3> HIDE DEF D, V
    <3>5. g[i] = [c \in W |-> g[i + 1][Shifted(c, bytes[i])]]
      BY <3>2, <3>3, <3>4
    <3>6. QED
      BY <3>5, <2>2
  <2>3. QED
    BY <2>1, <2>2
<1>8. Is(g)
  <2> HIDE DEF Step
  <2>1. QED
    BY <1>7
<1>9. Is(from)
  <2> HIDE DEF g
  <2>1. QED
    BY <1>8 DEF from
<1>10. \A i \in 1..n + 1 : from[i] = Step(from, i)
  <2> HIDE DEF Step
  <2>1. QED
    BY <1>9
<1> DEFINE S == {m \in 0..n : from[n + 1 - m] \in V}
<1>11. 0 \in S
  <2>1. n + 1 - 0 = n + 1 /\ n + 1 \in 1..n + 1 /\ n + 1 > n /\ 0 \in 0..n
    BY <1>1
  <2>2. from[n + 1] = [c \in W |-> c]
    BY <2>1, <1>10
  <2>3. QED
    BY <2>1, <2>2
<1>12. ASSUME NEW m \in 0..n - 1, m \in S PROVE m + 1 \in S
  <2> DEFINE i == n - m
  <2>1. i \in 1..n /\ n + 1 - m = i + 1 /\ n + 1 - (m + 1) = i /\ m + 1 \in 0..n /\ ~(i > n)
        /\ i \in 1..n + 1
    BY <1>1
  <2> HIDE DEF i
  <2>2. from[i + 1] \in V
    BY <1>12, <2>1
  <2>3. from[i] = [c \in W |-> from[i + 1][Shifted(c, bytes[i])]]
    BY <1>10, <2>1
  <2>4. from[i] \in V
    BY <2>1, <2>2, <2>3, <1>3
  <2>5. QED
    BY <2>1, <2>4
<1>13. \A m \in 0..n : m \in S
  <2> HIDE DEF S
  <2>1. QED
    BY <1>1, <1>11, <1>12, UpTo
<1>14. \A i \in 1..n + 1 : from[i] \in V
  <2> SUFFICES ASSUME NEW i \in 1..n + 1 PROVE from[i] \in V
    OBVIOUS
  <2>1. n + 1 - i \in 0..n /\ n + 1 - (n + 1 - i) = i
    BY <1>1
  <2>2. QED
    BY <2>1, <1>13
<1>15. from \in [1..n + 1 -> V]
  <2> HIDE DEF V, Step
  <2>1. QED
    BY <1>9, <1>14
<1>16. \A c \in W : from[n + 1][c] = c
  <2>1. n + 1 \in 1..n + 1 /\ n + 1 > n
    BY <1>1
  <2>2. from[n + 1] = [c \in W |-> c]
    BY <1>10, <2>1
  <2>3. QED
    BY <2>2
<1>17. \A i \in 1..n : \A c \in W : from[i][c] = from[i + 1][Shifted(c, bytes[i])]
  <2> SUFFICES ASSUME NEW i \in 1..n
                        PROVE \A c \in W : from[i][c] = from[i + 1][Shifted(c, bytes[i])]
    OBVIOUS
  <2>1. i \in 1..n + 1 /\ ~(i > n)
    BY <1>1
  <2>2. from[i] = [c \in W |-> from[i + 1][Shifted(c, bytes[i])]]
    BY <1>10, <2>1
  <2>3. QED
    BY <2>2
<1>18. QED
  BY <1>2, <1>15, <1>16, <1>17 DEF CrcSteps, n, W

\* The checksum is a number of 16 bits.
LEMMA CrcType ==
  ASSUME NEW bytes \in Seq(Byte), NEW crc \in Checksum
  PROVE  crc16(crc, bytes) \in Checksum
<1>1. PICK from : CrcSteps(from, bytes) /\ \A c \in Checksum : crc16(c, bytes) = from[1][c]
  BY CrcUnfolds
<1>2. Len(bytes) \in Nat /\ 1 \in 1..Len(bytes) + 1
  BY LenProperties
<1>3. QED
  BY <1>1, <1>2 DEF CrcSteps

\* The checksum of two pieces is that of the second, carried on from that of the first.
THEOREM CrcInParts ==
  ASSUME NEW a \in Seq(Byte), NEW b \in Seq(Byte), NEW crc \in Checksum
  PROVE  crc16(crc, a \o b) = crc16(crc16(crc, a), b)
<1> DEFINE la == Len(a)
           lb == Len(b)
           W == Checksum
           ab == a \o b
<1>1. la \in Nat /\ lb \in Nat
  BY LenProperties
<1>2. ab \in Seq(Byte) /\ Len(ab) = la + lb
      /\ \A i \in 1..la + lb : ab[i] = IF i <= la THEN a[i] ELSE b[i - la]
  BY ConcatProperties
<1>3. PICK fa : CrcSteps(fa, a) /\ \A c \in W : crc16(c, a) = fa[1][c]
  BY CrcUnfolds
<1>4. PICK fb : CrcSteps(fb, b) /\ \A c \in W : crc16(c, b) = fb[1][c]
  BY CrcUnfolds
<1>5. PICK f : CrcSteps(f, ab) /\ \A c \in W : crc16(c, ab) = f[1][c]
  BY <1>2, CrcUnfolds
<1>6. \A i \in 1..la : a[i] \in Nat
  BY ElementOfSeq, ByteDef
<1>7. \A i \in 1..lb : b[i] \in Nat
  BY ElementOfSeq, ByteDef
<1>8. /\ fa \in [1..la + 1 -> [W -> W]]
      /\ \A c \in W : fa[la + 1][c] = c
      /\ \A i \in 1..la : \A c \in W : fa[i][c] = fa[i + 1][Shifted(c, a[i])]
  BY <1>3 DEF CrcSteps
<1>9. /\ fb \in [1..lb + 1 -> [W -> W]]
      /\ \A c \in W : fb[lb + 1][c] = c
      /\ \A i \in 1..lb : \A c \in W : fb[i][c] = fb[i + 1][Shifted(c, b[i])]
  BY <1>4 DEF CrcSteps
<1>10. /\ \A c \in W : f[la + lb + 1][c] = c
       /\ \A i \in 1..la + lb : \A c \in W : f[i][c] = f[i + 1][Shifted(c, ab[i])]
  BY <1>5, <1>2 DEF CrcSteps
<1>11. \A c \in W : \A byte \in Nat : Shifted(c, byte) \in W
  BY ShiftedType
<1> HIDE DEF la, lb, W, ab
<1> DEFINE P == {m \in 0..lb : \A c \in W : f[la + (lb + 1 - m)][c] = fb[lb + 1 - m][c]}
<1>12. 0 \in P
  <2>1. la + (lb + 1 - 0) = la + lb + 1 /\ lb + 1 - 0 = lb + 1 /\ 0 \in 0..lb
    BY <1>1
  <2>2. \A c \in W : f[la + lb + 1][c] = fb[lb + 1][c]
    BY <1>9, <1>10
  <2>3. QED
    BY <2>1, <2>2
<1>13. ASSUME NEW m \in 0..lb - 1, m \in P PROVE m + 1 \in P
  <2> DEFINE i == lb - m
  <2>1. i \in 1..lb /\ lb + 1 - (m + 1) = i /\ lb + 1 - m = i + 1 /\ m + 1 \in 0..lb
        /\ la + i \in 1..la + lb /\ (la + i) + 1 = la + (i + 1) /\ ~(la + i <= la)
             /\ (la + i) - la = i
    BY <1>1
  <2> HIDE DEF i
  <2>2. ASSUME NEW c \in W PROVE f[la + i][c] = fb[i][c]
    <3>1. ab[la + i] = b[i]
      BY <2>1, <1>2
    <3>2. Shifted(c, b[i]) \in W
      BY <2>1, <1>7, <1>11
    <3>3. f[la + i][c] = f[la + (i + 1)][Shifted(c, b[i])]
      BY <1>10, <2>1, <3>1
    <3>4. f[la + (i + 1)][Shifted(c, b[i])] = fb[i + 1][Shifted(c, b[i])]
      BY <1>13, <2>1, <3>2
    <3>5. QED
      BY <3>3, <3>4, <1>9, <2>1
  <2>3. QED
    BY <2>1, <2>2
<1>14. \A c \in W : f[la + 1][c] = fb[1][c]
  <2> HIDE DEF P
  <2>1. \A m \in 0..lb : m \in P
    BY <1>1, <1>12, <1>13, UpTo
  <2>2. lb \in P /\ la + (lb + 1 - lb) = la + 1 /\ lb + 1 - lb = 1
    BY <2>1, <1>1
  <2>3. QED
    BY <2>2 DEF P
<1> DEFINE Q == {m \in 0..la : \A c \in W : f[la + 1 - m][c] = fb[1][fa[la + 1 - m][c]]}
<1>15. 0 \in Q
  <2>1. la + 1 - 0 = la + 1 /\ 0 \in 0..la
    BY <1>1
  <2>2. \A c \in W : f[la + 1][c] = fb[1][fa[la + 1][c]]
    BY <1>8, <1>14
  <2>3. QED
    BY <2>1, <2>2
<1>16. ASSUME NEW m \in 0..la - 1, m \in Q PROVE m + 1 \in Q
  <2> DEFINE i == la - m
  <2>1. i \in 1..la /\ la + 1 - (m + 1) = i /\ la + 1 - m = i + 1 /\ m + 1 \in 0..la
        /\ i \in 1..la + lb /\ i <= la
    BY <1>1
  <2> HIDE DEF i
  <2>2. ASSUME NEW c \in W PROVE f[i][c] = fb[1][fa[i][c]]
    <3>1. ab[i] = a[i]
      BY <2>1, <1>2
    <3>2. Shifted(c, a[i]) \in W
      BY <2>1, <1>6, <1>11
    <3>3. f[i][c] = f[i + 1][Shifted(c, a[i])]
      BY <1>10, <2>1, <3>1
    <3>4. f[i + 1][Shifted(c, a[i])] = fb[1][fa[i + 1][Shifted(c, a[i])]]
      BY <1>16, <2>1, <3>2
    <3>5. fa[i][c] = fa[i + 1][Shifted(c, a[i])]
      BY <1>8, <2>1
    <3>6. QED
      BY <3>3, <3>4, <3>5
  <2>3. QED
    BY <2>1, <2>2
<1>17. \A c \in W : f[1][c] = fb[1][fa[1][c]]
  <2> HIDE DEF Q
  <2>1. \A m \in 0..la : m \in Q
    BY <1>1, <1>15, <1>16, UpTo
  <2>2. la \in Q /\ la + 1 - la = 1
    BY <2>1, <1>1
  <2>3. QED
    BY <2>2 DEF Q
<1>18. crc16(crc, a) \in W
  BY CrcType DEF W
<1>19. crc \in W
  BY DEF W
<1>20. QED
  BY <1>3, <1>4, <1>5, <1>17, <1>18, <1>19 DEF ab

---------------------------------------------------------------------------
(* Packed numbers *)

\* The least number of a set that is not empty is in it, and no other is less.
LEMMA MinProperties ==
  ASSUME NEW S, S \subseteq Nat, S # {}
  PROVE  Min(S) \in S /\ \A y \in S : Min(S) <= y
BY NatMin DEF Min

\* A half of a byte.
Digit16 == 0..15

\* A byte is two digits of 4 bits.
LEMMA HalvesType ==
  ASSUME NEW b \in Byte
  PROVE  b \div 16 \in Digit16 /\ b % 16 \in Digit16 /\ b = (b \div 16) * 16 + (b % 16)
<1>1. b \in Nat /\ b < 256
  BY ByteDef
<1>2. QED
  BY <1>1 DEF Digit16

\* A nibble of a sequence of bytes is a digit of 4 bits.
LEMMA NibbleType ==
  ASSUME NEW bytes \in Seq(Byte), NEW i \in 1..2 * Len(bytes)
  PROVE  Nibble(bytes, i) \in Digit16
<1> DEFINE k == (i + 1) \div 2
<1>1. k \in 1..Len(bytes)
  BY LenProperties
<1> HIDE DEF k
<1>2. bytes[k] \in Byte
  BY <1>1, ElementOfSeq
<1>3. QED
  BY <1>2, HalvesType DEF Nibble, k

\* phone_num_to_string makes digits of bytes.
LEMMA PhoneType ==
  ASSUME NEW bytes \in Seq(Byte), NEW room \in Nat \ {0}
  PROVE  phone_num_to_string(bytes, room) \in Seq(Digit16)
<1> DEFINE m == 2 * Len(bytes)
           ends == {i \in 1..m : Nibble(bytes, i) = END_OF_NUMBER}
           S == {m, room - 1} \cup {i - 1 : i \in ends}
           length == Min(S)
<1>1. m \in Nat
  BY LenProperties
<1>2. phone_num_to_string(bytes, room) = [i \in 1..length |-> Nibble(bytes, i)]
  BY DEF phone_num_to_string
<1> HIDE DEF m
<1>3. S \subseteq Nat /\ m \in S
  BY <1>1
<1> HIDE DEF S
<1>4. length \in Nat /\ length <= m
  BY <1>3, MinProperties
<1> HIDE DEF length
<1>5. \A i \in 1..length : Nibble(bytes, i) \in Digit16
  BY <1>1, <1>4, NibbleType DEF m
<1>6. QED
  BY <1>2, <1>4, <1>5

\* A number without an end in it is read to the end of its bytes, or of the room there is.
LEMMA PhoneWhole ==
  ASSUME NEW bytes \in Seq(Byte), NEW m \in Nat, m = 2 * Len(bytes), NEW room \in Nat,
         m <= room - 1, \A i \in 1..m : Nibble(bytes, i) # END_OF_NUMBER
  PROVE  phone_num_to_string(bytes, room) = [i \in 1..m |-> Nibble(bytes, i)]
<1> DEFINE ends == {i \in 1..m : Nibble(bytes, i) = END_OF_NUMBER}
           S == {m, room - 1} \cup {i - 1 : i \in ends}
           length == Min(S)
<1>1. phone_num_to_string(bytes, room) = [i \in 1..length |-> Nibble(bytes, i)]
  BY DEF phone_num_to_string
<1>2. S = {m, room - 1} /\ S \subseteq Nat /\ S # {}
  OBVIOUS
<1> HIDE DEF S
<1>3. length \in S /\ \A y \in S : length <= y
  BY <1>2, MinProperties
<1> HIDE DEF length
<1>4. length = m
  BY <1>2, <1>3
<1>5. QED
  BY <1>1, <1>4

\* Digits packed two by two are bytes, and every digit is in its nibble.
LEMMA PackType ==
  ASSUME NEW digits \in Seq(Digit16), NEW n \in Nat, Len(digits) = 2 * n
  PROVE  /\ Pack(digits) \in Seq(Byte) /\ Len(Pack(digits)) = n
         /\ \A i \in 1..2 * n : Nibble(Pack(digits), i) = digits[i]
<1>1. Len(digits) \div 2 = n
  OBVIOUS
<1> DEFINE p == [i \in 1..n |-> digits[2 * i - 1] * 16 + digits[2 * i]]
<1>2. Pack(digits) = p
  BY <1>1 DEF Pack
<1>3. \A i \in 1..2 * n : digits[i] \in Nat /\ digits[i] < 16
  BY ElementOfSeq DEF Digit16
<1>4. ASSUME NEW i \in 1..n PROVE digits[2 * i - 1] * 16 + digits[2 * i] \in Byte
  <2>1. 2 * i - 1 \in 1..2 * n /\ 2 * i \in 1..2 * n
    OBVIOUS
  <2> DEFINE a == digits[2 * i - 1]
             b == digits[2 * i]
  <2>2. a \in Nat /\ a < 16 /\ b \in Nat /\ b < 16
    BY <2>1, <1>3
  <2> HIDE DEF a, b
  <2>3. a * 16 + b \in Nat /\ a * 16 + b < 256
    BY <2>2
  <2>4. QED
    BY <2>3, ByteDef DEF a, b
<1>5. p \in Seq(Byte) /\ Len(p) = n
  BY <1>4
<1>6. ASSUME NEW i \in 1..2 * n PROVE Nibble(p, i) = digits[i]
  <2> DEFINE k == (i + 1) \div 2
             a == digits[2 * k - 1]
             b == digits[2 * k]
  <2>1. k \in 1..n /\ (i % 2 = 1 => 2 * k - 1 = i) /\ (i % 2 # 1 => 2 * k = i)
    OBVIOUS
  <2>2. 2 * k - 1 \in 1..2 * n /\ 2 * k \in 1..2 * n
    BY <2>1
  <2> HIDE DEF k
  <2>3. a \in Nat /\ a < 16 /\ b \in Nat /\ b < 16
    BY <2>2, <1>3
  <2>4. p[k] = a * 16 + b
    BY <2>1
  <2>5. Nibble(p, i) = IF i % 2 = 1 THEN p[k] \div 16 ELSE p[k] % 16
    BY DEF Nibble, k
  <2> HIDE DEF p
  <2>6. (i % 2 = 1 => a = digits[i]) /\ (i % 2 # 1 => b = digits[i])
    BY <2>1
  <2> HIDE DEF a, b
  <2>7. (a * 16 + b) \div 16 = a /\ (a * 16 + b) % 16 = b
    BY <2>3
  <2>8. QED
    BY <2>4, <2>5, <2>6, <2>7
<1>7. QED
  BY <1>2, <1>5, <1>6

\* The number of a terminal, read from the bytes of its packet and packed again, is those bytes.
LEMMA TerminalBytesKept ==
  ASSUME NEW id \in Seq(Byte), Len(id) = 5,
         \A i \in 1..10 : Nibble(id, i) # END_OF_NUMBER
  PROVE  TerminalBytes(phone_num_to_string(id, 11)) = id
<1> DEFINE m == 10
           number == [i \in 1..m |-> Nibble(id, i)]
           cut == SubSeq(number, 1, 10)
           p == Pack(cut)
<1>1. phone_num_to_string(id, 11) = number
  <2> DEFINE room == 11
  <2>1. m \in Nat /\ m = 2 * Len(id) /\ room \in Nat /\ m <= room - 1
    OBVIOUS
  <2>2. \A i \in 1..m : Nibble(id, i) # END_OF_NUMBER
    OBVIOUS
  <2> HIDE DEF m, room
  <2>3. phone_num_to_string(id, room) = number
    BY <2>1, <2>2, PhoneWhole
  <2>4. QED
    BY <2>3 DEF room
<1>2. TerminalBytes(number) = p
  BY DEF TerminalBytes
<1>3. \A i \in 1..m : Nibble(id, i) \in Digit16
  <2>1. m = 2 * Len(id)
    OBVIOUS
  <2> HIDE DEF m
  <2>2. \A i \in 1..2 * Len(id) : Nibble(id, i) \in Digit16
    BY NibbleType
  <2>3. QED
    BY <2>1, <2>2
<1>4. number \in Seq(Digit16) /\ Len(number) = m /\ m \in Nat
        /\ \A i \in 1..m : number[i] = Nibble(id, i)
  BY <1>3
<1>5. cut = number
  <2> HIDE DEF number
  <2>1. SubSeq(number, 1, Len(number)) = number
    BY <1>4, SubSeqFull
  <2>2. QED
    BY <2>1, <1>4
<1>6. p \in Seq(Byte) /\ Len(p) = 5 /\ \A i \in 1..2 * 5 : Nibble(p, i) = cut[i]
  <2> DEFINE n == 5
  <2>1. n \in Nat /\ Len(cut) = 2 * n /\ cut \in Seq(Digit16)
    BY <1>4, <1>5
  <2> HIDE DEF n, cut
  <2>2. Pack(cut) \in Seq(Byte) /\ Len(Pack(cut)) = n
          /\ \A i \in 1..2 * n : Nibble(Pack(cut), i) = cut[i]
    BY <2>1, PackType
  <2>3. QED
    BY <2>2 DEF n
<1>7. ASSUME NEW k \in 1..5 PROVE p[k] = id[k]
  <2> DEFINE i == 2 * k - 1
             j == 2 * k
  <2>1. i \in 1..10 /\ j \in 1..10 /\ (i + 1) \div 2 = k /\ (j + 1) \div 2 = k /\ i % 2 = 1
          /\ j % 2 # 1
    OBVIOUS
  <2> HIDE DEF i, j, p, cut, number
  <2>2. Nibble(p, i) = Nibble(id, i) /\ Nibble(p, j) = Nibble(id, j)
    BY <2>1, <1>4, <1>5, <1>6
  <2>3. /\ Nibble(p, i) = p[k] \div 16 /\ Nibble(p, j) = p[k] % 16
        /\ Nibble(id, i) = id[k] \div 16 /\ Nibble(id, j) = id[k] % 16
    BY <2>1 DEF Nibble
  <2>4. p[k] \in Byte /\ id[k] \in Byte
    BY <1>6, ElementOfSeq
  <2>5. p[k] = (p[k] \div 16) * 16 + (p[k] % 16) /\ id[k] = (id[k] \div 16) * 16 + (id[k] % 16)
    BY <2>4, HalvesType
  <2>6. QED
    BY <2>2, <2>3, <2>5
<1>8. p = id
  <2> HIDE DEF p
  <2>1. QED
    BY <1>6, <1>7, SeqEqual
<1>9. QED
  BY <1>1, <1>2, <1>8

\* string_to_bcd_a fills its buffer: the digits, a 0 as 0xa, and behind them zeros.
LEMMA BcdType ==
  ASSUME NEW digits \in Seq(Decimal), NEW room \in Nat
  PROVE  /\ string_to_bcd_a(digits, room) \in Seq(Byte) /\ Len(string_to_bcd_a(digits, room)) = room
         /\ \A i \in 1..2 * room : Nibble(string_to_bcd_a(digits, room), i)
              = IF i > Len(digits) THEN 0 ELSE IF digits[i] = 0 THEN 10 ELSE digits[i]
<1> DEFINE Digit(i) == IF i > Len(digits) THEN 0 ELSE IF digits[i] = 0 THEN 10 ELSE digits[i]
           all == [i \in 1..2 * room |-> Digit(i)]
<1>1. string_to_bcd_a(digits, room) = Pack(all)
  BY DEF string_to_bcd_a
<1>2. ASSUME NEW i \in 1..2 * room PROVE Digit(i) \in Digit16
  <2>1. Len(digits) \in Nat
    BY LenProperties
  <2>2. CASE i > Len(digits)
    BY <2>2 DEF Digit16
  <2>3. CASE ~(i > Len(digits))
    <3>1. i \in 1..Len(digits)
      BY <2>1, <2>3
    <3>2. digits[i] \in Decimal
      BY <3>1, ElementOfSeq
    <3>3. QED
      BY <3>2, <2>3 DEF Decimal, Digit16
  <2>4. QED
    BY <2>2, <2>3
<1> HIDE DEF Digit
<1>3. all \in Seq(Digit16) /\ Len(all) = 2 * room /\ \A i \in 1..2 * room : all[i] = Digit(i)
  BY <1>2
<1> HIDE DEF all
<1>4. Pack(all) \in Seq(Byte) /\ Len(Pack(all)) = room
        /\ \A i \in 1..2 * room : Nibble(Pack(all), i) = all[i]
  BY <1>3, PackType
<1>5. QED
  BY <1>1, <1>3, <1>4 DEF Digit

\* The terminal reads a number in a table as it was given to the manager, up to the digits
\* there is room for: none of them is taken for the end.
LEMMA NumberKept ==
  ASSUME NEW digits \in Seq(Decimal), NEW room \in Nat, NEW max \in Nat, 2 * room <= max - 1
  PROVE  callscrn_num_to_string(string_to_bcd_a(digits, room), max)
           = SubSeq(digits, 1, Min({Len(digits), 2 * room}))
<1> DEFINE b == string_to_bcd_a(digits, room)
           m == 2 * room
           n == Len(digits)
           l == Min({n, m})
           ends == {i \in 1..2 * Len(b) : Nibble(b, i) = 0}
           S == {2 * Len(b), max - 1} \cup {i - 1 : i \in ends}
           length == Min(S)
           cut == SubSeq(digits, 1, l)
<1>1. /\ b \in Seq(Byte) /\ Len(b) = room
      /\ \A i \in 1..m : Nibble(b, i) = IF i > n THEN 0 ELSE IF digits[i] = 0 THEN 10 ELSE digits[i]
  BY BcdType
<1>2. n \in Nat /\ m \in Nat /\ \A i \in 1..n : digits[i] \in Nat /\ digits[i] < 10
  BY LenProperties, ElementOfSeq DEF Decimal
<1>3. callscrn_num_to_string(b, max) = [i \in 1..length |-> pn_lut(Nibble(b, i))]
  BY DEF callscrn_num_to_string
<1> HIDE DEF b, n
<1>4. l \in {n, m} /\ l <= n /\ l <= m
  <2> DEFINE L == {n, m}
  <2>1. L \subseteq Nat /\ L # {} /\ n \in L /\ m \in L
    BY <1>2
  <2> HIDE DEF L, m
  <2>2. Min(L) \in L /\ \A y \in L : Min(L) <= y
    BY <2>1, MinProperties
  <2>3. QED
    BY <2>1, <2>2 DEF L
<1> HIDE DEF l
<1>5. ASSUME NEW i \in 1..m PROVE Nibble(b, i) = 0 <=> i > n
  <2>1. CASE i > n
    BY <2>1, <1>1
  <2>2. CASE ~(i > n)
    <3>1. i \in 1..n
      BY <2>2, <1>2
    <3>2. digits[i] \in Nat
      BY <3>1, <1>2
    <3>3. QED
      BY <3>2, <2>2, <1>1
  <2>3. QED
    BY <2>1, <2>2
<1>6. 2 * Len(b) = m
  BY <1>1
<1> HIDE DEF m
<1>7. S \subseteq Nat /\ S # {}
  BY <1>2, <1>6
<1>8. m <= max - 1
  BY DEF m
<1>9. l \in S /\ \A y \in S : l <= y
  <2>1. l \in S
    <3>1. CASE l = m
      BY <3>1, <1>6
    <3>2. CASE l # m
      <4>1. l = n /\ n + 1 \in 1..m /\ n + 1 > n
        BY <3>2, <1>2, <1>4
      <4>2. n + 1 \in ends
        BY <4>1, <1>5, <1>6
      <4>3. (n + 1) - 1 \in S
        BY <4>2
      <4>4. QED
        BY <4>1, <4>3, <1>2
    <3>3. QED
      BY <3>1, <3>2
  <2>2. ASSUME NEW y \in S PROVE l <= y
    <3>1. CASE y \in {2 * Len(b), max - 1}
      BY <3>1, <1>2, <1>4, <1>6, <1>8
    <3>2. CASE y \notin {2 * Len(b), max - 1}
      <4>1. PICK i \in ends : y = i - 1
        BY <3>2
      <4>2. i \in 1..m /\ i > n
        BY <4>1, <1>5, <1>6
      <4>3. QED
        BY <4>1, <4>2, <1>2, <1>4
    <3>3. QED
      BY <3>1, <3>2
  <2>3. QED
    BY <2>1, <2>2
<1>10. length = l
  <2> HIDE DEF S
  <2>1. length \in S /\ \A y \in S : length <= y
    BY <1>7, MinProperties
  <2>2. length \in Nat /\ l \in Nat /\ length <= l /\ l <= length
    BY <2>1, <1>7, <1>9
  <2> HIDE DEF length
  <2>3. QED
    BY <2>2
<1>11. ASSUME NEW i \in 1..l PROVE pn_lut(Nibble(b, i)) = digits[i]
  <2>1. i \in 1..m /\ i \in 1..n /\ ~(i > n)
    BY <1>2, <1>4
  <2>2. digits[i] \in Nat /\ digits[i] < 10
    BY <2>1, <1>2
  <2>3. Nibble(b, i) = IF digits[i] = 0 THEN 10 ELSE digits[i]
    BY <2>1, <1>1
  <2>4. QED
    BY <2>2, <2>3 DEF pn_lut
<1>12. cut = [i \in 1..l |-> digits[i]]
  <2>1. l \in Nat /\ 0 + l <= Len(digits)
    BY <1>2, <1>4 DEF n
  <2> DEFINE c == SubSeq(digits, 0 + 1, 0 + l)
  <2>2. c \in Seq(Decimal) /\ Len(c) = l /\ Piece(c, digits, 0, l)
    <3> DEFINE z == 0
    <3>1. z \in Nat /\ z + l <= Len(digits)
      BY <2>1
    <3> HIDE DEF z, c
    <3>2. /\ SubSeq(digits, z + 1, z + l) \in Seq(Decimal) /\ Len(SubSeq(digits, z + 1, z + l)) = l
          /\ Piece(SubSeq(digits, z + 1, z + l), digits, z, l)
      BY <2>1, <3>1, Cut
    <3>3. c = SubSeq(digits, z + 1, z + l)
      BY DEF z, c
    <3>4. QED
      BY <3>2, <3>3 DEF z
  <2>3. cut = c
    BY <2>1
  <2> HIDE DEF c, cut
  <2>4. \A i \in 1..l : 0 + i = i
    BY <2>1
  <2>5. \A i \in 1..l : cut[i] = digits[i]
    BY <2>2, <2>3, <2>4 DEF Piece
  <2>6. cut \in Seq(Decimal) /\ Len(cut) = l
    BY <2>2, <2>3
  <2>7. QED
    BY <2>5, <2>6
<1>13. QED
  <2> HIDE DEF length, cut
  <2>1. callscrn_num_to_string(b, max) = [i \in 1..l |-> digits[i]]
    BY <1>3, <1>10, <1>11
  <2>2. QED
    BY <2>1, <1>12 DEF cut, b, l, n, m

\* No decimal digit is the one that ends a number.
LEMMA DecimalDigit == \A d \in Decimal : d \in Digit16 /\ d # END_OF_NUMBER
BY DEF Decimal, Digit16, END_OF_NUMBER

\* A number of an even length is read as it was packed.
LEMMA EvenNumberKept ==
  ASSUME NEW digits \in Seq(Decimal), NEW n \in Nat, Len(digits) = 2 * n,
         NEW room \in Nat, 2 * n <= room - 1
  PROVE  /\ Pack(digits) \in Seq(Byte) /\ Len(Pack(digits)) = n
         /\ phone_num_to_string(Pack(digits), room) = digits
<1> DEFINE p == Pack(digits)
           m == 2 * n
<1>1. m \in Nat /\ Len(digits) = m /\ \A i \in 1..m : digits[i] \in Decimal
  BY ElementOfSeq
<1>2. digits \in Seq(Digit16)
  <2>1. \A i \in 1..m : digits[i] \in Digit16
    BY <1>1, DecimalDigit
  <2>2. digits = [i \in 1..m |-> digits[i]]
    BY <1>1
  <2> HIDE DEF m
  <2>3. QED
    BY <1>1, <2>1, <2>2
<1>3. p \in Seq(Byte) /\ Len(p) = n /\ \A i \in 1..2 * n : Nibble(p, i) = digits[i]
  BY <1>2, PackType
<1> HIDE DEF p
<1>4. m = 2 * Len(p) /\ m <= room - 1
  BY <1>3
<1>5. \A i \in 1..m : Nibble(p, i) = digits[i] /\ Nibble(p, i) # END_OF_NUMBER
  BY <1>1, <1>3, DecimalDigit
<1> HIDE DEF m
<1>6. phone_num_to_string(p, room) = [i \in 1..m |-> Nibble(p, i)]
  BY <1>1, <1>3, <1>4, <1>5, PhoneWhole
<1>7. [i \in 1..m |-> Nibble(p, i)] = digits
  BY <1>1, <1>5
<1>8. QED
  BY <1>3, <1>6, <1>7 DEF p

\* One of an odd length has an end.
LEMMA OddNumberKept ==
  ASSUME NEW digits \in Seq(Decimal), NEW n \in Nat, Len(digits) + 1 = 2 * n,
         NEW room \in Nat, Len(digits) <= room - 1
  PROVE  /\ Pack(Append(digits, END_OF_NUMBER)) \in Seq(Byte)
         /\ Len(Pack(Append(digits, END_OF_NUMBER))) = n
         /\ phone_num_to_string(Pack(Append(digits, END_OF_NUMBER)), room) = digits
<1> DEFINE l == Len(digits)
           m == 2 * n
           all == Append(digits, END_OF_NUMBER)
           p == Pack(all)
           ends == {i \in 1..2 * Len(p) : Nibble(p, i) = END_OF_NUMBER}
           S == {2 * Len(p), room - 1} \cup {i - 1 : i \in ends}
           length == Min(S)
<1>1. l \in Nat /\ m = l + 1 /\ \A i \in 1..l : digits[i] \in Decimal
  BY LenProperties, ElementOfSeq
<1>2. digits \in Seq(Digit16)
  <2>1. \A i \in 1..l : digits[i] \in Digit16
    BY <1>1, DecimalDigit
  <2>2. digits = [i \in 1..l |-> digits[i]]
    OBVIOUS
  <2> HIDE DEF l
  <2>3. QED
    BY <1>1, <2>1, <2>2
<1>3. END_OF_NUMBER \in Digit16
  BY DEF END_OF_NUMBER, Digit16
<1>4. all \in Seq(Digit16) /\ Len(all) = m /\ all[m] = END_OF_NUMBER
        /\ \A i \in 1..l : all[i] = digits[i]
  BY <1>1, <1>2, <1>3, AppendProperties
<1> HIDE DEF all
<1>5. p \in Seq(Byte) /\ Len(p) = n /\ \A i \in 1..2 * n : Nibble(p, i) = all[i]
  BY <1>4, PackType
<1> HIDE DEF p
<1>6. phone_num_to_string(p, room) = [i \in 1..length |-> Nibble(p, i)]
  BY DEF phone_num_to_string
<1>7. 2 * Len(p) = m
  BY <1>5
<1>8. ends = {m}
  <2>1. \A i \in 1..m : Nibble(p, i) = END_OF_NUMBER <=> i = m
    <3>1. m \in 1..m /\ \A i \in 1..m : i # m => i \in 1..l
      BY <1>1
    <3>2. \A i \in 1..m : Nibble(p, i) = all[i]
      BY <1>5
    <3>3. \A i \in 1..l : all[i] # END_OF_NUMBER
      BY <1>1, <1>4, DecimalDigit
    <3> HIDE DEF m
    <3>4. QED
      BY <3>1, <3>2, <3>3, <1>4
  <2>2. m \in 1..m
    BY <1>1
  <2>3. QED
    BY <1>7, <2>1, <2>2
<1>9. S = {m, room - 1, l} /\ S \subseteq Nat /\ S # {}
  <2>1. {i - 1 : i \in ends} = {l}
    <3> HIDE DEF ends, l, m
    <3>1. {i - 1 : i \in ends} = {m - 1}
      BY <1>8
    <3>2. m - 1 = l
      BY <1>1
    <3>3. QED
      BY <3>1, <3>2
  <2>2. l <= room - 1 /\ room - 1 \in Int
    OBVIOUS
  <2> HIDE DEF ends, l, m
  <2>3. S = {m, room - 1, l}
    BY <1>7, <2>1
  <2> HIDE DEF S
  <2>4. QED
    BY <1>1, <2>2, <2>3
<1> HIDE DEF S
<1>10. length \in S /\ \A y \in S : length <= y
  BY <1>9, MinProperties
<1>11. l <= room - 1
  OBVIOUS
<1> HIDE DEF length
<1>12. length = l
  <2> HIDE DEF l, m
  <2>1. QED
    BY <1>1, <1>9, <1>10, <1>11
<1>13. [i \in 1..l |-> Nibble(p, i)] = digits
  <2>1. \A i \in 1..l : i \in 1..2 * n
    BY <1>1
  <2>2. \A i \in 1..l : Nibble(p, i) = digits[i]
    BY <2>1, <1>4, <1>5
  <2>3. digits = [i \in 1..l |-> digits[i]]
    OBVIOUS
  <2> HIDE DEF l
  <2>4. QED
    BY <2>2, <2>3
<1>14. QED
  BY <1>5, <1>6, <1>12, <1>13 DEF p, all
================================================================================
