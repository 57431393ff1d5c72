-------------------------- MODULE Pn532FrameProofs --------------------------
(***************************************************************************)
(* Proofs about the byte formats of Pn532Frame, for payloads, UIDs and     *)
(* historical bytes of any length.                                         *)
(***************************************************************************)
EXTENDS Pn532Frame, WellFoundedInduction, SequenceTheorems, FiniteSetTheorems, TLAPS

u8 == 0..255

LEMMA U8IsNat == \A x \in u8 : x \in Nat
BY DEF u8

-----------------------------------------------------------------------------
(* Induction over the natural numbers, for a set instead of a predicate *)

Less == {p \in Nat \X Nat : p[1] < p[2]}

LEMMA LessWellFounded == IsWellFoundedOn(Less, Nat)
BY NatLessThanWellFounded, Zenon DEF OpToRel, Less

LEMMA SetInduction ==
    ASSUME NEW S, 0 \in S, \A n \in Nat : n \in S => n + 1 \in S
    PROVE  \A n \in Nat : n \in S
<1>1. SUFFICES ASSUME Nat \ S # {} PROVE FALSE
  OBVIOUS
<1>2. PICK x \in Nat \ S : \A y \in Nat \ S : ~ (<<y, x>> \in Less)
  BY <1>1, LessWellFounded, WFMin, Zenon
<1>3. x # 0 /\ x - 1 \in Nat
  BY <1>2
<1>4. <<x - 1, x>> \in Less
  BY <1>3 DEF Less
<1>5. x - 1 \in S
  BY <1>2, <1>3, <1>4
<1> QED
  BY <1>3, <1>5

-----------------------------------------------------------------------------
(* Sums *)

\* s holds the sums of the first bytes of b.
IsSums(s, b) ==
    /\ s \in [0..Len(b) -> Nat]
    /\ s[0] = 0
    /\ \A i \in 1..Len(b) : s[i] = s[i - 1] + b[i]

LEMMA SumsExist ==
    ASSUME NEW b \in Seq(u8)
    PROVE  \E s : IsSums(s, b)
<1> DEFINE Upto(n) == {s \in [0..n -> Nat] :
                         s[0] = 0 /\ \A i \in 1..n : s[i] = s[i - 1] + b[i]}
           S == {n \in Nat : n <= Len(b) => Upto(n) # {}}
<1>1. 0 \in S
  <2>1. [i \in 0..0 |-> 0] \in Upto(0)
    OBVIOUS
  <2> QED BY <2>1
<1>2. ASSUME NEW n \in Nat, n \in S
      PROVE  n + 1 \in S
  <2>1. SUFFICES ASSUME n + 1 <= Len(b) PROVE Upto(n + 1) # {}
    OBVIOUS
  <2>2. Len(b) \in Nat /\ b[n + 1] \in Nat
    BY <2>1, U8IsNat
  <2>3. PICK s \in Upto(n) : TRUE
    <3>1. n <= Len(b)
      BY <2>1, <2>2
    <3> QED BY <1>2, <3>1, Zenon
  <2> DEFINE t == [i \in 0..n + 1 |-> IF i <= n THEN s[i] ELSE s[n] + b[n + 1]]
  <2>4. s \in [0..n -> Nat] /\ s[0] = 0 /\ \A i \in 1..n : s[i] = s[i - 1] + b[i]
    BY <2>3
  <2>5. t \in [0..n + 1 -> Nat] /\ t[0] = 0
    BY <2>2, <2>4
  <2>6. ASSUME NEW i \in 1..n + 1 PROVE t[i] = t[i - 1] + b[i]
    <3>1. CASE i <= n
      BY <3>1, <2>4
    <3>2. CASE i = n + 1
      BY <3>2, <2>4
    <3> QED BY <3>1, <3>2
  <2>7. t \in Upto(n + 1)
    BY <2>5, <2>6
  <2> QED BY <2>7
<1>3. \A n \in Nat : n \in S
  <2> HIDE DEF S
  <2> QED BY <1>1, <1>2, SetInduction
<1>4. Upto(Len(b)) # {}
  BY <1>3
<1> QED BY <1>4 DEF IsSums

\* Two sequences have the same sums as far as they agree.
LEMMA SumsAgree ==
    ASSUME NEW b \in Seq(u8), NEW c \in Seq(u8), NEW s, NEW t,
           IsSums(s, b), IsSums(t, c),
           NEW n \in Nat, n <= Len(b), n <= Len(c), \A i \in 1..n : b[i] = c[i]
    PROVE  s[n] = t[n]
<1> DEFINE S == {k \in Nat : k <= n => s[k] = t[k]}
<1>1. 0 \in S
  BY DEF IsSums
<1>2. ASSUME NEW k \in Nat, k \in S PROVE k + 1 \in S
  <2>1. SUFFICES ASSUME k + 1 <= n PROVE s[k + 1] = t[k + 1]
    OBVIOUS
  <2>2. s[k] = t[k] /\ k + 1 \in 1..n /\ k + 1 \in 1..Len(b) /\ k + 1 \in 1..Len(c)
    BY <1>2, <2>1
  <2>3. s[k + 1] = s[k] + b[k + 1] /\ t[k + 1] = t[k] + c[k + 1]
    BY <2>2 DEF IsSums
  <2> QED BY <2>2, <2>3
<1>3. \A k \in Nat : k \in S
  <2> HIDE DEF S
  <2> QED BY <1>1, <1>2, SetInduction
<1> QED BY <1>3

\* The sum by halves is the sum from left to right.
LEMMA SumOfHalves ==
    ASSUME NEW b \in Seq(u8), NEW s, IsSums(s, b)
    PROVE  WrappingSum(b) = s[Len(b)] % 256
<1>1. CASE b = << >>
  BY <1>1 DEF WrappingSum, IsSums
<1>2. CASE b # << >>
  <2> DEFINE D == DOMAIN b
             Halves(f) ==
               [r \in D \X D |->
                  LET mid == (r[1] + r[2]) \div 2
                  IN  IF r[1] >= r[2] THEN b[r[1]]
                      ELSE (f[<<r[1], mid>>] + f[<<mid + 1, r[2]>>]) % 256]
             f == CHOOSE h : h = Halves(h)
             g == [r \in D \X D |-> IF r[1] >= r[2] THEN b[r[1]]
                                    ELSE (s[r[2]] - s[r[1] - 1]) % 256]
  <2>1. D = 1..Len(b) /\ Len(b) \in Nat /\ Len(b) >= 1
    BY <1>2
  <2>2. \A i \in D : b[i] \in 0..255 /\ s[i] \in Nat /\ s[i - 1] \in Nat
                       /\ s[i] = s[i - 1] + b[i]
    BY <2>1 DEF IsSums, u8
  <2> DEFINE Mid(lo, hi) == (lo + hi) \div 2
  <2>3. ASSUME NEW lo \in D, NEW hi \in D, lo < hi
        PROVE  /\ Mid(lo, hi) \in D /\ Mid(lo, hi) + 1 \in D
               /\ lo <= Mid(lo, hi) /\ Mid(lo, hi) + 1 <= hi
               /\ g[<<lo, hi>>]
                    = (g[<<lo, Mid(lo, hi)>>] + g[<<Mid(lo, hi) + 1, hi>>]) % 256
    <3>1. PICK mid : mid = Mid(lo, hi)
      OBVIOUS
    <3>2. mid \in D /\ mid + 1 \in D /\ lo <= mid /\ mid + 1 <= hi
      BY <2>1, <2>3, <3>1
    <3>3. ASSUME NEW i \in D, NEW j \in D, i <= j
          PROVE  g[<<i, j>>] = (s[j] - s[i - 1]) % 256
      <4>1. CASE i = j
        <5>1. g[<<i, j>>] = b[i]
          BY <4>1, <2>1
        <5>2. b[i] \in 0..255 /\ s[i - 1] \in Nat /\ s[i] = s[i - 1] + b[i]
          BY <2>2
        <5>3. \A x \in 0..255, y \in Nat : x = ((y + x) - y) % 256
          OBVIOUS
        <5>4. b[i] = ((s[i - 1] + b[i]) - s[i - 1]) % 256
          BY <5>2, <5>3, ZenonT(60)
        <5> HIDE DEF g
        <5> QED BY <4>1, <5>1, <5>2, <5>4, Zenon
      <4>2. CASE i < j
        BY <4>2, <2>1
      <4> QED BY <3>3, <4>1, <4>2, <2>1
    <3>4. /\ g[<<lo, hi>>] = (s[hi] - s[lo - 1]) % 256
          /\ g[<<lo, mid>>] = (s[mid] - s[lo - 1]) % 256
          /\ g[<<mid + 1, hi>>] = (s[hi] - s[mid]) % 256
      <4>1. (mid + 1) - 1 = mid /\ lo <= hi
        BY <2>1, <2>3, <3>2
      <4> HIDE DEF D, g
      <4> QED BY <3>2, <3>3, <4>1
    <3>5. s[hi] \in Int /\ s[lo - 1] \in Int /\ s[mid] \in Int
      BY <2>2, <3>2
    <3>6. \A x, y, z \in Int :
             (x - z) % 256 = (((y - z) % 256) + ((x - y) % 256)) % 256
      OBVIOUS
    <3>7. (s[hi] - s[lo - 1]) % 256
            = (((s[mid] - s[lo - 1]) % 256) + ((s[hi] - s[mid]) % 256)) % 256
      BY <3>5, <3>6, SMTT(60)
    <3>8. g[<<lo, hi>>] = (g[<<lo, mid>>] + g[<<mid + 1, hi>>]) % 256
      <4> HIDE DEF g
      <4> QED BY <3>4, <3>5, <3>7
    <3> HIDE DEF g, D, Mid
    <3> QED BY <3>1, <3>2, <3>8, Zenon
  <2>4. g = Halves(g)
    <3>1. ASSUME NEW r \in D \X D PROVE g[r] = Halves(g)[r]
      <4>1. r = <<r[1], r[2]>> /\ r[1] \in D /\ r[2] \in D
        BY <3>1
      <4>2. CASE r[1] >= r[2]
        BY <4>2
      <4>3. CASE ~(r[1] >= r[2])
        <5>1. r[1] < r[2]
          BY <4>1, <4>3, <2>1
        <5>2. g[<<r[1], r[2]>>] = (g[<<r[1], Mid(r[1], r[2])>>]
                        + g[<<Mid(r[1], r[2]) + 1, r[2]>>]) % 256
          <6> HIDE DEF g, D, Mid
          <6> QED BY <4>1, <5>1, <2>3
        <5>3. Halves(g)[r] = (g[<<r[1], Mid(r[1], r[2])>>]
                        + g[<<Mid(r[1], r[2]) + 1, r[2]>>]) % 256
          <6> HIDE DEF g
          <6> QED BY <4>3
        <5> HIDE DEF g, Halves, Mid
        <5> QED BY <4>1, <5>2, <5>3, Zenon
      <4> QED BY <4>2, <4>3
    <3>2. g = [r \in D \X D |-> g[r]] /\ Halves(g) = [r \in D \X D |-> Halves(g)[r]]
      OBVIOUS
    <3> HIDE DEF g, Halves
    <3> QED BY <3>1, <3>2
  <2>5. f = Halves(f)
    <3> HIDE DEF g, Halves
    <3> QED BY <2>4, Zenon
  <2> DEFINE S == {n \in Nat : \A i, j \in D : j - i <= n => f[<<i, j>>] = g[<<i, j>>]}
  <2>6. 0 \in S
    <3> SUFFICES ASSUME NEW i \in D, NEW j \in D, j - i <= 0
                 PROVE  f[<<i, j>>] = g[<<i, j>>]
      OBVIOUS
    <3>1. i >= j
      BY <2>1
    <3>2. Halves(f)[<<i, j>>] = b[i]
      BY <3>1
    <3>3. g[<<i, j>>] = b[i]
      BY <3>1
    <3> HIDE DEF f, g, Halves
    <3> QED BY <2>5, <3>2, <3>3
  <2>7. ASSUME NEW n \in Nat, n \in S PROVE n + 1 \in S
    <3>1. ASSUME NEW i \in D, NEW j \in D, j - i <= n + 1
          PROVE  f[<<i, j>>] = g[<<i, j>>]
      <4>1. \A k, l \in D : l - k <= n => f[<<k, l>>] = g[<<k, l>>]
        BY <2>7
      <4>2. CASE j - i <= n
        <5> HIDE DEF f, g
        <5> QED BY <4>1, <4>2
      <4>3. CASE j - i = n + 1
        <5>1. i < j
          BY <2>1, <4>3
        <5>2. PICK mid : mid = Mid(i, j)
          OBVIOUS
        <5>3. /\ mid \in D /\ mid + 1 \in D /\ i <= mid /\ mid + 1 <= j
              /\ g[<<i, j>>] = (g[<<i, mid>>] + g[<<mid + 1, j>>]) % 256
          <6> HIDE DEF D, g, Mid
          <6> QED BY <2>3, <5>1, <5>2
        <5>4. mid - i <= n /\ j - (mid + 1) <= n
          <6> HIDE DEF g
          <6> QED BY <2>1, <4>3, <5>3
        <5>5. f[<<i, mid>>] = g[<<i, mid>>] /\ f[<<mid + 1, j>>] = g[<<mid + 1, j>>]
          <6> HIDE DEF f, g
          <6> QED BY <4>1, <5>3, <5>4
        <5>6. Halves(f)[<<i, j>>] = (f[<<i, mid>>] + f[<<mid + 1, j>>]) % 256
          <6>1. ~(i >= j)
            BY <2>1, <5>1
          <6> HIDE DEF f
          <6> QED BY <5>2, <6>1
        <5> HIDE DEF f, g, Halves, Mid
        <5> QED BY <2>5, <5>3, <5>5, <5>6, Zenon
      <4> QED BY <2>1, <3>1, <4>2, <4>3
    <3> HIDE DEF f, g
    <3> QED BY <3>1
  <2>8. \A n \in Nat : n \in S
    <3> HIDE DEF S
    <3> QED BY <2>6, <2>7, SetInduction
  <2>9. f[<<1, Len(b)>>] = g[<<1, Len(b)>>]
    <3>1. 1 \in D /\ Len(b) \in D /\ Len(b) - 1 \in Nat /\ Len(b) - 1 <= Len(b) - 1
      BY <2>1
    <3> HIDE DEF f, g, D
    <3> QED BY <2>8, <3>1
  <2>10. g[<<1, Len(b)>>] = s[Len(b)] % 256
    <3>1. 1 \in D /\ Len(b) \in D /\ s[0] = 0 /\ 1 - 1 = 0
      BY <2>1 DEF IsSums
    <3>2. CASE Len(b) = 1
      <4>1. g[<<1, Len(b)>>] = b[1]
        BY <3>1, <3>2
      <4>2. b[1] \in 0..255 /\ s[1] = 0 + b[1]
        BY <2>2, <3>1
      <4>3. \A x \in 0..255 : x = (0 + x) % 256
        OBVIOUS
      <4>4. b[1] = (0 + b[1]) % 256
        BY ONLY <4>2, <4>3, ZenonT(60)
      <4>5. s[Len(b)] = 0 + b[1]
        BY ONLY <3>2, <4>2, SMT
      <4> HIDE DEF g
      <4> QED BY ONLY <4>1, <4>4, <4>5, ZenonT(30)
    <3>3. CASE Len(b) # 1
      <4>1. ~(1 >= Len(b))
        BY <2>1, <3>3
      <4>2. g[<<1, Len(b)>>] = (s[Len(b)] - s[0]) % 256
        BY <3>1, <4>1
      <4>3. s[Len(b)] \in Nat
        BY <2>2, <3>1
      <4> QED BY <3>1, <4>2, <4>3
    <3> QED BY <3>2, <3>3
  <2>11. WrappingSum(b) = f[<<1, Len(b)>>]
    BY <1>2, Zenon DEF WrappingSum
  <2> HIDE DEF f, g
  <2> QED BY <2>9, <2>10, <2>11, Zenon
<1> QED BY <1>1, <1>2

LEMMA WrappingSumType ==
    ASSUME NEW b \in Seq(u8)
    PROVE  WrappingSum(b) \in u8
<1>1. PICK s : IsSums(s, b)
  BY SumsExist
<1>2. s[Len(b)] \in Nat
  BY <1>1 DEF IsSums
<1>3. \A x \in Nat : x % 256 \in u8
  BY DEF u8
<1> QED BY <1>1, <1>2, <1>3, SumOfHalves

\* Adding a byte at the end adds it to the sum.
LEMMA WrappingSumAppend ==
    ASSUME NEW b \in Seq(u8), NEW x \in u8
    PROVE  WrappingSum(b \o <<x>>) = (WrappingSum(b) + x) % 256
<1> DEFINE c == b \o <<x>>
<1>1. c \in Seq(u8) /\ Len(c) = Len(b) + 1 /\ Len(b) \in Nat /\ c[Len(b) + 1] = x
      /\ \A i \in 1..Len(b) : b[i] = c[i]
  OBVIOUS
<1>2. PICK s : IsSums(s, b)
  BY SumsExist
<1>3. PICK t : IsSums(t, c)
  BY <1>1, SumsExist
<1> HIDE DEF c
<1>4. t[Len(b)] = s[Len(b)]
  BY <1>1, <1>2, <1>3, SumsAgree
<1>5. t[Len(b) + 1] = t[Len(b)] + x
  <2>1. Len(b) + 1 \in 1..Len(c) /\ (Len(b) + 1) - 1 = Len(b)
    BY <1>1
  <2> QED BY <1>1, <1>3, <2>1 DEF IsSums
<1>6. s[Len(b)] \in Nat /\ x \in Nat
  BY <1>1, <1>2, U8IsNat, SMTT(60) DEF IsSums
<1>7. WrappingSum(b) = s[Len(b)] % 256 /\ WrappingSum(c) = t[Len(b) + 1] % 256
  BY <1>1, <1>2, <1>3, SumOfHalves
<1>8. \A y, z \in Nat : (y + z) % 256 = ((y % 256) + z) % 256
  OBVIOUS
<1>9. WrappingSum(c) = (WrappingSum(b) + x) % 256
  BY <1>4, <1>5, <1>6, <1>7, <1>8
<1> QED BY <1>9 DEF c

\* Tuples as sequences.
LEMMA OneTuple ==
    ASSUME NEW x \in u8
    PROVE  <<x>> \in Seq(u8) /\ Len(<<x>>) = 1 /\ <<x>>[1] = x
OBVIOUS

LEMMA TwoTuple ==
    ASSUME NEW x \in u8, NEW y \in u8
    PROVE  /\ <<x, y>> \in Seq(u8) /\ Len(<<x, y>>) = 2
           /\ <<x, y>>[1] = x /\ <<x, y>>[2] = y
OBVIOUS

LEMMA ThreeTuple ==
    ASSUME NEW x \in u8, NEW y \in u8, NEW z \in u8
    PROVE  /\ <<x, y, z>> \in Seq(u8) /\ Len(<<x, y, z>>) = 3
           /\ <<x, y, z>>[1] = x /\ <<x, y, z>>[2] = y /\ <<x, y, z>>[3] = z
OBVIOUS

LEMMA SumOfTwo ==
    ASSUME NEW x \in u8, NEW y \in u8
    PROVE  WrappingSum(<<x, y>>) = (x + y) % 256
<1>1. << >> \in Seq(u8) /\ <<x>> \in Seq(u8) /\ << >> \o <<x>> = <<x>>
  BY ConcatEmptySeq
<1>2. <<x>> \o <<y>> = <<x, y>>
  <2> DEFINE s == <<x>> \o <<y>>
             t == <<x, y>>
  <2>1. s \in Seq(u8) /\ Len(s) = 2 /\ s[1] = x /\ s[2] = y
    OBVIOUS
  <2>2. t \in Seq(u8) /\ Len(t) = 2 /\ t[1] = x /\ t[2] = y
    BY TwoTuple
  <2> HIDE DEF s, t
  <2>3. s = t
    BY <2>1, <2>2, SeqEqual
  <2> QED BY <2>3 DEF s, t
<1>3. WrappingSum(<< >>) = 0
  BY DEF WrappingSum
<1>4. WrappingSum(<<x>>) = (0 + x) % 256
  <2>1. WrappingSum(<< >> \o <<x>>) = (WrappingSum(<< >>) + x) % 256
    BY <1>1, WrappingSumAppend, ZenonT(60)
  <2> QED BY <1>1, <1>3, <2>1
<1>5. WrappingSum(<<x>> \o <<y>>) = (WrappingSum(<<x>>) + y) % 256
  BY <1>1, WrappingSumAppend, ZenonT(60)
<1>6. WrappingSum(<<x, y>>) = (((0 + x) % 256) + y) % 256
  BY <1>2, <1>4, <1>5, ZenonT(60)
<1> QED BY <1>6 DEF u8

LEMMA SumOfThree ==
    ASSUME NEW x \in u8, NEW y \in u8, NEW z \in u8
    PROVE  WrappingSum(<<x, y, z>>) = (x + y + z) % 256
<1>1. <<x, y>> \o <<z>> = <<x, y, z>>
  <2> DEFINE s == <<x, y>> \o <<z>>
             t == <<x, y, z>>
  <2>1. s \in Seq(u8) /\ Len(s) = 3 /\ s[1] = x /\ s[2] = y /\ s[3] = z
    OBVIOUS
  <2>2. t \in Seq(u8) /\ Len(t) = 3 /\ t[1] = x /\ t[2] = y /\ t[3] = z
    BY ThreeTuple
  <2> HIDE DEF s, t
  <2>3. s = t
    BY <2>1, <2>2, SeqEqual
  <2> QED BY <2>3 DEF s, t
<1>2. WrappingSum(<<x, y>> \o <<z>>) = (WrappingSum(<<x, y>>) + z) % 256
  BY TwoTuple, WrappingSumAppend, ZenonT(60)
<1>3. WrappingSum(<<x, y>>) = (x + y) % 256
  BY SumOfTwo
<1>4. WrappingSum(<<x, y, z>>) = (WrappingSum(<<x, y>>) + z) % 256
  BY <1>1, <1>2, Zenon
<1>5. WrappingSum(<<x, y, z>>) = (((x + y) % 256) + z) % 256
  BY <1>3, <1>4, ZenonT(60)
<1> QED BY <1>5 DEF u8

-----------------------------------------------------------------------------
(* Frames *)

\* The elements of a concatenation, by index.
LEMMA Joined ==
    ASSUME NEW s \in Seq(u8), NEW t \in Seq(u8)
    PROVE  /\ s \o t \in Seq(u8)
           /\ Len(s) \in Nat /\ Len(t) \in Nat
           /\ Len(s \o t) = Len(s) + Len(t)
           /\ \A i \in 1..Len(s) : (s \o t)[i] = s[i]
           /\ \A i \in 1..Len(t) : (s \o t)[Len(s) + i] = t[i]
OBVIOUS

LEMMA FrameParts ==
    ASSUME NEW code, NEW payload
    PROVE  EncodeFrame(code, payload)
             = FrameHeader(Len(FrameBody(code, payload)))
                 \o FrameBody(code, payload) \o FrameTail(FrameBody(code, payload))
BY Zenon DEF EncodeFrame

LEMMA BodyShape ==
    ASSUME NEW code \in u8, NEW p \in Seq(u8)
    PROVE  LET body == FrameBody(code, p)
           IN  /\ body \in Seq(u8) /\ Len(p) \in Nat /\ Len(body) = 2 + Len(p)
               /\ body[1] = PN532_TO_HOST /\ body[2] = code
               /\ \A i \in 1..Len(p) : body[2 + i] = p[i]
<1>1. PN532_TO_HOST \in u8
  BY DEF PN532_TO_HOST, u8
<1> DEFINE h == <<PN532_TO_HOST, code>>
<1>2. h \in Seq(u8) /\ Len(h) = 2 /\ h[1] = PN532_TO_HOST /\ h[2] = code
  BY <1>1, TwoTuple
<1>3. FrameBody(code, p) = h \o p
  BY DEF FrameBody
<1> HIDE DEF h
<1>4. /\ h \o p \in Seq(u8) /\ Len(p) \in Nat /\ Len(h \o p) = Len(h) + Len(p)
      /\ \A i \in 1..Len(h) : (h \o p)[i] = h[i]
      /\ \A i \in 1..Len(p) : (h \o p)[Len(h) + i] = p[i]
  BY <1>2, Joined
<1>5. 1 \in 1..Len(h) /\ 2 \in 1..Len(h)
  BY <1>2
<1> QED BY <1>2, <1>3, <1>4, <1>5

LEMMA TailShape ==
    ASSUME NEW body \in Seq(u8)
    PROVE  LET t == FrameTail(body)
           IN  /\ t \in Seq(u8) /\ Len(t) = 2
               /\ t[1] = (256 - WrappingSum(body)) % 256 /\ t[2] = POSTAMBLE
<1>1. WrappingSum(body) \in u8
  BY WrappingSumType
<1>2. \A w \in u8 : (256 - w) % 256 \in u8
  BY DEF u8
<1>3. POSTAMBLE \in u8
  BY DEF u8, POSTAMBLE
<1> QED BY <1>1, <1>2, <1>3, TwoTuple DEF FrameTail

LEMMA PreambleShape ==
    /\ PREAMBLE \in Seq(u8) /\ Len(PREAMBLE) = 3
    /\ PREAMBLE[1] = 0 /\ PREAMBLE[2] = 0 /\ PREAMBLE[3] = 255
<1>1. 0 \in u8 /\ 255 \in u8
  BY DEF u8
<1> QED BY <1>1, ThreeTuple DEF PREAMBLE

LEMMA ShortHeader ==
    ASSUME NEW n \in Nat, n >= 2, n < 256
    PROVE  LET h == FrameHeader(n)
           IN  /\ h \in Seq(u8) /\ Len(h) = 5
               /\ h[1] = 0 /\ h[2] = 0 /\ h[3] = 255
               /\ h[4] = n /\ h[5] = 256 - n
<1>1. (256 - n) % 256 = 256 - n /\ n \in u8 /\ 256 - n \in u8
  BY DEF u8
<1> DEFINE b == <<n, (256 - n) % 256>>
<1>2. b \in Seq(u8) /\ Len(b) = 2 /\ b[1] = n /\ b[2] = 256 - n
  BY <1>1, TwoTuple
<1>3. FrameHeader(n) = PREAMBLE \o b
  BY DEF FrameHeader
<1> HIDE DEF b
<1>4. /\ PREAMBLE \o b \in Seq(u8) /\ Len(PREAMBLE \o b) = 3 + 2
      /\ \A i \in 1..3 : (PREAMBLE \o b)[i] = PREAMBLE[i]
      /\ \A i \in 1..2 : (PREAMBLE \o b)[3 + i] = b[i]
  <2>1. /\ PREAMBLE \o b \in Seq(u8) /\ Len(PREAMBLE \o b) = Len(PREAMBLE) + Len(b)
        /\ \A i \in 1..Len(PREAMBLE) : (PREAMBLE \o b)[i] = PREAMBLE[i]
        /\ \A i \in 1..Len(b) : (PREAMBLE \o b)[Len(PREAMBLE) + i] = b[i]
    <3>1. PREAMBLE \in Seq(u8) /\ b \in Seq(u8)
      BY <1>2, PreambleShape
    <3> QED BY <3>1, Joined, Zenon
  <2> QED BY <1>2, <2>1, PreambleShape
<1>5. /\ (PREAMBLE \o b)[1] = PREAMBLE[1] /\ (PREAMBLE \o b)[2] = PREAMBLE[2]
      /\ (PREAMBLE \o b)[3] = PREAMBLE[3]
      /\ (PREAMBLE \o b)[3 + 1] = b[1] /\ (PREAMBLE \o b)[3 + 2] = b[2]
  BY <1>4
<1> QED BY <1>2, <1>3, <1>4, <1>5, PreambleShape

LEMMA MarkerShape ==
    /\ EXTENDED_FRAME_MARKER \in Seq(u8) /\ Len(EXTENDED_FRAME_MARKER) = 2
    /\ EXTENDED_FRAME_MARKER[1] = 255 /\ EXTENDED_FRAME_MARKER[2] = 255
<1>1. 255 \in u8
  BY DEF u8
<1> QED BY <1>1, TwoTuple DEF EXTENDED_FRAME_MARKER

\* The extended header with the length bytes x and y and their check byte z, as
\* it is made and byte by byte.
IsExtendedHeader(h, x, y, z) == h = PREAMBLE \o (EXTENDED_FRAME_MARKER \o <<x, y, z>>)

ExtendedHeaderBytes(h, x, y, z) ==
    /\ Len(h) >= 8
    /\ h[1] = 0 /\ h[2] = 0 /\ h[3] = 255 /\ h[4] = 255 /\ h[5] = 255
    /\ h[6] = x /\ h[7] = y /\ h[8] = z

LEMMA ExtendedHeader ==
    ASSUME NEW x \in u8, NEW y \in u8, NEW z \in u8, NEW h, IsExtendedHeader(h, x, y, z)
    PROVE  /\ h \in Seq(u8) /\ Len(h) = 8
           /\ ExtendedHeaderBytes(h, x, y, z)
<1> DEFINE b == EXTENDED_FRAME_MARKER
           c == <<x, y, z>>
           d == b \o c
<1>1. c \in Seq(u8) /\ Len(c) = 3 /\ c[1] = x /\ c[2] = y /\ c[3] = z
  BY ThreeTuple
<1>5. h = PREAMBLE \o d
  BY DEF IsExtendedHeader
<1> HIDE DEF c
<1>2. /\ d \in Seq(u8) /\ Len(d) = Len(b) + Len(c)
      /\ \A i \in 1..Len(b) : d[i] = b[i]
      /\ \A i \in 1..Len(c) : d[Len(b) + i] = c[i]
  <2>1. b \in Seq(u8) /\ c \in Seq(u8)
    BY <1>1, MarkerShape
  <2> QED BY <2>1, Joined, Zenon
<1> HIDE DEF d
<1>3. d \in Seq(u8) /\ Len(d) = 5 /\ d[1] = 255 /\ d[2] = 255
      /\ d[3] = x /\ d[4] = y /\ d[5] = z
  <2>1. /\ Len(d) = 5
        /\ \A i \in 1..2 : d[i] = b[i]
        /\ \A i \in 1..3 : d[2 + i] = c[i]
    BY <1>1, <1>2, MarkerShape
  <2>2. d[1] = b[1] /\ d[2] = b[2] /\ d[2 + 1] = c[1] /\ d[2 + 2] = c[2] /\ d[2 + 3] = c[3]
    BY <2>1
  <2> QED BY <1>1, <1>2, <2>1, <2>2, MarkerShape
<1>4. /\ h \in Seq(u8) /\ Len(h) = Len(PREAMBLE) + Len(d)
      /\ \A i \in 1..Len(PREAMBLE) : h[i] = PREAMBLE[i]
      /\ \A i \in 1..Len(d) : h[Len(PREAMBLE) + i] = d[i]
  <2>1. PREAMBLE \in Seq(u8) /\ d \in Seq(u8)
    BY <1>3, PreambleShape
  <2> QED BY ONLY <1>5, <2>1, Joined, Zenon
<1>6. /\ Len(h) = 8
      /\ \A i \in 1..3 : h[i] = PREAMBLE[i]
      /\ \A i \in 1..5 : h[3 + i] = d[i]
  BY <1>3, <1>4, PreambleShape
<1>7. h[1] = PREAMBLE[1] /\ h[2] = PREAMBLE[2] /\ h[3] = PREAMBLE[3]
  BY <1>6
<1>8. /\ h[3 + 1] = d[1] /\ h[3 + 2] = d[2] /\ h[3 + 3] = d[3]
      /\ h[3 + 4] = d[4] /\ h[3 + 5] = d[5]
  BY <1>6
<1>9. /\ h[4] = 255 /\ h[5] = 255 /\ h[6] = x /\ h[7] = y /\ h[8] = z
  BY <1>3, <1>8
<1>10. h \in Seq(u8) /\ Len(h) = 8
  BY ONLY <1>4, <1>6, Zenon
<1>11. h[1] = 0 /\ h[2] = 0 /\ h[3] = 255
  BY ONLY <1>7, PreambleShape, SMT
<1> QED BY ONLY <1>9, <1>10, <1>11, SMT DEF ExtendedHeaderBytes

\* The check byte of an extended header's two length bytes.
LengthCheck(x, y) == (512 - x - y) % 256

LEMMA LengthCheckCancels ==
    ASSUME NEW x \in u8, NEW y \in u8
    PROVE  LengthCheck(x, y) \in u8 /\ (x + y + LengthCheck(x, y)) % 256 = 0
<1> DEFINE w == 512 - x - y
<1>1. \A v \in Int : /\ v % 256 \in 0..255 /\ v \div 256 \in Int
                    /\ v = 256 * (v \div 256) + (v % 256)
  OBVIOUS
<1>2. x \in 0..255 /\ y \in 0..255
  BY ONLY x \in u8, y \in u8, SMT DEF u8
<1>3. w \in Int /\ LengthCheck(x, y) = w % 256
  BY ONLY <1>2, SMT DEF LengthCheck
<1>4. PICK z : z = LengthCheck(x, y)
  OBVIOUS
<1>5. PICK q : q = w \div 256
  OBVIOUS
<1>6. z \in 0..255 /\ q \in Int /\ w = 256 * q + z
  <2> HIDE DEF w
  <2> QED BY ONLY <1>1, <1>3, <1>4, <1>5, SMT
<1>7. x + y + z = 256 * (2 - q)
  BY ONLY <1>2, <1>6, SMT
<1>8. \A p \in Int : (256 * p) % 256 = 0
  OBVIOUS
<1>9. (x + y + z) % 256 = 0
  <2>1. 2 - q \in Int
    BY ONLY <1>6, SMT
  <2> QED BY ONLY <1>7, <1>8, <2>1, SMT
<1> QED BY ONLY <1>4, <1>6, <1>9, SMT DEF u8

\* The length bytes of an extended header are bytes, they make up the length,
\* and they and their check byte cancel.
LengthBytes(n, x, y, z) ==
    x = n \div 256 /\ y = n % 256 /\ z = LengthCheck(x, y)

LEMMA LengthBytesType ==
    ASSUME NEW n \in Nat, n < FrameLimit, NEW x, NEW y, NEW z, LengthBytes(n, x, y, z)
    PROVE  x \in u8 /\ y \in u8 /\ z \in u8
<1>1. x = n \div 256 /\ y = n % 256
  BY ONLY LengthBytes(n, x, y, z), SMT DEF LengthBytes
<1>2. z = LengthCheck(x, y)
  BY ONLY LengthBytes(n, x, y, z), Zenon DEF LengthBytes
<1>3. x \in u8 /\ y \in u8
  BY ONLY n \in Nat, n < FrameLimit, <1>1, SMTT(30) DEF u8, FrameLimit
<1> QED BY ONLY <1>2, <1>3, LengthCheckCancels, Zenon

LengthBytesAgree(n, x, y, z) == n = 256 * x + y /\ WrappingSum(<<x, y, z>>) = 0

LEMMA LengthBytesReadBack ==
    ASSUME NEW n \in Nat, n < FrameLimit, NEW x, NEW y, NEW z, LengthBytes(n, x, y, z)
    PROVE  LengthBytesAgree(n, x, y, z)
<1>1. x = n \div 256 /\ y = n % 256
  BY ONLY LengthBytes(n, x, y, z), SMT DEF LengthBytes
<1>2. z = LengthCheck(x, y)
  BY ONLY LengthBytes(n, x, y, z), Zenon DEF LengthBytes
<1>3. n = 256 * x + y
  BY ONLY n \in Nat, <1>1, SMTT(30)
<1>4. x \in u8 /\ y \in u8 /\ z \in u8
  BY ONLY n \in Nat, n < FrameLimit, LengthBytes(n, x, y, z), LengthBytesType, Zenon
<1>5. (x + y + z) % 256 = 0
  BY ONLY <1>2, <1>4, LengthCheckCancels, ZenonT(60)
<1>6. WrappingSum(<<x, y, z>>) = 0
  BY ONLY <1>4, <1>5, SumOfThree, SMT
<1> QED BY ONLY <1>3, <1>6, SMT DEF LengthBytesAgree

LEMMA LongHeader ==
    ASSUME NEW n \in Nat, n >= 256, n < FrameLimit
    PROVE  \E x \in u8, y \in u8, z \in u8 :
              /\ LengthBytes(n, x, y, z)
              /\ IsExtendedHeader(FrameHeader(n), x, y, z)
<1> DEFINE x == n \div 256
           y == n % 256
           z == (512 - n \div 256 - (n % 256)) % 256
           s == PREAMBLE \o (EXTENDED_FRAME_MARKER \o <<x, y, z>>)
           t == PREAMBLE \o <<n, (256 - n) % 256>>
<1>1. LengthBytes(n, x, y, z)
  BY ONLY SMT DEF LengthBytes, LengthCheck
<1>2. FrameHeader(n) = s
  <2>1. FrameHeader(n) = IF n < 256 THEN t ELSE s
    BY ONLY SMTT(60) DEF FrameHeader
  <2>2. ~(n < 256)
    BY ONLY n \in Nat, n >= 256, SMT
  <2> HIDE DEF s, t
  <2> QED BY ONLY <2>1, <2>2, SMT
<1>4. IsExtendedHeader(FrameHeader(n), x, y, z)
  BY ONLY <1>2 DEF IsExtendedHeader
<1> HIDE DEF x, y, z
<1>3. x \in u8 /\ y \in u8 /\ z \in u8
  BY ONLY n \in Nat, n < FrameLimit, <1>1, LengthBytesType, Zenon
<1> QED BY ONLY <1>1, <1>3, <1>4, Zenon

LEMMA Slice ==
    ASSUME NEW in \in Seq(u8), NEW a \in Nat, NEW z \in Nat, a >= 1, z <= Len(in)
    PROVE  /\ SubSeq(in, a, z) \in Seq(u8)
           /\ Len(SubSeq(in, a, z)) = IF a <= z THEN z - a + 1 ELSE 0
           /\ \A i \in 1..(z - a + 1) : SubSeq(in, a, z)[i] = in[a + i - 1]
<1>1. Len(in) \in Nat /\ \A i \in 1..Len(in) : in[i] \in u8
  OBVIOUS
<1>2. \A i \in a..z : in[i] \in u8
  BY <1>1
<1>3. a \in Int /\ z \in Int
  OBVIOUS
<1> QED BY <1>2, <1>3, SubSeqProperties

\* A sequence found at position a of another is that part of it.
LEMMA SliceIs ==
    ASSUME NEW in \in Seq(u8), NEW s \in Seq(u8), NEW a \in Nat, a >= 1,
           NEW z \in Nat, z = a + Len(s) - 1, z <= Len(in),
           \A i \in 1..Len(s) : in[a + i - 1] = s[i]
    PROVE  SubSeq(in, a, z) = s
<1>1. Len(s) \in Nat /\ Len(s) = z - a + 1
  OBVIOUS
<1> DEFINE t == SubSeq(in, a, z)
<1>2. /\ t \in Seq(u8)
      /\ Len(t) = IF a <= z THEN z - a + 1 ELSE 0
      /\ \A i \in 1..(z - a + 1) : t[i] = in[a + i - 1]
  BY Slice
<1> HIDE DEF t
<1>3. Len(t) = Len(s)
  BY <1>1, <1>2
<1>4. \A i \in 1..Len(t) : t[i] = s[i]
  BY <1>1, <1>2, <1>3
<1>5. t = s
  BY <1>2, <1>3, <1>4, SeqEqual
<1> QED BY <1>5 DEF t

\* A slice of a slice.
LEMMA SliceOfSlice ==
    ASSUME NEW in \in Seq(u8), NEW k \in Nat, NEW z \in Nat, k + z <= Len(in),
           NEW a \in Nat, a >= 1, NEW b \in Nat, b <= z, a <= b + 1
    PROVE  SubSeq(SubSeq(in, k + 1, k + z), a, b) = SubSeq(in, k + a, k + b)
<1> DEFINE f == SubSeq(in, k + 1, k + z)
           s == SubSeq(in, k + a, k + b)
<1>0. Len(in) \in Nat
  OBVIOUS
<1>1. /\ f \in Seq(u8) /\ Len(f) = z
      /\ \A i \in 1..z : f[i] = in[k + i]
  <2>1. k + 1 \in Nat /\ k + z \in Nat /\ k + 1 >= 1
    OBVIOUS
  <2>2. /\ f \in Seq(u8)
        /\ Len(f) = IF k + 1 <= k + z THEN k + z - (k + 1) + 1 ELSE 0
        /\ \A i \in 1..(k + z - (k + 1) + 1) : f[i] = in[k + 1 + i - 1]
    BY <2>1, Slice
  <2> HIDE DEF f
  <2>3. Len(f) = z
    BY <2>2
  <2>4. ASSUME NEW i \in 1..z PROVE f[i] = in[k + i]
    <3>1. i \in 1..(k + z - (k + 1) + 1) /\ k + 1 + i - 1 = k + i
      OBVIOUS
    <3> QED BY <2>2, <3>1
  <2> QED BY <2>2, <2>3, <2>4
<1>2. /\ s \in Seq(u8) /\ Len(s) = b - a + 1
      /\ \A i \in 1..(b - a + 1) : s[i] = in[k + a + i - 1]
  <2>1. k + a \in Nat /\ k + b \in Nat /\ k + a >= 1 /\ k + b <= Len(in)
    BY <1>0
  <2>2. /\ s \in Seq(u8)
        /\ Len(s) = IF k + a <= k + b THEN k + b - (k + a) + 1 ELSE 0
        /\ \A i \in 1..(k + b - (k + a) + 1) : s[i] = in[k + a + i - 1]
    BY <2>1, Slice
  <2> HIDE DEF s
  <2>3. Len(s) = b - a + 1
    BY <2>2
  <2>4. k + b - (k + a) + 1 = b - a + 1
    OBVIOUS
  <2> QED BY <2>2, <2>3, <2>4
<1> HIDE DEF f, s
<1>3. b = a + Len(s) - 1 /\ b <= Len(f)
  BY <1>1, <1>2
<1>4. ASSUME NEW i \in 1..Len(s) PROVE f[a + i - 1] = s[i]
  <2>1. a + i - 1 \in 1..z /\ i \in 1..(b - a + 1) /\ k + (a + i - 1) = k + a + i - 1
    BY <1>2
  <2>2. f[a + i - 1] = in[k + (a + i - 1)]
    BY <1>1, <2>1
  <2>3. s[i] = in[k + a + i - 1]
    BY <1>2, <2>1
  <2> QED BY <2>1, <2>2, <2>3
<1>5. SubSeq(f, a, b) = s
  BY <1>1, <1>2, <1>3, <1>4, SliceIs
<1> QED BY <1>5 DEF f, s

\* The part of an input that receive_dynamic_response_from reads as a frame of
\* n bytes after a header of k bytes, with its checksum and postamble.
LEMMA FrameSlices ==
    ASSUME NEW in \in Seq(u8), NEW k \in Nat, NEW n \in Nat, n >= 2,
           Len(in) >= k + n + 2
    PROVE  LET frame == SubSeq(in, k + 1, k + (n + 2))
           IN  /\ frame[1] = in[k + 1] /\ frame[2] = in[k + 2]
               /\ Last(frame) = in[k + n + 2]
               /\ Front(frame) = SubSeq(in, k + 1, k + n + 1)
               /\ SubSeq(frame, 3, n) = SubSeq(in, k + 3, k + n)
<1> DEFINE frame == SubSeq(in, k + 1, k + (n + 2))
<1>0. Len(in) \in Nat
  OBVIOUS
<1>1. /\ frame \in Seq(u8) /\ Len(frame) = n + 2
      /\ frame[1] = in[k + 1] /\ frame[2] = in[k + 2] /\ frame[n + 2] = in[k + n + 2]
  <2>1. k + 1 \in Nat /\ k + (n + 2) \in Nat /\ k + 1 >= 1 /\ k + (n + 2) <= Len(in)
    BY <1>0
  <2>2. /\ frame \in Seq(u8)
        /\ Len(frame) = IF k + 1 <= k + (n + 2) THEN k + (n + 2) - (k + 1) + 1 ELSE 0
        /\ \A i \in 1..(k + (n + 2) - (k + 1) + 1) : frame[i] = in[k + 1 + i - 1]
    BY <2>1, Slice
  <2> HIDE DEF frame
  <2>3. Len(frame) = n + 2
    <3>1. k + 1 <= k + (n + 2) /\ k + (n + 2) - (k + 1) + 1 = n + 2
      OBVIOUS
    <3> QED BY <2>2, <3>1
  <2>4. ASSUME NEW i \in 1..(n + 2) PROVE frame[i] = in[k + i]
    <3>1. i \in 1..(k + (n + 2) - (k + 1) + 1) /\ k + 1 + i - 1 = k + i
      BY <1>0
    <3> QED BY <2>2, <3>1
  <2>5. 1 \in 1..(n + 2) /\ 2 \in 1..(n + 2) /\ n + 2 \in 1..(n + 2)
    OBVIOUS
  <2>6. k + (n + 2) = k + n + 2
    BY <1>0
  <2> QED BY <2>2, <2>3, <2>4, <2>5, <2>6
<1>2. SubSeq(frame, 1, n + 1) = SubSeq(in, k + 1, k + n + 1)
  <2>1. n + 2 \in Nat /\ k + (n + 2) <= Len(in) /\ 1 \in Nat /\ 1 >= 1 /\ n + 1 \in Nat
        /\ n + 1 <= n + 2 /\ 1 <= n + 1 + 1
    BY <1>0
  <2>2. SubSeq(frame, 1, n + 1) = SubSeq(in, k + 1, k + (n + 1))
    BY <1>0, <2>1, SliceOfSlice
  <2>3. k + (n + 1) = k + n + 1
    BY <1>0
  <2> QED BY <2>2, <2>3
<1>3. SubSeq(frame, 3, n) = SubSeq(in, k + 3, k + n)
  <2>1. n + 2 \in Nat /\ k + (n + 2) <= Len(in) /\ 3 \in Nat /\ 3 >= 1 /\ n <= n + 2
        /\ 3 <= n + 1
    BY <1>0
  <2> QED BY <1>0, <2>1, SliceOfSlice
<1> HIDE DEF frame
<1>4. Last(frame) = in[k + n + 2]
  BY <1>1 DEF Last
<1>5. Front(frame) = SubSeq(in, k + 1, k + n + 1)
  <2>1. Len(frame) - 1 = n + 1
    BY <1>1
  <2> QED BY <1>2, <2>1 DEF Front
<1> QED BY <1>1, <1>3, <1>4, <1>5 DEF frame

\* What the first k bytes of an input have to be for it to be read as a frame
\* of n bytes.
HeaderOk(in, k, n) ==
    /\ SubSeq(in, 1, 3) = PREAMBLE
    /\ IsExtended(in) <=> k = 8
    /\ n = IF k = 8 THEN 256 * in[6] + in[7] ELSE in[4]
    /\ WrappingSum(SubSeq(in, IF k = 8 THEN 6 ELSE 4, k)) = 0

\* receive_dynamic_response_from reads such an input.
LEMMA ParsesFrame ==
    ASSUME NEW in \in Seq(u8), NEW code \in u8, NEW k \in {5, 8},
           NEW n \in Nat, n >= 2, Len(in) >= k + n + 2, HeaderOk(in, k, n),
           in[k + 1] = PN532_TO_HOST, in[k + 2] = code,
           in[k + n + 2] = POSTAMBLE,
           WrappingSum(SubSeq(in, k + 1, k + n + 1)) = 0
    PROVE  ReceiveDynamicResponse(in, code)
             = Parsed("Ok", SubSeq(in, k + 3, k + n), k + n + 2)
<1> DEFINE extended  == IsExtended(in)
           header    == IF extended THEN 8 ELSE 5
           frame_len == IF extended THEN 256 * in[6] + in[7] ELSE in[4]
           total     == header + BodyLen(frame_len)
           frame     == SubSeq(in, header + 1, total)
           start     == IF extended THEN 6 ELSE 4
<1>0. Len(in) \in Nat /\ k \in Nat /\ k + (n + 2) = k + n + 2
      /\ ~(Len(in) < 5) /\ ~(Len(in) < k) /\ ~(Len(in) < k + (n + 2))
      /\ n # 0 /\ n # 1
  OBVIOUS
<1>1. header = k
  BY DEF HeaderOk
<1>2. frame_len = n
  BY DEF HeaderOk
<1>3. total = k + (n + 2)
  BY <1>1, <1>2, ZenonT(60) DEF BodyLen
<1>4. WrappingSum(SubSeq(in, start, header)) = 0
  BY <1>1, Zenon DEF HeaderOk
<1>5. frame = SubSeq(in, k + 1, k + (n + 2))
  BY <1>1, <1>3, ZenonT(60)
<1>6. /\ frame[1] = PN532_TO_HOST /\ frame[2] = code /\ Last(frame) = POSTAMBLE
      /\ ChecksumOk(Front(frame))
      /\ SubSeq(frame, 3, n) = SubSeq(in, k + 3, k + n)
  <2> DEFINE g == SubSeq(in, k + 1, k + (n + 2))
  <2>1. /\ g[1] = in[k + 1] /\ g[2] = in[k + 2] /\ Last(g) = in[k + n + 2]
        /\ Front(g) = SubSeq(in, k + 1, k + n + 1)
        /\ SubSeq(g, 3, n) = SubSeq(in, k + 3, k + n)
    BY <1>0, FrameSlices, ZenonT(60)
  <2>2. frame = g
    BY <1>5
  <2> HIDE DEF g, frame
  <2>3. WrappingSum(Front(g)) = 0
    BY <2>1, Zenon
  <2> QED BY <2>1, <2>2, <2>3, Zenon DEF ChecksumOk
<1>7. SubSeq(in, 1, 3) = PREAMBLE
  BY DEF HeaderOk
<1>8. ReceiveDynamicResponse(in, code)
      = IF Len(in) < 5 THEN Parsed("Short", << >>, 0)
        ELSE IF SubSeq(in, 1, 3) # PREAMBLE THEN Parsed("BadResponseFrame", << >>, 5)
        ELSE IF Len(in) < header THEN Parsed("Short", << >>, 0)
        ELSE IF WrappingSum(SubSeq(in, start, header)) # 0
             THEN Parsed("CrcError", << >>, header)
        ELSE IF frame_len = 0 THEN Parsed("BadResponseFrame", << >>, header)
        ELSE IF frame_len = 1 THEN Parsed("Syntax", << >>, header)
        ELSE IF Len(in) < total THEN Parsed("Short", << >>, 0)
        ELSE IF Last(frame) # POSTAMBLE \/ frame[1] # PN532_TO_HOST \/ frame[2] # code
             THEN Parsed("BadResponseFrame", << >>, total)
        ELSE IF ~ChecksumOk(Front(frame)) THEN Parsed("CrcError", << >>, total)
        ELSE Parsed("Ok", SubSeq(frame, 3, frame_len), total)
  BY DEF ReceiveDynamicResponse
<1> HIDE DEF extended, header, frame_len, total, frame, start
<1> QED BY <1>0, <1>1, <1>2, <1>3, <1>4, <1>6, <1>7, <1>8

\* The bytes of a frame f made of a header, a body and a tail, and of in, which
\* has more bytes after it.
LaidOut(in, f, h, b, t, r) ==
    /\ Len(h) \in Nat /\ Len(b) \in Nat /\ Len(r) \in Nat
    /\ f \in Seq(u8) /\ Len(f) = Len(h) + Len(b) + 2
    /\ in \in Seq(u8) /\ Len(in) = Len(h) + Len(b) + 2 + Len(r)
    /\ \A i \in 1..Len(h) : in[i] = h[i]
    /\ \A i \in 1..Len(b) : in[Len(h) + i] = b[i]
    /\ in[Len(h) + Len(b) + 1] = t[1]
    /\ in[Len(h) + Len(b) + 2] = t[2]

LEMMA FrameBytes ==
    ASSUME NEW h \in Seq(u8), NEW b \in Seq(u8), NEW t \in Seq(u8), NEW r \in Seq(u8),
           Len(t) = 2
    PROVE  LaidOut(h \o b \o t \o r, h \o b \o t, h, b, t, r)
<1> DEFINE g  == h \o b
           f  == g \o t
           in == f \o r
<1>1. /\ g \in Seq(u8) /\ Len(h) \in Nat /\ Len(b) \in Nat /\ Len(g) = Len(h) + Len(b)
      /\ \A i \in 1..Len(h) : g[i] = h[i]
      /\ \A i \in 1..Len(b) : g[Len(h) + i] = b[i]
  BY Joined
<1> HIDE DEF g
<1>2. /\ f \in Seq(u8) /\ Len(f) = Len(g) + Len(t)
      /\ \A i \in 1..Len(g) : f[i] = g[i]
      /\ \A i \in 1..Len(t) : f[Len(g) + i] = t[i]
  BY <1>1, Joined, ZenonT(60)
<1> HIDE DEF f
<1>3. /\ in \in Seq(u8) /\ Len(r) \in Nat /\ Len(in) = Len(f) + Len(r)
      /\ \A i \in 1..Len(f) : in[i] = f[i]
  BY <1>2, Joined, ZenonT(60)
<1> HIDE DEF in
<1>4. Len(f) = Len(h) + Len(b) + 2 /\ Len(in) = Len(h) + Len(b) + 2 + Len(r)
  BY <1>1, <1>2, <1>3
<1>5. ASSUME NEW i \in 1..Len(h) PROVE in[i] = h[i]
  <2>1. i \in 1..Len(g) /\ i \in 1..Len(f)
    BY <1>1, <1>4
  <2> QED BY <1>1, <1>2, <1>3, <2>1
<1>6. ASSUME NEW i \in 1..Len(b) PROVE in[Len(h) + i] = b[i]
  <2>1. Len(h) + i \in 1..Len(g) /\ Len(h) + i \in 1..Len(f)
    BY <1>1, <1>4
  <2> QED BY <1>1, <1>2, <1>3, <2>1
<1>7. in[Len(h) + Len(b) + 1] = t[1] /\ in[Len(h) + Len(b) + 2] = t[2]
  <2>1. /\ Len(g) + 1 \in 1..Len(f) /\ Len(g) + 2 \in 1..Len(f)
        /\ 1 \in 1..Len(t) /\ 2 \in 1..Len(t)
    BY <1>1, <1>4
  <2>2. in[Len(g) + 1] = t[1] /\ in[Len(g) + 2] = t[2]
    BY <1>2, <1>3, <2>1
  <2> QED BY <1>1, <2>2
<1>8. f = h \o b \o t /\ in = f \o r
  BY DEF g, f, in
<1>9. LaidOut(in, f, h, b, t, r)
  BY <1>1, <1>2, <1>3, <1>4, <1>5, <1>6, <1>7 DEF LaidOut
<1> QED BY <1>8, <1>9

\* A body followed by the checksum FrameTail puts after it sums to zero.
LEMMA ChecksumCancels ==
    ASSUME NEW b \in Seq(u8)
    PROVE  WrappingSum(b \o <<(256 - WrappingSum(b)) % 256>>) = 0
<1> DEFINE w == WrappingSum(b)
           c == (256 - w) % 256
<1>1. w \in u8
  BY WrappingSumType
<1> HIDE DEF w
<1>2. c \in u8 /\ (w + c) % 256 = 0
  BY <1>1 DEF u8
<1> HIDE DEF c
<1>3. WrappingSum(b \o <<c>>) = (WrappingSum(b) + c) % 256
  BY <1>2, WrappingSumAppend
<1>4. WrappingSum(b) = w
  BY DEF w
<1>5. WrappingSum(b \o <<c>>) = 0
  BY <1>2, <1>3, <1>4
<1> QED BY <1>5 DEF c, w


LEMMA ShortHeaderOk ==
    ASSUME NEW in \in Seq(u8), NEW n \in Nat, n >= 2, n < 256, Len(in) >= 5,
           in[1] = 0, in[2] = 0, in[3] = 255, in[4] = n, in[5] = 256 - n
    PROVE  HeaderOk(in, 5, n)
<1>0. Len(in) \in Nat /\ n \in u8 /\ 256 - n \in u8
  BY DEF u8
<1>1. SubSeq(in, 1, 3) = PREAMBLE
  <2>1. \A i \in 1..Len(PREAMBLE) : in[1 + i - 1] = PREAMBLE[i]
    BY PreambleShape
  <2>2. 3 = 1 + Len(PREAMBLE) - 1 /\ 3 <= Len(in) /\ 1 >= 1 /\ 1 \in Nat /\ 3 \in Nat
    BY <1>0, PreambleShape
  <2> QED BY <2>1, <2>2, PreambleShape, SliceIs
<1> DEFINE m == 256 - n
           s == <<n, m>>
<1>2. s \in Seq(u8) /\ Len(s) = 2 /\ s[1] = n /\ s[2] = m
  BY <1>0, TwoTuple
<1>3. WrappingSum(s) = 0
  <2>1. WrappingSum(s) = (n + m) % 256
    BY <1>0, SumOfTwo
  <2>2. (n + m) % 256 = 0
    OBVIOUS
  <2> QED BY <2>1, <2>2
<1>4. in[5] = m /\ m \in Int /\ n + m = 256
  OBVIOUS
<1> HIDE DEF m, s
<1>5. SubSeq(in, 4, 5) = s
  <2>1. \A i \in 1..Len(s) : in[4 + i - 1] = s[i]
    BY <1>2, <1>4
  <2>2. 5 = 4 + Len(s) - 1 /\ 5 <= Len(in) /\ 4 >= 1 /\ 4 \in Nat /\ 5 \in Nat
    BY <1>0, <1>2
  <2> QED BY <1>2, <2>1, <2>2, SliceIs
<1>6. ~IsExtended(in)
  <2>1. s # EXTENDED_FRAME_MARKER
    <3>1. n # 255 \/ m # 255
      BY <1>4
    <3> QED BY <1>2, <3>1, MarkerShape
  <2> QED BY <1>5, <2>1 DEF IsExtended
<1>7. WrappingSum(SubSeq(in, 4, 5)) = 0
  BY <1>3, <1>5, Zenon
<1>8. ~(5 = 8) /\ n = in[4]
  OBVIOUS
<1> QED BY <1>1, <1>6, <1>7, <1>8, Zenon DEF HeaderOk

\* An extended header is well formed whatever its three length bytes, when they
\* make up the length and cancel.
LEMMA LongHeaderOk ==
    ASSUME NEW in \in Seq(u8), NEW n \in Nat,
           NEW x \in u8, NEW y \in u8, NEW z \in u8,
           ExtendedHeaderBytes(in, x, y, z), LengthBytesAgree(n, x, y, z)
    PROVE  HeaderOk(in, 8, n)
<1> USE DEF ExtendedHeaderBytes
<1>0. Len(in) \in Nat
  OBVIOUS
<1>1. SubSeq(in, 1, 3) = PREAMBLE
  <2>1. \A i \in 1..Len(PREAMBLE) : in[1 + i - 1] = PREAMBLE[i]
    BY PreambleShape, SMTT(60)
  <2>2. 3 = 1 + Len(PREAMBLE) - 1 /\ 3 <= Len(in) /\ 1 >= 1 /\ 1 \in Nat /\ 3 \in Nat
    BY <1>0, PreambleShape
  <2> QED BY <2>1, <2>2, PreambleShape, SliceIs
<1>2. IsExtended(in)
  <2>1. \A i \in 1..Len(EXTENDED_FRAME_MARKER) : in[4 + i - 1] = EXTENDED_FRAME_MARKER[i]
    BY MarkerShape
  <2>2. 5 = 4 + Len(EXTENDED_FRAME_MARKER) - 1 /\ 5 <= Len(in) /\ 4 >= 1
        /\ 4 \in Nat /\ 5 \in Nat
    BY <1>0, MarkerShape
  <2> QED BY <2>1, <2>2, MarkerShape, SliceIs DEF IsExtended
<1>3. SubSeq(in, 6, 8) = <<x, y, z>>
  <2>1. PICK s : s = <<x, y, z>>
    OBVIOUS
  <2>2. s \in Seq(u8) /\ Len(s) = 3 /\ s[1] = x /\ s[2] = y /\ s[3] = z
    BY ONLY <2>1, ThreeTuple, x \in u8, y \in u8, z \in u8, Zenon
  <2>3. in[6 + 1 - 1] = s[1] /\ in[6 + 2 - 1] = s[2] /\ in[6 + 3 - 1] = s[3]
    <3>1. 6 + 1 - 1 = 6 /\ 6 + 2 - 1 = 7 /\ 6 + 3 - 1 = 8
      OBVIOUS
    <3> QED BY <2>2, <3>1, ZenonT(60)
  <2>4. 1..Len(s) = {1, 2, 3}
    BY ONLY <2>2
  <2>5. \A i \in 1..Len(s) : in[6 + i - 1] = s[i]
    BY ONLY <2>3, <2>4, Zenon
  <2>6. 8 = 6 + Len(s) - 1 /\ 8 <= Len(in) /\ 6 >= 1 /\ 6 \in Nat /\ 8 \in Nat
    BY <1>0, <2>2
  <2>7. SubSeq(in, 6, 8) = s
    BY ONLY in \in Seq(u8), <2>2, <2>5, <2>6, SliceIs
  <2> QED BY <2>1, <2>7, Zenon
<1>4. WrappingSum(SubSeq(in, 6, 8)) = 0
  BY ONLY <1>3, LengthBytesAgree(n, x, y, z), Zenon DEF LengthBytesAgree
<1>5. n = 256 * in[6] + in[7]
  <2>1. in[6] = x /\ in[7] = y
    OBVIOUS
  <2> QED BY ONLY <2>1, LengthBytesAgree(n, x, y, z), SMT DEF LengthBytesAgree
<1> HIDE DEF ExtendedHeaderBytes
<1> QED BY ONLY <1>1, <1>2, <1>4, <1>5, SMT DEF HeaderOk

StartsWith(in, h) == Len(in) >= Len(h) /\ \A i \in 1..Len(h) : in[i] = h[i]

\* Everything the header of a frame says about it, with more bytes behind it.
LEMMA HeaderReadsBack ==
    ASSUME NEW n \in Nat, n >= 2, n < FrameLimit,
           NEW in \in Seq(u8), StartsWith(in, FrameHeader(n))
    PROVE  HeaderOk(in, Len(FrameHeader(n)), n)
<1> DEFINE h == FrameHeader(n)
<1>1. CASE n < 256
  <2>1. /\ h \in Seq(u8) /\ Len(h) = 5 /\ h[1] = 0 /\ h[2] = 0 /\ h[3] = 255
        /\ h[4] = n /\ h[5] = 256 - n
    BY <1>1, ShortHeader
  <2> HIDE DEF h
  <2>2. Len(in) >= 5 /\ \A i \in 1..5 : in[i] = h[i]
    BY <2>1 DEF h, StartsWith
  <2>3. in[1] = h[1] /\ in[2] = h[2] /\ in[3] = h[3] /\ in[4] = h[4] /\ in[5] = h[5]
    BY <2>2
  <2>4. in[1] = 0 /\ in[2] = 0 /\ in[3] = 255 /\ in[4] = n /\ in[5] = 256 - n
    BY <2>1, <2>3
  <2>5. HeaderOk(in, 5, n)
    BY <1>1, <2>2, <2>4, ShortHeaderOk
  <2> QED BY <2>1, <2>5 DEF h
<1>2. CASE n >= 256
  <2>1. PICK x \in u8, y \in u8, z \in u8 :
           LengthBytes(n, x, y, z) /\ IsExtendedHeader(h, x, y, z)
    BY ONLY n \in Nat, n < FrameLimit, <1>2, LongHeader, Zenon
  <2>2. StartsWith(in, h)
    OBVIOUS
  <2> HIDE DEF h
  <2>3. h \in Seq(u8) /\ Len(h) = 8 /\ ExtendedHeaderBytes(h, x, y, z)
    BY ONLY <2>1, ExtendedHeader, Zenon
  <2>4. LengthBytesAgree(n, x, y, z)
    BY ONLY n \in Nat, n < FrameLimit, <2>1, LengthBytesReadBack, Zenon
  <2>5. Len(in) >= 8 /\ \A i \in 1..8 : in[i] = h[i]
    BY ONLY <2>2, <2>3, SMT DEF StartsWith
  <2>6. ExtendedHeaderBytes(in, x, y, z)
    <3>1. /\ in[1] = h[1] /\ in[2] = h[2] /\ in[3] = h[3] /\ in[4] = h[4]
          /\ in[5] = h[5] /\ in[6] = h[6] /\ in[7] = h[7] /\ in[8] = h[8]
      BY ONLY <2>5, SMT
    <3> QED BY ONLY <2>3, <2>5, <3>1, SMT DEF ExtendedHeaderBytes
  <2>7. HeaderOk(in, 8, n)
    BY ONLY in \in Seq(u8), n \in Nat, <2>1, <2>4, <2>6, LongHeaderOk, Zenon
  <2> QED BY <2>3, <2>7 DEF h
<1> QED BY <1>1, <1>2

LEMMA HeaderType ==
    ASSUME NEW n \in Nat, n >= 2, n < FrameLimit
    PROVE  FrameHeader(n) \in Seq(u8) /\ Len(FrameHeader(n)) \in {5, 8}
<1>1. CASE n < 256
  BY <1>1, ShortHeader
<1>2. CASE n >= 256
  <2>1. PICK x \in u8, y \in u8, z \in u8 : IsExtendedHeader(FrameHeader(n), x, y, z)
    BY ONLY n \in Nat, n < FrameLimit, <1>2, LongHeader, Zenon
  <2>2. FrameHeader(n) \in Seq(u8) /\ Len(FrameHeader(n)) = 8
    BY ONLY <2>1, ExtendedHeader, Zenon
  <2> QED BY <2>2
<1> QED BY <1>1, <1>2

\* What the chip sends for a payload that fits in a frame, whatever follows it
\* on the line, receive_dynamic_response_from reads back: the whole payload,
\* and exactly the bytes of the frame.  For lengths of one and of two bytes.
THEOREM FrameReadsBackAlways ==
    ASSUME NEW code \in u8, NEW payload \in Seq(u8), Len(payload) + 2 < FrameLimit,
           NEW rest \in Seq(u8)
    PROVE  ReceiveDynamicResponse(EncodeFrame(code, payload) \o rest, code)
             = Parsed("Ok", payload, Len(EncodeFrame(code, payload)))
<1> DEFINE b  == FrameBody(code, payload)
           n  == Len(b)
           h  == FrameHeader(n)
           k  == Len(h)
           t  == FrameTail(b)
           f  == h \o b \o t
           in == f \o rest
<1>1. /\ b \in Seq(u8) /\ Len(payload) \in Nat /\ n = 2 + Len(payload)
      /\ b[1] = PN532_TO_HOST /\ b[2] = code
      /\ \A i \in 1..Len(payload) : b[2 + i] = payload[i]
  BY BodyShape
<1> HIDE DEF b
<1>2. n \in Nat /\ n >= 2 /\ n < FrameLimit
  BY <1>1 DEF FrameLimit
<1> HIDE DEF n
<1>3. h \in Seq(u8) /\ k \in {5, 8} /\ k \in Nat
  BY <1>2, HeaderType
<1> HIDE DEF h
<1>4. t \in Seq(u8) /\ Len(t) = 2 /\ t[1] = (256 - WrappingSum(b)) % 256
      /\ t[2] = POSTAMBLE
  BY <1>1, TailShape
<1>5. f = EncodeFrame(code, payload)
  BY FrameParts DEF b, n, h
<1> HIDE DEF t
<1>6. /\ f \in Seq(u8) /\ Len(f) = k + n + 2 /\ Len(rest) \in Nat
      /\ in \in Seq(u8) /\ Len(in) = k + n + 2 + Len(rest)
      /\ \A i \in 1..k : in[i] = h[i]
      /\ \A i \in 1..n : in[k + i] = b[i]
      /\ in[k + n + 1] = t[1] /\ in[k + n + 2] = t[2]
  <2>1. Len(b) = n /\ Len(h) = k
    BY DEF n
  <2>2. LaidOut(in, f, h, b, t, rest)
    <3>1. t \in Seq(u8) /\ Len(t) = 2 /\ h \in Seq(u8) /\ b \in Seq(u8)
      BY <1>1, <1>3, <1>4
    <3> QED BY <3>1, FrameBytes
  <2> HIDE DEF f, in, k
  <2> QED BY <2>1, <2>2 DEF LaidOut
<1> HIDE DEF f, in, k
<1>7. Len(in) >= k + n + 2 /\ Len(in) >= k /\ Len(in) \in Nat
  BY <1>2, <1>3, <1>6
<1>8. HeaderOk(in, k, n)
  <2>1. StartsWith(in, h)
    BY <1>6, <1>7 DEF StartsWith, k
  <2> QED BY <1>2, <1>6, <2>1, HeaderReadsBack DEF h, k
<1>9. in[k + 1] = PN532_TO_HOST /\ in[k + 2] = code
  <2>1. 1 \in 1..n /\ 2 \in 1..n
    BY <1>2
  <2>2. in[k + 1] = b[1] /\ in[k + 2] = b[2]
    BY <1>6, <2>1
  <2> QED BY <1>1, <2>2
<1>10. WrappingSum(SubSeq(in, k + 1, k + n + 1)) = 0
  <2> DEFINE c == t[1]
             s == b \o <<c>>
  <2>1. c \in u8
    <3>1. t \in Seq(u8) /\ Len(t) = 2
      BY <1>4
    <3> QED BY <3>1
  <2>2. WrappingSum(s) = 0
    BY <1>1, <1>4, ChecksumCancels
  <2> HIDE DEF c
  <2>3. /\ s \in Seq(u8) /\ Len(s) = n + 1
        /\ \A i \in 1..n : s[i] = b[i]
        /\ s[n + 1] = c
    BY <1>1, <2>1 DEF n
  <2> HIDE DEF s
  <2>4. ASSUME NEW i \in 1..Len(s) PROVE in[k + 1 + i - 1] = s[i]
    <3>1. k + 1 + i - 1 = k + i
      BY <1>2, <1>3, <2>3
    <3>2. CASE i \in 1..n
      BY <1>6, <2>3, <3>1, <3>2
    <3>3. CASE i = n + 1
      <4>1. k + i = k + n + 1
        BY <1>2, <1>3, <3>3
      <4> QED BY <1>6, <2>3, <3>1, <3>3, <4>1 DEF c
    <3> QED BY <1>2, <2>3, <3>2, <3>3
  <2>5. k + 1 \in Nat /\ k + 1 >= 1 /\ k + n + 1 \in Nat /\ k + n + 1 = k + 1 + Len(s) - 1
        /\ k + n + 1 <= Len(in)
    BY <1>2, <1>3, <1>6, <2>3
  <2>6. SubSeq(in, k + 1, k + n + 1) = s
    BY <1>6, <2>3, <2>4, <2>5, SliceIs, ZenonT(60)
  <2> QED BY <2>2, <2>6 DEF s
<1>11. ReceiveDynamicResponse(in, code)
         = Parsed("Ok", SubSeq(in, k + 3, k + n), k + n + 2)
  <2>1. in[k + n + 2] = POSTAMBLE /\ in \in Seq(u8)
    BY <1>4, <1>6
  <2>2. k \in {5, 8} /\ n \in Nat /\ n >= 2 /\ Len(in) >= k + n + 2
    BY <1>2, <1>3, <1>7
  <2> QED BY <1>8, <1>9, <1>10, <2>1, <2>2, ParsesFrame, ZenonT(60)
<1>12. SubSeq(in, k + 3, k + n) = payload
  <2>1. ASSUME NEW i \in 1..Len(payload) PROVE in[k + 3 + i - 1] = payload[i]
    <3>1. k + 3 + i - 1 = k + (2 + i) /\ 2 + i \in 1..n
      BY <1>1, <1>3
    <3> QED BY <1>1, <1>6, <3>1, ZenonT(60)
  <2>2. k + 3 \in Nat /\ k + 3 >= 1 /\ k + n \in Nat /\ k + n = k + 3 + Len(payload) - 1
        /\ k + n <= Len(in)
    BY <1>1, <1>2, <1>3, <1>6
  <2> QED BY <1>6, <2>1, <2>2, SliceIs, ZenonT(60)
<1>13. in = EncodeFrame(code, payload) \o rest /\ Len(EncodeFrame(code, payload)) = k + n + 2
  BY <1>5, <1>6 DEF in
<1> QED BY <1>11, <1>12, <1>13


\* A frame is a sequence of at least nine bytes.
LEMMA FrameType ==
    ASSUME NEW code \in u8, NEW payload \in Seq(u8), Len(payload) + 2 < FrameLimit
    PROVE  /\ EncodeFrame(code, payload) \in Seq(u8)
           /\ Len(EncodeFrame(code, payload)) \in Nat
           /\ Len(EncodeFrame(code, payload)) >= 9
<1> DEFINE b  == FrameBody(code, payload)
           n  == Len(b)
           h  == FrameHeader(n)
           t  == FrameTail(b)
<1>1. b \in Seq(u8) /\ Len(payload) \in Nat /\ n = 2 + Len(payload)
  BY BodyShape
<1> HIDE DEF b
<1>2. n \in Nat /\ n >= 2 /\ n < FrameLimit
  BY <1>1 DEF FrameLimit
<1>3. h \in Seq(u8) /\ Len(h) \in {5, 8}
  BY <1>2, HeaderType
<1>4. t \in Seq(u8) /\ Len(t) = 2
  BY <1>1, TailShape
<1>5. EncodeFrame(code, payload) = h \o b \o t
  BY FrameParts DEF b
<1> HIDE DEF h, t
<1>6. LaidOut(h \o b \o t \o << >>, h \o b \o t, h, b, t, << >>)
  <2>1. << >> \in Seq(u8)
    OBVIOUS
  <2> QED BY <1>1, <1>3, <1>4, <2>1, FrameBytes
<1>7. h \o b \o t \in Seq(u8) /\ Len(h \o b \o t) = Len(h) + n + 2
  BY <1>6 DEF LaidOut
<1> HIDE DEF n
<1>8. Len(h) + n + 2 \in Nat /\ Len(h) + n + 2 >= 9
  <2>1. \A i \in {5, 8}, j \in Nat : j >= 2 => i + j + 2 \in Nat /\ i + j + 2 >= 9
    OBVIOUS
  <2> QED BY <1>2, <1>3, <2>1
<1> QED BY <1>5, <1>7, <1>8

\* The frame of a command without data, which process reads as nine bytes.
LEMMA EmptyFrameLen ==
    ASSUME NEW code \in u8
    PROVE  Len(EncodeFrame(code, << >>)) = 9
<1> DEFINE b  == FrameBody(code, << >>)
           h  == FrameHeader(2)
           t  == FrameTail(b)
<1>0. << >> \in Seq(u8) /\ Len(<< >>) = 0
  OBVIOUS
<1>1. b \in Seq(u8) /\ Len(b) = 2
  <2>1. \A p \in Seq(u8) : FrameBody(code, p) \in Seq(u8) /\ Len(FrameBody(code, p)) = 2 + Len(p)
    BY BodyShape
  <2>2. b \in Seq(u8) /\ Len(b) = 2 + Len(<< >>)
    BY <1>0, <2>1
  <2> HIDE DEF b
  <2> QED BY <1>0, <2>2
<1>2. h \in Seq(u8) /\ Len(h) = 5
  BY ShortHeader
<1>3. t \in Seq(u8) /\ Len(t) = 2
  BY <1>1, TailShape
<1>4. EncodeFrame(code, << >>) = h \o b \o t
  BY <1>1, FrameParts
<1> HIDE DEF h, b, t
<1>5. LaidOut(h \o b \o t \o << >>, h \o b \o t, h, b, t, << >>)
  BY <1>0, <1>1, <1>2, <1>3, FrameBytes
<1>6. Len(h \o b \o t) = Len(h) + Len(b) + 2
  BY <1>5 DEF LaidOut
<1>7. Len(h) + Len(b) + 2 = 9
  BY <1>1, <1>2
<1> QED BY <1>4, <1>6, <1>7

\* An input that ends before the frame its header announces is waited for.
LEMMA HeaderWaits ==
    ASSUME NEW in \in Seq(u8), NEW code \in u8, NEW k \in {5, 8},
           NEW n \in Nat, n >= 2, Len(in) >= k, Len(in) < k + n + 2, HeaderOk(in, k, n)
    PROVE  ReceiveDynamicResponse(in, code) = Parsed("Short", << >>, 0)
<1> DEFINE extended  == IsExtended(in)
           header    == IF extended THEN 8 ELSE 5
           frame_len == IF extended THEN 256 * in[6] + in[7] ELSE in[4]
           total     == header + BodyLen(frame_len)
           frame     == SubSeq(in, header + 1, total)
           start     == IF extended THEN 6 ELSE 4
<1>0. Len(in) \in Nat /\ ~(Len(in) < 5) /\ ~(Len(in) < k) /\ Len(in) < k + (n + 2)
      /\ n # 0 /\ n # 1
  OBVIOUS
<1>1. header = k
  BY DEF HeaderOk
<1>2. frame_len = n
  BY DEF HeaderOk
<1>3. total = k + (n + 2)
  BY <1>1, <1>2, ZenonT(60) DEF BodyLen
<1>4. WrappingSum(SubSeq(in, start, header)) = 0
  BY <1>1, Zenon DEF HeaderOk
<1>5. SubSeq(in, 1, 3) = PREAMBLE
  BY DEF HeaderOk
<1>6. ReceiveDynamicResponse(in, code)
      = IF Len(in) < 5 THEN Parsed("Short", << >>, 0)
        ELSE IF SubSeq(in, 1, 3) # PREAMBLE THEN Parsed("BadResponseFrame", << >>, 5)
        ELSE IF Len(in) < header THEN Parsed("Short", << >>, 0)
        ELSE IF WrappingSum(SubSeq(in, start, header)) # 0
             THEN Parsed("CrcError", << >>, header)
        ELSE IF frame_len = 0 THEN Parsed("BadResponseFrame", << >>, header)
        ELSE IF frame_len = 1 THEN Parsed("Syntax", << >>, header)
        ELSE IF Len(in) < total THEN Parsed("Short", << >>, 0)
        ELSE IF Last(frame) # POSTAMBLE \/ frame[1] # PN532_TO_HOST \/ frame[2] # code
             THEN Parsed("BadResponseFrame", << >>, total)
        ELSE IF ~ChecksumOk(Front(frame)) THEN Parsed("CrcError", << >>, total)
        ELSE Parsed("Ok", SubSeq(frame, 3, frame_len), total)
  BY DEF ReceiveDynamicResponse
<1> HIDE DEF extended, header, frame_len, total, frame, start
<1> QED BY <1>0, <1>1, <1>2, <1>3, <1>4, <1>5, <1>6

\* The length of an extended frame does not arrive with its first five bytes.
LEMMA MarkerWaits ==
    ASSUME NEW in \in Seq(u8), NEW code \in u8, Len(in) >= 5, Len(in) < 8,
           in[1] = 0, in[2] = 0, in[3] = 255, in[4] = 255, in[5] = 255
    PROVE  ReceiveDynamicResponse(in, code) = Parsed("Short", << >>, 0)
<1>0. Len(in) \in Nat
  OBVIOUS
<1>1. SubSeq(in, 1, 3) = PREAMBLE
  <2>1. \A i \in 1..Len(PREAMBLE) : in[1 + i - 1] = PREAMBLE[i]
    BY PreambleShape
  <2>2. 3 = 1 + Len(PREAMBLE) - 1 /\ 3 <= Len(in) /\ 1 >= 1 /\ 1 \in Nat /\ 3 \in Nat
    BY <1>0, PreambleShape
  <2> QED BY <2>1, <2>2, PreambleShape, SliceIs
<1>2. IsExtended(in)
  <2>1. \A i \in 1..Len(EXTENDED_FRAME_MARKER) : in[4 + i - 1] = EXTENDED_FRAME_MARKER[i]
    BY MarkerShape
  <2>2. 5 = 4 + Len(EXTENDED_FRAME_MARKER) - 1 /\ 5 <= Len(in) /\ 4 >= 1
        /\ 4 \in Nat /\ 5 \in Nat
    BY <1>0, MarkerShape
  <2> QED BY <2>1, <2>2, MarkerShape, SliceIs DEF IsExtended
<1>3. ~(Len(in) < 5) /\ Len(in) < 8
  BY <1>0
<1> QED BY <1>1, <1>2, <1>3 DEF ReceiveDynamicResponse

\* A frame of which bytes are still missing, be it in its header or behind it,
\* is waited for: nothing is read from it and no error is reported.
THEOREM PartialFrameAlwaysWaits ==
    ASSUME NEW code \in u8, NEW payload \in Seq(u8), Len(payload) + 2 < FrameLimit,
           NEW m \in Nat, m < Len(EncodeFrame(code, payload))
    PROVE  ReceiveDynamicResponse(SubSeq(EncodeFrame(code, payload), 1, m), code)
             = Parsed("Short", << >>, 0)
<1> DEFINE b  == FrameBody(code, payload)
           n  == Len(b)
           h  == FrameHeader(n)
           k  == Len(h)
           t  == FrameTail(b)
           f  == h \o b \o t
           in == SubSeq(f, 1, m)
<1>1. b \in Seq(u8) /\ Len(payload) \in Nat /\ n = 2 + Len(payload)
  BY BodyShape
<1> HIDE DEF b
<1>2. n \in Nat /\ n >= 2 /\ n < FrameLimit
  BY <1>1 DEF FrameLimit
<1> HIDE DEF n
<1>3. h \in Seq(u8) /\ k \in {5, 8} /\ k \in Nat
  BY <1>2, HeaderType
<1> HIDE DEF h
<1>4. t \in Seq(u8) /\ Len(t) = 2
  BY <1>1, TailShape
<1>5. f = EncodeFrame(code, payload)
  BY FrameParts DEF b, n, h
<1> HIDE DEF t
<1>6. /\ f \in Seq(u8) /\ Len(f) = k + n + 2
      /\ \A i \in 1..k : f[i] = h[i]
  <2>1. << >> \in Seq(u8)
    OBVIOUS
  <2>2. LaidOut(f \o << >>, f, h, b, t, << >>)
    BY <1>1, <1>3, <1>4, <2>1, FrameBytes
  <2> HIDE DEF f
  <2>3. f \in Seq(u8)
    BY <2>2 DEF LaidOut
  <2>4. f \o << >> = f
    BY <2>3, ConcatEmptySeq
  <2> QED BY <2>2, <2>4 DEF LaidOut, n
<1>7. m < k + n + 2
  BY <1>5, <1>6
<1> HIDE DEF f, k
<1>8. /\ in \in Seq(u8) /\ Len(in) = m
      /\ \A i \in 1..m : in[i] = f[i]
  <2>1. 1 \in Nat /\ 1 >= 1 /\ m <= Len(f)
    BY <1>2, <1>3, <1>6, <1>7
  <2>2. /\ in \in Seq(u8)
        /\ Len(in) = IF 1 <= m THEN m - 1 + 1 ELSE 0
        /\ \A i \in 1..(m - 1 + 1) : in[i] = f[1 + i - 1]
    BY <1>6, <2>1, Slice
  <2> HIDE DEF in
  <2>3. m - 1 + 1 = m /\ \A i \in 1..m : 1 + i - 1 = i
    OBVIOUS
  <2> QED BY <2>2, <2>3
<1>9. in = SubSeq(EncodeFrame(code, payload), 1, m)
  BY <1>5
<1> HIDE DEF in
<1>10. CASE m < 5
  BY <1>8, <1>9, <1>10 DEF ReceiveDynamicResponse
<1>11. CASE m >= 5 /\ m < k
  <2>1. k = 8 /\ n >= 256
    <3>1. k = 8
      BY <1>3, <1>11
    <3>2. n < 256 => k = 5
      BY <1>2, ShortHeader DEF h, k
    <3> QED BY <1>2, <3>1, <3>2
  <2>2. h[1] = 0 /\ h[2] = 0 /\ h[3] = 255 /\ h[4] = 255 /\ h[5] = 255
    <3>1. n \in Nat /\ n < FrameLimit
      BY <1>2
    <3>2. PICK x \in u8, y \in u8, z \in u8 : IsExtendedHeader(h, x, y, z)
      BY ONLY <2>1, <3>1, LongHeader, Zenon DEF h
    <3>3. ExtendedHeaderBytes(h, x, y, z)
      BY ONLY <3>2, ExtendedHeader, Zenon
    <3> QED BY ONLY <3>3, SMT DEF ExtendedHeaderBytes
  <2>3. /\ in[1] = f[1] /\ in[2] = f[2] /\ in[3] = f[3] /\ in[4] = f[4] /\ in[5] = f[5]
    BY <1>8, <1>11
  <2>4. /\ f[1] = h[1] /\ f[2] = h[2] /\ f[3] = h[3] /\ f[4] = h[4] /\ f[5] = h[5]
    BY <1>6, <2>1
  <2>5. Len(in) >= 5 /\ Len(in) < 8
    BY <1>8, <1>11, <2>1
  <2>6. in[1] = 0 /\ in[2] = 0 /\ in[3] = 255 /\ in[4] = 255 /\ in[5] = 255
    BY <2>2, <2>3, <2>4
  <2>7. in \in Seq(u8)
    BY <1>8
  <2> QED BY <1>9, <2>5, <2>6, <2>7, MarkerWaits
<1>12. CASE m >= k
  <2>1. StartsWith(in, h)
    BY <1>3, <1>6, <1>8, <1>12 DEF StartsWith, k
  <2>2. HeaderOk(in, k, n)
    BY <1>2, <1>8, <2>1, HeaderReadsBack DEF h, k
  <2>3. Len(in) >= k /\ Len(in) < k + n + 2 /\ in \in Seq(u8)
    BY <1>7, <1>8, <1>12
  <2>4. ReceiveDynamicResponse(in, code) = Parsed("Short", << >>, 0)
    BY <1>2, <1>3, <2>2, <2>3, HeaderWaits
  <2> QED BY <1>9, <2>4
<1> QED BY <1>3, <1>10, <1>11, <1>12


-----------------------------------------------------------------------------
(* Target lists *)

AtsBits == {ATS_T0_TA_PRESENT, ATS_T0_TB_PRESENT, ATS_T0_TC_PRESENT}

\* T0 announces the interface bytes it was made for, and no other.
LEMMA T0Bits ==
    ASSUME NEW bits \in SUBSET AtsBits
    PROVE  /\ T0(bits) \in u8
           /\ \A bit \in AtsBits : (T0(bits) \div bit) % 2 = 1 <=> bit \in bits
<1> DEFINE a == IF 16 \in bits THEN 16 ELSE 0
           b == IF 32 \in bits THEN 32 ELSE 0
           c == IF 64 \in bits THEN 64 ELSE 0
<1>1. T0(bits) = a + b + c
  BY DEF T0, ATS_T0_TA_PRESENT, ATS_T0_TB_PRESENT, ATS_T0_TC_PRESENT
<1>2. /\ a \in {0, 16} /\ b \in {0, 32} /\ c \in {0, 64}
      /\ (a = 16 <=> 16 \in bits) /\ (b = 32 <=> 32 \in bits) /\ (c = 64 <=> 64 \in bits)
  OBVIOUS
<1> HIDE DEF a, b, c
<1>3. a + b + c \in u8
  BY <1>2 DEF u8
<1>4. /\ ((a + b + c) \div 16) % 2 = 1 <=> a = 16
      /\ ((a + b + c) \div 32) % 2 = 1 <=> b = 32
      /\ ((a + b + c) \div 64) % 2 = 1 <=> c = 64
  BY <1>2
<1> QED
  BY <1>1, <1>2, <1>3, <1>4
  DEF AtsBits, ATS_T0_TA_PRESENT, ATS_T0_TB_PRESENT, ATS_T0_TC_PRESENT

LEMMA T0CountsBits ==
    ASSUME NEW bits \in SUBSET AtsBits
    PROVE  SetBits(T0(bits), AtsBits) = Cardinality(bits)
<1>1. {bit \in AtsBits : (T0(bits) \div bit) % 2 = 1} = bits
  BY T0Bits
<1> QED BY <1>1 DEF SetBits, Quantify

LEMMA FewBits ==
    ASSUME NEW bits \in SUBSET AtsBits
    PROVE  Cardinality(bits) \in Nat
<1>1. IsFiniteSet({ATS_T0_TA_PRESENT}) /\ IsFiniteSet(AtsBits)
  <2>1. IsFiniteSet({ATS_T0_TA_PRESENT})
    BY FS_Singleton
  <2>2. IsFiniteSet({ATS_T0_TA_PRESENT} \cup {ATS_T0_TB_PRESENT})
    BY <2>1, FS_AddElement
  <2>3. IsFiniteSet({ATS_T0_TA_PRESENT} \cup {ATS_T0_TB_PRESENT} \cup {ATS_T0_TC_PRESENT})
    BY <2>2, FS_AddElement
  <2>4. {ATS_T0_TA_PRESENT} \cup {ATS_T0_TB_PRESENT} \cup {ATS_T0_TC_PRESENT} = AtsBits
    BY DEF AtsBits
  <2> QED BY <2>1, <2>3, <2>4
<1> QED BY <1>1, FS_Subset, FS_CardinalityType

\* The bytes of an ATS.
LEMMA AtsShape ==
    ASSUME NEW bits \in SUBSET AtsBits, NEW hist \in Seq(u8),
           2 + Cardinality(bits) + Len(hist) \in u8
    PROVE  LET ats == EncodeAts(bits, hist)
               m   == 2 + Cardinality(bits)
           IN  /\ ats \in Seq(u8) /\ Len(ats) = m + Len(hist)
               /\ ats[1] = Len(ats) /\ ats[2] = T0(bits)
               /\ \A i \in 1..Len(hist) : ats[m + i] = hist[i]
<1> DEFINE c == Cardinality(bits)
           interface == [i \in 1..c |-> 200]
           x == 2 + c + Len(hist)
           h == <<x, T0(bits)>>
           g == h \o interface
           ats == g \o hist
<1>1. c \in Nat /\ Len(hist) \in Nat
  BY FewBits
<1> HIDE DEF c
<1>2. 200 \in u8
  BY DEF u8
<1>3. interface \in Seq(u8) /\ Len(interface) = c
  BY <1>1, <1>2
<1>4. EncodeAts(bits, hist) = ats
  BY <1>3 DEF EncodeAts, c
<1> HIDE DEF interface
<1>5. x \in u8
  BY DEF c
<1> HIDE DEF x
<1>6. h \in Seq(u8) /\ Len(h) = 2 /\ h[1] = x /\ h[2] = T0(bits)
  BY <1>5, T0Bits, TwoTuple
<1> HIDE DEF h
<1>7. /\ g \in Seq(u8) /\ Len(g) = Len(h) + Len(interface)
      /\ \A i \in 1..Len(h) : g[i] = h[i]
  BY <1>3, <1>6, Joined
<1> HIDE DEF g
<1>8. /\ ats \in Seq(u8) /\ Len(ats) = Len(g) + Len(hist)
      /\ \A i \in 1..Len(g) : ats[i] = g[i]
      /\ \A i \in 1..Len(hist) : ats[Len(g) + i] = hist[i]
  BY <1>7, Joined
<1> HIDE DEF ats
<1>9. Len(g) = 2 + c /\ Len(ats) = 2 + c + Len(hist)
  BY <1>3, <1>6, <1>7, <1>8
<1>10. ats[1] = h[1] /\ ats[2] = h[2]
  <2>1. 1 \in 1..Len(h) /\ 2 \in 1..Len(h) /\ 1 \in 1..Len(g) /\ 2 \in 1..Len(g)
    BY <1>1, <1>6, <1>9
  <2> QED BY <1>7, <1>8, <2>1
<1>11. ats[1] = Len(ats)
  BY <1>6, <1>9, <1>10 DEF x
<1> QED BY <1>4, <1>6, <1>8, <1>9, <1>10, <1>11 DEF c

LEMMA AtsReadsBack ==
    ASSUME NEW bits \in SUBSET AtsBits, NEW hist \in Seq(u8),
           2 + Cardinality(bits) + Len(hist) \in u8
    PROVE  ats_historical_bytes(EncodeAts(bits, hist))
             = Parsed("Ok", hist, Len(EncodeAts(bits, hist)))
<1> DEFINE ats == EncodeAts(bits, hist)
           m   == 2 + Cardinality(bits)
<1>1. /\ ats \in Seq(u8) /\ Len(ats) = m + Len(hist)
      /\ ats[1] = Len(ats) /\ ats[2] = T0(bits)
      /\ \A i \in 1..Len(hist) : ats[m + i] = hist[i]
  BY AtsShape
<1>2. HistoricalStart(ats) = m
  BY <1>1, T0CountsBits DEF HistoricalStart, AtsBits
<1>3. m \in Nat /\ m >= 2 /\ Len(hist) \in Nat
  BY FewBits
<1> HIDE DEF ats, m
<1>4. SubSeq(ats, m + 1, Len(ats)) = hist
  <2>1. ASSUME NEW i \in 1..Len(hist) PROVE ats[m + 1 + i - 1] = hist[i]
    <3>1. m + 1 + i - 1 = m + i
      BY <1>3
    <3> QED BY <1>1, <3>1
  <2>2. m + 1 \in Nat /\ m + 1 >= 1 /\ Len(ats) \in Nat /\ Len(ats) <= Len(ats)
        /\ Len(ats) = m + 1 + Len(hist) - 1
    BY <1>1, <1>3
  <2> QED BY <1>1, <2>1, <2>2, SliceIs
<1>5. ~(Len(ats) < 2) /\ ~(m > Len(ats))
  BY <1>1, <1>3
<1>6. ats_historical_bytes(ats) = Parsed("Ok", hist, Len(ats))
  BY <1>1, <1>2, <1>4, <1>5 DEF ats_historical_bytes
<1> QED BY <1>6 DEF ats


LEMMA SixTuple ==
    ASSUME NEW a \in u8, NEW b \in u8, NEW c \in u8, NEW d \in u8, NEW e \in u8, NEW f \in u8
    PROVE  LET s == <<a, b, c, d, e, f>>
           IN  /\ s \in Seq(u8) /\ Len(s) = 6
               /\ s[1] = a /\ s[2] = b /\ s[6] = f
OBVIOUS

\* The bytes of a target list.
LEMMA TargetShape ==
    ASSUME NEW uid \in Seq(u8), Len(uid) \in u8, NEW ats \in Seq(u8)
    PROVE  LET r == EncodeTarget(uid, ats)
           IN  /\ Len(uid) \in Nat /\ Len(ats) \in Nat
               /\ r \in Seq(u8) /\ Len(r) = 6 + Len(uid) + Len(ats)
               /\ r[1] = 1 /\ r[2] = ISO_A_TARGET_SLOT /\ r[6] = Len(uid)
               /\ \A i \in 1..Len(uid) : r[6 + i] = uid[i]
               /\ \A i \in 1..Len(ats) : r[6 + Len(uid) + i] = ats[i]
<1> DEFINE n == Len(uid)
           h == <<1, ISO_A_TARGET_SLOT, 0, 4, 32, n>>
           g == h \o uid
           r == g \o ats
<1>1. 1 \in u8 /\ ISO_A_TARGET_SLOT \in u8 /\ 0 \in u8 /\ 4 \in u8 /\ 32 \in u8 /\ n \in Nat
  BY DEF u8, ISO_A_TARGET_SLOT
<1>2. h \in Seq(u8) /\ Len(h) = 6 /\ h[1] = 1 /\ h[2] = ISO_A_TARGET_SLOT /\ h[6] = n
  BY <1>1, SixTuple
<1>3. EncodeTarget(uid, ats) = r
  BY DEF EncodeTarget
<1> HIDE DEF h
<1>4. /\ g \in Seq(u8) /\ Len(g) = Len(h) + Len(uid)
      /\ \A i \in 1..Len(h) : g[i] = h[i]
      /\ \A i \in 1..Len(uid) : g[Len(h) + i] = uid[i]
  BY <1>2, Joined
<1> HIDE DEF g
<1>5. /\ r \in Seq(u8) /\ Len(r) = Len(g) + Len(ats) /\ Len(ats) \in Nat
      /\ \A i \in 1..Len(g) : r[i] = g[i]
      /\ \A i \in 1..Len(ats) : r[Len(g) + i] = ats[i]
  BY <1>4, Joined
<1> HIDE DEF r
<1>6. Len(g) = 6 + n /\ Len(r) = 6 + n + Len(ats)
  BY <1>2, <1>4, <1>5
<1>7. r[1] = h[1] /\ r[2] = h[2] /\ r[6] = h[6]
  <2>1. \A i \in 1..6 : i \in 1..Len(h) /\ i \in 1..Len(g)
    BY <1>1, <1>2, <1>6
  <2> QED BY <1>4, <1>5, <2>1
<1>8. ASSUME NEW i \in 1..Len(uid) PROVE r[6 + i] = uid[i]
  <2>1. 6 + i \in 1..Len(g) /\ Len(h) + i = 6 + i
    BY <1>1, <1>2, <1>6
  <2> QED BY <1>4, <1>5, <2>1
<1> QED BY <1>1, <1>2, <1>3, <1>5, <1>6, <1>7, <1>8

\* Every card the chip can list is found as it is: poll_card reads back its UID
\* and all of its historical bytes, whichever of TA, TB and TC its ATS carries
\* and however long they are.
THEOREM TargetReadsBackAlways ==
    ASSUME NEW uid \in Seq(u8), Len(uid) \in u8,
           NEW bits \in SUBSET AtsBits, NEW hist \in Seq(u8),
           2 + Cardinality(bits) + Len(hist) \in u8
    PROVE  ParseTargets(EncodeTarget(uid, EncodeAts(bits, hist)))
             = Target(ISO_A_TARGET_SLOT, CardPresence(uid, hist))
<1> DEFINE ats == EncodeAts(bits, hist)
           r   == EncodeTarget(uid, ats)
           n   == Len(uid)
           m   == 6 + n
<1>1. ats \in Seq(u8) /\ ats[1] = Len(ats) /\ Len(ats) \in Nat /\ Len(ats) >= 2
  <2>1. Cardinality(bits) \in Nat /\ Len(hist) \in Nat
    BY FewBits
  <2> QED BY <2>1, AtsShape
<1>2. ats_historical_bytes(ats) = Parsed("Ok", hist, Len(ats))
  BY AtsReadsBack
<1> HIDE DEF ats
<1>3. /\ n \in Nat /\ r \in Seq(u8) /\ Len(r) = 6 + n + Len(ats)
      /\ r[1] = 1 /\ r[2] = ISO_A_TARGET_SLOT /\ r[6] = n
      /\ \A i \in 1..n : r[6 + i] = uid[i]
      /\ \A i \in 1..Len(ats) : r[6 + n + i] = ats[i]
  BY <1>1, TargetShape, ZenonT(60)
<1> HIDE DEF r
<1>4. SubSeq(r, 7, m) = uid
  <2>1. ASSUME NEW i \in 1..Len(uid) PROVE r[7 + i - 1] = uid[i]
    <3>1. 7 + i - 1 = 6 + i
      OBVIOUS
    <3> QED BY <1>3, <3>1
  <2>2. 7 \in Nat /\ 7 >= 1 /\ m \in Nat /\ m = 7 + Len(uid) - 1 /\ m <= Len(r)
    BY <1>1, <1>3
  <2> HIDE DEF m
  <2> QED BY <1>3, <2>1, <2>2, SliceIs
<1>5. SubSeq(r, m + 1, m + Len(ats)) = ats
  <2>1. ASSUME NEW i \in 1..Len(ats) PROVE r[m + 1 + i - 1] = ats[i]
    <3>1. m + 1 + i - 1 = 6 + n + i
      BY <1>3
    <3> QED BY <1>3, <3>1
  <2>2. m + 1 \in Nat /\ m + 1 >= 1 /\ m + Len(ats) \in Nat
        /\ m + Len(ats) = m + 1 + Len(ats) - 1 /\ m + Len(ats) <= Len(r)
    BY <1>1, <1>3
  <2> HIDE DEF m
  <2> QED BY <1>1, <1>3, <2>1, <2>2, SliceIs, ZenonT(60)
<1>6. r[m + 1] = Len(ats)
  <2>1. 1 \in 1..Len(ats)
    BY <1>1
  <2> QED BY <1>1, <1>3, <2>1
<1>7. /\ Len(r) \in Nat /\ m \in Nat /\ ~(Len(r) < 6) /\ ~(Len(r) < m) /\ Len(r) # m
      /\ ~(Len(r) < m + Len(ats)) /\ r # << >> /\ r[1] # 0
  <2>1. Len(r) = 6 + n + Len(ats) /\ n \in Nat /\ Len(ats) \in Nat /\ Len(ats) >= 2
        /\ r[1] = 1
    BY <1>1, <1>3
  <2>2. Len(r) > 0
    BY <2>1
  <2>3. r # << >>
    BY <2>2
  <2> QED BY <2>1, <2>3
<1>8. 6 + r[6] = m
  BY <1>3
<1> HIDE DEF m
<1>9. ParseTargets(r)
      = IF r = << >> \/ r[1] = 0 THEN NoTarget
        ELSE IF Len(r) < 6 \/ Len(r) < 6 + r[6] THEN BadTarget
        ELSE IF Len(r) = 6 + r[6]
             THEN Target(r[2], CardPresence(SubSeq(r, 7, 6 + r[6]), << >>))
        ELSE IF Len(r) < 6 + r[6] + r[6 + r[6] + 1]
                  \/ ats_historical_bytes(SubSeq(r, 6 + r[6] + 1,
                                           6 + r[6] + r[6 + r[6] + 1])).tag # "Ok"
             THEN BadTarget
        ELSE Target(r[2], CardPresence(SubSeq(r, 7, 6 + r[6]),
                            ats_historical_bytes(SubSeq(r, 6 + r[6] + 1,
                              6 + r[6] + r[6 + r[6] + 1])).val))
  BY DEF ParseTargets
<1>10. ats_historical_bytes(ats).tag = "Ok" /\ ats_historical_bytes(ats).val = hist
  BY <1>2 DEF Parsed
<1>11. ParseTargets(r) = Target(ISO_A_TARGET_SLOT, CardPresence(uid, hist))
  BY <1>3, <1>4, <1>5, <1>6, <1>7, <1>8, <1>9, <1>10
<1> QED BY <1>11 DEF r, ats

\* A card without an ATS is found with no historical bytes.
THEOREM BareTargetReadsBack ==
    ASSUME NEW uid \in Seq(u8), Len(uid) \in u8
    PROVE  ParseTargets(EncodeTarget(uid, << >>))
             = Target(ISO_A_TARGET_SLOT, CardPresence(uid, << >>))
<1> DEFINE r == EncodeTarget(uid, << >>)
           m == 6 + Len(uid)
<1>1. /\ Len(uid) \in Nat /\ r \in Seq(u8) /\ Len(r) = m
      /\ r[1] = 1 /\ r[2] = ISO_A_TARGET_SLOT /\ r[6] = Len(uid)
      /\ \A i \in 1..Len(uid) : r[6 + i] = uid[i]
  <2>1. << >> \in Seq(u8) /\ Len(<< >>) = 0
    OBVIOUS
  <2>2. /\ Len(uid) \in Nat /\ Len(<< >>) \in Nat
        /\ r \in Seq(u8) /\ Len(r) = 6 + Len(uid) + Len(<< >>)
        /\ r[1] = 1 /\ r[2] = ISO_A_TARGET_SLOT /\ r[6] = Len(uid)
        /\ \A i \in 1..Len(uid) : r[6 + i] = uid[i]
    BY <2>1, TargetShape
  <2> HIDE DEF r
  <2> QED BY <2>1, <2>2
<1> HIDE DEF r
<1>2. SubSeq(r, 7, m) = uid
  <2>1. ASSUME NEW i \in 1..Len(uid) PROVE r[7 + i - 1] = uid[i]
    <3>1. 7 + i - 1 = 6 + i
      OBVIOUS
    <3> QED BY <1>1, <3>1
  <2>2. 7 \in Nat /\ 7 >= 1 /\ m \in Nat /\ m = 7 + Len(uid) - 1 /\ m <= Len(r)
    BY <1>1
  <2> HIDE DEF m
  <2> QED BY <1>1, <2>1, <2>2, SliceIs
<1>3. ~(Len(r) < 6) /\ ~(Len(r) < m) /\ r # << >> /\ r[1] # 0 /\ 6 + r[6] = m
  BY <1>1
<1> HIDE DEF m
<1>4. ParseTargets(r) = Target(r[2], CardPresence(SubSeq(r, 7, 6 + r[6]), << >>))
  BY <1>1, <1>3 DEF ParseTargets
<1> QED BY <1>1, <1>2, <1>3, <1>4 DEF r

=============================================================================
