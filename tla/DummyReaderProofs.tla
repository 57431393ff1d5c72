------------------------- MODULE DummyReaderProofs --------------------------
(***************************************************************************)
(* Proofs about the dummy reader, for any APDUs, malformed or not, and any *)
(* number of calls.                                                        *)
(***************************************************************************)
EXTENDS DummyReader, SequenceTheorems, TLAPS

u8 == 0..255

-----------------------------------------------------------------------------
(* Short APDUs *)

LEMMA FourTuple ==
    ASSUME NEW a \in u8, NEW b \in u8, NEW c \in u8, NEW d \in u8, NEW h, h = <<a, b, c, d>>
    PROVE  h \in Seq(u8) /\ Len(h) = 4 /\ h[1] = a /\ h[2] = b /\ h[3] = c /\ h[4] = d
OBVIOUS

LEMMA HeaderShape ==
    ASSUME NEW h \in Headers
    PROVE  /\ h \in Seq(u8) /\ Len(h) = 4
           /\ h[1] \in u8 /\ h[2] \in u8 /\ h[3] \in u8 /\ h[4] \in u8
           /\ h = <<h[1], h[2], h[3], h[4]>>
<1>1. h \in u8 \X u8 \X u8 \X u8
  BY DummyAssumption DEF u8
<1>2. PICK a \in u8, b \in u8, c \in u8, d \in u8 : h = <<a, b, c, d>>
  BY ONLY <1>1, SMTT(30)
<1>3. h \in Seq(u8) /\ Len(h) = 4 /\ h[1] = a /\ h[2] = b /\ h[3] = c /\ h[4] = d
  BY ONLY <1>2, FourTuple, ZenonT(60)
<1>4. h = <<h[1], h[2], h[3], h[4]>>
  BY ONLY <1>2, <1>3, Zenon
<1>5. h[1] \in u8 /\ h[2] \in u8 /\ h[3] \in u8 /\ h[4] \in u8
  BY ONLY <1>2, <1>3, Zenon
<1> QED BY ONLY <1>3, <1>4, <1>5, Zenon

\* ConcatProperties for bytes, with the first byte.
LEMMA Joined ==
    ASSUME NEW s \in Seq(u8), NEW t \in Seq(u8)
    PROVE  /\ s \o t \in Seq(u8) /\ Len(s \o t) = Len(s) + Len(t)
           /\ Len(s) >= 1 => (s \o t)[1] = s[1]
<1>1. /\ s \o t \in Seq(u8) /\ Len(s \o t) = Len(s) + Len(t)
      /\ \A i \in 1..Len(s) + Len(t) : (s \o t)[i] = IF i <= Len(s) THEN s[i] ELSE t[i - Len(s)]
  BY ConcatProperties
<1>2. Len(s) \in Nat /\ Len(t) \in Nat
  OBVIOUS
<1>3. Len(s) >= 1 => 1 <= Len(s) /\ 1 \in 1..Len(s) + Len(t)
  BY <1>2
<1> QED BY ONLY <1>1, <1>3, Zenon

LEMMA JoinAssociates ==
    ASSUME NEW s \in Seq(u8), NEW t \in Seq(u8), NEW u \in Seq(u8)
    PROVE  (s \o t) \o u = s \o (t \o u)
BY ConcatAssociative

\* The two parts of a concatenation.
LEMMA Parts ==
    ASSUME NEW s \in Seq(u8), NEW t \in Seq(u8)
    PROVE  /\ SubSeq(s \o t, 1, Len(s)) = s
           /\ SubSeq(s \o t, Len(s) + 1, Len(s \o t)) = t
<1> DEFINE st == s \o t
           a  == SubSeq(st, 1, Len(s))
           b  == SubSeq(st, Len(s) + 1, Len(st))
<1>1. /\ Len(s) \in Nat /\ Len(t) \in Nat /\ st \in Seq(u8)
      /\ Len(st) = Len(s) + Len(t)
      /\ \A i \in 1..Len(s) + Len(t) : st[i] = IF i <= Len(s) THEN s[i] ELSE t[i - Len(s)]
  BY ConcatProperties
<1>2. \A i \in 1..Len(st) : st[i] \in u8
  BY <1>1
<1> HIDE DEF st
<1>3. /\ a \in Seq(u8)
      /\ Len(a) = IF 1 <= Len(s) THEN Len(s) - 1 + 1 ELSE 0
      /\ \A i \in 1..(Len(s) - 1 + 1) : a[i] = st[1 + i - 1]
  <2>1. /\ 1 \in Int /\ Len(s) \in Int /\ \A i \in 1..Len(s) : st[i] \in u8
    BY <1>1, <1>2
  <2> QED BY <2>1, SubSeqProperties
<1>4. /\ b \in Seq(u8)
      /\ Len(b) = IF Len(s) + 1 <= Len(st) THEN Len(st) - (Len(s) + 1) + 1 ELSE 0
      /\ \A i \in 1..(Len(st) - (Len(s) + 1) + 1) : b[i] = st[Len(s) + 1 + i - 1]
  <2>1. /\ Len(s) + 1 \in Int /\ Len(st) \in Int
        /\ \A i \in (Len(s) + 1)..Len(st) : st[i] \in u8
    BY <1>1, <1>2
  <2> QED BY <2>1, SubSeqProperties
<1> HIDE DEF a, b
<1>5. Len(a) = Len(s) /\ Len(b) = Len(t)
  BY <1>1, <1>3, <1>4
<1>6. \A i \in 1..Len(a) : a[i] = s[i]
  BY <1>1, <1>3, <1>5
<1>7. \A i \in 1..Len(b) : b[i] = t[i]
  <2> TAKE i \in 1..Len(b)
  <2>1. /\ i \in Nat /\ Len(s) + 1 + i - 1 = Len(s) + i
        /\ i \in 1..(Len(st) - (Len(s) + 1) + 1)
        /\ Len(s) + i \in 1..Len(s) + Len(t) /\ ~(Len(s) + i <= Len(s))
        /\ Len(s) + i - Len(s) = i
    BY <1>1, <1>5
  <2>2. b[i] = st[Len(s) + i]
    BY <1>4, <2>1
  <2>3. st[Len(s) + i] = t[Len(s) + i - Len(s)]
    BY <1>1, <2>1
  <2> QED BY <2>1, <2>2, <2>3
<1>8. a = s /\ b = t
  BY <1>3, <1>4, <1>5, <1>6, <1>7, SeqEqual
<1> QED BY <1>8 DEF a, b, st

\* What parse_short_apdu makes of a header and a body.
LEMMA ParsesParts ==
    ASSUME NEW h \in Seq(u8), Len(h) = 4, NEW body \in Seq(u8)
    PROVE  parse_short_apdu(h \o body) =
             IF Len(body) > 1 /\ Len(body) < 1 + body[1] THEN NotAnApdu
             ELSE [header |-> h,
                   data |-> IF Len(body) <= 1 THEN << >> ELSE SubSeq(body, 2, 1 + body[1])]
<1> DEFINE apdu == h \o body
<1>1. /\ SubSeq(apdu, 1, 4) = h /\ SubSeq(apdu, 5, Len(apdu)) = body
      /\ Len(apdu) \in Nat /\ Len(apdu) = 4 + Len(body) /\ Len(body) \in Nat
  <2>1. SubSeq(apdu, 1, Len(h)) = h /\ SubSeq(apdu, Len(h) + 1, Len(apdu)) = body
    BY Parts
  <2>2. Len(apdu) = Len(h) + Len(body)
    BY ConcatProperties
  <2>3. Len(body) \in Nat
    OBVIOUS
  <2> HIDE DEF apdu
  <2>4. 4 + Len(body) \in Nat /\ 4 + 1 = 5
    BY <2>3
  <2> QED BY <2>1, <2>2, <2>3, <2>4
<1>2. ~(Len(apdu) < 4)
  BY <1>1
<1> HIDE DEF apdu
<1>3. parse_short_apdu(apdu) =
        IF Len(body) > 1 /\ Len(body) < 1 + body[1] THEN NotAnApdu
        ELSE [header |-> h,
              data |-> IF Len(body) <= 1 THEN << >> ELSE SubSeq(body, 2, 1 + body[1])]
  BY <1>1, <1>2, Zenon DEF parse_short_apdu
<1> QED BY <1>3 DEF apdu

\* parse_short_apdu reads what the bytes say, whatever lies behind the data.
LEMMA EncodingReadsBack ==
    ASSUME NEW h \in Headers, NEW d \in Payloads, NEW apdu \in Encodings(h, d)
    PROVE  parse_short_apdu(apdu) = [header |-> h, data |-> d]
<1> DEFINE lc == <<Len(d)>>
<1>1. h \in Seq(u8) /\ Len(h) = 4
  BY HeaderShape
<1>2. d \in Seq(u8) /\ Len(d) \in u8 /\ Len(d) \in Nat
  <2>1. d \in Seq(u8) /\ Len(d) < 256
    BY DummyAssumption DEF u8
  <2>2. Len(d) \in Nat
    BY <2>1
  <2>3. \A n \in Nat : n < 256 => n \in u8
    BY DEF u8
  <2> QED BY <2>1, <2>2, <2>3
<1>3. lc \in Seq(u8) /\ Len(lc) = 1 /\ lc[1] = Len(d)
  BY <1>2
<1>4. \A rest \in Behind : rest \in Seq(u8)
  BY DummyAssumption DEF u8
<1> HIDE DEF lc
<1>5. ASSUME NEW rest \in Seq(u8), apdu = ((h \o lc) \o d) \o rest
      PROVE  parse_short_apdu(apdu) = [header |-> h, data |-> d]
  <2> DEFINE body == lc \o (d \o rest)
  <2>1. Len(rest) \in Nat /\ d \o rest \in Seq(u8) /\ Len(d \o rest) = Len(d) + Len(rest)
    BY ConcatProperties, <1>2
  <2>2. body \in Seq(u8) /\ Len(body) = 1 + (Len(d) + Len(rest)) /\ body[1] = Len(d)
    <3>1. body \in Seq(u8) /\ Len(body) = Len(lc) + Len(d \o rest) /\ body[1] = lc[1]
      <4> DEFINE x == d \o rest
      <4>1. x \in Seq(u8) /\ Len(lc) >= 1
        BY <1>3, <2>1
      <4> HIDE DEF x
      <4>2. lc \o x \in Seq(u8) /\ Len(lc \o x) = Len(lc) + Len(x) /\ (lc \o x)[1] = lc[1]
        BY <1>3, <4>1, Joined
      <4> QED BY <4>2 DEF x
    <3> HIDE DEF body
    <3> QED BY <1>3, <2>1, <3>1
  <2>3. apdu = h \o body
    <3>1. h \o lc \in Seq(u8)
      BY <1>1, <1>3, ConcatProperties
    <3>2. ((h \o lc) \o d) \o rest = (h \o lc) \o (d \o rest)
      BY <1>2, <3>1, JoinAssociates, ZenonT(60)
    <3>3. (h \o lc) \o (d \o rest) = h \o body
      BY <1>1, <1>3, <2>1, JoinAssociates, ZenonT(60)
    <3> QED BY <1>5, <3>2, <3>3
  <2>4. SubSeq(body, 2, 1 + Len(d)) = d
    <3>1. lc \o d \in Seq(u8) /\ Len(lc \o d) = 1 + Len(d)
      BY <1>2, <1>3, Joined
    <3>2. (lc \o d) \o rest = body
      BY <1>2, <1>3, JoinAssociates
    <3>3. CASE d = << >>
      <4>1. Len(d) = 0
        BY <3>3
      <4>2. SubSeq(body, 2, 1) = << >>
        BY <2>2
      <4> QED BY <3>3, <4>1, <4>2
    <3>4. CASE d # << >>
      <4>1. Len(d) >= 1
        BY <1>2, <3>4
      <4>2. 2 \in 1..Len(lc \o d) /\ 1 + Len(d) \in 1..Len(lc \o d)
        BY <1>2, <3>1, <4>1
      <4>3. SubSeq(body, 2, 1 + Len(d)) = SubSeq(lc \o d, 2, 1 + Len(d))
        BY <3>1, <3>2, <4>2, SubSeqOfConcat1
      <4>4. SubSeq(lc \o d, Len(lc) + 1, Len(lc \o d)) = d
        BY <1>2, <1>3, Parts
      <4> QED BY <1>3, <3>1, <4>3, <4>4
    <3> QED BY <3>3, <3>4
  <2> HIDE DEF body
  <2>5. CASE Len(body) <= 1
    <3>1. d = << >> /\ ~(Len(body) > 1)
      BY <1>2, <2>1, <2>2, <2>5
    <3> QED BY <1>1, <2>2, <2>3, <2>5, <3>1, ParsesParts
  <2>6. CASE Len(body) > 1
    <3>1. ~(Len(body) <= 1) /\ ~(Len(body) < 1 + body[1])
      BY <1>2, <2>1, <2>2, <2>6
    <3>2. parse_short_apdu(h \o body) = [header |-> h, data |-> SubSeq(body, 2, 1 + body[1])]
      BY <1>1, <2>2, <3>1, ParsesParts
    <3> QED BY <2>2, <2>3, <2>4, <3>2
  <2> QED BY <1>2, <2>1, <2>2, <2>5, <2>6
<1>6. ASSUME NEW rest \in Seq(u8), Len(rest) <= 1, d = << >>, apdu = h \o rest
      PROVE  parse_short_apdu(apdu) = [header |-> h, data |-> d]
  <2>1. ~(Len(rest) > 1)
    BY <1>6
  <2> QED BY <1>1, <1>6, <2>1, ParsesParts
<1>7. \/ \E rest \in Behind : apdu = ((h \o lc) \o d) \o rest
      \/ d = << >> /\ \E rest \in Behind : Len(rest) <= 1 /\ apdu = h \o rest
  BY DEF Encodings, lc
<1> QED BY <1>4, <1>5, <1>6, <1>7

LEMMA MalformedIsRefused ==
    ASSUME NEW apdu \in Malformed
    PROVE  parse_short_apdu(apdu) = NotAnApdu
<1>1. apdu \in Seq(u8) /\ (Len(apdu) < 4 \/ (Len(apdu) > 5 /\ Len(apdu) < 5 + apdu[5]))
  BY DummyAssumption DEF u8, TooShort
<1>2. CASE Len(apdu) > 5 /\ Len(apdu) < 5 + apdu[5]
  <2> DEFINE body == SubSeq(apdu, 5, Len(apdu))
  <2>1. Len(apdu) \in Nat /\ \A i \in 5..Len(apdu) : apdu[i] \in u8
    BY <1>1
  <2>2. /\ 5 \in Int /\ Len(apdu) \in Int /\ 1 \in 1..(Len(apdu) - 5 + 1)
        /\ 5 \in 5..Len(apdu)
    BY <1>2, <2>1
  <2>3. /\ Len(body) = IF 5 <= Len(apdu) THEN Len(apdu) - 5 + 1 ELSE 0
        /\ body[1] = apdu[5 + 1 - 1]
    BY <2>1, <2>2, SubSeqProperties
  <2>4. apdu[5] \in Nat
    <3>1. apdu[5] \in u8
      BY <2>1, <2>2
    <3>2. \A x \in u8 : x \in Nat
      BY DEF u8
    <3> QED BY <3>1, <3>2
  <2> HIDE DEF body
  <2>5. Len(body) > 1 /\ Len(body) < 1 + body[1]
    BY <1>2, <2>1, <2>3, <2>4
  <2> QED BY <2>5 DEF parse_short_apdu, body
<1> QED BY <1>1, <1>2 DEF parse_short_apdu

-----------------------------------------------------------------------------
(* All byte strings *)

\* A piece of a byte string, and all of it.
LEMMA Piece ==
    ASSUME NEW b \in Seq(u8), NEW m \in 1..Len(b) + 1, NEW n \in m - 1 .. Len(b)
    PROVE  SubSeq(b, m, n) \in Seq(u8) /\ Len(SubSeq(b, m, n)) = n - m + 1
<1>1. Len(b) \in Nat /\ \A i \in 1..Len(b) : b[i] \in u8
  OBVIOUS
<1>2. m \in Int /\ n \in Int /\ \A i \in m..n : b[i] \in u8
  BY <1>1
<1>3. /\ SubSeq(b, m, n) \in Seq(u8)
      /\ Len(SubSeq(b, m, n)) = IF m <= n THEN n - m + 1 ELSE 0
  BY <1>2, SubSeqProperties
<1> HIDE DEF u8
<1> QED BY <1>1, <1>2, <1>3

LEMMA FourBytes ==
    ASSUME NEW h \in Seq(u8), Len(h) = 4
    PROVE  h \in u8 \X u8 \X u8 \X u8
<1>1. h[1] \in u8 /\ h[2] \in u8 /\ h[3] \in u8 /\ h[4] \in u8
  OBVIOUS
<1>2. PICK w \in u8, x \in u8, y \in u8, z \in u8 :
        h[1] = w /\ h[2] = x /\ h[3] = y /\ h[4] = z
  BY ONLY <1>1
<1>3. PICK t : t = <<w, x, y, z>>
  OBVIOUS
<1>4. t \in Seq(u8) /\ Len(t) = 4 /\ t[1] = h[1] /\ t[2] = h[2] /\ t[3] = h[3] /\ t[4] = h[4]
  <2>1. t \in Seq(u8) /\ Len(t) = 4 /\ t[1] = w /\ t[2] = x /\ t[3] = y /\ t[4] = z
    BY ONLY <1>3, FourTuple, ZenonT(60)
  <2> QED BY ONLY <1>2, <2>1
<1>5. \A i \in 1..Len(h) : h[i] = t[i]
  <2>1. \A i \in 1..4 : i = 1 \/ i = 2 \/ i = 3 \/ i = 4
    OBVIOUS
  <2> QED BY ONLY <1>4, <2>1, Len(h) = 4, Zenon
<1>6. h = t
  BY ONLY <1>4, <1>5, h \in Seq(u8), Len(h) = 4, SeqEqual
<1>7. t \in u8 \X u8 \X u8 \X u8
  BY ONLY <1>3, SMTT(30)
<1> QED BY ONLY <1>6, <1>7, Zenon

\* When the constants leave nothing out, no byte string is left out either:
\* every one is too short or says some header and data, so that the theorems
\* below are about all that exchange_apdu can be given.
THEOREM EveryStringIsCovered ==
    ASSUME Headers = u8 \X u8 \X u8 \X u8,
           Payloads = {p \in Seq(u8) : Len(p) < 256},
           Behind = Seq(u8)
    PROVE  \A b \in Seq(u8) :
             TooShort(b) \/ \E h \in Headers, d \in Payloads : b \in Encodings(h, d)
<1> SUFFICES ASSUME NEW b \in Seq(u8), ~TooShort(b)
             PROVE  \E h \in Headers, d \in Payloads : b \in Encodings(h, d)
  OBVIOUS
<1> DEFINE n == Len(b)
           h == SubSeq(b, 1, 4)
<1>1. /\ n \in Nat /\ n >= 4 /\ \A i \in 1..n : b[i] \in u8
      /\ ~(n > 5 /\ n < 5 + b[5])
  BY DEF TooShort
<1>2. SubSeq(b, 1, n) = b
  BY <1>1
<1>3. h \in Seq(u8) /\ Len(h) = 4
  BY <1>1, Piece
<1>4. h \in Headers
  BY <1>3, FourBytes
<1>5. CASE n <= 5
  <2> DEFINE rest == SubSeq(b, 5, n)
  <2>1. rest \in Seq(u8) /\ Len(rest) <= 1
    BY <1>1, <1>5, Piece
  <2>2. b = h \o rest
    BY <1>1, <1>2, ConcatAdjacentSubSeq
  <2>3. << >> \in Payloads
    OBVIOUS
  <2> HIDE DEF n, h, rest
  <2>4. b \in Encodings(h, << >>)
    BY <2>1, <2>2 DEF Encodings
  <2> QED BY <1>4, <2>3, <2>4
<1>6. CASE n > 5
  <2> DEFINE k == b[5]
             d == SubSeq(b, 6, 5 + k)
             rest == SubSeq(b, 6 + k, n)
  <2>1. k \in u8 /\ k \in Nat /\ k < 256 /\ 5 + k <= n
    <3>1. 5 \in 1..n
      BY <1>1, <1>6
    <3>2. k \in u8 /\ ~(n < 5 + k)
      BY <1>1, <1>6, <3>1
    <3> HIDE DEF n, k
    <3> QED BY <1>1, <3>2 DEF u8
  <2>2. d \in Seq(u8) /\ Len(d) = k /\ rest \in Seq(u8)
    <3>1. /\ 6 \in 1..n + 1 /\ 5 + k \in 6 - 1 .. n
          /\ 6 + k \in 1..n + 1 /\ n \in (6 + k) - 1 .. n /\ (5 + k) - 6 + 1 = k
      BY <1>1, <1>6, <2>1
    <3> QED BY <3>1, Piece
  <2>3. SubSeq(b, 5, 5) = <<k>>
    <3>1. 5 \in 1..n /\ 5 \in 5..n /\ 5 + 1 = 6
      BY <1>1, <1>6
    <3>2. SubSeq(b, 5, 5) = <<k>> \o SubSeq(b, 5 + 1, 5)
      BY <3>1, SubSeqRecursiveFirst
    <3>3. SubSeq(b, 6, 5) = << >>
      BY SubSeqEmpty
    <3>4. <<k>> \o << >> = <<k>>
      BY <2>1, ConcatEmptySeq
    <3> QED BY <3>1, <3>2, <3>3, <3>4
  <2>4. /\ h \o <<k>> = SubSeq(b, 1, 5)
        /\ SubSeq(b, 1, 5) \o d = SubSeq(b, 1, 5 + k)
        /\ SubSeq(b, 1, 5 + k) \o rest = SubSeq(b, 1, n)
    <3>1. /\ 1 \in 1..n + 1 /\ 4 \in 1 - 1 .. n /\ 5 \in 4..n /\ 5 \in 1 - 1 .. n
          /\ 5 + k \in 5..n /\ 5 + k \in 1 - 1 .. n /\ n \in 5 + k .. n
          /\ 4 + 1 = 5 /\ 5 + 1 = 6 /\ 5 + k + 1 = 6 + k
      BY <1>1, <1>6, <2>1
    <3>2. h \o SubSeq(b, 4 + 1, 5) = SubSeq(b, 1, 5)
      BY <3>1, ConcatAdjacentSubSeq
    <3>3. SubSeq(b, 1, 5) \o SubSeq(b, 5 + 1, 5 + k) = SubSeq(b, 1, 5 + k)
      BY <3>1, ConcatAdjacentSubSeq
    <3>4. SubSeq(b, 1, 5 + k) \o SubSeq(b, 5 + k + 1, n) = SubSeq(b, 1, n)
      BY <3>1, ConcatAdjacentSubSeq
    <3> QED BY <2>3, <3>1, <3>2, <3>3, <3>4
  <2> HIDE DEF n, h, k, d, rest
  <2>5. b = h \o <<Len(d)>> \o d \o rest
    BY <1>2, <2>2, <2>4
  <2>6. d \in Payloads /\ rest \in Behind
    BY <2>1, <2>2
  <2>7. b \in Encodings(h, d)
    BY <2>5, <2>6 DEF Encodings
  <2> QED BY <1>4, <2>6, <2>7
<1> QED BY <1>1, <1>5, <1>6

-----------------------------------------------------------------------------
(* The session, as the history tells it *)

Data == {"U2F_V2", "GetInfo", "CtapError", "None"}
Words == {SW_SUCCESS, SW_INS_NOT_SUPPORTED, SW_WRONG_PARAMETERS, SW_WRONG_LENGTH,
          SW_FILE_NOT_FOUND}

\* What a call may be recorded as.
Entries == {PoweredOff} \cup [meant : {NotAnApdu} \cup [header : Headers, data : Payloads],
                              response : [data : Data, sw : Words]]

\* The properties of one entry, in a session or not.
Right(e, in) ==
    /\ IsCtapMessage(e.meant) /\ e.meant.data = <<4>>
         => e.response = IF in THEN Response("GetInfo", SW_SUCCESS)
                         ELSE Status(SW_INS_NOT_SUPPORTED)
    /\ e # PoweredOff =>
         ((e.response.sw = SW_WRONG_LENGTH)
            <=> (~IsApdu(e) \/ (IsCtapMessage(e.meant) /\ e.meant.data = << >> /\ in)))

\* The applet is selected exactly while the history is in a session.
SessionInv ==
    /\ selected_applet \in {"None", "Fido"}
    /\ log \in Seq(Entries)
    /\ selected_applet = "Fido" <=> InSession(Len(log) + 1)
    /\ \A i \in 1..Len(log) : Right(log[i], InSession(i))

\* An entry added to the history leaves the sessions before it alone, and goes
\* on with the session unless it ends it.
LEMMA SessionsGrow ==
    ASSUME log \in Seq(Entries), NEW e \in Entries, log' = Append(log, e),
           NEW n, n = Len(log)
    PROVE  /\ log' \in Seq(Entries) /\ Len(log') = n + 1
           /\ \A i \in 1..n : log'[i] = log[i]
           /\ log'[n + 1] = e
           /\ \A i \in 1..n + 1 : InSession(i)' <=> InSession(i)
           /\ InSession(n + 2)' <=> Selects(e) \/ (InSession(n + 1) /\ ~Ends(e))
<1>1. /\ n \in Nat /\ log' \in Seq(Entries) /\ Len(log') = n + 1
      /\ \A i \in 1..n : log'[i] = log[i]
      /\ log'[n + 1] = e
  BY AppendProperties
<1>2. \A i \in 1..n + 1 : InSession(i)' <=> InSession(i)
  <2> TAKE i \in 1..n + 1
  <2>1. \A j \in 1..i - 1 : j \in 1..n /\ \A k \in j + 1 .. i - 1 : k \in 1..n
    BY <1>1
  <2>2. /\ \A j \in 1..i - 1 : log'[j] = log[j]
        /\ \A j \in 1..i - 1 : \A k \in j + 1 .. i - 1 : log'[k] = log[k]
    BY <1>1, <2>1
  <2> QED BY <2>2 DEF InSession
<1>3. ASSUME InSession(n + 2)' PROVE Selects(e) \/ (InSession(n + 1) /\ ~Ends(e))
  <2>1. PICK j \in 1..(n + 2) - 1 : Selects(log'[j]) /\ \A k \in j + 1 .. (n + 2) - 1 : ~Ends(log'[k])
    BY <1>3 DEF InSession
  <2>2. CASE j = n + 1
    BY <1>1, <2>1, <2>2
  <2>3. CASE j # n + 1
    <3>1. j \in 1..n /\ n + 1 \in j + 1 .. (n + 2) - 1
      BY <1>1, <2>3
    <3>2. Selects(log[j]) /\ ~Ends(e)
      BY <1>1, <2>1, <3>1
    <3>3. \A k \in j + 1 .. (n + 1) - 1 : k \in 1..n /\ k \in j + 1 .. (n + 2) - 1
      BY <1>1, <3>1
    <3>4. \A k \in j + 1 .. (n + 1) - 1 : ~Ends(log[k])
      BY <1>1, <2>1, <3>3
    <3>5. j \in 1..(n + 1) - 1
      BY <1>1, <3>1
    <3>6. InSession(n + 1)
      BY <3>2, <3>4, <3>5 DEF InSession
    <3> QED BY <3>2, <3>6
  <2> QED BY <2>2, <2>3
<1>4. ASSUME Selects(e) PROVE InSession(n + 2)'
  <2>1. n + 1 \in 1..(n + 2) - 1 /\ \A k \in n + 1 + 1 .. (n + 2) - 1 : FALSE
    BY <1>1
  <2> QED BY <1>1, <1>4, <2>1 DEF InSession
<1>5. ASSUME InSession(n + 1), ~Ends(e) PROVE InSession(n + 2)'
  <2>1. PICK j \in 1..(n + 1) - 1 : Selects(log[j]) /\ \A k \in j + 1 .. (n + 1) - 1 : ~Ends(log[k])
    BY <1>5 DEF InSession
  <2>2. j \in 1..n /\ j \in 1..(n + 2) - 1
    BY <1>1
  <2>3. ASSUME NEW k \in j + 1 .. (n + 2) - 1 PROVE ~Ends(log'[k])
    <3>1. CASE k = n + 1
      BY <1>1, <1>5, <3>1
    <3>2. CASE k # n + 1
      <4>1. k \in j + 1 .. (n + 1) - 1 /\ k \in 1..n
        BY <1>1, <2>2, <3>2
      <4> QED BY <1>1, <2>1, <4>1
    <3> QED BY <3>1, <3>2
  <2> QED BY <1>1, <2>1, <2>2, <2>3 DEF InSession
<1> QED BY <1>1, <1>2, <1>3, <1>4, <1>5

\* A call whose entry is right, and that moves the applet as the history says.
LEMMA RightStep ==
    ASSUME SessionInv, NEW e \in Entries, log' = Append(log, e),
           selected_applet' \in {"None", "Fido"},
           Right(e, selected_applet = "Fido"),
           selected_applet' = "Fido" <=>
             Selects(e) \/ (selected_applet = "Fido" /\ ~Ends(e))
    PROVE  SessionInv'
<1>0. log \in Seq(Entries) /\ Len(log) \in Nat
  BY DEF SessionInv
<1>1. PICK n \in Nat : n = Len(log)
  BY <1>0
<1>2. /\ log' \in Seq(Entries) /\ Len(log') = n + 1
      /\ \A i \in 1..n : log'[i] = log[i]
      /\ log'[n + 1] = e
      /\ \A i \in 1..n + 1 : InSession(i)' <=> InSession(i)
      /\ InSession(n + 2)' <=> Selects(e) \/ (InSession(n + 1) /\ ~Ends(e))
  BY <1>0, <1>1, SessionsGrow
<1>3. /\ selected_applet = "Fido" <=> InSession(n + 1)
      /\ \A i \in 1..n : Right(log[i], InSession(i))
  BY <1>1 DEF SessionInv
<1>4. /\ 1..n + 1 = 1..n \cup {n + 1} /\ n + 1 + 1 = n + 2 /\ n + 1 \in 1..n + 1
      /\ 1..n \subseteq 1..n + 1
  BY <1>1
<1>5. ASSUME NEW i \in 1..n + 1 PROVE Right(log'[i], InSession(i)')
  <2>1. CASE i \in 1..n
    BY <1>2, <1>3, <1>4, <2>1, SMTT(60) DEF Right
  <2>2. CASE i = n + 1
    BY <1>2, <1>3, <1>4, <2>2 DEF Right
  <2> QED BY <1>4, <2>1, <2>2
<1>6. selected_applet' = "Fido" <=> InSession(n + 2)'
  BY <1>2, <1>3
<1>7. (selected_applet = "Fido")' <=> InSession(Len(log) + 1)'
  BY <1>2, <1>4, <1>6, ZenonT(60) DEF InSession
<1> QED BY <1>2, <1>5, <1>7 DEF SessionInv


-----------------------------------------------------------------------------
(* The calls *)

\* Which APDU a header stands for.
LEMMA HeaderKinds ==
    ASSUME NEW h \in Headers
    PROVE  /\ IsSelect(h) => h[1] = 0 /\ h[2] = 164
           /\ IsEnd(h) => h[1] = 128 /\ h[2] = 18
           /\ \A d : IsCtapMessage([header |-> h, data |-> d]) <=>
                       h[1] = 128 /\ h[2] = 16 /\ h[4] = 0 /\ h[3] % 128 = 0
           /\ h # << >>
<1>1. /\ h[1] \in u8 /\ h[2] \in u8 /\ h[3] \in u8 /\ h[4] \in u8
      /\ h = <<h[1], h[2], h[3], h[4]>> /\ Len(h) = 4
  BY HeaderShape
<1>2. IsSelect(h) => h[1] = 0 /\ h[2] = 164
  BY DEF IsSelect
<1>3. IsEnd(h) => h[1] = 128 /\ h[2] = 18
  BY DEF IsEnd, FIDO_NFCCTAP_CONTROL
<1>4. \A x \in u8 : x % 128 = 0 <=> x \in {0, 128}
  BY DEF u8
<1>5. ASSUME NEW d
      PROVE  IsCtapMessage([header |-> h, data |-> d]) <=>
               h[1] = 128 /\ h[2] = 16 /\ h[4] = 0 /\ h[3] % 128 = 0
  <2>1. IsCtapMessage([header |-> h, data |-> d]) <=>
          \E p1 \in {0, 128} : h = <<128, 16, p1, 0>>
    BY DEF IsCtapMessage, FIDO_NFCCTAP_MSG
  <2>2. \A p1 : h = <<128, 16, p1, 0>> <=> h[1] = 128 /\ h[2] = 16 /\ h[3] = p1 /\ h[4] = 0
    BY <1>1
  <2> QED BY <1>1, <1>4, <2>1, <2>2
<1>6. h # << >>
  BY ONLY <1>1, EmptySeq, SMT
<1> QED BY <1>2, <1>3, <1>5, <1>6

LEMMA StatusWords ==
    /\ SW_SUCCESS # SW_WRONG_LENGTH /\ SW_INS_NOT_SUPPORTED # SW_WRONG_LENGTH
    /\ SW_WRONG_PARAMETERS # SW_WRONG_LENGTH /\ SW_FILE_NOT_FOUND # SW_WRONG_LENGTH
    /\ SW_INS_NOT_SUPPORTED # SW_SUCCESS /\ SW_FILE_NOT_FOUND # SW_SUCCESS
    /\ SW_WRONG_PARAMETERS # SW_SUCCESS
    /\ \A data, sw : Response(data, sw).data = data /\ Response(data, sw).sw = sw
    /\ \A data \in Data, sw \in Words : Response(data, sw) \in [data : Data, sw : Words]
BY DEF SW_SUCCESS, SW_WRONG_LENGTH, SW_INS_NOT_SUPPORTED, SW_WRONG_PARAMETERS,
       SW_FILE_NOT_FOUND, Response

LEMMA ApduStep ==
    ASSUME SessionInv, NEW h \in Headers, NEW d \in Payloads, NEW apdu \in Encodings(h, d),
           handle_apdu(apdu, [header |-> h, data |-> d])
    PROVE  SessionInv'
<1> DEFINE a == [header |-> h, data |-> d]
           r == AnswerOf(a).response
           e == [meant |-> a, response |-> r]
           fido == selected_applet = "Fido"
           message == h[1] = 128 /\ h[2] = 16 /\ h[4] = 0 /\ h[3] % 128 = 0
<1>1. parse_short_apdu(apdu) = a
  BY EncodingReadsBack
<1>2. a # NotAnApdu /\ a.header = h /\ a.data = d
  BY HeaderKinds DEF NotAnApdu
<1>3. log' = Append(log, e) /\ selected_applet' = AnswerOf(a).applet
  BY <1>1, <1>2 DEF handle_apdu
<1>4. selected_applet \in {"None", "Fido"}
  BY DEF SessionInv
<1>5. /\ IsApdu(e) /\ e # PoweredOff /\ e.meant = a /\ e.response = r
      /\ IsCtapMessage(e.meant) <=> message
      /\ Selects(e) <=> IsSelect(h) /\ r.sw = SW_SUCCESS
      /\ Ends(e) <=> IsEnd(h) /\ r.sw = SW_SUCCESS
  <2>1. IsApdu(e) /\ e # PoweredOff /\ e.meant = a /\ e.response = r
    BY <1>2 DEF IsApdu, PoweredOff
  <2>2. IsCtapMessage(a) <=> message
    BY HeaderKinds
  <2> HIDE DEF a, e
  <2> QED BY <1>2, <2>1, <2>2 DEF Selects, Ends
<1> DEFINE Goal == /\ r \in [data : Data, sw : Words]
                   /\ selected_applet' \in {"None", "Fido"}
                   /\ Right(e, fido)
                   /\ selected_applet' = "Fido" <=> Selects(e) \/ (fido /\ ~Ends(e))
<1>6. SUFFICES Goal
  <2>1. e \in Entries
    BY <1>6 DEF Entries
  <2> HIDE DEF e
  <2> QED BY <1>3, <1>6, <2>1, RightStep
<1>7. ASSUME NEW x, NEW sw, AnswerOf(a).response = Response(x, sw), x \in Data,
             sw \in Words, selected_applet' \in {"None", "Fido"},
             message /\ d = << 4 >> => Response(x, sw) =
                IF fido THEN Response("GetInfo", SW_SUCCESS) ELSE Status(SW_INS_NOT_SUPPORTED),
             sw = SW_WRONG_LENGTH <=> message /\ d = << >> /\ fido,
             selected_applet' = "Fido" <=>
                (IsSelect(h) /\ sw = SW_SUCCESS)
                  \/ (fido /\ ~(IsEnd(h) /\ sw = SW_SUCCESS))
      PROVE  Goal
  <2>1. r = Response(x, sw) /\ r.sw = sw /\ r \in [data : Data, sw : Words]
    BY <1>7, StatusWords
  <2> HIDE DEF a, e, r, message, fido
  <2>2. Right(e, fido)
    BY <1>2, <1>5, <1>7, <2>1 DEF Right
  <2> QED BY <1>5, <1>7, <2>1, <2>2
<1> HIDE DEF Goal
<1>8. h[3] \in u8
  BY HeaderShape
<1>9. /\ IsSelect(h) => h[1] = 0 /\ h[2] = 164
      /\ IsEnd(h) => h[1] = 128 /\ h[2] = 18
  BY HeaderKinds
<1>10. /\ << >> # <<4>> /\ "U2F_V2" \in Data /\ "GetInfo" \in Data
       /\ "CtapError" \in Data /\ "None" \in Data
       /\ SW_SUCCESS \in Words /\ SW_INS_NOT_SUPPORTED \in Words
       /\ SW_WRONG_PARAMETERS \in Words /\ SW_WRONG_LENGTH \in Words
       /\ SW_FILE_NOT_FOUND \in Words
  BY DEF Data, Words
<1>11. CASE IsSelect(h) /\ d = FIDO_AID
  <2>1. AnswerOf(a).response = Response("U2F_V2", SW_SUCCESS) /\ AnswerOf(a).applet = "Fido"
    BY <1>2, <1>11 DEF AnswerOf
  <2> QED BY <1>3, <1>7, <1>9, <1>10, <1>11, <2>1, StatusWords
<1>12. CASE ~(IsSelect(h) /\ d = FIDO_AID) /\ h[1] = 128 /\ h[2] = 16 /\ h[4] = 0 /\ fido
  <2>1. AnswerOf(a).response = handle_ctap_msg(h[3], d) /\ AnswerOf(a).applet = "Fido"
    BY <1>2, <1>12 DEF AnswerOf, FIDO_NFCCTAP_MSG
  <2>2. ~IsEnd(h) /\ ~IsSelect(h)
    BY <1>9, <1>12
  <2>3. CASE h[3] % 128 # 0
    <3>1. AnswerOf(a).response = Response("None", SW_WRONG_PARAMETERS)
      BY <2>1, <2>3 DEF handle_ctap_msg, Status
    <3> QED BY <1>3, <1>7, <1>10, <1>12, <2>1, <2>2, <2>3, <3>1, StatusWords
  <2>4. CASE h[3] % 128 = 0 /\ d = << >>
    <3>1. AnswerOf(a).response = Response("None", SW_WRONG_LENGTH)
      BY <2>1, <2>4 DEF handle_ctap_msg, Status
    <3> QED BY <1>3, <1>7, <1>10, <1>12, <2>1, <2>2, <2>4, <3>1, StatusWords
  <2>5. CASE h[3] % 128 = 0 /\ d # << >>
    <3>1. AnswerOf(a).response = Response(IF d = <<4>> THEN "GetInfo" ELSE "CtapError", SW_SUCCESS)
      BY <2>1, <2>5 DEF handle_ctap_msg
    <3>2. CASE d = <<4>>
      BY <1>3, <1>7, <1>10, <1>12, <2>1, <2>2, <2>5, <3>1, <3>2, StatusWords
    <3>3. CASE d # <<4>>
      BY <1>3, <1>7, <1>10, <1>12, <2>1, <2>2, <2>5, <3>1, <3>3, StatusWords
    <3> QED BY <3>2, <3>3
  <2> QED BY <2>3, <2>4, <2>5
<1>13. CASE ~(IsSelect(h) /\ d = FIDO_AID) /\ IsEnd(h) /\ fido
  <2>1. AnswerOf(a).response = Response("None", SW_SUCCESS) /\ AnswerOf(a).applet = "None"
    BY <1>2, <1>9, <1>13 DEF AnswerOf, FIDO_NFCCTAP_MSG, Status
  <2>2. ~IsSelect(h) /\ h[2] # 16
    BY <1>9, <1>13
  <2> QED BY <1>3, <1>7, <1>10, <1>13, <2>1, <2>2, StatusWords
<1>14. CASE /\ ~(IsSelect(h) /\ d = FIDO_AID)
            /\ ~(h[1] = 128 /\ h[2] = 16 /\ h[4] = 0 /\ fido) /\ ~(IsEnd(h) /\ fido)
  <2>1. /\ AnswerOf(a).response = Status(IF IsSelect(h) THEN SW_FILE_NOT_FOUND
                                         ELSE SW_INS_NOT_SUPPORTED)
        /\ AnswerOf(a).applet = selected_applet
    BY <1>2, <1>14 DEF AnswerOf, FIDO_NFCCTAP_MSG
  <2>2. CASE IsSelect(h)
    <3>1. AnswerOf(a).response = Response("None", SW_FILE_NOT_FOUND) /\ h[1] # 128
      BY <1>9, <2>1, <2>2 DEF Status
    <3> QED BY <1>3, <1>4, <1>7, <1>10, <2>1, <3>1, StatusWords
  <2>3. CASE ~IsSelect(h)
    <3>1. /\ AnswerOf(a).response = Response("None", SW_INS_NOT_SUPPORTED)
          /\ Status(SW_INS_NOT_SUPPORTED) = Response("None", SW_INS_NOT_SUPPORTED)
      BY <2>1, <2>3 DEF Status
    <3>2. ~(message /\ fido)
      BY <1>14
    <3> QED BY <1>3, <1>4, <1>7, <1>10, <2>1, <2>3, <3>1, <3>2, StatusWords
  <2> QED BY <2>2, <2>3
<1> QED BY <1>11, <1>12, <1>13, <1>14

LEMMA MalformedStep ==
    ASSUME SessionInv, NEW apdu \in Malformed, handle_apdu(apdu, NotAnApdu)
    PROVE  SessionInv'
<1> DEFINE e == [meant |-> NotAnApdu, response |-> Status(SW_WRONG_LENGTH)]
<1>1. log' = Append(log, e) /\ UNCHANGED selected_applet
  BY MalformedIsRefused DEF handle_apdu
<1>2. /\ Status(SW_WRONG_LENGTH) \in [data : Data, sw : Words]
      /\ Status(SW_WRONG_LENGTH).sw = SW_WRONG_LENGTH
      /\ Status(SW_WRONG_LENGTH) # Status("power_off")
  BY DEF Status, Response, SW_WRONG_LENGTH, Data, Words
<1>3. e \in Entries /\ e # PoweredOff /\ ~IsApdu(e)
  BY <1>2 DEF Entries, PoweredOff, IsApdu
<1>4. ~IsCtapMessage(NotAnApdu)
  BY DEF IsCtapMessage, NotAnApdu
<1>5. ~Selects(e) /\ ~Ends(e)
  BY <1>3 DEF Selects, Ends
<1>6. Right(e, selected_applet = "Fido")
  BY <1>2, <1>3, <1>4 DEF Right
<1> HIDE DEF e
<1> QED BY <1>1, <1>3, <1>5, <1>6, RightStep DEF SessionInv

LEMMA PowerOffStep ==
    ASSUME SessionInv, power_off
    PROVE  SessionInv'
<1>1. PoweredOff \in Entries /\ PoweredOff.meant = NotAnApdu
  BY DEF Entries, PoweredOff
<1>2. ~IsCtapMessage(NotAnApdu)
  BY DEF IsCtapMessage, NotAnApdu
<1>3. ~Selects(PoweredOff) /\ Ends(PoweredOff)
  BY <1>1 DEF Selects, Ends, IsApdu
<1>4. Right(PoweredOff, selected_applet = "Fido")
  BY <1>1, <1>2 DEF Right
<1> QED BY <1>1, <1>3, <1>4, RightStep DEF power_off

LEMMA SessionInvAlways == DummySpec => []SessionInv
<1>1. DummyInit => SessionInv
  <2>1. << >> \in Seq(Entries) /\ Len(<< >>) = 0 /\ \A i \in 1..0 : FALSE
    OBVIOUS
  <2> QED BY <2>1 DEF DummyInit, SessionInv, InSession
<1>2. SessionInv /\ [DummyNext]_dummyVars => SessionInv'
  <2> SUFFICES ASSUME SessionInv, [DummyNext]_dummyVars PROVE SessionInv'
    OBVIOUS
  <2>1. CASE UNCHANGED dummyVars
    BY <2>1 DEF SessionInv, dummyVars, InSession
  <2> QED BY <2>1, ApduStep, MalformedStep, PowerOffStep DEF DummyNext, poll_card
<1> QED BY <1>1, <1>2, PTL DEF DummySpec

\* authenticatorGetInfo is answered exactly between a SELECT of the FIDO applet
\* and an END or a power-off (handle_apdu, handle_ctap_msg, power_off), for every
\* sequence of calls and every encoding of every short APDU.
THEOREM GetInfoOnlyInSession == DummySpec => []GetInfoExactlyInSession
<1>1. SessionInv => GetInfoExactlyInSession
  BY DEF SessionInv, Right, GetInfoExactlyInSession
<1> QED BY <1>1, SessionInvAlways, PTL

\* "Wrong length" answers exactly what is too short and a CTAP message without a
\* command: parse_short_apdu takes every other byte string, also with bytes
\* behind the APDU or in the form of extended length.
THEOREM WrongLengthIsWrong == DummySpec => []WrongLengthOnlyIfWrong
<1>1. SessionInv => WrongLengthOnlyIfWrong
  BY DEF SessionInv, Right, WrongLengthOnlyIfWrong
<1> QED BY <1>1, SessionInvAlways, PTL
=============================================================================
