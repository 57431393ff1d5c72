---------------------------- MODULE FormatsProofs ---------------------------
(***************************************************************************)
(* Proofs that every ATR, frame and target list the bytes can grow into    *)
(* reads back, and that no cut or changed one is misread.                  *)
(***************************************************************************)
EXTENDS Formats, Pn532FrameProofs

-----------------------------------------------------------------------------
(* Target lists cut short *)

\* What is left of a list of one card after n bytes of it.
CutList(c, r, m, n) ==
    /\ c \in Seq(u8) /\ Len(c) = n /\ n \in Nat /\ n >= 1
    /\ m \in Nat /\ m >= 6
    /\ c[1] = 1
    /\ n >= 2 => c[2] = ISO_A_TARGET_SLOT
    /\ n >= 6 => 6 + c[6] = m
    /\ n > m => c[m + 1] \in Nat /\ n < m + c[m + 1]

LEMMA CutListIsBad ==
    ASSUME NEW c, NEW r, NEW m, NEW n, CutList(c, r, m, n), n # m
    PROVE  ParseTargets(c) = BadTarget
<1>1. c # << >> /\ c[1] # 0 /\ Len(c) = n /\ n \in Nat /\ m \in Nat /\ m >= 6
  <2>1. Len(c) = n /\ n \in Nat /\ n >= 1 /\ c[1] = 1 /\ m \in Nat /\ m >= 6
    BY DEF CutList
  <2>2. Len(c) # 0 /\ 1 # 0
    BY ONLY <2>1, SMT
  <2>3. c # << >>
    BY ONLY <2>2, SMT
  <2> QED BY ONLY <2>1, <2>2, <2>3, Zenon
<1>2. CASE n < 6
  BY ONLY <1>1, <1>2, Zenon DEF ParseTargets
<1>3. CASE n >= 6 /\ n < m
  <2>1. 6 + c[6] = m
    BY ONLY <1>3, CutList(c, r, m, n), Zenon DEF CutList
  <2> QED BY ONLY <1>1, <1>3, <2>1, Zenon DEF ParseTargets
<1>4. CASE n > m
  <2>1. n >= 6
    BY ONLY <1>1, <1>4, SMT
  <2>2. 6 + c[6] = m /\ c[m + 1] \in Nat /\ n < m + c[m + 1]
    BY ONLY <1>4, <2>1, CutList(c, r, m, n), Zenon DEF CutList
  <2>3. ~(n < 6) /\ ~(n < m) /\ n # m
    BY ONLY <1>1, <1>4, SMT
  <2> QED BY ONLY <1>1, <2>2, <2>3, Zenon DEF ParseTargets
<1> QED BY ONLY <1>1, <1>2, <1>3, <1>4, n # m, SMT

LEMMA CutTarget ==
    ASSUME NEW uid \in Seq(u8), Len(uid) \in u8,
           NEW ats \in Seq(u8), Len(ats) >= 1, ats[1] = Len(ats),
           NEW n \in Nat, n >= 1, n < Len(EncodeTarget(uid, ats))
    PROVE  ParseTargets(SubSeq(EncodeTarget(uid, ats), 1, n))
             \in {BadTarget, Target(ISO_A_TARGET_SLOT, CardPresence(uid, << >>))}
<1> DEFINE r == EncodeTarget(uid, ats)
           c == SubSeq(r, 1, n)
           m == 6 + Len(uid)
<1>1. /\ Len(uid) \in Nat /\ Len(ats) \in Nat /\ r \in Seq(u8) /\ Len(r) = m + Len(ats)
      /\ r[1] = 1 /\ r[2] = ISO_A_TARGET_SLOT /\ r[6] = Len(uid)
      /\ \A i \in 1..Len(uid) : r[6 + i] = uid[i]
      /\ \A i \in 1..Len(ats) : r[m + i] = ats[i]
  BY TargetShape, ZenonT(60)
<1>2. n < Len(r)
  OBVIOUS
<1> HIDE DEF r
<1>3. c \in Seq(u8) /\ Len(c) = n /\ \A i \in 1..n : c[i] = r[i]
  <2>1. 1 \in Nat /\ 1 >= 1 /\ n <= Len(r) /\ n - 1 + 1 = n /\ 1 <= n
    BY <1>1, <1>2
  <2>2. /\ c \in Seq(u8)
        /\ Len(c) = IF 1 <= n THEN n - 1 + 1 ELSE 0
        /\ \A i \in 1..(n - 1 + 1) : c[i] = r[1 + i - 1]
    BY <1>1, <2>1, Slice
  <2> HIDE DEF c
  <2>3. \A i \in 1..n : 1 + i - 1 = i
    OBVIOUS
  <2> QED BY ONLY <2>1, <2>2, <2>3, Zenon
<1> HIDE DEF c
<1>4. m \in Nat /\ m >= 6 /\ m + 1 \in Nat
  BY <1>1
<1>5. c[1] = 1
  BY ONLY <1>1, <1>3, n \in Nat, n >= 1, SMT
<1>6. n >= 2 => c[2] = ISO_A_TARGET_SLOT
  BY ONLY <1>1, <1>3, n \in Nat, SMT
<1>7. n >= 6 => 6 + c[6] = m
  BY ONLY <1>1, <1>3, n \in Nat, SMT
<1>8. n > m => c[m + 1] \in Nat /\ n < m + c[m + 1]
  <2>1. SUFFICES ASSUME n > m PROVE c[m + 1] \in Nat /\ n < m + c[m + 1]
    OBVIOUS
  <2>2. m + 1 \in 1..n /\ 1 \in 1..Len(ats)
    BY <1>1, <1>4, <2>1
  <2>3. c[m + 1] = Len(ats)
    BY <1>1, <1>3, <2>2
  <2> QED BY ONLY <1>1, <1>2, <2>3, Zenon
<1>9. CutList(c, r, m, n)
  BY <1>3, <1>4, <1>5, <1>6, <1>7, <1>8 DEF CutList
<1>10. CASE n # m
  BY <1>9, <1>10, CutListIsBad DEF c, r
<1>11. CASE n = m
  <2>1. SubSeq(c, 7, m) = uid
    <3>1. ASSUME NEW i \in 1..Len(uid) PROVE c[7 + i - 1] = uid[i]
      <4>1. 7 + i - 1 = 6 + i /\ 6 + i \in 1..n
        BY <1>1, <1>11
      <4> QED BY <1>1, <1>3, <4>1
    <3>2. 7 \in Nat /\ 7 >= 1 /\ m = 7 + Len(uid) - 1 /\ m <= Len(c)
      BY <1>1, <1>3, <1>11
    <3> HIDE DEF m
    <3> QED BY <1>3, <1>4, <3>1, <3>2, SliceIs
  <2> HIDE DEF m
  <2>2. /\ Len(c) = m /\ ~(m < 6) /\ ~(m < m) /\ c # << >> /\ c[1] # 0
        /\ c[2] = ISO_A_TARGET_SLOT /\ 6 + c[6] = m
    <3>1. Len(c) = m /\ ~(m < 6) /\ ~(m < m) /\ Len(c) # 0 /\ n >= 2 /\ n >= 6
      BY <1>3, <1>4, <1>11
    <3>2. c # << >>
      BY ONLY <3>1, SMT
    <3> QED BY <1>5, <1>6, <1>7, <3>1, <3>2
  <2>3. ParseTargets(c) = Target(ISO_A_TARGET_SLOT, CardPresence(uid, << >>))
    BY ONLY <2>1, <2>2, Zenon DEF ParseTargets
  <2> QED BY <2>3 DEF c, r
<1> QED BY <1>10, <1>11

-----------------------------------------------------------------------------
(* The bytes that are grown *)

\* What is read has the lengths the formats can carry.
FormatsInv ==
    /\ subject \in {Atr, Frame} \cup ListedCards
    /\ bytes \in Seq(u8)
    /\ subject = Frame => Len(bytes) + 2 < FrameLimit
    /\ subject \in ListedCards => Len(bytes) <= 250

LEMMA KindsDiffer == Atr # Frame /\ Atr \notin ListedCards /\ Frame \notin ListedCards
BY DEF Atr, Frame, ListedCards

LEMMA FitsInFrame ==
    ASSUME NEW n \in PayloadLengths
    PROVE  n \in Nat /\ n + 2 < FrameLimit
<1>1. n \in 0..FrameLimit - 3
  BY ONLY FormatsAssumption, n \in PayloadLengths, ZenonT(60) DEF FormatsAssumption
<1>2. FrameLimit \in Nat
  BY ONLY SMT DEF FrameLimit
<1> QED BY ONLY <1>1, <1>2, SMT

LEMMA FormatsInvInit == FormatsInit => FormatsInv
<1>1. CASE subject \in {Atr} \cup ListedCards /\ bytes = << >>
  <2>1. bytes \in Seq(u8) /\ Len(bytes) = 0
    BY <1>1, SMT
  <2> QED BY <1>1, <2>1, KindsDiffer, SMT DEF FormatsInv
<1>2. ASSUME subject = Frame, NEW n \in StartLengths, bytes = [i \in 1..n |-> 165]
      PROVE  FormatsInv
  <2>1. n \in Nat /\ n + 2 < FrameLimit
    <3>1. n \in PayloadLengths
      BY FormatsAssumption, ZenonT(60) DEF FormatsAssumption
    <3> QED BY <3>1, FitsInFrame, Zenon
  <2>2. 165 \in u8
    BY ONLY SMT DEF u8
  <2>3. bytes \in Seq(u8) /\ Len(bytes) = n
    BY ONLY <1>2, <2>1, <2>2, SMT
  <2> QED BY ONLY <1>2, <2>1, <2>3, KindsDiffer, Zenon DEF FormatsInv
<1> QED BY <1>1, <1>2 DEF FormatsInit

LEMMA GrownByOne ==
    ASSUME NEW s \in Seq(u8), NEW b \in u8
    PROVE  Append(s, b) \in Seq(u8) /\ Len(Append(s, b)) = Len(s) + 1
OBVIOUS

LEMMA FormatsInvNext ==
    FormatsInv /\ [GrowHistorical \/ GrowPayload \/ GrowAts]_formatVars => FormatsInv'
<1> SUFFICES ASSUME FormatsInv, [GrowHistorical \/ GrowPayload \/ GrowAts]_formatVars
             PROVE  FormatsInv'
  OBVIOUS
<1>1. bytes \in Seq(u8) /\ Len(bytes) \in Nat
  BY DEF FormatsInv
<1>2. /\ AtrByteValues \subseteq u8 /\ FrameByteValues \subseteq u8
      /\ AtsByteValues \subseteq u8
      /\ MaxAts \in 0..250
  BY FormatsAssumption, ZenonT(60) DEF FormatsAssumption, u8
<1>3. CASE GrowHistorical
  <2>1. bytes' \in Seq(u8)
    BY <1>1, <1>2, <1>3, GrownByOne, Zenon DEF GrowHistorical
  <2> QED BY <1>3, <2>1, KindsDiffer, Zenon DEF GrowHistorical, FormatsInv
<1>4. CASE GrowPayload
  <2>1. bytes' \in Seq(u8) /\ Len(bytes') = Len(bytes) + 1
    BY <1>1, <1>2, <1>4, GrownByOne, Zenon DEF GrowPayload
  <2>2. Len(bytes') + 2 < FrameLimit
    BY <1>4, <2>1, FitsInFrame, Zenon DEF GrowPayload
  <2> QED BY <1>4, <2>1, <2>2, KindsDiffer, Zenon DEF GrowPayload, FormatsInv
<1>5. CASE GrowAts
  <2>1. bytes' \in Seq(u8) /\ Len(bytes') = Len(bytes) + 1 /\ Len(bytes) < MaxAts
    BY <1>1, <1>2, <1>5, GrownByOne, Zenon DEF GrowAts
  <2>2. Len(bytes') <= 250
    BY ONLY <1>1, <1>2, <2>1, SMT
  <2>3. subject' = subject /\ subject \in ListedCards /\ subject' # Frame
    BY <1>5, KindsDiffer, Zenon DEF GrowAts
  <2> QED BY ONLY FormatsInv, <2>1, <2>2, <2>3, SMT DEF FormatsInv, ListedCards
<1>6. CASE UNCHANGED formatVars
  BY <1>6 DEF FormatsInv, formatVars, ListedCards
<1> QED BY <1>3, <1>4, <1>5, <1>6

\* Whatever is grown stays within the lengths its format can carry, so that the
\* theorems below speak of every state of the specification.
LEMMA FormatsTypeCorrect == FormatsSpec => []FormatsInv
BY FormatsInvInit, FormatsInvNext, PTL DEF FormatsSpec

-----------------------------------------------------------------------------
(* Frames read back *)

LEMMA ResponseCodeType == ResponseCode \in u8 /\ ResponseCode + 10 \in u8
BY DEF ResponseCode, u8

\* receive_dynamic_response_from returns the payload of every frame a PN532 can
\* send, of one-byte and of two-byte length, and takes no byte that follows it.
THEOREM FramesReadBack == FormatsSpec => []FrameReadsBack
<1>1. FormatsInv => FrameReadsBack
  <2> SUFFICES ASSUME FormatsInv, subject = Frame, NEW rest \in Behind
               PROVE  ReceiveDynamicResponse(Sent \o rest, ResponseCode)
                        = Parsed("Ok", bytes, Len(Sent))
    BY Zenon DEF FrameReadsBack
  <2>1. bytes \in Seq(u8) /\ Len(bytes) + 2 < FrameLimit
    BY Zenon DEF FormatsInv
  <2>2. rest \in Seq(u8)
    <3>1. Sent \in Seq(u8)
      BY <2>1, FrameType, ResponseCodeType, Zenon DEF Sent
    <3>2. << >> \in Seq(u8) /\ <<0>> \in Seq(u8)
      BY ONLY SMT DEF u8
    <3> QED BY <3>1, <3>2, Zenon DEF Behind
  <2> QED BY <2>1, <2>2, FrameReadsBackAlways, ResponseCodeType, Zenon DEF Sent
<1> QED BY <1>1, FormatsTypeCorrect, PTL

\* Of every such frame, receive_dynamic_response_from waits for the last byte:
\* with any number of bytes less it reads nothing and reports no error.
THEOREM PartialFramesWait == FormatsSpec => []PartialFrameWaits
<1>1. FormatsInv => PartialFrameWaits
  <2> SUFFICES ASSUME FormatsInv, subject = Frame, NEW n \in 0..Len(Sent) - 1
               PROVE  ReceiveDynamicResponse(SubSeq(Sent, 1, n), ResponseCode).tag = "Short"
    BY Zenon DEF PartialFrameWaits
  <2>1. bytes \in Seq(u8) /\ Len(bytes) + 2 < FrameLimit
    BY Zenon DEF FormatsInv
  <2>2. n \in Nat /\ n < Len(Sent)
    <3>1. Len(Sent) \in Nat
      BY <2>1, FrameType, ResponseCodeType, Zenon DEF Sent
    <3> QED BY ONLY <3>1, n \in 0..Len(Sent) - 1, SMT
  <2>3. ReceiveDynamicResponse(SubSeq(Sent, 1, n), ResponseCode) = Parsed("Short", << >>, 0)
    BY <2>1, <2>2, PartialFrameAlwaysWaits, ResponseCodeType, Zenon DEF Sent
  <2> QED BY ONLY <2>3, SMT DEF Parsed
<1> QED BY <1>1, FormatsTypeCorrect, PTL

-----------------------------------------------------------------------------
(* Target lists read back *)

LEMMA AtMostThreeBits ==
    ASSUME NEW bits \in SUBSET AtsBits
    PROVE  Cardinality(bits) \in 0..3
<1> DEFINE a == {ATS_T0_TA_PRESENT}
           b == a \cup {ATS_T0_TB_PRESENT}
           c == b \cup {ATS_T0_TC_PRESENT}
<1>1. IsFiniteSet(a) /\ Cardinality(a) = 1
  BY FS_Singleton
<1>2. IsFiniteSet(b) /\ Cardinality(b) \in {1, 2}
  BY <1>1, FS_AddElement
<1>3. IsFiniteSet(c) /\ Cardinality(c) \in {1, 2, 3}
  BY <1>2, FS_AddElement
<1>4. bits \subseteq c
  BY DEF AtsBits
<1>5. Cardinality(bits) <= Cardinality(c) /\ Cardinality(bits) \in Nat
  BY <1>3, <1>4, FewBits, FS_Subset
<1> QED BY ONLY <1>3, <1>5, SMT

LEMMA ListedCardType ==
    ASSUME FormatsInv, subject \in ListedCards
    PROVE  /\ subject.uid \in Seq(u8) /\ Len(subject.uid) \in u8
           /\ subject.bits \in SUBSET AtsBits /\ bytes \in Seq(u8)
           /\ 2 + Cardinality(subject.bits) + Len(bytes) \in u8
<1>1. subject.uid \in Uids /\ subject.bits \in SUBSET AtsBits
  BY ONLY subject \in ListedCards, SMT DEF ListedCards, AtsBits
<1>2. subject.uid \in Seq(u8) /\ Len(subject.uid) < 256
  BY ONLY <1>1, FormatsAssumption, ZenonT(60) DEF FormatsAssumption, u8
<1>3. Len(subject.uid) \in u8
  <2>1. Len(subject.uid) \in Nat
    BY ONLY <1>2, LenProperties, Zenon
  <2>2. \A n \in Nat : n < 256 => n \in u8
    BY ONLY SMT DEF u8
  <2> QED BY ONLY <1>2, <2>1, <2>2, ZenonT(60)
<1>4. bytes \in Seq(u8) /\ Len(bytes) <= 250
  BY Zenon DEF FormatsInv
<1>5. Cardinality(subject.bits) \in 0..3
  BY ONLY <1>1, AtMostThreeBits, Zenon
<1>6. 2 + Cardinality(subject.bits) + Len(bytes) \in u8
  <2>1. Len(bytes) \in Nat
    BY ONLY <1>4, LenProperties, Zenon
  <2>2. \A c \in 0..3, n \in Nat : n <= 250 => 2 + c + n \in u8
    BY ONLY SMT DEF u8
  <2> QED BY ONLY <1>4, <1>5, <2>1, <2>2, ZenonT(60)
<1> QED BY ONLY <1>1, <1>2, <1>3, <1>4, <1>6, Zenon

\* poll_card finds every card the chip can list with its UID and exactly its
\* historical bytes, whichever interface bytes its ATS has.
THEOREM TargetsReadBack == FormatsSpec => []TargetReadsBack
<1>1. FormatsInv => TargetReadsBack
  BY ListedCardType, TargetReadsBackAlways, Zenon DEF TargetReadsBack, TargetList
<1> QED BY <1>1, FormatsTypeCorrect, PTL

\* Of a target list that ends early poll_card makes an error, never another
\* card; without the whole ATS it is the same card without historical bytes.
THEOREM CutListsNotMisread == FormatsSpec => []CutListNotMisread
<1>1. FormatsInv => CutListNotMisread
  <2> SUFFICES ASSUME FormatsInv, subject \in ListedCards,
                      NEW n \in 1..Len(TargetList) - 1
               PROVE  ParseTargets(SubSeq(TargetList, 1, n))
                        \in {BadTarget, Target(ISO_A_TARGET_SLOT,
                                               CardPresence(subject.uid, << >>))}
    BY Zenon DEF CutListNotMisread
  <2> DEFINE ats == EncodeAts(subject.bits, bytes)
  <2>1. /\ ats \in Seq(u8) /\ Len(ats) = 2 + Cardinality(subject.bits) + Len(bytes)
        /\ ats[1] = Len(ats)
    BY ListedCardType, AtsShape
  <2>2. TargetList = EncodeTarget(subject.uid, ats)
    BY Zenon DEF TargetList
  <2> HIDE DEF ats
  <2>3. Len(ats) >= 1
    <3>1. Cardinality(subject.bits) \in Nat /\ Len(bytes) \in Nat
      BY ListedCardType, FewBits
    <3> QED BY ONLY <2>1, <3>1, SMT
  <2>4. Len(TargetList) \in Nat
    BY ONLY ListedCardType, FormatsInv, subject \in ListedCards, <2>1, <2>2, TargetShape,
       ZenonT(60)
  <2>5. n \in Nat /\ n >= 1 /\ n < Len(TargetList)
    BY ONLY <2>4, n \in 1..Len(TargetList) - 1, SMT
  <2>6. subject.uid \in Seq(u8) /\ Len(subject.uid) \in u8
    BY ListedCardType, Zenon
  <2> QED BY ONLY <2>1, <2>2, <2>3, <2>5, <2>6, CutTarget, Zenon
<1> QED BY <1>1, FormatsTypeCorrect, PTL

-----------------------------------------------------------------------------
(* Frames with one byte changed *)

\* One changed byte changes the sum.
LEMMA SumsShift ==
    ASSUME NEW b \in Seq(u8), NEW c \in Seq(u8), NEW s, NEW t, IsSums(s, b), IsSums(t, c),
           Len(b) = Len(c), NEW k \in 1..Len(b), \A j \in 1..Len(b) : j # k => c[j] = b[j]
    PROVE  t[Len(b)] - s[Len(b)] = c[k] - b[k]
<1> DEFINE S == {n \in Nat : k + n <= Len(b) => t[k + n] - s[k + n] = c[k] - b[k]}
<1>1. Len(b) \in Nat /\ k \in Nat /\ k >= 1 /\ k <= Len(b) /\ k - 1 \in Nat
  OBVIOUS
<1>2. \A j \in 1..Len(b) : /\ s[j - 1] \in Nat /\ t[j - 1] \in Nat
                           /\ b[j] \in Nat /\ c[j] \in Nat
                           /\ s[j] = s[j - 1] + b[j] /\ t[j] = t[j - 1] + c[j]
  <2>1. SUFFICES ASSUME NEW j \in 1..Len(b)
                 PROVE  /\ s[j - 1] \in Nat /\ t[j - 1] \in Nat
                        /\ b[j] \in Nat /\ c[j] \in Nat
                        /\ s[j] = s[j - 1] + b[j] /\ t[j] = t[j - 1] + c[j]
    OBVIOUS
  <2>2. j - 1 \in 0..Len(b) /\ j - 1 \in 0..Len(c) /\ j \in 1..Len(c)
    BY <1>1
  <2>3. b[j] \in Nat /\ c[j] \in Nat
    BY <2>2, U8IsNat
  <2>4. s[j - 1] \in Nat /\ t[j - 1] \in Nat
    BY <2>2 DEF IsSums
  <2>5. s[j] = s[j - 1] + b[j] /\ t[j] = t[j - 1] + c[j]
    BY <2>2 DEF IsSums
  <2> QED BY ONLY <2>3, <2>4, <2>5, Zenon
<1>3. s[k - 1] = t[k - 1]
  <2>1. k - 1 <= Len(b) /\ k - 1 <= Len(c) /\ \A j \in 1..k - 1 : b[j] = c[j]
    BY <1>1
  <2> QED BY <1>1, <2>1, SumsAgree
<1>4. 0 \in S
  BY <1>1, <1>2, <1>3
<1>5. ASSUME NEW n \in Nat, n \in S PROVE n + 1 \in S
  <2>1. SUFFICES ASSUME k + (n + 1) <= Len(b)
                 PROVE  t[k + (n + 1)] - s[k + (n + 1)] = c[k] - b[k]
    BY <1>1
  <2>2. t[k + n] - s[k + n] = c[k] - b[k]
    BY <1>1, <1>5, <2>1
  <2>3. PICK j \in 1..Len(b) : j = k + (n + 1) /\ j # k /\ j - 1 = k + n
    BY <1>1, <2>1
  <2>4. /\ s[j - 1] \in Nat /\ t[j - 1] \in Nat /\ b[j] \in Nat /\ c[j] = b[j]
        /\ s[j] = s[j - 1] + b[j] /\ t[j] = t[j - 1] + c[j]
    BY <1>2, <2>3
  <2>5. t[j] - s[j] = t[j - 1] - s[j - 1]
    BY ONLY <2>4, SMT
  <2> QED BY ONLY <2>2, <2>3, <2>5, Zenon
<1>6. \A n \in Nat : n \in S
  <2> HIDE DEF S
  <2> QED BY <1>4, <1>5, SetInduction
<1>7. Len(b) - k \in Nat /\ k + (Len(b) - k) = Len(b)
  BY <1>1
<1>8. Len(b) - k \in S
  <2> HIDE DEF S
  <2> QED BY <1>6, <1>7
<1> QED BY <1>1, <1>7, <1>8

\* Two sums that differ by less than 256 leave different remainders.
LEMMA SameRemainder ==
    ASSUME NEW p \in Nat, NEW q \in Nat, NEW x \in u8, NEW y \in u8,
           q - p = y - x, q % 256 = p % 256
    PROVE  x = y
<1>1. \A v \in Nat : \E d, r \in Int : v = 256 * d + r /\ r = v % 256
  <2> SUFFICES ASSUME NEW v \in Nat
               PROVE  \E d, r \in Int : v = 256 * d + r /\ r = v % 256
    OBVIOUS
  <2>1. v \div 256 \in Int /\ v % 256 \in Int /\ v = 256 * (v \div 256) + (v % 256)
    OBVIOUS
  <2> QED BY <2>1
<1>2. PICK d, r \in Int : p = 256 * d + r /\ r = p % 256
  BY ONLY p \in Nat, <1>1, SMT
<1>3. PICK e, r2 \in Int : q = 256 * e + r2 /\ r2 = q % 256
  BY ONLY q \in Nat, <1>1, SMT
<1>4. r2 = r
  BY ONLY q % 256 = p % 256, <1>2, <1>3, SMT
<1>5. x \in Int /\ y \in Int /\ x >= 0 /\ y >= 0 /\ x <= 255 /\ y <= 255
  BY ONLY x \in u8, y \in u8, SMT DEF u8
<1>6. y - x = 256 * (e - d)
  BY ONLY q - p = y - x, <1>2, <1>3, <1>4, <1>5, SMT
<1> QED BY ONLY <1>2, <1>3, <1>5, <1>6, SMT

LEMMA SumChanges ==
    ASSUME NEW b \in Seq(u8), NEW c \in Seq(u8), Len(b) = Len(c), NEW k \in 1..Len(b),
           c[k] # b[k], \A j \in 1..Len(b) : j # k => c[j] = b[j]
    PROVE  WrappingSum(c) # WrappingSum(b)
<1>1. PICK s : IsSums(s, b)
  BY SumsExist
<1>2. PICK t : IsSums(t, c)
  BY SumsExist
<1>3. t[Len(b)] - s[Len(b)] = c[k] - b[k]
  BY <1>1, <1>2, SumsShift
<1>4. WrappingSum(b) = s[Len(b)] % 256 /\ WrappingSum(c) = t[Len(b)] % 256
  BY <1>1, <1>2, SumOfHalves
<1>5. s[Len(b)] \in Nat /\ t[Len(b)] \in Nat
  <2>1. Len(b) \in 0..Len(b) /\ Len(c) \in 0..Len(c) /\ Len(b) = Len(c)
    OBVIOUS
  <2>2. s[Len(b)] \in Nat
    BY <1>1, <2>1 DEF IsSums
  <2>3. t[Len(c)] \in Nat
    BY <1>2, <2>1 DEF IsSums
  <2> QED BY ONLY <2>1, <2>2, <2>3, Zenon
<1>6. b[k] \in u8 /\ c[k] \in u8
  OBVIOUS
<1>7. t[Len(b)] % 256 = s[Len(b)] % 256 => c[k] = b[k]
  BY ONLY <1>3, <1>5, <1>6, SameRemainder, ZenonT(60)
<1>8. t[Len(b)] % 256 # s[Len(b)] % 256
  BY ONLY c[k] # b[k], <1>7, Zenon
<1> QED BY <1>4, <1>8

\* What receive_dynamic_response_from has found in an input it accepts: a header
\* of k bytes for a frame of n, and that frame.
Accepted(in, code, k, n) ==
    /\ in \in Seq(u8) /\ Len(in) \in Nat /\ k \in {5, 8} /\ n \in Nat /\ n >= 2
    /\ Len(in) >= k + n + 2 /\ HeaderOk(in, k, n)
    /\ in[k + 1] = PN532_TO_HOST /\ in[k + 2] = code /\ in[k + n + 2] = POSTAMBLE
    /\ WrappingSum(SubSeq(in, k + 1, k + n + 1)) = 0

LEMMA AcceptedFrame ==
    ASSUME NEW in \in Seq(u8), NEW code \in u8, ReceiveDynamicResponse(in, code).tag = "Ok"
    PROVE  \E k \in {5, 8}, n \in Nat :
              /\ Accepted(in, code, k, n)
              /\ ReceiveDynamicResponse(in, code).used = k + n + 2
<1> DEFINE extended  == IsExtended(in)
           header    == IF extended THEN 8 ELSE 5
           frame_len == IF extended THEN 256 * in[6] + in[7] ELSE in[4]
           total     == header + BodyLen(frame_len)
           frame     == SubSeq(in, header + 1, total)
           start     == IF extended THEN 6 ELSE 4
           result    == ReceiveDynamicResponse(in, code)
<1>1. result
      = IF Len(in) < 5 THEN Parsed("Short", << >>, 0)
        ELSE IF SubSeq(in, 1, 3) # PREAMBLE THEN Parsed("BadResponseFrame", << >>, 5)
        ELSE IF Len(in) < header THEN Parsed("Short", << >>, 0)
        ELSE IF WrappingSum(SubSeq(in, start, header)) # 0
             THEN Parsed("CrcError", << >>, header)
        ELSE IF frame_len = 0 THEN Parsed("BadResponseFrame", << >>, header)
        ELSE IF frame_len = 1 THEN Parsed("Syntax", << >>, header)
        ELSE IF Len(in) < total THEN Parsed("Short", << >>, 0)
        ELSE IF Last(frame) # POSTAMBLE \/ frame[1] # PN532_TO_HOST \/ frame[2] # code
             THEN Parsed("BadResponseFrame", << >>, total)
        ELSE IF ~ChecksumOk(Front(frame)) THEN Parsed("CrcError", << >>, total)
        ELSE Parsed("Ok", SubSeq(frame, 3, frame_len), total)
  BY DEF ReceiveDynamicResponse
<1>2. result.tag = "Ok"
  OBVIOUS
<1>3. /\ header \in {5, 8} /\ (extended <=> header = 8)
      /\ start = IF header = 8 THEN 6 ELSE 4
      /\ frame_len = IF header = 8 THEN 256 * in[6] + in[7] ELSE in[4]
  OBVIOUS
<1>4. total = header + (frame_len + 2)
  BY Zenon DEF BodyLen
<1>5. frame = SubSeq(in, header + 1, total)
  OBVIOUS
<1>6. extended <=> IsExtended(in)
  OBVIOUS
<1> HIDE DEF extended, header, frame_len, total, frame, start, result
<1>7. /\ ~(Len(in) < 5) /\ SubSeq(in, 1, 3) = PREAMBLE /\ ~(Len(in) < header)
      /\ WrappingSum(SubSeq(in, start, header)) = 0
      /\ frame_len # 0 /\ frame_len # 1 /\ ~(Len(in) < total)
      /\ Last(frame) = POSTAMBLE /\ frame[1] = PN532_TO_HOST /\ frame[2] = code
      /\ ChecksumOk(Front(frame)) /\ result.used = total
  <2> DEFINE Error(tag, used) == Parsed(tag, << >>, used)
             ok == Parsed("Ok", SubSeq(frame, 3, frame_len), total)
  <2>1. \A used : /\ Error("Short", used).tag # "Ok" /\ Error("Syntax", used).tag # "Ok"
                  /\ Error("BadResponseFrame", used).tag # "Ok"
                  /\ Error("CrcError", used).tag # "Ok"
    BY DEF Parsed
  <2>2. ok.used = total
    BY DEF Parsed
  <2> HIDE DEF Error, ok
  <2>3. result
        = IF Len(in) < 5 THEN Error("Short", 0)
          ELSE IF SubSeq(in, 1, 3) # PREAMBLE THEN Error("BadResponseFrame", 5)
          ELSE IF Len(in) < header THEN Error("Short", 0)
          ELSE IF WrappingSum(SubSeq(in, start, header)) # 0 THEN Error("CrcError", header)
          ELSE IF frame_len = 0 THEN Error("BadResponseFrame", header)
          ELSE IF frame_len = 1 THEN Error("Syntax", header)
          ELSE IF Len(in) < total THEN Error("Short", 0)
          ELSE IF Last(frame) # POSTAMBLE \/ frame[1] # PN532_TO_HOST \/ frame[2] # code
               THEN Error("BadResponseFrame", total)
          ELSE IF ~ChecksumOk(Front(frame)) THEN Error("CrcError", total)
          ELSE ok
    BY ONLY <1>1, Zenon DEF Error, ok
  <2> QED BY ONLY <1>2, <2>1, <2>2, <2>3, SMT
<1>8. Len(in) \in Nat
  BY LenProperties
<1>9. frame_len \in Nat
  <2>1. CASE header = 8
    <3>1. 6 \in 1..Len(in) /\ 7 \in 1..Len(in)
      BY ONLY <1>7, <1>8, <2>1, SMT
    <3>2. in[6] \in Nat /\ in[7] \in Nat
      BY <3>1, U8IsNat
    <3> QED BY ONLY <1>3, <2>1, <3>2, SMT
  <2>2. CASE header # 8
    <3>1. 4 \in 1..Len(in)
      BY ONLY <1>7, <1>8, SMT
    <3>2. in[4] \in Nat
      BY <3>1, U8IsNat
    <3> QED BY ONLY <1>3, <2>2, <3>2, SMT
  <2> QED BY ONLY <2>1, <2>2, Zenon
<1>10. /\ header \in Nat /\ frame_len >= 2 /\ Len(in) >= header + frame_len + 2
       /\ total = header + frame_len + 2
  <2>1. header \in Nat
    BY ONLY <1>3, SMT
  <2> QED BY ONLY <1>4, <1>7, <1>8, <1>9, <2>1, SMT
<1>11. HeaderOk(in, header, frame_len)
  BY ONLY <1>3, <1>6, <1>7, Zenon DEF HeaderOk
<1>12. /\ frame[1] = in[header + 1] /\ frame[2] = in[header + 2]
       /\ Last(frame) = in[header + frame_len + 2]
       /\ Front(frame) = SubSeq(in, header + 1, header + frame_len + 1)
  <2> DEFINE g == SubSeq(in, header + 1, header + (frame_len + 2))
  <2>1. /\ g[1] = in[header + 1] /\ g[2] = in[header + 2]
        /\ Last(g) = in[header + frame_len + 2]
        /\ Front(g) = SubSeq(in, header + 1, header + frame_len + 1)
    BY <1>9, <1>10, FrameSlices, ZenonT(60)
  <2>2. frame = g
    BY <1>4, <1>5
  <2> HIDE DEF g
  <2> QED BY ONLY <2>1, <2>2, Zenon
<1>13. Accepted(in, code, header, frame_len)
  BY ONLY <1>3, <1>7, <1>8, <1>9, <1>10, <1>11, <1>12, in \in Seq(u8), Zenon DEF Accepted, ChecksumOk
<1> QED BY <1>3, <1>7, <1>9, <1>10, <1>13 DEF result

\* The bytes of such a header.
HeaderRead(in, k, n) ==
    /\ in[1] = 0 /\ in[2] = 0 /\ in[3] = 255
    /\ k = 8 <=> in[4] = 255 /\ in[5] = 255
    /\ k = 5 => n = in[4] /\ (in[4] + in[5]) % 256 = 0
    /\ k = 8 => n = 256 * in[6] + in[7] /\ (in[6] + in[7] + in[8]) % 256 = 0

LEMMA HeaderBytes ==
    ASSUME NEW in \in Seq(u8), NEW k \in {5, 8}, NEW n \in Nat, Len(in) >= k, HeaderOk(in, k, n)
    PROVE  HeaderRead(in, k, n)
<1>0. Len(in) \in Nat /\ Len(in) >= 5 /\ 5 <= Len(in) /\ 3 <= Len(in)
  BY LenProperties
<1>1. /\ SubSeq(in, 1, 3) = PREAMBLE /\ (IsExtended(in) <=> k = 8)
      /\ n = IF k = 8 THEN 256 * in[6] + in[7] ELSE in[4]
      /\ WrappingSum(SubSeq(in, IF k = 8 THEN 6 ELSE 4, k)) = 0
  BY ONLY HeaderOk(in, k, n), Zenon DEF HeaderOk
<1>2. in[1] = 0 /\ in[2] = 0 /\ in[3] = 255
  <2>1. \A i \in 1..3 : SubSeq(in, 1, 3)[i] = in[i]
    <3>1. \A i \in 1..(3 - 1 + 1) : SubSeq(in, 1, 3)[i] = in[1 + i - 1]
      BY ONLY <1>0, in \in Seq(u8), 1 \in Nat, 3 \in Nat, 1 >= 1, Slice, ZenonT(60)
    <3>2. 3 - 1 + 1 = 3 /\ \A i \in 1..3 : 1 + i - 1 = i
      OBVIOUS
    <3> QED BY ONLY <3>1, <3>2, Zenon
  <2>2. 1 \in 1..3 /\ 2 \in 1..3 /\ 3 \in 1..3
    OBVIOUS
  <2> QED BY ONLY <1>1, <2>1, <2>2, PreambleShape, ZenonT(60)
<1>3. \A a \in Nat : a >= 1 /\ a + 1 <= Len(in) =>
         /\ in[a] \in u8 /\ in[a + 1] \in u8 /\ SubSeq(in, a, a + 1) = <<in[a], in[a + 1]>>
  <2> SUFFICES ASSUME NEW a \in Nat, a >= 1, a + 1 <= Len(in)
               PROVE  /\ in[a] \in u8 /\ in[a + 1] \in u8
                      /\ SubSeq(in, a, a + 1) = <<in[a], in[a + 1]>>
    OBVIOUS
  <2>1. in[a] \in u8 /\ in[a + 1] \in u8
    BY <1>0
  <2> DEFINE t == <<in[a], in[a + 1]>>
  <2>2. t \in Seq(u8) /\ Len(t) = 2 /\ t[1] = in[a] /\ t[2] = in[a + 1]
    BY <2>1, TwoTuple
  <2> HIDE DEF t
  <2>3. \A i \in 1..Len(t) : in[a + i - 1] = t[i]
    BY <2>2
  <2>4. a + 1 \in Nat /\ a + 1 = a + Len(t) - 1
    BY <2>2
  <2>5. SubSeq(in, a, a + 1) = t
    BY <2>2, <2>3, <2>4, SliceIs
  <2> QED BY <2>1, <2>5 DEF t
<1>4. k = 8 <=> in[4] = 255 /\ in[5] = 255
  <2>1. 4 \in Nat /\ 4 >= 1 /\ 4 + 1 = 5 /\ 4 + 1 <= Len(in)
    BY <1>0
  <2>2. SubSeq(in, 4, 5) = <<in[4], in[5]>> /\ in[4] \in u8 /\ in[5] \in u8
    BY ONLY <1>3, <2>1, Zenon
  <2>3. IsExtended(in) <=> <<in[4], in[5]>> = <<255, 255>>
    BY ONLY <2>2, ZenonT(60) DEF IsExtended, EXTENDED_FRAME_MARKER
  <2>4. \A x, y : <<x, y>> = <<255, 255>> <=> x = 255 /\ y = 255
    OBVIOUS
  <2> QED BY ONLY <1>1, <2>3, <2>4, ZenonT(60)
<1>5. ASSUME k = 5 PROVE n = in[4] /\ (in[4] + in[5]) % 256 = 0
  <2>1. 4 \in Nat /\ 4 >= 1 /\ 4 + 1 = 5 /\ 4 + 1 <= Len(in) /\ 5 # 8
    BY <1>0
  <2>2. SubSeq(in, 4, 5) = <<in[4], in[5]>> /\ in[4] \in u8 /\ in[5] \in u8
    BY ONLY <1>3, <2>1, Zenon
  <2>3. n = in[4] /\ WrappingSum(<<in[4], in[5]>>) = 0
    BY ONLY <1>1, <1>5, <2>1, <2>2, Zenon
  <2>4. WrappingSum(<<in[4], in[5]>>) = (in[4] + in[5]) % 256
    BY <2>2, SumOfTwo
  <2>5. in[4] \in Nat /\ in[5] \in Nat
    BY <2>2, U8IsNat
  <2> QED BY ONLY <2>3, <2>4, <2>5
<1>6. ASSUME k = 8 PROVE n = 256 * in[6] + in[7] /\ (in[6] + in[7] + in[8]) % 256 = 0
  <2>1. in[6] \in u8 /\ in[7] \in u8 /\ in[8] \in u8
    BY <1>0, <1>6
  <2> DEFINE t == <<in[6], in[7], in[8]>>
  <2>2. t \in Seq(u8) /\ Len(t) = 3 /\ t[1] = in[6] /\ t[2] = in[7] /\ t[3] = in[8]
    BY <2>1, ThreeTuple
  <2> HIDE DEF t
  <2>3. \A i \in 1..Len(t) : in[6 + i - 1] = t[i]
    BY <2>2
  <2>4. 6 \in Nat /\ 6 >= 1 /\ 8 \in Nat /\ 8 = 6 + Len(t) - 1 /\ 8 <= Len(in)
    BY <1>6, <2>2
  <2>5. SubSeq(in, 6, 8) = t
    BY <2>2, <2>3, <2>4, SliceIs
  <2>6. WrappingSum(SubSeq(in, 6, 8)) = 0
    BY ONLY <1>1, <1>6, SMT
  <2>7. n = 256 * in[6] + in[7]
    BY ONLY <1>1, <1>6, SMT
  <2>8. WrappingSum(t) = (in[6] + in[7] + in[8]) % 256
    BY <2>1, SumOfThree DEF t
  <2>9. (in[6] + in[7] + in[8]) % 256 = 0
    <3> DEFINE m == (in[6] + in[7] + in[8]) % 256
    <3>1. WrappingSum(t) = m
      BY <2>8
    <3> HIDE DEF m
    <3>2. m = 0
      BY ONLY <2>5, <2>6, <3>1, Zenon
    <3> QED BY <3>2 DEF m
  <2> QED BY ONLY <2>7, <2>9, Zenon
<1> QED BY ONLY <1>2, <1>4, <1>5, <1>6, Zenon DEF HeaderRead

\* What wrapping_add keeps of a sum.
LowByte(v) == v % 256

\* Two bytes that complete a sum to the same low byte are the same.
LEMMA SumPins ==
    ASSUME NEW r \in Nat, NEW x \in u8, NEW y \in u8, LowByte(r + x) = LowByte(r + y)
    PROVE  x = y
<1> DEFINE p == r + x
           q == r + y
<1>1. p \in Nat /\ q \in Nat /\ q - p = y - x
  BY DEF u8
<1>2. q % 256 = p % 256
  BY DEF LowByte
<1> HIDE DEF p, q
<1> QED BY ONLY <1>1, <1>2, x \in u8, y \in u8, SameRemainder, Zenon

\* A length that goes with the second byte of the marker is one.
LEMMA CompletesMarker ==
    ASSUME NEW x \in u8, NEW y, y = 255, (x + y) % 256 = 0
    PROVE  x = 1
<1> DEFINE v == x + 255
<1>1. v \in Nat /\ v >= 255 /\ v < 511
  BY DEF u8
<1>2. v % 256 = 0
  OBVIOUS
<1>3. v = x + 255 /\ x \in Int
  BY DEF u8
<1> HIDE DEF v
<1>4. v \div 256 \in Int /\ v = 256 * (v \div 256) + (v % 256)
  BY <1>1
<1>5. PICK d \in Int : v = 256 * d
  BY ONLY <1>1, <1>2, <1>4, SMT
<1> QED BY ONLY <1>1, <1>3, <1>5, SMT

\* c is f with its byte i changed.
OneByteChanged(f, c, i) ==
    /\ f \in Seq(u8) /\ c \in Seq(u8) /\ Len(f) \in Nat /\ Len(c) = Len(f)
    /\ i \in 1..Len(f) /\ c[i] # f[i]
    /\ \A j \in 1..Len(f) : f[j] \in u8 /\ c[j] \in u8 /\ (j # i => c[j] = f[j])

LEMMA AcceptedBytes ==
    ASSUME NEW in, NEW code, NEW k, NEW n, Accepted(in, code, k, n)
    PROVE  HeaderRead(in, k, n) /\ k \in {5, 8} /\ n \in Nat /\ n >= 2 /\ Len(in) >= k + n + 2
<1>1. /\ in \in Seq(u8) /\ Len(in) \in Nat /\ k \in {5, 8} /\ n \in Nat /\ n >= 2
      /\ Len(in) >= k + n + 2 /\ HeaderOk(in, k, n)
  BY DEF Accepted
<1>2. Len(in) >= k
  BY <1>1
<1> QED BY <1>1, <1>2, HeaderBytes, Zenon

\* The header still tells the length after a change outside of it.
LEMMA ChangedBehindHeader ==
    ASSUME NEW f, NEW c, NEW i, OneByteChanged(f, c, i),
           NEW code, NEW k, NEW n, NEW m, Accepted(f, code, k, n), Accepted(c, code, k, m)
    PROVE  i > k => n = m
<1>1. /\ HeaderRead(f, k, n) /\ HeaderRead(c, k, m)
      /\ k \in {5, 8} /\ n \in Nat /\ n >= 2 /\ Len(f) >= k + n + 2
  BY AcceptedBytes, Zenon
<1>2. /\ Len(f) \in Nat /\ i \in 1..Len(f)
      /\ \A j \in 1..Len(f) : j # i => c[j] = f[j]
  BY DEF OneByteChanged
<1>3. CASE k = 5
  <2>1. n = f[4] /\ m = c[4]
    BY ONLY <1>1, <1>3, ZenonT(60) DEF HeaderRead
  <2> QED BY ONLY <1>1, <1>2, <1>3, <2>1, SMT
<1>4. CASE k = 8
  <2>1. n = 256 * f[6] + f[7] /\ m = 256 * c[6] + c[7]
    BY ONLY <1>1, <1>4, ZenonT(60) DEF HeaderRead
  <2> QED BY ONLY <1>1, <1>2, <1>4, <2>1, SMTT(60)
<1> QED BY ONLY <1>1, <1>3, <1>4, Zenon

\* s is the l bytes of an input from position a.
IsSlice(s, in, a, l) ==
    s \in Seq(u8) /\ Len(s) = l /\ \A j \in 1..l : s[j] = in[a + j - 1]

LEMMA SliceOf ==
    ASSUME NEW in \in Seq(u8), NEW a \in Nat, a >= 1, NEW z \in Nat, z <= Len(in),
           NEW l \in Nat, l >= 1, z = a + l - 1
    PROVE  IsSlice(SubSeq(in, a, z), in, a, l)
<1> DEFINE s == SubSeq(in, a, z)
<1>1. /\ s \in Seq(u8) /\ Len(s) = IF a <= z THEN z - a + 1 ELSE 0
      /\ \A i \in 1..(z - a + 1) : s[i] = in[a + i - 1]
  BY Slice
<1> HIDE DEF s
<1>2. a <= z /\ z - a + 1 = l
  OBVIOUS
<1>3. Len(s) = l /\ \A j \in 1..l : s[j] = in[a + j - 1]
  BY ONLY <1>1, <1>2, Zenon
<1> QED BY <1>1, <1>3, Zenon DEF s, IsSlice

LEMMA ChangedSameLength ==
    ASSUME NEW f, NEW c, NEW i, OneByteChanged(f, c, i),
           NEW code, NEW k, NEW n, NEW m, Accepted(f, code, k, n), Accepted(c, code, k, m),
           Len(f) = k + n + 2
    PROVE  FALSE
<1>1. /\ HeaderRead(f, k, n) /\ HeaderRead(c, k, m)
      /\ k \in {5, 8} /\ n \in Nat /\ n >= 2 /\ k \in Nat /\ k >= 5
  BY AcceptedBytes, SMTT(60)
<1>2. /\ f \in Seq(u8) /\ c \in Seq(u8) /\ Len(f) \in Nat /\ Len(c) = Len(f)
      /\ i \in 1..Len(f) /\ c[i] # f[i]
      /\ \A j \in 1..Len(f) : f[j] \in u8 /\ c[j] \in u8 /\ (j # i => c[j] = f[j])
  BY DEF OneByteChanged
<1>3. \A j \in 1..8 : j \in 1..Len(f)
  BY ONLY <1>1, <1>2, Len(f) = k + n + 2, SMT
<1>4. i # 1 /\ i # 2 /\ i # 3
  <2>1. f[1] = c[1] /\ f[2] = c[2] /\ f[3] = c[3]
    BY ONLY <1>1, ZenonT(60) DEF HeaderRead
  <2> QED BY ONLY <1>2, <2>1, Zenon
<1>5. CASE i > k
  <2>1. n = m
    BY <1>5, ChangedBehindHeader
  <2>2. i # k + n + 2
    <3>1. f[k + n + 2] = POSTAMBLE /\ c[k + n + 2] = POSTAMBLE
      BY <2>1 DEF Accepted
    <3> QED BY ONLY <1>2, <3>1, Zenon
  <2> DEFINE b == SubSeq(f, k + 1, k + n + 1)
             d == SubSeq(c, k + 1, k + n + 1)
  <2>3. WrappingSum(b) = 0 /\ WrappingSum(d) = 0
    BY <2>1 DEF Accepted
  <2>4. /\ k + 1 \in Nat /\ k + n + 1 \in Nat /\ k + 1 >= 1 /\ k + n + 1 <= Len(f)
        /\ k + n + 1 <= Len(c) /\ k + 1 <= k + n + 1
        /\ k + n + 1 - (k + 1) + 1 = n + 1 /\ i - k \in 1..n + 1
    BY <1>1, <1>2, <1>5, <2>2
  <2>5. f \in Seq(u8) /\ c \in Seq(u8)
    BY ONLY <1>2, Zenon
  <2>6. /\ b \in Seq(u8) /\ Len(b) = n + 1 /\ \A j \in 1..n + 1 : b[j] = f[k + 1 + j - 1]
        /\ d \in Seq(u8) /\ Len(d) = n + 1 /\ \A j \in 1..n + 1 : d[j] = c[k + 1 + j - 1]
    <3>1. n + 1 \in Nat /\ n + 1 >= 1 /\ k + n + 1 = k + 1 + (n + 1) - 1
      BY <1>1
    <3> DEFINE a == k + 1
               z == k + n + 1
               l == n + 1
    <3>2. /\ a \in Nat /\ a >= 1 /\ z \in Nat /\ z <= Len(f) /\ z <= Len(c)
          /\ l \in Nat /\ l >= 1 /\ z = a + l - 1
      BY ONLY <2>4, <3>1, Zenon
    <3> HIDE DEF a, z, l
    <3>3. IsSlice(SubSeq(f, a, z), f, a, l) /\ IsSlice(SubSeq(c, a, z), c, a, l)
      BY ONLY <2>5, <3>2, SliceOf, Zenon
    <3> QED BY <3>3, Zenon DEF IsSlice, a, z, l
  <2> HIDE DEF b, d
  <2>7. \A j \in 1..n + 1 : /\ k + 1 + j - 1 \in 1..Len(f)
                            /\ k + 1 + j - 1 = i <=> j = i - k
    BY ONLY <1>1, <1>2, Len(f) = k + n + 2, SMT
  <2>8. d[i - k] # b[i - k] /\ \A j \in 1..n + 1 : j # i - k => d[j] = b[j]
    BY ONLY <1>2, <2>4, <2>6, <2>7, ZenonT(60)
  <2>9. WrappingSum(d) # WrappingSum(b)
    BY ONLY <2>4, <2>6, <2>8, SumChanges, ZenonT(60)
  <2> QED BY ONLY <2>3, <2>9, Zenon
<1>6. CASE i <= k /\ k = 5
  <2>1. (f[4] + f[5]) % 256 = 0 /\ (c[4] + c[5]) % 256 = 0
    BY ONLY <1>1, <1>6, ZenonT(60) DEF HeaderRead
  <2>2. /\ f[4] \in u8 /\ f[5] \in u8 /\ c[4] \in u8 /\ c[5] \in u8
        /\ f[4] \in Nat /\ f[5] \in Nat /\ c[4] \in Nat /\ c[5] \in Nat
    <3>1. 4 \in 1..Len(f) /\ 5 \in 1..Len(f)
      BY ONLY <1>3, SMT
    <3> QED BY ONLY <1>2, <3>1, U8IsNat, Zenon
  <2>3. CASE i = 4
    <3>1. c[5] = f[5]
      BY ONLY <1>2, <1>3, <2>3, SMT
    <3>2. LowByte(f[5] + f[4]) = LowByte(f[5] + c[4])
      BY ONLY <2>1, <2>2, <3>1, SMT DEF LowByte
    <3>3. f[4] = c[4]
      BY ONLY <2>2, <3>2, SumPins, Zenon
    <3> QED BY <1>2, <2>3, <3>3
  <2>4. CASE i = 5
    <3>1. c[4] = f[4]
      BY ONLY <1>2, <1>3, <2>4, SMT
    <3>2. LowByte(f[4] + f[5]) = LowByte(f[4] + c[5])
      BY ONLY <2>1, <2>2, <3>1, SMT DEF LowByte
    <3>3. f[5] = c[5]
      BY ONLY <2>2, <3>2, SumPins, Zenon
    <3> QED BY <1>2, <2>4, <3>3
  <2> QED BY <1>2, <1>4, <1>6, <2>3, <2>4
<1>7. CASE i <= k /\ k = 8
  <2>1. /\ f[4] = 255 /\ f[5] = 255 /\ c[4] = 255 /\ c[5] = 255
        /\ (f[6] + f[7] + f[8]) % 256 = 0 /\ (c[6] + c[7] + c[8]) % 256 = 0
    BY ONLY <1>1, <1>7, SMT DEF HeaderRead
  <2>2. /\ f[6] \in u8 /\ f[7] \in u8 /\ f[8] \in u8
        /\ c[6] \in u8 /\ c[7] \in u8 /\ c[8] \in u8
        /\ f[6] \in Nat /\ f[7] \in Nat /\ f[8] \in Nat
        /\ c[6] \in Nat /\ c[7] \in Nat /\ c[8] \in Nat
    <3>1. 6 \in 1..Len(f) /\ 7 \in 1..Len(f) /\ 8 \in 1..Len(f)
      BY ONLY <1>3, SMT
    <3> QED BY ONLY <1>2, <3>1, U8IsNat, Zenon
  <2>3. i # 4 /\ i # 5
    <3>1. f[4] = c[4] /\ f[5] = c[5]
      BY ONLY <2>1, SMT
    <3> QED BY ONLY <1>2, <3>1, Zenon
  <2>4. CASE i = 6
    <3>1. c[7] = f[7] /\ c[8] = f[8]
      BY ONLY <1>2, <1>3, <2>4, SMT
    <3>2. f[7] + f[8] \in Nat /\ LowByte(f[7] + f[8] + f[6]) = LowByte(f[7] + f[8] + c[6])
      BY ONLY <2>1, <2>2, <3>1, SMT DEF LowByte
    <3>3. f[6] = c[6]
      BY ONLY <2>2, <3>2, SumPins, Zenon
    <3> QED BY <1>2, <2>4, <3>3
  <2>5. CASE i = 7
    <3>1. c[6] = f[6] /\ c[8] = f[8]
      BY ONLY <1>2, <1>3, <2>5, SMT
    <3>2. f[6] + f[8] \in Nat /\ LowByte(f[6] + f[8] + f[7]) = LowByte(f[6] + f[8] + c[7])
      BY ONLY <2>1, <2>2, <3>1, SMT DEF LowByte
    <3>3. f[7] = c[7]
      BY ONLY <2>2, <3>2, SumPins, Zenon
    <3> QED BY <1>2, <2>5, <3>3
  <2>6. CASE i = 8
    <3>1. c[6] = f[6] /\ c[7] = f[7]
      BY ONLY <1>2, <1>3, <2>6, SMT
    <3>2. f[6] + f[7] \in Nat /\ LowByte(f[6] + f[7] + f[8]) = LowByte(f[6] + f[7] + c[8])
      BY ONLY <2>1, <2>2, <3>1, SMT DEF LowByte
    <3>3. f[8] = c[8]
      BY ONLY <2>2, <3>2, SumPins, Zenon
    <3> QED BY <1>2, <2>6, <3>3
  <2> QED BY <1>2, <1>4, <1>7, <2>3, <2>4, <2>5, <2>6
<1> QED BY <1>1, <1>2, <1>5, <1>6, <1>7

\* A frame whose extended marker is changed is not read as a short one.
LEMMA MarkerLost ==
    ASSUME NEW f, NEW c, NEW i, OneByteChanged(f, c, i),
           NEW code, NEW n, NEW m, Accepted(f, code, 8, n), Accepted(c, code, 5, m),
           n # 256 * PN532_TO_HOST + code
    PROVE  FALSE
<1>1. HeaderRead(f, 8, n) /\ HeaderRead(c, 5, m) /\ m >= 2 /\ n \in Nat /\ Len(f) >= 8 + n + 2
  BY AcceptedBytes
<1>2. /\ Len(f) \in Nat /\ i \in 1..Len(f)
      /\ \A j \in 1..Len(f) : f[j] \in u8 /\ c[j] \in u8 /\ (j # i => c[j] = f[j])
  BY DEF OneByteChanged
<1>3. \A j \in 1..8 : j \in 1..Len(f)
  BY ONLY <1>1, <1>2, SMT
<1>4. c[6] = PN532_TO_HOST /\ c[7] = code
  BY DEF Accepted
<1>5. /\ f[4] = 255 /\ f[5] = 255 /\ n = 256 * f[6] + f[7]
      /\ ~(c[4] = 255 /\ c[5] = 255) /\ m = c[4] /\ (c[4] + c[5]) % 256 = 0
  BY ONLY <1>1, SMT DEF HeaderRead
<1>6. CASE i # 4 /\ i # 5
  BY ONLY <1>2, <1>3, <1>5, <1>6, SMT
<1>7. CASE i = 4
  <2>1. c[5] = 255 /\ c[4] \in u8
    BY ONLY <1>2, <1>3, <1>5, <1>7, SMT
  <2>2. c[4] = 1
    BY ONLY <1>5, <2>1, CompletesMarker
  <2> QED BY ONLY <1>1, <1>5, <2>2, SMT
<1>8. CASE i = 5
  <2>1. c[6] = f[6] /\ c[7] = f[7]
    BY ONLY <1>2, <1>3, <1>8, SMT
  <2>2. n = 256 * PN532_TO_HOST + code
    BY ONLY <1>4, <1>5, <2>1, SMT
  <2> QED BY <2>2
<1> QED BY ONLY <1>6, <1>7, <1>8, Zenon

\* A short frame changed to have the extended marker announces more bytes than
\* there are.
LEMMA MarkerMade ==
    ASSUME NEW f, NEW c, NEW i, OneByteChanged(f, c, i),
           NEW code, NEW n, NEW m, Accepted(f, code, 5, n), Accepted(c, code, 8, m),
           Len(f) = 5 + n + 2
    PROVE  FALSE
<1>1. /\ HeaderRead(f, 5, n) /\ HeaderRead(c, 8, m) /\ n \in Nat /\ n >= 2 /\ m \in Nat
      /\ Len(c) >= 8 + m + 2
  BY AcceptedBytes
<1>2. /\ Len(f) \in Nat /\ Len(c) = Len(f) /\ i \in 1..Len(f)
      /\ \A j \in 1..Len(f) : f[j] \in u8 /\ c[j] \in u8 /\ (j # i => c[j] = f[j])
  BY DEF OneByteChanged
<1>3. \A j \in 1..8 : j \in 1..Len(f)
  BY ONLY <1>1, <1>2, SMT
<1>4. f[6] = PN532_TO_HOST
  BY DEF Accepted
<1>5. /\ c[4] = 255 /\ c[5] = 255 /\ m = 256 * c[6] + c[7]
      /\ ~(f[4] = 255 /\ f[5] = 255) /\ n = f[4] /\ (f[4] + f[5]) % 256 = 0
  BY ONLY <1>1, SMT DEF HeaderRead
<1>6. CASE i # 4 /\ i # 5
  BY ONLY <1>2, <1>3, <1>5, <1>6, SMT
<1>7. CASE i = 4
  <2>1. f[5] = 255 /\ f[4] \in u8
    BY ONLY <1>2, <1>3, <1>5, <1>7, SMT
  <2>2. f[4] = 1
    BY ONLY <1>5, <2>1, CompletesMarker
  <2> QED BY ONLY <1>1, <1>5, <2>2, SMT
<1>8. CASE i = 5
  <2>1. n = 255 /\ c[6] = f[6] /\ c[7] \in u8
    BY ONLY <1>2, <1>3, <1>5, <1>8, SMT
  <2>2. c[6] = 213 /\ c[7] \in Nat
    BY <1>4, <2>1, U8IsNat DEF PN532_TO_HOST
  <2> QED BY ONLY <1>1, <1>2, <1>5, <2>1, <2>2, Len(f) = 5 + n + 2, SMT
<1> QED BY ONLY <1>6, <1>7, <1>8, Zenon

\* What a frame is accepted as.
LEMMA FrameAccepted ==
    ASSUME NEW code \in u8, NEW payload \in Seq(u8), Len(payload) + 2 < FrameLimit
    PROVE  LET f == EncodeFrame(code, payload)
           IN  \E k \in {5, 8} :
                  /\ Accepted(f, code, k, Len(payload) + 2)
                  /\ Len(f) = k + (Len(payload) + 2) + 2
<1> DEFINE f == EncodeFrame(code, payload)
           r == ReceiveDynamicResponse(f, code)
<1>1. f \in Seq(u8) /\ Len(f) \in Nat /\ Len(payload) \in Nat
  BY FrameType, LenProperties
<1>2. r = Parsed("Ok", payload, Len(f))
  <2>1. << >> \in Seq(u8) /\ f \o << >> = f
    BY <1>1, ConcatEmptySeq
  <2> QED BY <2>1, FrameReadsBackAlways, Zenon
<1> HIDE DEF f
<1>3. r.tag = "Ok" /\ r.used = Len(f)
  BY ONLY <1>2 DEF Parsed
<1>4. PICK k \in {5, 8}, n \in Nat : Accepted(f, code, k, n) /\ r.used = k + n + 2
  BY ONLY <1>1, <1>3, code \in u8, AcceptedFrame, Zenon
<1>5. r = Parsed("Ok", SubSeq(f, k + 3, k + n), k + n + 2)
  BY ONLY <1>4, code \in u8, ParsesFrame, ZenonT(60) DEF Accepted
<1>6. payload = SubSeq(f, k + 3, k + n)
  BY ONLY <1>2, <1>5, SMT DEF Parsed
<1>7. n >= 2 /\ Len(f) >= k + n + 2
  BY ONLY <1>4, Zenon DEF Accepted
<1>8. n = Len(payload) + 2
  <2>1. k + 3 \in Nat /\ k + n \in Nat /\ k + 3 >= 1 /\ k + n <= Len(f)
    BY <1>1, <1>7
  <2>2. Len(SubSeq(f, k + 3, k + n)) = IF k + 3 <= k + n THEN k + n - (k + 3) + 1 ELSE 0
    BY <1>1, <2>1, Slice
  <2>3. Len(payload) = IF k + 3 <= k + n THEN k + n - (k + 3) + 1 ELSE 0
    BY ONLY <1>6, <2>2, Zenon
  <2> QED BY ONLY <1>7, <2>3, k \in {5, 8}, n \in Nat, SMT
<1> QED BY <1>3, <1>4, <1>8 DEF f

\* Whatever the payload, a frame in which one byte has any other value is not
\* accepted by receive_dynamic_response_from: its preamble, the check of its
\* length, its checksum or its postamble is wrong, or it waits for bytes that
\* no frame has.
THEOREM ChangedFrameRejected ==
    ASSUME NEW code \in u8, NEW payload \in Seq(u8), Len(payload) + 2 < FrameLimit,
           ~Mistakable(Len(payload) + 2, code),
           NEW i \in 1..Len(EncodeFrame(code, payload)), NEW x \in u8,
           x # EncodeFrame(code, payload)[i]
    PROVE  ReceiveDynamicResponse(ReplaceAt(EncodeFrame(code, payload), i, x), code).tag # "Ok"
<1> DEFINE f == EncodeFrame(code, payload)
           c == ReplaceAt(f, i, x)
           n == Len(payload) + 2
<1>1. f \in Seq(u8) /\ Len(f) \in Nat /\ i \in 1..Len(f) /\ x # f[i]
  BY FrameType
<1>2. PICK k \in {5, 8} : Accepted(f, code, k, n) /\ Len(f) = k + n + 2
  BY FrameAccepted, Zenon
<1>3. n # 256 * PN532_TO_HOST + code
  BY DEF Mistakable
<1> HIDE DEF f, n
<1>4. c = [f EXCEPT ![i] = x]
  BY Zenon DEF ReplaceAt
<1>5. /\ c \in Seq(u8) /\ Len(c) = Len(f) /\ c[i] = x
      /\ \A j \in 1..Len(f) : j # i => c[j] = f[j]
  BY ONLY <1>1, <1>4, x \in u8, SMT
<1> HIDE DEF c
<1>6. OneByteChanged(f, c, i)
  <2>1. \A j \in 1..Len(f) : f[j] \in u8 /\ c[j] \in u8
    BY ONLY <1>1, <1>5, SMT
  <2> QED BY ONLY <1>1, <1>5, <2>1, Zenon DEF OneByteChanged
<1>7. ASSUME ReceiveDynamicResponse(c, code).tag = "Ok" PROVE FALSE
  <2>1. PICK k2 \in {5, 8}, m \in Nat : Accepted(c, code, k2, m)
    BY ONLY <1>5, <1>7, code \in u8, AcceptedFrame, Zenon
  <2>2. CASE k2 = k
    BY ONLY <1>2, <1>6, <2>1, <2>2, ChangedSameLength, Zenon
  <2>3. CASE k = 8 /\ k2 = 5
    BY ONLY <1>2, <1>3, <1>6, <2>1, <2>3, MarkerLost, Zenon
  <2>4. CASE k = 5 /\ k2 = 8
    BY ONLY <1>2, <1>6, <2>1, <2>4, MarkerMade, Zenon
  <2> QED BY ONLY k \in {5, 8}, k2 \in {5, 8}, <2>2, <2>3, <2>4, SMT
<1> QED BY <1>7 DEF c, f

\* A frame that answers one command is not accepted as the answer to another.
LEMMA OtherAnswerRejected ==
    ASSUME NEW code \in u8, NEW other \in u8, other # code,
           NEW payload \in Seq(u8), Len(payload) + 2 < FrameLimit
    PROVE  ReceiveDynamicResponse(EncodeFrame(code, payload), other).tag # "Ok"
<1> DEFINE f == EncodeFrame(code, payload)
<1>1. f \in Seq(u8)
  BY FrameType
<1>2. PICK k \in {5, 8}, n \in Nat : Accepted(f, code, k, n)
  <2>1. Len(payload) + 2 \in Nat
    BY LenProperties
  <2> QED BY <2>1, FrameAccepted, Zenon
<1> HIDE DEF f
<1>3. ASSUME ReceiveDynamicResponse(f, other).tag = "Ok" PROVE FALSE
  <2>1. PICK k2 \in {5, 8}, m \in Nat : Accepted(f, other, k2, m)
    BY ONLY <1>1, <1>3, other \in u8, AcceptedFrame, Zenon
  <2>2. k2 = k
    <3>1. (IsExtended(f) <=> k = 8) /\ (IsExtended(f) <=> k2 = 8)
      BY ONLY <1>2, <2>1, Zenon DEF Accepted, HeaderOk
    <3> QED BY ONLY k \in {5, 8}, k2 \in {5, 8}, <3>1, SMT
  <2>3. f[k + 2] = code /\ f[k + 2] = other
    BY ONLY <1>2, <2>1, <2>2, Zenon DEF Accepted
  <2> QED BY ONLY <2>3, other # code, Zenon
<1> QED BY <1>3 DEF f

\* No frame the PN532 can send is accepted with a byte of its framing changed,
\* nor as the answer to another command, of any length but the one that can be
\* mistaken.
THEOREM CorruptFramesRejected == FormatsSpec => []CorruptFrameRejected
<1>1. FormatsInv => CorruptFrameRejected
  <2> SUFFICES ASSUME FormatsInv, subject = Frame, ~Mistakable(Len(bytes) + 2, ResponseCode)
               PROVE  /\ \A i \in FramingBytes, d \in {1, 2, 127, 128, 255} :
                            ReceiveDynamicResponse(ReplaceAt(Sent, i, (Sent[i] + d) % 256),
                                                   ResponseCode).tag # "Ok"
                      /\ ReceiveDynamicResponse(Sent, ResponseCode + 10).tag # "Ok"
    BY Zenon DEF CorruptFrameRejected
  <2>1. bytes \in Seq(u8) /\ Len(bytes) + 2 < FrameLimit
    BY Zenon DEF FormatsInv
  <2>2. Sent \in Seq(u8) /\ Sent = EncodeFrame(ResponseCode, bytes)
    BY <2>1, FrameType, ResponseCodeType, Zenon DEF Sent
  <2>3. ~Mistakable(Len(bytes) + 2, ResponseCode)
    OBVIOUS
  <2>4. \A i \in 1..Len(Sent), x \in u8 :
           x # Sent[i] => ReceiveDynamicResponse(ReplaceAt(Sent, i, x), ResponseCode).tag # "Ok"
    BY ONLY <2>1, <2>3, ChangedFrameRejected, ResponseCodeType, Zenon DEF Sent
  <2>5. ASSUME NEW i \in FramingBytes, NEW d \in {1, 2, 127, 128, 255}
        PROVE  ReceiveDynamicResponse(ReplaceAt(Sent, i, (Sent[i] + d) % 256),
                                      ResponseCode).tag # "Ok"
    <3>1. i \in 1..Len(Sent)
      BY ONLY <2>2, i \in FramingBytes, SMT DEF FramingBytes
    <3> DEFINE y == Sent[i]
               x == (y + d) % 256
    <3>2. y \in u8
      BY ONLY <2>2, <3>1, SMT
    <3> HIDE DEF y
    <3>3. x \in u8 /\ x # y
      <4>1. y \in Nat /\ y <= 255 /\ y + d \in Nat /\ d \in 1..255
        BY <3>2 DEF u8
      <4>2. (y + d) % 256 \in 0..255
        BY <4>1
      <4>3. (y + d) % 256 = IF y + d < 256 THEN y + d ELSE y + d - 256
        BY <4>1
      <4> QED BY <4>1, <4>2, <4>3 DEF u8
    <3> HIDE DEF x
    <3>4. x # Sent[i]
      BY <3>3 DEF y
    <3>5. ReceiveDynamicResponse(ReplaceAt(Sent, i, x), ResponseCode).tag # "Ok"
      BY ONLY <2>4, <3>1, <3>3, <3>4, SMT
    <3> QED BY <3>5 DEF x, y
  <2>6. ReceiveDynamicResponse(Sent, ResponseCode + 10).tag # "Ok"
    <3>1. ResponseCode + 10 # ResponseCode
      BY DEF ResponseCode
    <3> QED BY ONLY <2>1, <2>2, <3>1, OtherAnswerRejected, ResponseCodeType, Zenon
  <2> QED BY <2>5, <2>6, Zenon
<1> QED BY <1>1, FormatsTypeCorrect, PTL

-----------------------------------------------------------------------------
(* ATRs read back *)

\* The bits of a byte.
BitValues == {1, 2, 4, 8, 16, 32, 64, 128}

LEMMA BitQuotients ==
    ASSUME NEW x \in u8
    PROVE \A w \in BitValues : x \div w \in Nat
BY DEF u8, BitValues

LEMMA XorSelf ==
    ASSUME NEW x \in u8
    PROVE Xor(x, x) = 0
<1>1. \A n \in Nat : (n + n) % 2 = 0
  OBVIOUS
<1>2. \A w \in BitValues : ((x \div w) + (x \div w)) % 2 = 0
  BY ONLY <1>1, x \in u8, BitQuotients, Zenon
<1> QED BY ONLY <1>2, SMT DEF Xor, BitValues

LEMMA XorType ==
    ASSUME NEW x \in u8, NEW y \in u8
    PROVE Xor(x, y) \in u8
<1> DEFINE B(w) == ((x \div w) + (y \div w)) % 2
<1>1. \A m, n \in Nat : (m + n) % 2 \in {0, 1}
  OBVIOUS
<1>2. \A w \in BitValues : x \div w \in Nat /\ y \div w \in Nat
  BY BitQuotients, Zenon
<1>3. \A w \in BitValues : B(w) \in {0, 1}
  BY ONLY <1>1, <1>2, Zenon
<1>4. Xor(x, y) = 1 * B(1) + 2 * B(2) + 4 * B(4) + 8 * B(8) + 16 * B(16) + 32 * B(32)
                    + 64 * B(64) + 128 * B(128)
  BY Zenon DEF Xor
<1> HIDE DEF B
<1> QED BY ONLY <1>3, <1>4, SMT DEF u8, BitValues

\* t holds the exclusive ors of the first bytes of b.
IsXors(t, b) ==
    /\ t \in [0..Len(b) -> u8]
    /\ t[0] = 0
    /\ \A i \in 1..Len(b) : t[i] = Xor(t[i - 1], b[i])

LEMMA XorsExist ==
    ASSUME NEW b \in Seq(u8)
    PROVE  \E t : IsXors(t, b)
<1> DEFINE Upto(n) == {t \in [0..n -> u8] :
                         t[0] = 0 /\ \A i \in 1..n : t[i] = Xor(t[i - 1], b[i])}
           S == {n \in Nat : n <= Len(b) => Upto(n) # {}}
<1>1. 0 \in S
  <2>1. [i \in 0..0 |-> 0] \in Upto(0)
    BY DEF u8
  <2> QED BY <2>1
<1>2. ASSUME NEW n \in Nat, n \in S
      PROVE  n + 1 \in S
  <2>1. SUFFICES ASSUME n + 1 <= Len(b) PROVE Upto(n + 1) # {}
    BY SMTT(60)
  <2>2. Len(b) \in Nat /\ b[n + 1] \in u8
    BY <2>1
  <2>3. PICK t \in Upto(n) : TRUE
    <3>1. n <= Len(b)
      BY <2>1, <2>2
    <3> QED BY <1>2, <3>1, Zenon
  <2>4. t \in [0..n -> u8] /\ t[0] = 0 /\ \A i \in 1..n : t[i] = Xor(t[i - 1], b[i])
    BY <2>3
  <2>5. Xor(t[n], b[n + 1]) \in u8
    BY <2>2, <2>4, XorType
  <2> DEFINE u == [i \in 0..n + 1 |-> IF i <= n THEN t[i] ELSE Xor(t[n], b[n + 1])]
  <2>6. u \in [0..n + 1 -> u8] /\ u[0] = 0
    BY <2>4, <2>5
  <2>7. ASSUME NEW i \in 1..n + 1 PROVE u[i] = Xor(u[i - 1], b[i])
    <3>1. CASE i <= n
      BY <3>1, <2>4
    <3>2. CASE i = n + 1
      BY <3>2, <2>4
    <3> QED BY <3>1, <3>2
  <2>8. u \in Upto(n + 1)
    BY <2>6, <2>7
  <2> QED BY <2>8
<1>3. \A n \in Nat : n \in S
  <2> HIDE DEF S
  <2> QED BY <1>1, <1>2, SetInduction
<1>4. Upto(Len(b)) # {}
  BY <1>3
<1> QED BY <1>4 DEF IsXors

LEMMA XorsAgree ==
    ASSUME NEW b \in Seq(u8), NEW c \in Seq(u8), NEW s, NEW t,
           s[0] = 0, \A i \in 1..Len(b) : s[i] = Xor(s[i - 1], b[i]), IsXors(t, c),
           NEW n \in Nat, n <= Len(b), n <= Len(c), \A i \in 1..n : b[i] = c[i]
    PROVE  s[n] = t[n]
<1> DEFINE S == {k \in Nat : k <= n => s[k] = t[k]}
<1>1. 0 \in S
  BY DEF IsXors
<1>2. ASSUME NEW k \in Nat, k \in S PROVE k + 1 \in S
  <2>1. SUFFICES ASSUME k + 1 <= n PROVE s[k + 1] = t[k + 1]
    OBVIOUS
  <2>2. /\ s[k] = t[k] /\ k + 1 \in 1..n /\ k + 1 \in 1..Len(b) /\ k + 1 \in 1..Len(c)
        /\ k + 1 - 1 = k
    BY <1>2, <2>1
  <2>3. s[k + 1] = Xor(s[k], b[k + 1])
    BY <2>2
  <2>4. t[k + 1] = Xor(t[k], c[k + 1])
    BY <2>2 DEF IsXors
  <2> QED BY <2>2, <2>3, <2>4
<1>3. \A k \in Nat : k \in S
  <2> HIDE DEF S
  <2> QED BY <1>1, <1>2, SetInduction
<1> QED BY <1>3

LEMMA XorAllIs ==
    ASSUME NEW b \in Seq(u8), NEW t, IsXors(t, b)
    PROVE  XorAll(b) = t[Len(b)]
<1> DEFINE D == 0..Len(b)
           Step(f) == [i \in D |-> IF i = 0 THEN 0 ELSE Xor(f[i - 1], b[i])]
           f == CHOOSE h : h = Step(h)
<1>1. t = Step(t)
  <2>1. \A i \in D : t[i] = IF i = 0 THEN 0 ELSE Xor(t[i - 1], b[i])
    BY DEF IsXors
  <2>2. t = [i \in D |-> t[i]]
    BY DEF IsXors
  <2> QED BY <2>1, <2>2
<1>2. f = Step(f)
  <2> HIDE DEF Step
  <2> QED BY <1>1, Zenon
<1>3. f[0] = 0 /\ \A i \in 1..Len(b) : f[i] = Xor(f[i - 1], b[i])
  <2>1. \A h : /\ Step(h)[0] = 0
               /\ \A i \in 1..Len(b) : Step(h)[i] = Xor(h[i - 1], b[i])
    BY LenProperties
  <2> HIDE DEF f, Step
  <2> QED BY <1>2, <2>1, Zenon
<1>4. XorAll(b) = f[Len(b)]
  BY Zenon DEF XorAll
<1> HIDE DEF f
<1>5. Len(b) \in Nat /\ Len(b) <= Len(b) /\ \A i \in 1..Len(b) : b[i] = b[i]
  BY LenProperties
<1>6. f[Len(b)] = t[Len(b)]
  BY <1>3, <1>5, XorsAgree
<1> QED BY <1>4, <1>6

\* A sequence that ends in the exclusive or of its other bytes has none.
LEMMA XorCancels ==
    ASSUME NEW b \in Seq(u8)
    PROVE  XorAll(b) \in u8 /\ XorAll(b \o <<XorAll(b)>>) = 0
<1>1. PICK t : IsXors(t, b)
  BY XorsExist
<1> DEFINE x == XorAll(b)
           c == b \o <<x>>
<1>2. x = t[Len(b)]
  BY <1>1, XorAllIs
<1>3. x \in u8 /\ Len(b) \in Nat
  BY <1>1, <1>2 DEF IsXors
<1> HIDE DEF x
<1>4. /\ c \in Seq(u8) /\ Len(c) = Len(b) + 1 /\ c[Len(b) + 1] = x
      /\ \A i \in 1..Len(b) : c[i] = b[i]
  BY <1>3
<1> HIDE DEF c
<1>5. PICK u : IsXors(u, c)
  BY <1>4, XorsExist
<1>6. u[Len(b)] = t[Len(b)]
  <2>1. Len(b) <= Len(c) /\ Len(b) <= Len(b)
    BY <1>3, <1>4
  <2>2. u[0] = 0 /\ \A i \in 1..Len(c) : u[i] = Xor(u[i - 1], c[i])
    BY <1>5 DEF IsXors
  <2> QED BY <1>1, <1>3, <1>4, <2>1, <2>2, XorsAgree
<1>7. u[Len(c)] = Xor(x, x)
  <2>1. Len(c) \in 1..Len(c) /\ Len(c) - 1 = Len(b)
    BY <1>3, <1>4
  <2>2. u[Len(c)] = Xor(u[Len(c) - 1], c[Len(c)])
    BY <1>5, <2>1 DEF IsXors
  <2> QED BY <1>2, <1>4, <1>6, <2>1, <2>2
<1>8. XorAll(c) = 0
  BY <1>3, <1>4, <1>5, <1>7, XorAllIs, XorSelf
<1> QED BY <1>3, <1>8 DEF c, x

LEMMA InterfaceBytesType ==
    ASSUME NEW b \in u8
    PROVE InterfaceBytes(b) \in Nat
<1>1. \A n \in Nat : n % 2 \in {0, 1}
  OBVIOUS
<1>2. \A w \in BitValues : (b \div w) % 2 \in {0, 1}
  BY ONLY <1>1, b \in u8, BitQuotients, Zenon
<1> QED BY ONLY <1>2, SMT DEF InterfaceBytes, BitValues

\* What TDs works out for the TD byte at p, following f to the next one.
NextTD(atr, p) == p + InterfaceBytes(atr[p]) + 1

ChainFrom(atr, f, p) ==
    IF AnnouncesTD(atr[p]) /\ NextTD(atr, p) <= Len(atr)
    THEN {NextTD(atr, p)} \cup f[NextTD(atr, p)] ELSE {}

\* f is right from the position after m on.
ChainsAfter(atr, f, m) ==
    /\ f = [p \in 1..Len(atr) |-> f[p]]
    /\ \A p \in 1..Len(atr) : p > m => f[p] = ChainFrom(atr, f, p)

LEMMA NextTDType ==
    ASSUME NEW atr \in Seq(u8), NEW p \in 1..Len(atr)
    PROVE  NextTD(atr, p) \in Nat /\ NextTD(atr, p) > p
<1>1. atr[p] \in u8 /\ p \in Nat
  BY LenProperties
<1> QED BY <1>1, InterfaceBytesType DEF NextTD

LEMMA ChainsExist ==
    ASSUME NEW atr \in Seq(u8)
    PROVE  \E f : ChainsAfter(atr, f, 0)
<1> DEFINE D == 1..Len(atr)
           S == {n \in Nat : \E f : ChainsAfter(atr, f, Len(atr) - n)}
<1>1. Len(atr) \in Nat
  BY LenProperties
<1>2. 0 \in S
  <2> DEFINE f == [p \in D |-> {}]
  <2>1. f = [p \in D |-> f[p]]
    OBVIOUS
  <2>2. \A p \in D : ~(p > Len(atr) - 0)
    BY <1>1
  <2> HIDE DEF f
  <2>3. ChainsAfter(atr, f, Len(atr) - 0)
    BY <2>1, <2>2 DEF ChainsAfter
  <2> QED BY <2>3
<1>3. ASSUME NEW n \in Nat, n \in S PROVE n + 1 \in S
  <2> DEFINE m == Len(atr) - n
  <2>1. PICK f : ChainsAfter(atr, f, m)
    BY <1>3
  <2> DEFINE g == [p \in D |-> IF p = m THEN ChainFrom(atr, f, m) ELSE f[p]]
  <2>2. g = [p \in D |-> g[p]]
    OBVIOUS
  <2>3. ASSUME NEW p \in D, p > Len(atr) - (n + 1) PROVE g[p] = ChainFrom(atr, g, p)
    <3>1. p >= m /\ p \in Int /\ m \in Int
      BY <1>1, <2>3
    <3>2. ChainFrom(atr, g, p) = ChainFrom(atr, f, p)
      <4>1. ASSUME NextTD(atr, p) <= Len(atr) PROVE g[NextTD(atr, p)] = f[NextTD(atr, p)]
        <5>1. NextTD(atr, p) \in D /\ NextTD(atr, p) # m
          BY <1>1, <3>1, <4>1, NextTDType
        <5> QED BY <5>1
      <4> HIDE DEF g
      <4> QED BY <4>1, Zenon DEF ChainFrom
    <3>3. CASE p = m
      BY <3>2, <3>3
    <3>4. CASE p # m
      <4>1. p > m
        BY <3>1, <3>4
      <4>2. f[p] = ChainFrom(atr, f, p)
        BY <2>1, <4>1 DEF ChainsAfter
      <4>3. g[p] = f[p]
        BY <3>4
      <4> QED BY <3>2, <4>2, <4>3
    <3> QED BY <3>3, <3>4
  <2> HIDE DEF g
  <2>4. ChainsAfter(atr, g, Len(atr) - (n + 1))
    BY <2>2, <2>3 DEF ChainsAfter
  <2> QED BY <2>4
<1>4. \A n \in Nat : n \in S
  <2> HIDE DEF S
  <2> QED BY <1>2, <1>3, SetInduction
<1>5. Len(atr) \in S /\ Len(atr) - Len(atr) = 0
  BY <1>1, <1>4
<1> QED BY <1>5

\* TDs follows the chain from T0, the second byte.
LEMMA TDsFollow ==
    ASSUME NEW atr \in Seq(u8)
    PROVE  \E f : TDs(atr) = f[2] /\ \A p \in 1..Len(atr) : f[p] = ChainFrom(atr, f, p)
<1> DEFINE D == 1..Len(atr)
           Follow(f) == [p \in D |-> ChainFrom(atr, f, p)]
           after == CHOOSE f : f = Follow(f)
<1>1. PICK f : ChainsAfter(atr, f, 0)
  BY ChainsExist
<1>2. f = Follow(f)
  <2>1. \A p \in D : p > 0
    BY LenProperties
  <2> QED BY <1>1, <2>1 DEF ChainsAfter
<1>3. after = Follow(after)
  <2> HIDE DEF Follow
  <2> QED BY <1>2, Zenon
<1>4. \A h : \A p \in D : Follow(h)[p] = ChainFrom(atr, h, p)
  OBVIOUS
<1>5. TDs(atr) = after[2]
  BY Zenon DEF TDs, ChainFrom, NextTD
<1> HIDE DEF after, Follow
<1>6. ASSUME NEW p \in D PROVE after[p] = ChainFrom(atr, after, p)
  <2>1. Follow(after)[p] = ChainFrom(atr, after, p)
    BY <1>4
  <2>2. after[p] = Follow(after)[p]
    BY <1>3
  <2> QED BY <2>1, <2>2
<1> QED BY <1>5, <1>6

\* The T0 and the TD bytes that build_pseudo_atr writes for k historical bytes.
AnnouncesT1(atr, k) == atr[2] = 128 + k /\ atr[3] = 128 /\ atr[4] = 1

LEMMA PseudoHeader ==
    ASSUME NEW atr \in Seq(u8), Len(atr) >= 5, NEW k \in 0..15, AnnouncesT1(atr, k)
    PROVE  TDs(atr) = {3, 4} /\ HeaderEnd(atr) = 4 /\ HasTCK(atr) /\ atr[2] % 16 = k
<1>1. Len(atr) \in Nat
  BY LenProperties
<1>2. PICK f : TDs(atr) = f[2] /\ \A p \in 1..Len(atr) : f[p] = ChainFrom(atr, f, p)
  BY TDsFollow
<1>3. /\ \A j \in 0..15 : InterfaceBytes(128 + j) = 0 /\ AnnouncesTD(128 + j)
      /\ InterfaceBytes(1) = 0 /\ ~AnnouncesTD(1)
  BY DEF InterfaceBytes, AnnouncesTD
<1>4. /\ InterfaceBytes(atr[2]) = 0 /\ AnnouncesTD(atr[2])
      /\ InterfaceBytes(atr[3]) = 0 /\ AnnouncesTD(atr[3])
      /\ InterfaceBytes(atr[4]) = 0 /\ ~AnnouncesTD(atr[4])
  <2>0. atr[2] = 128 + k /\ atr[3] = 128 /\ atr[4] = 1
    BY DEF AnnouncesT1
  <2>1. InterfaceBytes(128 + k) = 0 /\ AnnouncesTD(128 + k)
    BY <1>3
  <2>2. 128 + 0 = 128 /\ 0 \in 0..15
    OBVIOUS
  <2>3. InterfaceBytes(128) = 0 /\ AnnouncesTD(128)
    BY <1>3, <2>2
  <2> QED BY <1>3, <2>0, <2>1, <2>3
<1>5. ASSUME NEW p \in 1..4, InterfaceBytes(atr[p]) = 0, AnnouncesTD(atr[p])
      PROVE  f[p] = {p + 1} \cup f[p + 1]
  <2>1. NextTD(atr, p) = p + 1
    BY <1>5 DEF NextTD
  <2>2. p \in 1..Len(atr) /\ p + 1 <= Len(atr)
    BY <1>1
  <2>3. f[p] = ChainFrom(atr, f, p)
    BY <1>2, <2>2
  <2> QED BY ONLY <1>5, <2>1, <2>2, <2>3, Zenon DEF ChainFrom
<1>6. f[2] = {3} \cup f[3]
  BY <1>4, <1>5
<1>7. f[3] = {4} \cup f[4]
  BY <1>4, <1>5
<1>8. f[4] = {}
  <2>1. f[4] = ChainFrom(atr, f, 4)
    BY <1>1, <1>2
  <2> QED BY <1>4, <2>1, Zenon DEF ChainFrom
<1>9. TDs(atr) = {3, 4}
  BY <1>2, <1>6, <1>7, <1>8
<1>10. Max({2} \cup TDs(atr)) = 4
  <2>1. {2} \cup TDs(atr) = {2, 3, 4}
    BY <1>9
  <2>2. 4 \in {2, 3, 4} /\ \A y \in {2, 3, 4} : 4 >= y
    OBVIOUS
  <2>3. \A x \in {2, 3, 4} : (\A y \in {2, 3, 4} : x >= y) => x = 4
    OBVIOUS
  <2> QED BY <2>1, <2>2, <2>3 DEF Max
<1>11. HeaderEnd(atr) = 4
  BY <1>4, <1>10 DEF HeaderEnd
<1>12. HasTCK(atr)
  <2>1. atr[4] % 16 # 0 /\ 4 \in TDs(atr)
    BY <1>9 DEF AnnouncesT1
  <2> QED BY <2>1, Zenon DEF HasTCK
<1>13. atr[2] % 16 = k
  <2>1. \A j \in 0..15 : (128 + j) % 16 = j
    OBVIOUS
  <2> QED BY <2>1 DEF AnnouncesT1
<1> QED BY <1>9, <1>11, <1>12, <1>13

LEMMA FirstFifteen ==
    ASSUME NEW hist \in Seq(u8)
    PROVE  /\ KeptHistorical(hist) = SubSeq(hist, 1, Min({Len(hist), 15}))
           /\ KeptHistorical(hist) \in Seq(u8) /\ Len(KeptHistorical(hist)) \in 0..15
<1>1. Len(hist) \in Nat
  BY LenProperties
<1>2. \A n \in Nat : Min({n, 15}) = IF n > 15 THEN 15 ELSE n
  <2>1. SUFFICES ASSUME NEW n \in Nat PROVE Min({n, 15}) = IF n > 15 THEN 15 ELSE n
    OBVIOUS
  <2> DEFINE m == IF n > 15 THEN 15 ELSE n
  <2>2. m \in {n, 15} /\ \A y \in {n, 15} : m <= y
    OBVIOUS
  <2>3. \A x \in {n, 15} : (\A y \in {n, 15} : x <= y) => x = m
    OBVIOUS
  <2> HIDE DEF m
  <2>4. Min({n, 15}) = m
    BY <2>2, <2>3 DEF Min
  <2> QED BY <2>4 DEF m
<1> DEFINE m == Min({Len(hist), 15})
<1>3. m = IF Len(hist) > 15 THEN 15 ELSE Len(hist)
  BY <1>1, <1>2
<1> HIDE DEF m
<1>4. KeptHistorical(hist) = IF Len(hist) > 15 THEN SubSeq(hist, 1, 15) ELSE hist
  BY Zenon DEF KeptHistorical, ATR_T0_HISTORICAL_BYTES_MASK
<1>5. CASE Len(hist) > 15
  <2>1. m = 15 /\ KeptHistorical(hist) = SubSeq(hist, 1, 15)
    BY ONLY <1>3, <1>4, <1>5, SMT
  <2>2. 1 \in Nat /\ 1 >= 1 /\ 15 \in Nat /\ 15 >= 1 /\ 15 <= Len(hist) /\ 15 = 1 + 15 - 1
    BY ONLY <1>1, <1>5, SMT
  <2>3. IsSlice(SubSeq(hist, 1, 15), hist, 1, 15)
    BY <2>2, SliceOf
  <2>4. SubSeq(hist, 1, 15) \in Seq(u8) /\ Len(SubSeq(hist, 1, 15)) = 15
    BY ONLY <2>3, Zenon DEF IsSlice
  <2>5. 15 \in 0..15
    OBVIOUS
  <2> QED BY ONLY <2>1, <2>4, <2>5, Zenon DEF m
<1>6. CASE ~(Len(hist) > 15)
  <2>1. m = Len(hist) /\ KeptHistorical(hist) = hist
    BY ONLY <1>3, <1>4, <1>6, SMT
  <2>2. SubSeq(hist, 1, Len(hist)) = hist
    BY <1>1
  <2>3. Len(hist) \in 0..15
    <3>1. \A n \in Nat : ~(n > 15) => n \in 0..15
      OBVIOUS
    <3> QED BY ONLY <1>1, <1>6, <3>1, Zenon
  <2>4. KeptHistorical(hist) = SubSeq(hist, 1, m)
    BY ONLY <2>1, <2>2, SMT
  <2> QED BY ONLY <2>1, <2>3, <2>4, hist \in Seq(u8), Zenon DEF m
<1> QED BY ONLY <1>5, <1>6, Zenon

\* Where build_pseudo_atr puts its bytes.
LEMMA PseudoAtrShape ==
    ASSUME NEW hist \in Seq(u8), ~IsWholeAtr(hist)
    PROVE  LET atr  == build_pseudo_atr(hist)
               kept == KeptHistorical(hist)
           IN  /\ atr \in Seq(u8) /\ Len(atr) = Len(kept) + 5
               /\ AnnouncesT1(atr, Len(kept))
               /\ \A i \in 1..Len(kept) : atr[5 + i - 1] = kept[i]
               /\ XorAll(Tail(atr)) = 0
<1> DEFINE kept == KeptHistorical(hist)
           k    == Len(kept)
           h    == <<128 + k, 128, 1>>
           body == h \o kept
           x    == XorAll(body)
           tail == body \o <<x>>
           atr  == <<59>> \o tail
<1>1. kept \in Seq(u8) /\ k \in 0..15 /\ Len(kept) = k
  BY FirstFifteen
<1>2. build_pseudo_atr(hist) = <<59>> \o body \o <<x>>
  BY Zenon DEF build_pseudo_atr, ATR_T0_TD1_PRESENT, ATR_TD_T0_WITH_TD2, ATR_TD_T1
<1> HIDE DEF kept, k
<1>3. h \in Seq(u8) /\ Len(h) = 3 /\ h[1] = 128 + k /\ h[2] = 128 /\ h[3] = 1
  <2>1. 128 + k \in u8 /\ 128 \in u8 /\ 1 \in u8
    BY <1>1 DEF u8
  <2> QED BY <2>1, ThreeTuple
<1> HIDE DEF h
<1>4. /\ body \in Seq(u8) /\ Len(body) = 3 + k
      /\ body[1] = 128 + k /\ body[2] = 128 /\ body[3] = 1
      /\ \A i \in 1..k : body[3 + i] = kept[i]
  <2>1. /\ body \in Seq(u8) /\ Len(body) = Len(h) + Len(kept)
        /\ \A i \in 1..Len(h) : body[i] = h[i]
        /\ \A i \in 1..Len(kept) : body[Len(h) + i] = kept[i]
    <3>1. h \in Seq(u8) /\ kept \in Seq(u8)
      BY <1>1, <1>3
    <3> QED BY ONLY <3>1, Joined, Zenon
  <2> HIDE DEF body
  <2>2. 1 \in 1..3 /\ 2 \in 1..3 /\ 3 \in 1..3
    OBVIOUS
  <2>3. body[1] = h[1] /\ body[2] = h[2] /\ body[3] = h[3]
    BY ONLY <1>3, <2>1, <2>2, SMT
  <2> QED BY ONLY <1>1, <1>3, <2>1, <2>3, SMT
<1> HIDE DEF body
<1>5. x \in u8 /\ XorAll(tail) = 0
  BY <1>4, XorCancels
<1> HIDE DEF x
<1>6. /\ tail \in Seq(u8) /\ Len(tail) = 4 + k
      /\ \A i \in 1..3 + k : tail[i] = body[i]
  BY <1>1, <1>4, <1>5
<1>7. build_pseudo_atr(hist) = atr
  <2>1. <<59>> \in Seq(u8) /\ <<x>> \in Seq(u8)
    BY <1>5 DEF u8
  <2>2. <<59>> \o body \o <<x>> = <<59>> \o (body \o <<x>>)
    BY <1>4, <2>1, ConcatAssociative
  <2> QED BY <1>2, <2>2, Zenon
<1> HIDE DEF tail
<1>8. /\ atr \in Seq(u8) /\ Len(atr) = 5 + k
      /\ \A i \in 1..4 + k : atr[1 + i] = tail[i]
  BY <1>1, <1>6 DEF u8
<1>9. Tail(atr) = tail
  <2>1. Len(Tail(atr)) = Len(tail) /\ Tail(atr) \in Seq(u8)
    BY <1>1, <1>6, <1>8
  <2>2. \A i \in 1..Len(tail) : Tail(atr)[i] = tail[i]
    BY <1>1, <1>6, <1>8
  <2> QED BY <1>6, <2>1, <2>2
<1> HIDE DEF atr
<1>10. /\ atr[2] = 128 + k /\ atr[3] = 128 /\ atr[4] = 1
       /\ \A i \in 1..k : atr[5 + i - 1] = kept[i]
  <2>1. /\ 1 \in 1..4 + k /\ 2 \in 1..4 + k /\ 3 \in 1..4 + k
        /\ 1 \in 1..3 + k /\ 2 \in 1..3 + k /\ 3 \in 1..3 + k
    BY <1>1
  <2>2. atr[2] = 128 + k /\ atr[3] = 128 /\ atr[4] = 1
    BY <1>4, <1>6, <1>8, <2>1
  <2>3. ASSUME NEW i \in 1..k PROVE atr[5 + i - 1] = kept[i]
    <3>1. 3 + i \in 1..4 + k /\ 3 + i \in 1..3 + k /\ 5 + i - 1 = 1 + (3 + i)
      BY <1>1
    <3>2. atr[1 + (3 + i)] = kept[i]
      BY <1>4, <1>6, <1>8, <3>1
    <3> QED BY <3>1, <3>2
  <2> QED BY <2>2, <2>3
<1>11. Len(atr) = k + 5 /\ XorAll(Tail(atr)) = 0
  <2>1. Len(atr) = k + 5
    BY ONLY <1>1, <1>8, SMT
  <2> QED BY ONLY <1>5, <1>9, <2>1, Zenon
<1>12. build_pseudo_atr(hist) = atr /\ KeptHistorical(hist) = kept
  BY <1>7 DEF kept
<1>13. AnnouncesT1(atr, k)
  BY <1>10 DEF AnnouncesT1
<1> QED BY ONLY <1>1, <1>8, <1>10, <1>11, <1>12, <1>13, SMTT(60)

\* Whatever the historical bytes of a card, a reader finds the first fifteen in
\* the ATR build_pseudo_atr makes of them, with T=1, a check byte that is right,
\* and nothing behind it.
THEOREM AtrsReadBack == FormatsSpec => []AtrReadsBack
<1>1. FormatsInv => AtrReadsBack
  <2> DEFINE atr  == build_pseudo_atr(bytes)
             kept == KeptHistorical(bytes)
  <2> SUFFICES ASSUME FormatsInv, ~IsWholeAtr(bytes)
               PROVE  /\ Len(atr) = AtrLength(atr)
                      /\ AtrHistorical(atr) = SubSeq(bytes, 1, Min({Len(bytes), 15}))
                      /\ HasTCK(atr) /\ XorAll(Tail(atr)) = 0
    BY Zenon DEF AtrReadsBack
  <2>1. bytes \in Seq(u8)
    BY Zenon DEF FormatsInv
  <2>2. /\ atr \in Seq(u8) /\ Len(atr) = Len(kept) + 5
        /\ AnnouncesT1(atr, Len(kept))
        /\ \A i \in 1..Len(kept) : atr[5 + i - 1] = kept[i]
        /\ XorAll(Tail(atr)) = 0
    BY <2>1, PseudoAtrShape, Zenon
  <2>3. /\ kept = SubSeq(bytes, 1, Min({Len(bytes), 15}))
        /\ kept \in Seq(u8) /\ Len(kept) \in 0..15
    BY <2>1, FirstFifteen, Zenon
  <2> HIDE DEF atr, kept
  <2>4. HeaderEnd(atr) = 4 /\ HasTCK(atr) /\ atr[2] % 16 = Len(kept)
    <3>1. Len(atr) = Len(kept) + 5 /\ Len(kept) \in 0..15
      BY <2>2, <2>3, Zenon
    <3>2. Len(atr) >= 5
      BY ONLY <3>1, SMT
    <3> QED BY ONLY <2>2, <3>1, <3>2, PseudoHeader, Zenon
  <2>5. AtrHistorical(atr) = kept
    <3>1. SubSeq(atr, 5, 4 + Len(kept)) = kept
      <4>1. /\ 5 \in Nat /\ 5 >= 1 /\ 4 + Len(kept) \in Nat
            /\ 4 + Len(kept) = 5 + Len(kept) - 1 /\ 4 + Len(kept) <= Len(atr)
        BY <2>2, <2>3
      <4>2. /\ atr \in Seq(u8) /\ kept \in Seq(u8)
            /\ \A i \in 1..Len(kept) : atr[5 + i - 1] = kept[i]
        BY ONLY <2>2, <2>3, Zenon
      <4> QED BY ONLY <4>1, <4>2, SliceIs
    <3>2. 4 + 1 = 5
      OBVIOUS
    <3> QED BY <2>4, <3>1, <3>2, Zenon DEF AtrHistorical
  <2>6. Len(atr) = AtrLength(atr)
    BY <2>2, <2>3, <2>4 DEF AtrLength
  <2> QED BY <2>2, <2>3, <2>4, <2>5, <2>6, Zenon
<1> QED BY <1>1, FormatsTypeCorrect, PTL
=============================================================================
