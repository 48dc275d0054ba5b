----------------------------- MODULE WireProofs -----------------------------
(***************************************************************************)
(* What a claim puts into a transaction is what the indexer reads out of   *)
(* it, for any names, keys, public keys and surroundings in the            *)
(* transaction set, and for any sizes of the fields; and what the walk     *)
(* over any extra does, with the machine's integers.                       *)
(***************************************************************************)
EXTENDS Wire, EdwardsProofs, SequenceTheorems, FiniteSetTheorems

-----------------------------------------------------------------------------
\* Names and payloads are encoded and decoded without loss, in both directions: a
\* text has one encoding, and bytes that decode are the encoding of what they
\* decode to.

\* What NameEnd finds is the first zero, or the end of the field.
LEMMA EndOfName ==
  ASSUME NEW raw, SizeAssumption
  PROVE  /\ NameEnd(raw) \in 0..NameSize
         /\ \A j \in 1..NameEnd(raw) : raw[j] # 0
         /\ NameEnd(raw) < NameSize => raw[NameEnd(raw) + 1] = 0
<1> DEFINE Zeros == {k \in 0..NameSize : k < NameSize => raw[k + 1] = 0}
<1>1. NameSize \in Nat
  BY DEF SizeAssumption
<1>2. Zeros \in SUBSET Nat /\ NameSize \in Zeros
  BY <1>1
<1>3. PICK end \in Zeros : \A k \in Zeros : end <= k
  BY <1>2, Least
<1>4. \A j \in 1..end : raw[j] # 0
  <2> SUFFICES ASSUME NEW j \in 1..end, raw[j] = 0
               PROVE  FALSE
    OBVIOUS
  <2>1. j - 1 \in 0..NameSize /\ j - 1 + 1 = j /\ j - 1 < end
    BY <1>1
  <2>2. j - 1 \in Zeros
    BY <2>1
  <2> QED
    BY <1>1, <1>3, <2>1, <2>2
<1>5. end \in 0..NameSize /\ (end < NameSize => raw[end + 1] = 0)
  OBVIOUS
<1> HIDE DEF Zeros
<1> QED
  BY <1>4, <1>5 DEF NameEnd

\* A valid name has no zero byte.
LEMMA NamesHaveNoZero ==
  ASSUME NEW name, ValidName(name), NEW j \in 1..Len(name)
  PROVE  name[j] # 0
<1>1. name[j] \in 97..122 \/ name[j] \in 48..57 \/ name[j] = 45
  BY DEF ValidName, IsNameChar, IsNameEdge
<1>2. 0 \notin 97..122 /\ 0 \notin 48..57 /\ 0 # 45
  OBVIOUS
<1> QED
  BY <1>1, <1>2, Zenon

LEMMA EncodedName ==
  ASSUME NEW name \in Seq(Byte), ValidName(name), SizeAssumption
  PROVE  /\ EncodeName(name) \in Seq(Byte)
         /\ Len(EncodeName(name)) = NameSize
         /\ \A j \in 1..NameSize :
              EncodeName(name)[j] = IF j <= Len(name) THEN name[j] ELSE 0
<1>1. NameSize \in Nat /\ Len(name) \in 1..NameSize
  BY DEF SizeAssumption, ValidName
<1>2. EncodeName(name) \in [1..NameSize -> Byte]
  BY <1>1, ElementOfSeq DEF EncodeName, Byte
<1> QED
  BY <1>1, <1>2 DEF EncodeName

\* A name that is encoded is decoded again (EncodeName, DecodeName).
THEOREM NameRoundTrip ==
  ASSUME NEW name \in Seq(Byte), ValidName(name), SizeAssumption
  PROVE  Decodes(EncodeName(name)) /\ NameIn(EncodeName(name)) = name
<1> DEFINE raw == EncodeName(name)
           end == NameEnd(raw)
<1>1. NameSize \in Nat /\ Len(name) \in 1..NameSize
  BY DEF SizeAssumption, ValidName
<1>2. /\ raw \in Seq(Byte) /\ Len(raw) = NameSize
      /\ \A j \in 1..NameSize : raw[j] = IF j <= Len(name) THEN name[j] ELSE 0
  BY EncodedName
<1>3. /\ end \in 0..NameSize
      /\ \A j \in 1..end : raw[j] # 0
      /\ end < NameSize => raw[end + 1] = 0
  BY EndOfName
<1> HIDE DEF raw, end
<1>4. end <= Len(name)
  <2> SUFFICES ASSUME end > Len(name)
               PROVE  FALSE
    BY <1>1, <1>3
  <2>1. raw[end] = 0
    BY <1>1, <1>2, <1>3
  <2> QED
    BY <1>1, <1>3, <2>1
<1>5. end >= Len(name)
  <2> SUFFICES ASSUME end < Len(name)
               PROVE  FALSE
    BY <1>1, <1>3
  <2>1. raw[end + 1] = name[end + 1] /\ raw[end + 1] = 0
    BY <1>1, <1>2, <1>3
  <2>2. name[end + 1] # 0
    BY <1>1, <1>3, NamesHaveNoZero
  <2> QED
    BY <2>1, <2>2
<1>6. end = Len(name)
  BY <1>1, <1>3, <1>4, <1>5
<1>7. SubSeq(raw, 1, end) = name
  <2>1. /\ SubSeq(raw, 1, end) \in Seq(Byte)
        /\ Len(SubSeq(raw, 1, end)) = end
        /\ \A j \in 1..end : SubSeq(raw, 1, end)[j] = raw[j]
    <3>1. \A j \in 1..end : raw[j] \in Byte
      BY <1>1, <1>2, <1>6, ElementOfSeq
    <3> QED
      BY <1>1, <1>6, <3>1, SubSeqProperties
  <2> QED
    BY <1>1, <1>2, <1>6, <2>1, SeqEqual
<1>8. \A j \in end + 1..NameSize : raw[j] = 0
  BY <1>1, <1>2, <1>6
<1> QED
  BY <1>2, <1>7, <1>8 DEF Decodes, NameIn, raw, end

\* Bytes that decode are the encoding of the name they decode to: what follows
\* the name is all zero (DecodeName's check of the padding).
THEOREM NameIsCanonical ==
  ASSUME NEW raw \in Seq(Byte), Decodes(raw), SizeAssumption
  PROVE  /\ NameIn(raw) \in Seq(Byte)
         /\ ValidName(NameIn(raw))
         /\ EncodeName(NameIn(raw)) = raw
<1> DEFINE end == NameEnd(raw)
           name == NameIn(raw)
<1>1. NameSize \in Nat /\ Len(raw) = NameSize /\ ValidName(name)
  BY DEF SizeAssumption, Decodes
<1>2. end \in 0..NameSize /\ \A j \in end + 1..NameSize : raw[j] = 0
  BY EndOfName DEF Decodes
<1> HIDE DEF end
<1>3. /\ name \in Seq(Byte)
      /\ Len(name) = end
      /\ \A j \in 1..end : name[j] = raw[j]
  <2>1. \A j \in 1..end : raw[j] \in Byte
    BY <1>1, <1>2, ElementOfSeq
  <2>2. name = SubSeq(raw, 1, end)
    BY DEF NameIn, end
  <2> HIDE DEF name
  <2> QED
    BY <1>2, <2>1, <2>2, SubSeqProperties
<1> HIDE DEF name
<1>4. /\ EncodeName(name) \in Seq(Byte)
      /\ Len(EncodeName(name)) = NameSize
      /\ \A j \in 1..NameSize : EncodeName(name)[j] = IF j <= Len(name) THEN name[j] ELSE 0
  BY <1>1, <1>3, EncodedName
<1>5. EncodeName(name) = raw
  <2>1. \A j \in 1..NameSize : EncodeName(name)[j] = raw[j]
    BY <1>1, <1>2, <1>3, <1>4
  <2> QED
    BY <1>1, <1>4, <2>1, SeqEqual
<1> QED
  BY <1>1, <1>3, <1>5 DEF name

LEMMA PayloadFields ==
  ASSUME NEW field \in Seq(Byte), Len(field) = NameSize,
         NEW owner \in Seq(Byte), Len(owner) = OwnerKeySize, SizeAssumption
  PROVE  /\ field \o owner \in Seq(Byte)
         /\ Len(field \o owner) = PayloadSize
         /\ NameField(field \o owner) = field
         /\ OwnerField(field \o owner) = owner
<1> DEFINE raw == field \o owner
<1>1. NameSize \in Nat /\ OwnerKeySize \in Nat
  BY DEF SizeAssumption
<1>2. /\ raw \in Seq(Byte) /\ Len(raw) = NameSize + OwnerKeySize
      /\ \A j \in 1..NameSize + OwnerKeySize :
           raw[j] = IF j <= NameSize THEN field[j] ELSE owner[j - NameSize]
  BY ConcatProperties, ZenonT(40)
<1> HIDE DEF raw
<1>3. \A j \in 1..NameSize + OwnerKeySize : raw[j] \in Byte
  BY <1>1, <1>2, ElementOfSeq
<1>4. /\ NameField(raw) \in Seq(Byte) /\ Len(NameField(raw)) = NameSize
      /\ \A j \in 1..NameSize : NameField(raw)[j] = raw[j]
  <2>1. \A j \in 1..NameSize : raw[j] \in Byte
    BY <1>1, <1>3
  <2> QED
    BY <1>1, <2>1, SubSeqProperties DEF NameField
<1>5. NameField(raw) = field
  BY <1>1, <1>2, <1>4, SeqEqual
<1>6. /\ OwnerField(raw) \in Seq(Byte) /\ Len(OwnerField(raw)) = OwnerKeySize
      /\ \A j \in 1..OwnerKeySize : OwnerField(raw)[j] = raw[NameSize + j]
  <2>1. \A j \in NameSize + 1..NameSize + OwnerKeySize : raw[j] \in Byte
    BY <1>1, <1>3
  <2> QED
    BY <1>1, <2>1, SubSeqProperties DEF OwnerField, PayloadSize
<1>7. OwnerField(raw) = owner
  BY <1>1, <1>2, <1>6, SeqEqual
<1> QED
  BY <1>2, <1>5, <1>7 DEF raw, PayloadSize

\* A payload that is built is decoded to the name and the owner it was built
\* from (BuildPayload, DecodePayload).
THEOREM PayloadRoundTrip ==
  ASSUME NEW name \in Seq(Byte), NEW owner \in Seq(Byte), Buildable(name, owner),
         SizeAssumption
  PROVE  /\ BuildPayload(name, owner) \in Seq(Byte)
         /\ Len(BuildPayload(name, owner)) = PayloadSize
         /\ ValidPayload(BuildPayload(name, owner))
         /\ DecodePayload(BuildPayload(name, owner)) = [name |-> name, owner |-> owner]
<1>1. ValidName(name) /\ ValidOwnerKey(owner) /\ Len(owner) = OwnerKeySize
  BY DEF Buildable, ValidOwnerKey
<1>2. EncodeName(name) \in Seq(Byte) /\ Len(EncodeName(name)) = NameSize
  BY <1>1, EncodedName
<1>3. Decodes(EncodeName(name)) /\ NameIn(EncodeName(name)) = name
  BY <1>1, NameRoundTrip
<1>4. /\ BuildPayload(name, owner) \in Seq(Byte)
      /\ Len(BuildPayload(name, owner)) = PayloadSize
      /\ NameField(BuildPayload(name, owner)) = EncodeName(name)
      /\ OwnerField(BuildPayload(name, owner)) = owner
  BY <1>1, <1>2, PayloadFields DEF BuildPayload
<1> QED
  BY <1>1, <1>3, <1>4 DEF ValidPayload, DecodePayload

\* A payload that decodes is the one that would be built from what it decodes
\* to: no two payloads mean the same (DecodePayload, BuildPayload).
THEOREM PayloadIsCanonical ==
  ASSUME NEW raw \in Seq(Byte), ValidPayload(raw), SizeAssumption
  PROVE  /\ DecodePayload(raw) \in [name : Seq(Byte), owner : Seq(Byte)]
         /\ Buildable(DecodePayload(raw).name, DecodePayload(raw).owner)
         /\ BuildPayload(DecodePayload(raw).name, DecodePayload(raw).owner) = raw
<1>1. /\ NameSize \in Nat /\ OwnerKeySize \in Nat
      /\ Len(raw) = NameSize + OwnerKeySize
      /\ Decodes(NameField(raw)) /\ ValidOwnerKey(OwnerField(raw))
  BY DEF SizeAssumption, ValidPayload, PayloadSize
<1>2. \A j \in 1..NameSize + OwnerKeySize : raw[j] \in Byte
  BY <1>1, ElementOfSeq
<1>3. /\ NameField(raw) \in Seq(Byte) /\ Len(NameField(raw)) = NameSize
      /\ \A j \in 1..NameSize : NameField(raw)[j] = raw[j]
  <2>1. \A j \in 1..NameSize : raw[j] \in Byte
    BY <1>1, <1>2
  <2> QED
    BY <1>1, <2>1, SubSeqProperties DEF NameField
<1>4. /\ OwnerField(raw) \in Seq(Byte) /\ Len(OwnerField(raw)) = OwnerKeySize
      /\ \A j \in 1..OwnerKeySize : OwnerField(raw)[j] = raw[NameSize + j]
  <2>1. \A j \in NameSize + 1..NameSize + OwnerKeySize : raw[j] \in Byte
    BY <1>1, <1>2
  <2>2. OwnerField(raw) = SubSeq(raw, NameSize + 1, NameSize + OwnerKeySize)
    BY DEF OwnerField, PayloadSize
  <2> QED
    BY <1>1, <2>1, <2>2, SubSeqProperties, SMTT(40)
<1>5. /\ NameIn(NameField(raw)) \in Seq(Byte)
      /\ ValidName(NameIn(NameField(raw)))
      /\ EncodeName(NameIn(NameField(raw))) = NameField(raw)
  BY <1>1, <1>3, NameIsCanonical
<1>6. NameField(raw) \o OwnerField(raw) = raw
  <2> DEFINE joined == NameField(raw) \o OwnerField(raw)
  <2>1. /\ joined \in Seq(Byte) /\ Len(joined) = NameSize + OwnerKeySize
        /\ \A j \in 1..NameSize + OwnerKeySize :
             joined[j] = IF j <= NameSize THEN NameField(raw)[j]
                         ELSE OwnerField(raw)[j - NameSize]
    <3>1. NameField(raw) \in Seq(Byte) /\ OwnerField(raw) \in Seq(Byte)
      BY <1>3, <1>4
    <3>2. /\ joined \in Seq(Byte)
          /\ Len(joined) = Len(NameField(raw)) + Len(OwnerField(raw))
          /\ \A j \in 1..Len(NameField(raw)) + Len(OwnerField(raw)) :
               joined[j] = IF j <= Len(NameField(raw)) THEN NameField(raw)[j]
                           ELSE OwnerField(raw)[j - Len(NameField(raw))]
      BY <3>1, ConcatProperties
    <3> QED
      BY <1>3, <1>4, <3>2
  <2> HIDE DEF joined
  <2>2. \A j \in 1..NameSize + OwnerKeySize : joined[j] = raw[j]
    <3> TAKE j \in 1..NameSize + OwnerKeySize
    <3>1. CASE j <= NameSize
      <4>1. j \in 1..NameSize
        BY <1>1, <3>1
      <4>2. joined[j] = NameField(raw)[j]
        BY <2>1, <3>1
      <4> QED
        BY <1>3, <4>1, <4>2
    <3>2. CASE j > NameSize
      <4>1. j - NameSize \in 1..OwnerKeySize /\ NameSize + (j - NameSize) = j
        BY <1>1, <3>2
      <4> QED
        <5>1. joined[j] = OwnerField(raw)[j - NameSize]
          BY <1>1, <2>1, <3>2
        <5>2. OwnerField(raw)[j - NameSize] = raw[NameSize + (j - NameSize)]
          BY <1>4, <4>1
        <5> QED
          BY <4>1, <5>1, <5>2
    <3> QED
      BY <1>1, <3>1, <3>2
  <2>3. joined = raw
    BY <1>1, <2>1, <2>2, SeqEqual
  <2> QED
    BY <2>3 DEF joined
<1> QED
  BY <1>1, <1>4, <1>5, <1>6 DEF DecodePayload, Buildable, BuildPayload

-----------------------------------------------------------------------------
\* Parts of concatenated sequences.

LEMMA Prefix ==
  ASSUME NEW S, NEW a \in Seq(S), NEW b \in Seq(S)
  PROVE  SubSeq(a \o b, 1, Len(a)) = a
<1> DEFINE s == a \o b
<1>1. /\ s \in Seq(S) /\ Len(s) = Len(a) + Len(b)
      /\ \A k \in 1..Len(a) + Len(b) : s[k] = IF k <= Len(a) THEN a[k] ELSE b[k - Len(a)]
  BY ConcatProperties
<1>2. Len(a) \in Nat /\ Len(b) \in Nat
  BY LenProperties
<1> HIDE DEF s
<1>3. \A k \in 1..Len(a) : s[k] \in S
  BY <1>1, <1>2, ElementOfSeq
<1>4. /\ SubSeq(s, 1, Len(a)) \in Seq(S) /\ Len(SubSeq(s, 1, Len(a))) = Len(a)
      /\ \A k \in 1..Len(a) : SubSeq(s, 1, Len(a))[k] = s[k]
  BY <1>2, <1>3, SubSeqProperties
<1>5. SubSeq(s, 1, Len(a)) = a
  BY <1>1, <1>2, <1>4, SeqEqual
<1> QED
  BY <1>5 DEF s

LEMMA Suffix ==
  ASSUME NEW S, NEW a \in Seq(S), NEW b \in Seq(S)
  PROVE  SubSeq(a \o b, Len(a) + 1, Len(a) + Len(b)) = b
<1> DEFINE s == a \o b
           part == SubSeq(s, Len(a) + 1, Len(a) + Len(b))
<1>1. /\ s \in Seq(S) /\ Len(s) = Len(a) + Len(b)
      /\ \A k \in 1..Len(a) + Len(b) : s[k] = IF k <= Len(a) THEN a[k] ELSE b[k - Len(a)]
  BY ConcatProperties
<1>2. Len(a) \in Nat /\ Len(b) \in Nat
  BY LenProperties
<1> HIDE DEF s
<1>3. \A k \in Len(a) + 1..Len(a) + Len(b) : s[k] \in S
  BY <1>1, <1>2, ElementOfSeq
<1>4. /\ part \in Seq(S) /\ Len(part) = Len(b)
      /\ \A k \in 1..Len(b) : part[k] = s[Len(a) + k]
  BY <1>2, <1>3, SubSeqProperties
<1>5. \A k \in 1..Len(b) : s[Len(a) + k] = b[k]
  BY <1>1, <1>2
<1> HIDE DEF part
<1>6. part = b
  BY <1>4, <1>5, SeqEqual
<1> QED
  BY <1>6 DEF s, part

LEMMA Middle ==
  ASSUME NEW S, NEW a \in Seq(S), NEW b \in Seq(S), NEW c \in Seq(S)
  PROVE  SubSeq(a \o b \o c, Len(a) + 1, Len(a) + Len(b)) = b
<1>1. /\ a \o b \in Seq(S) /\ Len(a \o b) = Len(a) + Len(b)
      /\ Len(a) \in Nat /\ Len(b) \in Nat
  BY ConcatProperties, LenProperties
<1>2. CASE Len(b) = 0
  <2>1. b = <<>>
    BY <1>2, EmptySeq
  <2>2. SubSeq(a \o b \o c, Len(a) + 1, Len(a) + Len(b)) = <<>>
    BY <1>1, <1>2, SubSeqEmpty
  <2> QED
    BY <2>1, <2>2
<1>3. CASE Len(b) > 0
  <2>1. Len(a) + 1 \in 1..Len(a \o b) /\ Len(a) + Len(b) \in 1..Len(a \o b)
    BY <1>1, <1>3
  <2>2. SubSeq(a \o b \o c, Len(a) + 1, Len(a) + Len(b))
          = SubSeq(a \o b, Len(a) + 1, Len(a) + Len(b))
    BY <1>1, <2>1, SubSeqOfConcat1
  <2> QED
    BY <2>2, Suffix
<1> QED
  BY <1>1, <1>2, <1>3

\* Names that keep the provers from looking into concatenations.
Bytes == Seq(Byte)
Join(a, b) == a \o b
Cut(s, m, n) == SubSeq(s, m, n)

LEMMA JoinBytes ==
  \A a, b \in Bytes :
    /\ Join(a, b) \in Bytes /\ Len(Join(a, b)) = Len(a) + Len(b)
    /\ Len(a) \in Nat /\ Len(b) \in Nat
<1> SUFFICES ASSUME NEW a \in Seq(Byte), NEW b \in Seq(Byte)
             PROVE  /\ a \o b \in Seq(Byte) /\ Len(a \o b) = Len(a) + Len(b)
                    /\ Len(a) \in Nat /\ Len(b) \in Nat
  BY DEF Bytes, Join
<1> QED
  BY ConcatProperties, LenProperties

LEMMA JoinAt ==
  \A a, b \in Bytes :
    /\ \A k \in 1..Len(a) : Join(a, b)[k] = a[k]
    /\ \A k \in 1..Len(b) : Join(a, b)[Len(a) + k] = b[k]
<1> SUFFICES ASSUME NEW a \in Seq(Byte), NEW b \in Seq(Byte)
             PROVE  /\ \A k \in 1..Len(a) : (a \o b)[k] = a[k]
                    /\ \A k \in 1..Len(b) : (a \o b)[Len(a) + k] = b[k]
  BY DEF Bytes, Join
<1> QED
  BY ConcatProperties, LenProperties

LEMMA JoinAssoc == \A a, b, c \in Bytes : Join(Join(a, b), c) = Join(a, Join(b, c))
<1> SUFFICES ASSUME NEW a \in Seq(Byte), NEW b \in Seq(Byte), NEW c \in Seq(Byte)
             PROVE  (a \o b) \o c = a \o (b \o c)
  BY DEF Bytes, Join
<1> QED
  BY ConcatAssociative

LEMMA CutFirst == \A a, b \in Bytes : Cut(Join(a, b), 1, Len(a)) = a
<1> SUFFICES ASSUME NEW a \in Seq(Byte), NEW b \in Seq(Byte)
             PROVE  SubSeq(a \o b, 1, Len(a)) = a
  BY DEF Bytes, Join, Cut
<1> QED
  BY Prefix

LEMMA CutLast == \A a, b \in Bytes : Cut(Join(a, b), Len(a) + 1, Len(a) + Len(b)) = b
<1> SUFFICES ASSUME NEW a \in Seq(Byte), NEW b \in Seq(Byte)
             PROVE  SubSeq(a \o b, Len(a) + 1, Len(a) + Len(b)) = b
  BY DEF Bytes, Join, Cut
<1> QED
  BY Suffix

LEMMA CutMiddle ==
  \A a, b, c \in Bytes : Cut(Join(Join(a, b), c), Len(a) + 1, Len(a) + Len(b)) = b
<1> SUFFICES ASSUME NEW a \in Seq(Byte), NEW b \in Seq(Byte), NEW c \in Seq(Byte)
             PROVE  SubSeq((a \o b) \o c, Len(a) + 1, Len(a) + Len(b)) = b
  BY DEF Bytes, Join, Cut
<1> QED
  BY Middle

\* Five parts: where each one is.
LEMMA FiveParts ==
  ASSUME NEW x \in Bytes, NEW l \in Bytes, NEW k \in Bytes, NEW n \in Bytes, NEW y \in Bytes,
         NEW whole, whole = Join(Join(Join(x, l), Join(k, n)), y)
  PROVE  /\ whole \in Bytes
         /\ Len(whole) = Len(x) + Len(l) + Len(k) + Len(n) + Len(y)
         /\ Cut(whole, 1, Len(x)) = x
         /\ Cut(whole, Len(x) + Len(l) + 1, Len(x) + Len(l) + Len(k)) = k
         /\ Cut(whole, Len(x) + Len(l) + Len(k) + 1, Len(x) + Len(l) + Len(k) + Len(n)) = n
         /\ Cut(whole, Len(x) + Len(l) + Len(k) + Len(n) + 1, Len(whole)) = y
<1> DEFINE xl == Join(x, l)
           kn == Join(k, n)
           xlk == Join(xl, k)
           xlkn == Join(xl, kn)
           ny == Join(n, y)
           kny == Join(kn, y)
           lkny == Join(l, kny)
<1>1. /\ Len(x) \in Nat /\ Len(l) \in Nat /\ Len(k) \in Nat /\ Len(n) \in Nat /\ Len(y) \in Nat
      /\ xl \in Bytes /\ Len(xl) = Len(x) + Len(l)
      /\ kn \in Bytes /\ Len(kn) = Len(k) + Len(n)
      /\ ny \in Bytes
  BY JoinBytes
<1>2. /\ xlk \in Bytes /\ Len(xlk) = Len(xl) + Len(k)
      /\ xlkn \in Bytes /\ Len(xlkn) = Len(xl) + Len(kn)
      /\ kny \in Bytes
  BY <1>1, JoinBytes
<1>3. whole \in Bytes /\ Len(whole) = Len(xlkn) + Len(y) /\ lkny \in Bytes
  BY <1>1, <1>2, JoinBytes
<1>4. whole = Join(x, lkny)
  <2>1. whole = Join(xl, kny)
    BY <1>1, JoinAssoc
  <2>2. Join(xl, kny) = Join(x, lkny)
    BY <1>2, JoinAssoc
  <2> QED
    BY <2>1, <2>2
<1>5. whole = Join(Join(xl, k), ny)
  <2>1. whole = Join(xl, kny) /\ kny = Join(k, ny)
    BY <1>1, JoinAssoc
  <2>2. Join(xl, Join(k, ny)) = Join(Join(xl, k), ny)
    BY <1>1, JoinAssoc
  <2> QED
    BY <2>1, <2>2
<1>6. whole = Join(Join(xlk, n), y)
  BY <1>1, JoinAssoc
<1>7. whole = Join(xlkn, y)
  OBVIOUS
<1> HIDE DEF xl, kn, xlk, xlkn, ny, kny, lkny
<1>8. Cut(whole, 1, Len(x)) = x
  <2>1. Cut(Join(x, lkny), 1, Len(x)) = x
    BY <1>3, CutFirst, Zenon
  <2> QED
    BY <1>4, <2>1, Zenon
<1>9. Cut(whole, Len(xl) + 1, Len(xl) + Len(k)) = k
  <2>1. Cut(Join(Join(xl, k), ny), Len(xl) + 1, Len(xl) + Len(k)) = k
    BY <1>1, CutMiddle, Zenon
  <2> QED
    BY <1>5, <2>1, Zenon
<1>10. Cut(whole, Len(xlk) + 1, Len(xlk) + Len(n)) = n
  <2>1. Cut(Join(Join(xlk, n), y), Len(xlk) + 1, Len(xlk) + Len(n)) = n
    BY <1>2, CutMiddle, Zenon
  <2> QED
    BY <1>6, <2>1, Zenon
<1>11. Cut(whole, Len(xlkn) + 1, Len(xlkn) + Len(y)) = y
  <2>1. Cut(Join(xlkn, y), Len(xlkn) + 1, Len(xlkn) + Len(y)) = y
    BY <1>2, CutLast, Zenon
  <2> QED
    BY <1>7, <2>1, Zenon
<1>12. /\ Len(xlkn) = Len(x) + Len(l) + Len(k) + Len(n)
       /\ Len(xlk) = Len(x) + Len(l) + Len(k)
  BY <1>1, <1>2
<1> QED
  BY <1>1, <1>2, <1>3, <1>8, <1>9, <1>10, <1>11, <1>12

-----------------------------------------------------------------------------
\* The transaction set.

LEMMA DefaultNonceBytes ==
  /\ DefaultNonce \in Seq(Byte) /\ Len(DefaultNonce) = PaymentIDSize + 3
  /\ PubKeySize \in Nat /\ PaymentIDSize \in Nat
  /\ OldLen = PubKeySize + PaymentIDSize + 4
  /\ OldLen \in Byte
<1> DEFINE zeros == [k \in 1..PaymentIDSize |-> 0]
           front == <<TagNonce, PaymentIDSize + 1, 1>>
<1>1. PaymentIDSize \in Nat /\ PubKeySize \in Nat /\ OldLen <= 127
  BY LengthAssumption DEF LengthAssumption
<1>2. zeros \in Seq(Nat) /\ Len(zeros) = PaymentIDSize
  BY <1>1
<1>3. front \in Seq(Nat) /\ Len(front) = 3
  BY <1>1 DEF TagNonce
<1>4. DefaultNonce = front \o zeros
  BY DEF DefaultNonce
<1> HIDE DEF zeros, front
<1>5. Len(DefaultNonce) = PaymentIDSize + 3
  <2>1. Len(front \o zeros) = Len(front) + Len(zeros)
    BY <1>2, <1>3, ConcatProperties
  <2> QED
    BY <1>1, <1>2, <1>3, <1>4, <2>1
<1>6. OldLen = PubKeySize + PaymentIDSize + 4 /\ OldLen \in Byte /\ PaymentIDSize + 1 \in Byte
  BY <1>1, <1>5 DEF OldLen, Byte
<1>7. zeros \in Seq(Byte) /\ front \in Seq(Byte)
  BY <1>1, <1>6 DEF zeros, front, TagNonce, Byte
<1>8. DefaultNonce \in Seq(Byte)
  BY <1>4, <1>7, ConcatProperties
<1> QED
  BY <1>1, <1>5, <1>6, <1>8

\* The new extra of a transaction with a public key.
NewFor(key, payload) == <<TagPubKey>> \o key \o <<TagNonce, Len(payload)>> \o payload

Plain(x, key, y) == x \o <<OldLen>> \o DefaultExtra(key) \o y

\* Extra and what is around it are in a transaction set at an offset.
Placed(plain, at, x, key, y) ==
  /\ plain \in Bytes /\ Len(plain) = Len(x) + 1 + OldLen + Len(y)
  /\ Cut(plain, 1, at - 1) = x
  /\ Cut(plain, at + 1, at + 1 + PubKeySize) = Join(<<TagPubKey>>, key)
  /\ Cut(plain, at + 1 + OldLen, Len(plain)) = y
  /\ at \in Matches(plain)

\* The extra that the wallet made is where it was put, and it looks like one.
LEMMA ExtraIsThere ==
  ASSUME NEW x \in Bytes, NEW y \in Bytes,
         NEW key \in Bytes, Len(key) = PubKeySize,
         NEW plain, plain = Plain(x, key, y),
         NEW at, at = Len(x) + 1
  PROVE  Placed(plain, at, x, key, y)
<1> DEFINE pk == Join(<<TagPubKey>>, key)
           len == <<OldLen>>
           nonce == DefaultNonce
<1>1. /\ nonce \in Bytes /\ Len(nonce) = PaymentIDSize + 3
      /\ PubKeySize \in Nat /\ PaymentIDSize \in Nat
      /\ OldLen = PubKeySize + PaymentIDSize + 4
  BY DefaultNonceBytes DEF Bytes
<1>2. len \in Bytes /\ Len(len) = 1 /\ len[1] = OldLen
  BY DefaultNonceBytes DEF Bytes
<1>3. pk \in Bytes /\ Len(pk) = 1 + PubKeySize /\ pk[1] = TagPubKey
  <2>1. /\ <<TagPubKey>> \in Bytes /\ Len(<<TagPubKey>>) = 1
        /\ <<TagPubKey>>[1] = TagPubKey
    BY DEF TagPubKey, Byte, Bytes
  <2>2. 1 \in 1..Len(<<TagPubKey>>)
    BY <2>1
  <2> QED
    BY <1>1, <2>1, <2>2, JoinBytes, JoinAt
<1>4. plain = Join(Join(Join(x, len), Join(pk, nonce)), y)
  BY DEF Plain, DefaultExtra, Join
<1>5. Len(x) \in Nat /\ Len(y) \in Nat
  BY JoinBytes
<1> HIDE DEF pk, len, nonce
<1>6. /\ plain \in Bytes
      /\ Len(plain) = Len(x) + Len(len) + Len(pk) + Len(nonce) + Len(y)
      /\ Cut(plain, 1, Len(x)) = x
      /\ Cut(plain, Len(x) + Len(len) + 1, Len(x) + Len(len) + Len(pk)) = pk
      /\ Cut(plain, Len(x) + Len(len) + Len(pk) + 1, Len(x) + Len(len) + Len(pk) + Len(nonce)) = nonce
      /\ Cut(plain, Len(x) + Len(len) + Len(pk) + Len(nonce) + 1, Len(plain)) = y
  <2>1. len \in Bytes /\ pk \in Bytes /\ nonce \in Bytes
    BY <1>1, <1>2, <1>3
  <2> QED
    BY <1>4, <2>1, FiveParts
<1>7. /\ Len(x) + Len(len) = at
      /\ Len(x) + Len(len) + Len(pk) = at + 1 + PubKeySize
      /\ Len(x) + Len(len) + Len(pk) + Len(nonce) = at + OldLen
      /\ Len(plain) = Len(x) + 1 + OldLen + Len(y)
      /\ Len(x) = at - 1
  BY <1>1, <1>2, <1>3, <1>5, <1>6
<1>8. /\ Cut(plain, 1, at - 1) = x
      /\ Cut(plain, at + 1, at + 1 + PubKeySize) = pk
      /\ Cut(plain, (at + 1 + PubKeySize) + 1, at + OldLen) = nonce
      /\ Cut(plain, (at + OldLen) + 1, Len(plain)) = y
  BY <1>6, <1>7
<1>9. /\ (at + 1 + PubKeySize) + 1 = at + 2 + PubKeySize
      /\ (at + OldLen) + 1 = at + 1 + OldLen
  BY <1>1, <1>5
<1>10. plain[at] = OldLen /\ plain[at + 1] = TagPubKey
  <2> DEFINE xl == Join(x, len)
             pn == Join(pk, nonce)
             xlpn == Join(xl, pn)
  <2>1. /\ xl \in Bytes /\ pn \in Bytes /\ xlpn \in Bytes /\ plain = Join(xlpn, y)
        /\ Len(xl) = Len(x) + Len(len) /\ Len(pn) = Len(pk) + Len(nonce)
        /\ Len(xlpn) = Len(xl) + Len(pn)
    BY <1>1, <1>2, <1>3, <1>4, JoinBytes
  <2>2. 1 \in 1..Len(len) /\ 1 \in 1..Len(pk) /\ Len(x) + 1 = at
    BY <1>1, <1>2, <1>3
  <2>3. xl[at] = OldLen
    BY <1>2, <2>2, JoinAt
  <2>4. pn[1] = TagPubKey
    BY <1>1, <1>3, <2>2, JoinAt
  <2>5. Len(xl) = at /\ at \in 1..Len(xl) /\ 1 \in 1..Len(pn)
    BY <1>1, <1>2, <1>3, <1>5, <1>7, <2>1
  <2> HIDE DEF xl, pn
  <2>6. xlpn[at] = OldLen /\ xlpn[at + 1] = TagPubKey
    <3>1. xlpn[at] = xl[at] /\ xlpn[Len(xl) + 1] = pn[1]
      BY <2>1, <2>5, JoinAt, ZenonT(40)
    <3> QED
      BY <2>3, <2>4, <2>5, <3>1
  <2>7. at \in 1..Len(xlpn) /\ at + 1 \in 1..Len(xlpn)
    BY <1>1, <1>3, <1>5, <2>1, <2>5
  <2> HIDE DEF xlpn
  <2>8. plain[at] = xlpn[at] /\ plain[at + 1] = xlpn[at + 1]
    <3>1. Join(xlpn, y)[at] = xlpn[at] /\ Join(xlpn, y)[at + 1] = xlpn[at + 1]
      BY <2>1, <2>7, JoinAt, ZenonT(40)
    <3> QED
      BY <2>1, <3>1, Zenon
  <2> QED
    BY <2>6, <2>8
<1>11. at \in Matches(plain)
  <2>1. at \in 1..Len(plain) - OldLen
    BY <1>1, <1>5, <1>7
  <2> QED
    BY <1>8, <1>9, <1>10, <2>1 DEF Matches, nonce, Cut
<1> QED
  BY <1>6, <1>7, <1>8, <1>9, <1>11 DEF pk, Placed

\* What the walk meets in an extra with a payload.
Carries(new, payload) ==
  /\ new \in Bytes /\ Len(new) = PubKeySize + 3 + Len(payload)
  /\ new[1] = TagPubKey
  /\ new[PubKeySize + 2] = TagNonce
  /\ new[PubKeySize + 3] = Len(payload)
  /\ SubSeq(new, PubKeySize + 4, PubKeySize + 3 + Len(payload)) = payload

LEMMA TagsAreBytes == TagPubKey \in Byte /\ TagNonce \in Byte
  BY DEF TagPubKey, TagNonce, Byte

LEMMA NewForParts ==
  ASSUME NEW key \in Bytes, Len(key) = PubKeySize,
         NEW payload \in Bytes, Len(payload) \in Byte,
         NEW new, new = NewFor(key, payload)
  PROVE  Carries(new, payload)
<1> DEFINE one == <<TagPubKey>>
           pk == Join(one, key)
           two == <<TagNonce, Len(payload)>>
           front == Join(pk, two)
<1>1. PubKeySize \in Nat /\ Len(payload) \in Nat
  BY JoinBytes, DefaultNonceBytes
<1>2. one \in Bytes /\ Len(one) = 1 /\ one[1] = TagPubKey
  BY TagsAreBytes DEF Bytes
<1>3. two \in Bytes /\ Len(two) = 2 /\ two[1] = TagNonce /\ two[2] = Len(payload)
  BY TagsAreBytes DEF Bytes
<1>4. new = Join(front, payload)
  BY DEF NewFor, Join
<1> HIDE DEF one, two
<1>5. pk \in Bytes /\ Len(pk) = PubKeySize + 1 /\ pk[1] = TagPubKey
  <2>1. 1 \in 1..Len(one)
    BY <1>2
  <2>2. pk \in Bytes /\ Len(pk) = Len(one) + Len(key)
    BY <1>2, JoinBytes, Zenon
  <2>3. pk[1] = one[1]
    BY <1>2, <2>1, JoinAt, Zenon
  <2> QED
    BY <1>1, <1>2, <2>2, <2>3
<1> HIDE DEF pk
<1>6. front \in Bytes /\ Len(front) = PubKeySize + 3
  <2>1. front \in Bytes /\ Len(front) = Len(pk) + Len(two)
    BY <1>3, <1>5, JoinBytes, Zenon
  <2> QED
    BY <1>1, <1>3, <1>5, <2>1
<1>7. front[1] = TagPubKey /\ front[PubKeySize + 2] = TagNonce /\ front[PubKeySize + 3] = Len(payload)
  <2>1. 1 \in 1..Len(pk) /\ 1 \in 1..Len(two) /\ 2 \in 1..Len(two)
    BY <1>1, <1>3, <1>5
  <2>2. front[1] = pk[1] /\ front[Len(pk) + 1] = two[1] /\ front[Len(pk) + 2] = two[2]
    BY <1>3, <1>5, <2>1, JoinAt, ZenonT(40)
  <2>3. Len(pk) + 1 = PubKeySize + 2 /\ Len(pk) + 2 = PubKeySize + 3
    BY <1>1, <1>5
  <2> QED
    BY <1>3, <1>5, <2>2, <2>3
<1> HIDE DEF front
<1>8. new \in Bytes /\ Len(new) = PubKeySize + 3 + Len(payload)
  BY <1>1, <1>4, <1>6, JoinBytes
<1>9. new[1] = TagPubKey /\ new[PubKeySize + 2] = TagNonce /\ new[PubKeySize + 3] = Len(payload)
  <2>1. 1 \in 1..Len(front) /\ PubKeySize + 2 \in 1..Len(front) /\ PubKeySize + 3 \in 1..Len(front)
    BY <1>1, <1>6
  <2>2. /\ Join(front, payload)[1] = front[1]
        /\ Join(front, payload)[PubKeySize + 2] = front[PubKeySize + 2]
        /\ Join(front, payload)[PubKeySize + 3] = front[PubKeySize + 3]
    BY <1>6, <2>1, JoinAt, Zenon
  <2> QED
    BY <1>4, <1>7, <2>2, Zenon
<1>10. Cut(new, PubKeySize + 4, PubKeySize + 3 + Len(payload)) = payload
  <2>1. Cut(Join(front, payload), Len(front) + 1, Len(front) + Len(payload)) = payload
    BY <1>6, CutLast, Zenon
  <2>2. Len(front) + 1 = PubKeySize + 4 /\ Len(front) + Len(payload) = PubKeySize + 3 + Len(payload)
    BY <1>1, <1>6
  <2> QED
    BY <1>4, <2>1, <2>2
<1> QED
  BY <1>8, <1>9, <1>10 DEF Carries, Cut

\* If the extra is found once, it is found where it is.
LEMMA LocatedThere ==
  ASSUME NEW plain \in Bytes, NEW at \in Matches(plain), Locates(plain)
  PROVE  LengthOffset(plain) = at
<1> DEFINE found == Matches(plain)
<1>1. IsFiniteSet(found)
  <2>1. Len(plain) \in Nat /\ OldLen \in Nat
    BY JoinBytes, DefaultNonceBytes DEF Byte
  <2>2. IsFiniteSet(1..Len(plain) - OldLen)
    BY <2>1, FS_Interval
  <2>3. found \subseteq 1..Len(plain) - OldLen
    BY DEF Matches
  <2> QED
    BY <2>2, <2>3, FS_Subset
<1>2. Cardinality(found) = 1
  BY DEF Locates
<1>3. PICK k : found = {k}
  BY <1>1, <1>2, FS_Singleton
<1> QED
  BY <1>3 DEF LengthOffset

\* A transaction set after patching.
HasExtra(result, payload, x, new, y) ==
  /\ Len(payload) \in Byte
  /\ result = x \o <<Len(new)>> \o new \o y
  /\ FieldAt(result, Len(x) + 1) = new
  /\ result \in Bytes
  /\ Len(new) <= 127

\* What patching does to a transaction set with an extra of the wallet.
LEMMA PatchedSet ==
  ASSUME NEW x \in Bytes, NEW y \in Bytes,
         NEW key \in Bytes, Len(key) = PubKeySize,
         NEW payload \in Bytes,
         NEW plain, plain = Plain(x, key, y),
         Patchable(plain, payload),
         NEW new, new = NewFor(key, payload),
         NEW result, result = Patch(plain, payload)
  PROVE  HasExtra(result, payload, x, new, y)
<1> DEFINE at == Len(x) + 1
           one == <<TagPubKey>>
           len == <<Len(new)>>
           xl == Join(x, len)
<1>1. /\ plain \in Bytes
      /\ Cut(plain, 1, at - 1) = x
      /\ Cut(plain, at + 1, at + 1 + PubKeySize) = Join(<<TagPubKey>>, key)
      /\ Cut(plain, at + 1 + OldLen, Len(plain)) = y
      /\ at \in Matches(plain)
  <2>1. at = Len(x) + 1
    OBVIOUS
  <2> HIDE DEF at
  <2>2. Placed(plain, at, x, key, y)
    BY <2>1, ExtraIsThere
  <2> QED
    BY <2>2 DEF Placed
<1>2. Locates(plain) /\ LengthOffset(plain) = at
  BY <1>1, LocatedThere DEF Patchable
<1>3. NewExtra(plain, payload) = new
  BY <1>1, <1>2 DEF NewExtra, NewFor, Cut, Join
<1>4. result = x \o <<Len(new)>> \o new \o y
  BY <1>1, <1>2, <1>3 DEF Patch, Cut
<1>5. Len(payload) \in Byte /\ new \in Bytes /\ Len(new) \in Byte
  <2>1. Len(new) <= 127
    BY <1>3 DEF Patchable
  <2>2. /\ Len(payload) \in Nat /\ PubKeySize \in Nat
        /\ one \in Bytes /\ Len(one) = 1
    BY JoinBytes, DefaultNonceBytes DEF TagPubKey, Byte, Bytes
  <2> DEFINE pk == Join(one, key)
             two == <<TagNonce, Len(payload)>>
  <2>3. pk \in Bytes /\ Len(pk) = PubKeySize + 1
    <3>1. pk \in Bytes /\ Len(pk) = Len(one) + Len(key)
      BY <2>2, JoinBytes, Zenon
    <3> QED
      BY <2>2, <3>1
  <2>4. new = pk \o two \o payload
    BY DEF NewFor, Join
  <2>5. Len(new) = PubKeySize + 3 + Len(payload)
    <3>1. pk \in Seq(Nat) /\ two \in Seq(Nat) /\ payload \in Seq(Nat) /\ Len(two) = 2
      <4>1. Byte \subseteq Nat
        BY DEF Byte
      <4>2. pk \in Seq(Nat) /\ payload \in Seq(Nat)
        BY <2>3, <4>1, SeqMonotonic DEF Bytes
      <4> QED
        BY <2>2, <4>2 DEF TagNonce
    <3> HIDE DEF pk, two
    <3>2. Len(pk \o two) = Len(pk) + Len(two) /\ pk \o two \in Seq(Nat)
      BY <3>1, ConcatProperties
    <3>3. Len((pk \o two) \o payload) = Len(pk \o two) + Len(payload)
      BY <3>1, <3>2, ConcatProperties
    <3> QED
      BY <2>2, <2>3, <2>4, <3>1, <3>2, <3>3
  <2>6. Len(payload) \in Byte /\ Len(new) \in Byte
    <3> DEFINE n == Len(new)
               m == Len(payload)
    <3>3. n = PubKeySize + 3 + m /\ n <= 127 /\ m \in Nat /\ PubKeySize \in Nat
      BY <2>1, <2>2, <2>5
    <3> HIDE DEF n, m
    <3>4. n \in 0..255 /\ m \in 0..255
      BY <3>3
    <3>1. Len(payload) \in 0..255 /\ Len(new) \in 0..255
      BY <3>4 DEF n, m
    <3> QED
      BY <3>1 DEF Byte
  <2>7. Carries(new, payload)
    BY <2>6, NewForParts
  <2> QED
    BY <2>6, <2>7 DEF Carries
<1>6. len \in Bytes /\ Len(len) = 1 /\ len[1] = Len(new)
  BY <1>5 DEF Bytes
<1>7. result = Join(Join(xl, new), y)
  BY <1>4 DEF Join
<1> HIDE DEF len, xl
<1>8. Len(x) \in Nat /\ xl \in Bytes /\ Len(xl) = at /\ Join(xl, new) \in Bytes /\ result \in Bytes
  <2>1. xl \in Bytes /\ Len(xl) = Len(x) + Len(len) /\ Len(x) \in Nat
    BY <1>6, JoinBytes, Zenon DEF xl
  <2>2. Join(xl, new) \in Bytes
    BY <1>5, <2>1, JoinBytes, Zenon
  <2>3. result \in Bytes
    BY <1>7, <2>2, JoinBytes, Zenon
  <2> QED
    BY <1>6, <2>1, <2>2, <2>3
<1>9. result[at] = Len(new)
  <2>1. 1 \in 1..Len(len) /\ at \in 1..Len(xl) /\ at \in 1..Len(Join(xl, new))
    <3>1. Len(Join(xl, new)) = Len(xl) + Len(new) /\ Len(new) \in Nat
      BY <1>5, <1>8, JoinBytes, Zenon
    <3> QED
      BY <1>6, <1>8, <3>1
  <2>2. Join(x, len)[Len(x) + 1] = len[1]
    BY <1>6, <2>1, JoinAt, Zenon
  <2>5. xl \in Bytes /\ new \in Bytes /\ Join(xl, new) \in Bytes
    BY <1>5, <1>8
  <2> HIDE DEF at
  <2>3. Join(xl, new)[at] = xl[at]
    BY <2>1, <2>5, JoinAt, ZenonT(40)
  <2>4. Join(Join(xl, new), y)[at] = Join(xl, new)[at]
    BY <2>1, <2>5, JoinAt, ZenonT(40)
  <2> QED
    BY <1>6, <1>7, <2>2, <2>3, <2>4, Zenon DEF xl, at
<1>10. SubSeq(result, at + 1, at + Len(new)) = new
  <2>1. Cut(Join(Join(xl, new), y), Len(xl) + 1, Len(xl) + Len(new)) = new
    BY <1>5, <1>8, CutMiddle, Zenon
  <2> QED
    BY <1>7, <1>8, <2>1, Zenon DEF Cut
<1>11. Len(new) <= 127
  BY <1>3 DEF Patchable
<1> QED
  BY <1>4, <1>5, <1>8, <1>9, <1>10, <1>11 DEF FieldAt, HasExtra

-----------------------------------------------------------------------------
\* The walk.

\* The payload of a claim was put into a transaction.
Sent == claim # Nobody /\ verdict \notin {"invalid", "unpatchable"}

\* The extra of a claim's transaction, and the transaction set around it.
Patched ==
  Sent => /\ claim \in Claims
          /\ Buildable(claim.name, claim.owner)
          /\ \E key \in TxPubKeys : extra = NewFor(key, BuildPayload(claim.name, claim.owner))
          /\ PayloadSize \in Byte
          /\ patched = before \o <<Len(extra)>> \o extra \o after

\* The walk over it stops at the ends of its two fields only.
Walked ==
  Sent => \/ i = 0 /\ out = <<>> /\ verdict = "walking"
          \/ i = PubKeySize + 1 /\ out = <<>> /\ verdict = "walking"
          \/ i = Len(extra) /\ out = <<claim>> /\ verdict \in {"walking", "payload"}

WalkInv == extra \in Bytes /\ Patched /\ Walked

\* What Init means for a claim whose transaction set is patched.
LEMMA InitSent ==
  ASSUME claim \in Claims, before \in Surrounding, after \in Surrounding,
         NEW key \in TxPubKeys,
         NEW payload, payload = BuildPayload(claim.name, claim.owner),
         NEW plain, plain = Plain(before, key, after),
         Buildable(claim.name, claim.owner),
         Patchable(plain, payload),
         patched = Patch(plain, payload),
         extra = FieldAt(patched, Len(before) + 1)
  PROVE  /\ extra \in Bytes /\ PayloadSize \in Byte
         /\ extra = NewFor(key, payload)
         /\ patched = before \o <<Len(extra)>> \o extra \o after
         /\ patched \in Bytes /\ Len(extra) <= 127
<1>1. /\ before \in Bytes /\ after \in Bytes
      /\ key \in Bytes /\ Len(key) = PubKeySize
      /\ claim.name \in Seq(Byte) /\ claim.owner \in Seq(Byte)
  BY BytesAssumption DEF BytesAssumption, Bytes
<1>2. payload \in Bytes /\ Len(payload) = PayloadSize
  BY <1>1, PayloadRoundTrip, SizeAssumption DEF Bytes
<1> DEFINE new == NewFor(key, payload)
<1>3. new = NewFor(key, payload)
  OBVIOUS
<1> HIDE DEF new
<1>4. /\ Len(payload) \in Byte
      /\ patched = before \o <<Len(new)>> \o new \o after
      /\ FieldAt(patched, Len(before) + 1) = new
      /\ patched \in Bytes /\ Len(new) <= 127
  <2>1. HasExtra(patched, payload, before, new, after)
    BY <1>1, <1>2, <1>3, PatchedSet
  <2> QED
    BY <2>1 DEF HasExtra
<1>5. new \in Bytes
  <2>1. Carries(new, payload)
    BY <1>1, <1>2, <1>3, <1>4, NewForParts
  <2> QED
    BY <2>1 DEF Carries
<1> QED
  BY <1>2, <1>3, <1>4, <1>5

LEMMA InitWalk == Init => WalkInv
<1> SUFFICES ASSUME Init
             PROVE  WalkInv
  OBVIOUS
<1>1. i = 0 /\ out = <<>>
  BY DEF Init
<1>2. CASE InitOther
  <2>1. claim = Nobody /\ extra \in Bytes
    BY <1>2, BytesAssumption DEF InitOther, BytesAssumption, Bytes
  <2> QED
    BY <2>1 DEF WalkInv, Patched, Walked, Sent
<1>3. CASE InitClaim
  <2>1. claim \in Claims /\ before \in Surrounding /\ after \in Surrounding
    BY <1>3 DEF InitClaim
  <2> DEFINE payload == BuildPayload(claim.name, claim.owner)
  <2>2. CASE verdict \in {"invalid", "unpatchable"} /\ extra = <<>>
    <3>1. extra \in Bytes
      BY <2>2 DEF Bytes
    <3> QED
      BY <2>2, <3>1 DEF WalkInv, Patched, Walked, Sent
  <2>3. CASE \E key \in TxPubKeys :
               /\ Buildable(claim.name, claim.owner)
               /\ Patchable(Plain(before, key, after), payload)
               /\ patched = Patch(Plain(before, key, after), payload)
               /\ extra = FieldAt(patched, Len(before) + 1)
               /\ verdict = "walking"
    <3>1. PICK key \in TxPubKeys :
               /\ Buildable(claim.name, claim.owner)
               /\ Patchable(Plain(before, key, after), payload)
               /\ patched = Patch(Plain(before, key, after), payload)
               /\ extra = FieldAt(patched, Len(before) + 1)
               /\ verdict = "walking"
      BY <2>3
    <3>2. /\ extra \in Bytes /\ PayloadSize \in Byte
          /\ extra = NewFor(key, payload)
          /\ patched = before \o <<Len(extra)>> \o extra \o after
      BY <2>1, <3>1, InitSent
    <3> QED
      BY <1>1, <2>1, <3>1, <3>2 DEF WalkInv, Patched, Walked, Sent
  <2> QED
    BY <1>3, <2>2, <2>3 DEF InitClaim, InitRefused, Plain
<1> QED
  BY <1>2, <1>3 DEF Init

\* The bytes that the walk over a claim's extra meets.
LEMMA SentBytes ==
  ASSUME WalkInv, Sent
  PROVE  \E payload \in Bytes :
           /\ payload = BuildPayload(claim.name, claim.owner)
           /\ Len(payload) = PayloadSize /\ PayloadSize \in Nat /\ PubKeySize \in Nat
           /\ ValidPayload(payload) /\ DecodePayload(payload) = claim
           /\ Len(extra) = PubKeySize + 3 + PayloadSize
           /\ extra[1] = TagPubKey
           /\ extra[PubKeySize + 2] = TagNonce
           /\ extra[PubKeySize + 3] = PayloadSize
           /\ SubSeq(extra, PubKeySize + 4, PubKeySize + 3 + PayloadSize) = payload
<1> DEFINE payload == BuildPayload(claim.name, claim.owner)
<1>1. /\ claim \in Claims /\ Buildable(claim.name, claim.owner) /\ PayloadSize \in Byte
      /\ claim \in [name : Seq(Byte), owner : Seq(Byte)]
  BY BytesAssumption DEF WalkInv, Patched, BytesAssumption
<1>2. PICK key \in TxPubKeys : extra = NewFor(key, payload)
  BY DEF WalkInv, Patched
<1>3. key \in Bytes /\ Len(key) = PubKeySize
  BY BytesAssumption DEF BytesAssumption, Bytes
<1>4. /\ payload \in Bytes /\ Len(payload) = PayloadSize
      /\ ValidPayload(payload)
      /\ DecodePayload(payload) = [name |-> claim.name, owner |-> claim.owner]
  BY <1>1, PayloadRoundTrip, SizeAssumption DEF Bytes
<1>5. [name |-> claim.name, owner |-> claim.owner] = claim
  BY <1>1
<1>6. PayloadSize \in Nat /\ PubKeySize \in Nat
  BY <1>1, DefaultNonceBytes DEF Byte
<1> HIDE DEF payload
<1>7. /\ Len(extra) = PubKeySize + 3 + PayloadSize
      /\ extra[1] = TagPubKey
      /\ extra[PubKeySize + 2] = TagNonce
      /\ extra[PubKeySize + 3] = PayloadSize
      /\ SubSeq(extra, PubKeySize + 4, PubKeySize + 3 + PayloadSize) = payload
  <2>1. Len(payload) \in Byte
    BY <1>1, <1>4
  <2>2. Carries(extra, payload)
    BY <1>2, <1>3, <1>4, <2>1, NewForParts
  <2> QED
    BY <1>4, <2>2 DEF Carries
<1> QED
  BY <1>4, <1>5, <1>6, <1>7 DEF payload

\* Every step is of a walk, and what it was given stays.
LEMMA StepsWalk ==
  ASSUME Next
  PROVE  verdict = "walking" /\ UNCHANGED setVars
BY DEF Next, Padding, PubKey, Nonce, NonceFails, AddKeys, AddKeysFails, Unsupported, End,
       IsAt, GoOn, Fail, setVars

\* While a claim's extra is walked only its two fields are met.
LEMMA StepWalked ==
  ASSUME WalkInv, Sent, Next, verdict' \notin {"invalid", "unpatchable"}
  PROVE  Walked'
<1> USE DEF TagPubKey, TagNonce, TagAddKeys
<1>1. verdict = "walking" /\ extra' = extra /\ claim' = claim
  BY StepsWalk DEF setVars
<1>2. PICK payload \in Bytes :
           /\ payload = BuildPayload(claim.name, claim.owner)
           /\ Len(payload) = PayloadSize /\ PayloadSize \in Nat /\ PubKeySize \in Nat
           /\ ValidPayload(payload) /\ DecodePayload(payload) = claim
           /\ Len(extra) = PubKeySize + 3 + PayloadSize
           /\ extra[1] = TagPubKey
           /\ extra[PubKeySize + 2] = TagNonce
           /\ extra[PubKeySize + 3] = PayloadSize
           /\ SubSeq(extra, PubKeySize + 4, PubKeySize + 3 + PayloadSize) = payload
  BY SentBytes
<1>3. CASE i = 0 /\ out = <<>>
  <2>1. At(i) = 1 /\ IsAt(1) /\ i < Len(extra)
    BY <1>1, <1>2, <1>3 DEF At, IsAt
  <2>2. ~Padding /\ ~Nonce /\ ~NonceFails /\ ~AddKeys /\ ~AddKeysFails
    BY <2>1 DEF Padding, Nonce, NonceFails, AddKeys, AddKeysFails, IsAt
  <2>3. ~Unsupported /\ ~End
    BY <1>2, <1>3, <2>1 DEF Unsupported, End
  <2>4. PubKey
    BY <2>2, <2>3 DEF Next
  <2>5. i' = PubKeySize + 1 /\ out' = <<>> /\ verdict' = "walking"
    BY <1>1, <1>2, <1>3, <2>4 DEF PubKey, GoOn
  <2> QED
    BY <2>5 DEF Walked
<1>4. CASE i = PubKeySize + 1 /\ out = <<>>
  <2>1. At(i) = 2 /\ At(i + 1) = PayloadSize /\ IsAt(2) /\ i < Len(extra)
    <3>1. i + 1 = PubKeySize + 2 /\ (i + 1) + 1 = PubKeySize + 3 /\ i \in 0..Len(extra) - 1
      BY <1>2, <1>4
    <3> QED
      BY <1>1, <1>2, <3>1 DEF At, IsAt
  <2>2. ~Padding /\ ~PubKey /\ ~AddKeys /\ ~AddKeysFails
    BY <2>1 DEF Padding, PubKey, AddKeys, AddKeysFails, IsAt
  <2>3. ~Unsupported /\ ~End
    BY <1>2, <1>4, <2>1 DEF Unsupported, End
  <2>4. NonceFits /\ NonceData = payload
    <3>1. /\ i + 3 = PubKeySize + 4 /\ i + 2 + PayloadSize = PubKeySize + 3 + PayloadSize
          /\ i + 1 < Len(extra) /\ i + 2 + PayloadSize <= Len(extra)
      BY <1>2, <1>4
    <3> QED
      BY <1>2, <2>1, <3>1 DEF NonceFits, NonceData
  <2>5. ~NonceFails
    BY <1>2, <2>4 DEF NonceFails
  <2>6. Nonce
    BY <2>2, <2>3, <2>5 DEF Next
  <2>7. out' = <<claim>>
    <3>1. out' = Append(<<>>, claim)
      BY <1>2, <1>4, <2>4, <2>6 DEF Nonce
    <3> QED
      BY <3>1
  <2>8. i' = Len(extra) /\ verdict' = "walking"
    <3>1. GoOn(i + 2 + PayloadSize)
      BY <1>2, <2>4, <2>6 DEF Nonce
    <3>2. i + 2 + PayloadSize = Len(extra) /\ ~(i + 2 + PayloadSize > Len(extra))
      BY <1>2, <1>4
    <3> QED
      BY <1>1, <3>1, <3>2 DEF GoOn
  <2> QED
    BY <1>1, <2>7, <2>8 DEF Walked
<1>5. CASE i = Len(extra) /\ out = <<claim>>
  <2>1. \A tag : ~IsAt(tag)
    BY <1>2, <1>5 DEF IsAt
  <2>2. End
    BY <2>1 DEF Next, Padding, PubKey, Nonce, NonceFails, AddKeys, AddKeysFails, Unsupported
  <2>3. i' = Len(extra) /\ out' = <<claim>> /\ verdict' = "payload"
    <3>1. Len(out) = 1
      BY <1>5
    <3> QED
      BY <1>5, <2>2, <3>1 DEF End
  <2> QED
    BY <1>1, <2>3 DEF Walked
<1> QED
  BY <1>3, <1>4, <1>5 DEF WalkInv, Walked

LEMMA StepWalk == WalkInv /\ [Next]_vars => WalkInv'
<1> SUFFICES ASSUME WalkInv, [Next]_vars
             PROVE  WalkInv'
  OBVIOUS
<1>1. CASE UNCHANGED vars
  BY <1>1 DEF vars, setVars, WalkInv, Patched, Walked, Sent
<1>2. CASE Next
  <2>1. /\ verdict = "walking" /\ extra' = extra /\ claim' = claim
        /\ patched' = patched /\ before' = before /\ after' = after
    BY <1>2, StepsWalk DEF setVars
  <2>2. Sent' => Sent
    BY <2>1 DEF Sent
  <2>3. Walked'
    <3>1. CASE Sent'
      BY <1>2, <2>2, <3>1, StepWalked DEF Sent
    <3>2. CASE ~Sent'
      BY <3>2 DEF Walked
    <3> QED
      BY <3>1, <3>2
  <2>4. Patched'
    BY <2>1, <2>2 DEF WalkInv, Patched
  <2> QED
    BY <2>1, <2>3, <2>4 DEF WalkInv
<1> QED
  BY <1>1, <1>2 DEF vars

\* The walk over what claim sent meets its two fields and nothing else, from
\* the patched transaction set to the payload (extra.go:7-47).
THEOREM WalkInvariant == Spec => []WalkInv
<1> QED
  BY InitWalk, StepWalk, PTL DEF Spec

\* A transaction set is changed where its extra is and nowhere else, for any
\* bytes around it, or it is not changed at all (patchTxSetPlaintext,
\* locateDefaultExtra).
THEOREM ExtraAloneChanges == Spec => []OnlyTheExtraChanges
<1>1. WalkInv => OnlyTheExtraChanges
  BY DEF WalkInv, Patched, Sent, OnlyTheExtraChanges
<1> QED
  BY <1>1, WalkInvariant, PTL

\* What claim sends is read back as the one name and owner that the user asked
\* for, for any name, key and transaction (claim.go:230, indexer.go:618-631).
THEOREM ClaimsAreReadBack == Spec => []ClaimIsReadBack
<1>1. WalkInv => ClaimIsReadBack
  BY DEF WalkInv, Walked, Sent, ClaimIsReadBack
<1> QED
  BY <1>1, WalkInvariant, PTL

-----------------------------------------------------------------------------
\* The payloads found.

\* A payload that Nonce accepts is the only encoding of what is decoded.
LEMMA FoundIsEncoded ==
  ASSUME extra \in Bytes, IsAt(TagNonce), NonceFits, Len(NonceData) = PayloadSize,
         ValidPayload(NonceData)
  PROVE  \E at \in 2..Len(extra) - PayloadSize :
           SubSeq(extra, at + 1, at + PayloadSize)
             = BuildPayload(DecodePayload(NonceData).name, DecodePayload(NonceData).owner)
<1>1. /\ Len(extra) \in Nat /\ i \in 0..Len(extra) - 1
      /\ \A k \in 1..Len(extra) : extra[k] \in Byte
  <2>1. extra \in Seq(Byte)
    BY DEF Bytes
  <2> QED
    BY <2>1, ElementOfSeq DEF IsAt
<1>2. /\ i + 1 < Len(extra) /\ At(i + 1) \in Nat /\ i + 2 + At(i + 1) <= Len(extra)
  <2>1. i + 1 < Len(extra) /\ i + 2 + At(i + 1) <= Len(extra)
    BY DEF NonceFits
  <2>2. (i + 1) + 1 \in 1..Len(extra)
    BY <1>1, <2>1
  <2>3. At(i + 1) = extra[(i + 1) + 1]
    BY DEF At
  <2>4. extra[(i + 1) + 1] \in Byte
    BY <1>1, <2>2
  <2>5. \A b \in Byte : b \in Nat
    BY DEF Byte
  <2>6. At(i + 1) \in Byte
    BY <2>3, <2>4, Zenon
  <2>7. At(i + 1) \in Nat
    BY <2>5, <2>6
  <2> QED
    BY <2>1, <2>7
<1> DEFINE n == At(i + 1)
<1>3. /\ NonceData \in Seq(Byte) /\ Len(NonceData) = n
      /\ NonceData = SubSeq(extra, i + 3, i + 2 + n)
  <2>1. NonceData = SubSeq(extra, i + 3, i + 2 + n)
    BY DEF NonceData
  <2>2. n \in Nat /\ i + 2 + n <= Len(extra)
    BY <1>2
  <2> HIDE DEF n
  <2>3. i + 3 \in Int /\ i + 2 + n \in Int /\ \A k \in i + 3..i + 2 + n : extra[k] \in Byte
    BY <1>1, <2>2
  <2>4. /\ SubSeq(extra, i + 3, i + 2 + n) \in Seq(Byte)
        /\ Len(SubSeq(extra, i + 3, i + 2 + n))
             = IF i + 3 <= i + 2 + n THEN (i + 2 + n) - (i + 3) + 1 ELSE 0
    BY <2>3, SubSeqProperties
  <2> QED
    BY <1>1, <2>1, <2>2, <2>4
<1>4. n = PayloadSize
  BY <1>3
<1>5. BuildPayload(DecodePayload(NonceData).name, DecodePayload(NonceData).owner) = NonceData
  BY <1>3, PayloadIsCanonical, SizeAssumption
<1>6. i + 2 \in 2..Len(extra) - PayloadSize
  BY <1>1, <1>2, <1>4
<1>7. SubSeq(extra, (i + 2) + 1, (i + 2) + PayloadSize) = NonceData
  <2>1. (i + 2) + 1 = i + 3
    BY <1>1
  <2> QED
    BY <1>3, <1>4, <2>1
<1> QED
  BY <1>5, <1>6, <1>7

CodeInv == extra \in Bytes /\ out \in Seq({out[k] : k \in DOMAIN out}) /\ OneEncoding

LEMMA StepCode == CodeInv /\ [Next]_vars => CodeInv'
<1> SUFFICES ASSUME CodeInv, [Next]_vars
             PROVE  CodeInv'
  OBVIOUS
<1> DEFINE Found == {out[k] : k \in DOMAIN out}
<1>1. CASE out' = out /\ extra' = extra
  BY <1>1 DEF CodeInv, OneEncoding
<1>2. CASE /\ out' = Append(out, DecodePayload(NonceData)) /\ extra' = extra
           /\ IsAt(TagNonce) /\ NonceFits /\ Len(NonceData) = PayloadSize
           /\ ValidPayload(NonceData)
  <2> DEFINE new == DecodePayload(NonceData)
             All == Found \cup {new}
  <2>1. out \in Seq(All) /\ new \in All
    BY SeqMonotonic DEF CodeInv
  <2>2. \E at \in 2..Len(extra) - PayloadSize :
          SubSeq(extra, at + 1, at + PayloadSize) = BuildPayload(new.name, new.owner)
    BY <1>2, FoundIsEncoded DEF CodeInv
  <2> HIDE DEF new, All
  <2>3. /\ out' \in Seq(All) /\ Len(out') = Len(out) + 1
        /\ \A k \in 1..Len(out) : out'[k] = out[k]
        /\ out'[Len(out) + 1] = new
        /\ Len(out) \in Nat /\ DOMAIN out = 1..Len(out) /\ DOMAIN out' = 1..Len(out')
    <3>1. out' = Append(out, new)
      BY <1>2 DEF new
    <3> QED
      BY <2>1, <3>1, AppendProperties, LenProperties
  <2>4. \A k \in DOMAIN out' : (k \in DOMAIN out /\ out'[k] = out[k]) \/ out'[k] = new
    BY <2>3
  <2>5. OneEncoding'
    BY <1>2, <2>2, <2>4 DEF CodeInv, OneEncoding
  <2>6. out' \in Seq({out'[k] : k \in DOMAIN out'})
    BY <2>3
  <2> QED
    BY <1>2, <2>5, <2>6 DEF CodeInv
<1>3. CASE UNCHANGED vars
  BY <1>1, <1>3 DEF vars, setVars
<1>4. CASE Next
  <2>1. extra' = extra
    BY <1>4, StepsWalk DEF setVars
  <2>2. CASE Nonce
    BY <1>1, <1>2, <2>1, <2>2 DEF Nonce
  <2>3. CASE ~Nonce
    BY <1>1, <1>4, <2>1, <2>3
       DEF Next, Padding, PubKey, NonceFails, AddKeys, AddKeysFails, Unsupported, End, Fail
  <2> QED
    BY <2>2, <2>3
<1> QED
  BY <1>3, <1>4 DEF vars

LEMMA AlwaysEncoded == Spec => []CodeInv
<1>1. Init => CodeInv
  <2> SUFFICES ASSUME Init
               PROVE  CodeInv
    OBVIOUS
  <2>1. out = <<>> /\ extra \in Bytes
    BY InitWalk DEF Init, WalkInv
  <2> QED
    BY <2>1 DEF CodeInv, OneEncoding
<1> QED
  BY <1>1, StepCode, PTL DEF Spec

\* Whatever extra somebody writes, a payload found in it is the one encoding
\* of the name and the owner that are taken from it (DecodePayload).
THEOREM PayloadsHaveOneEncoding == Spec => []OneEncoding
<1>1. CodeInv => OneEncoding
  BY DEF CodeInv
<1> QED
  BY <1>1, AlwaysEncoded, PTL

-----------------------------------------------------------------------------
\* The types.

\* The loop of readVarint on n bytes from offset k, as a function from what is
\* left of them.
IsVarint(f, k, n, first) ==
  f = [m \in first..n |->
         IF m = n THEN 0 ELSE ((At(k + m) % 128) + 128 * f[m + 1]) % Word]

\* readVarint returns a number, whatever it reads.
LEMMA VarintType ==
  ASSUME NEW k \in Nat, NEW n \in Nat, Word \in Nat \ {0},
         \A m \in 0..n - 1 : At(k + m) \in Nat
  PROVE  Varint(k, n) \in Nat
<1> DEFINE None == {j \in 0..n : ~\E f : IsVarint(f, k, n, n - j)}
<1>1. None = {}
  <2> SUFFICES ASSUME None # {}
               PROVE  FALSE
    OBVIOUS
  <2>1. PICK j \in None : \A d \in None : j <= d
    <3>1. None \in SUBSET Nat
      OBVIOUS
    <3> HIDE DEF None
    <3> QED
      BY <3>1, Least
  <2>2. j \in 0..n /\ ~\E f : IsVarint(f, k, n, n - j)
    OBVIOUS
  <2>3. j # 0
    <3> SUFFICES ASSUME j = 0
                 PROVE  FALSE
      OBVIOUS
    <3> DEFINE f == [m \in n..n |-> 0]
    <3>1. IsVarint(f, k, n, n)
      BY DEF IsVarint
    <3>2. n - j = n
      OBVIOUS
    <3> QED
      BY <2>2, <3>1, <3>2
  <2>4. j - 1 \in 0..n /\ j - 1 \notin None
    BY <2>1, <2>2, <2>3
  <2>5. PICK g : IsVarint(g, k, n, n - (j - 1))
    BY <2>4
  <2> DEFINE h == [m \in n - j..n |-> IF m = n - j
                                      THEN ((At(k + m) % 128) + 128 * g[m + 1]) % Word
                                      ELSE g[m]]
  <2>6. IsVarint(h, k, n, n - j)
    <3>1. \A m \in n - j..n : m # n - j => m \in n - (j - 1)..n
      BY <2>2
    <3>2. \A m \in n - (j - 1)..n :
            g[m] = IF m = n THEN 0 ELSE ((At(k + m) % 128) + 128 * g[m + 1]) % Word
      BY <2>5 DEF IsVarint
    <3>3. \A m \in n - j..n : m # n => m + 1 \in n - j..n /\ m + 1 # n - j
      BY <2>2
    <3>4. n - j # n
      BY <2>2, <2>3
    <3>5. \A m \in n - j..n :
            h[m] = IF m = n THEN 0 ELSE ((At(k + m) % 128) + 128 * h[m + 1]) % Word
      BY <3>1, <3>2, <3>3, <3>4
    <3> QED
      BY <3>5 DEF IsVarint
  <2> QED
    BY <2>2, <2>6
<1> DEFINE value == CHOOSE f : f = [m \in 0..n |->
                      IF m = n THEN 0 ELSE ((At(k + m) % 128) + 128 * f[m + 1]) % Word]
<1>2. IsVarint(value, k, n, 0)
  <2>1. n \in 0..n /\ n - n = 0
    OBVIOUS
  <2>2. \E f : IsVarint(f, k, n, 0)
    BY <1>1, <2>1
  <2> QED
    BY <2>2 DEF IsVarint
<1>3. Varint(k, n) = value[0]
  BY DEF Varint
<1> HIDE DEF value
<1>4. \A m \in 0..n :
        value[m] = IF m = n THEN 0 ELSE ((At(k + m) % 128) + 128 * value[m + 1]) % Word
  BY <1>2 DEF IsVarint
<1> DEFINE Odd == {j \in 0..n : value[n - j] \notin Nat}
<1>5. Odd = {}
  <2> SUFFICES ASSUME Odd # {}
               PROVE  FALSE
    OBVIOUS
  <2>1. PICK j \in Odd : \A d \in Odd : j <= d
    <3>1. Odd \in SUBSET Nat
      OBVIOUS
    <3> HIDE DEF Odd
    <3> QED
      BY <3>1, Least
  <2>2. j \in 0..n /\ value[n - j] \notin Nat /\ n - j \in 0..n
    OBVIOUS
  <2>3. j # 0
    BY <1>4, <2>2
  <2>4. n - (j - 1) = (n - j) + 1 /\ j - 1 \in 0..n /\ j - 1 \notin Odd
    BY <2>1, <2>2, <2>3
  <2>5. value[(n - j) + 1] \in Nat
    BY <2>4
  <2>6. value[n - j] = ((At(k + (n - j)) % 128) + 128 * value[(n - j) + 1]) % Word
    BY <1>4, <2>2, <2>3
  <2>7. At(k + (n - j)) \in Nat
    BY <2>2, <2>3
  <2> DEFINE a == At(k + (n - j))
             b == value[(n - j) + 1]
  <2>8. ((a % 128) + 128 * b) % Word \in Nat
    <3>1. a \in Nat /\ b \in Nat
      BY <2>5, <2>7
    <3> HIDE DEF a, b
    <3>2. (a % 128) + 128 * b \in Nat
      BY <3>1
    <3> QED
      BY <3>2
  <2> QED
    BY <2>2, <2>6, <2>8
<1>6. n \in 0..n /\ n - n = 0
  OBVIOUS
<1>7. value[0] \in Nat
  BY <1>5, <1>6
<1> QED
  BY <1>3, <1>7

\* An int is between half a word below 0 and half a word above.
LEMMA SignedType ==
  ASSUME NEW n \in Int, WordAssumption
  PROVE  Signed(n) \in Int /\ -(Word \div 2) <= Signed(n) /\ Signed(n) < Word \div 2
<1>1. PICK half \in Nat : Word = 2 * half /\ Word \div 2 = half /\ half > 0
  BY DEF WordAssumption
<1>2. n % Word \in Int /\ 0 <= n % Word /\ n % Word < Word
  BY <1>1
<1> DEFINE m == n % Word
<1>3. Signed(n) = IF m >= Word \div 2 THEN m - Word ELSE m
  BY DEF Signed
<1> HIDE DEF m
<1>4. m \in Int /\ 0 <= m /\ m < Word
  BY <1>2 DEF m
<1> QED
  BY <1>1, <1>3, <1>4

\* The offset is one that an int can be.
Ranged(k) == k \in Int /\ -(Word \div 2) <= k /\ k < Word \div 2

WalkTypes ==
  /\ extra \in Bytes /\ Len(extra) < Word \div 2
  /\ patched \in Bytes
  /\ Ranged(i)
  /\ verdict \in Verdicts
  /\ \A k \in DOMAIN out : Buildable(out[k].name, out[k].owner)

LEMMA InitTypes == Init => WalkTypes
<1> SUFFICES ASSUME Init
             PROVE  WalkTypes
  OBVIOUS
<1>1. i = 0 /\ out = <<>> /\ Ranged(i) /\ 127 < Word \div 2
  BY WordAssumption DEF WordAssumption, Init, Ranged
<1>2. CASE InitOther
  <2>1. extra \in Extras /\ patched = <<>> /\ verdict = "walking"
    BY <1>2 DEF InitOther
  <2>2. extra \in Bytes /\ Len(extra) < Word \div 2 /\ patched \in Bytes
    BY <2>1, BytesAssumption, WordAssumption DEF BytesAssumption, WordAssumption, Bytes
  <2> QED
    BY <1>1, <2>1, <2>2 DEF WalkTypes, Verdicts
<1>3. CASE InitClaim
  <2>1. claim \in Claims /\ before \in Surrounding /\ after \in Surrounding
    BY <1>3 DEF InitClaim
  <2> DEFINE payload == BuildPayload(claim.name, claim.owner)
  <2>2. CASE verdict \in {"invalid", "unpatchable"} /\ extra = <<>> /\ patched = <<>>
    <3>1. extra \in Bytes /\ patched \in Bytes /\ Len(extra) = 0
      BY <2>2 DEF Bytes
    <3>2. Len(extra) < Word \div 2
      BY <3>1, WordAssumption DEF WordAssumption
    <3> QED
      BY <1>1, <2>2, <3>1, <3>2 DEF WalkTypes, Verdicts
  <2>3. CASE \E key \in TxPubKeys :
               /\ Buildable(claim.name, claim.owner)
               /\ Patchable(Plain(before, key, after), payload)
               /\ patched = Patch(Plain(before, key, after), payload)
               /\ extra = FieldAt(patched, Len(before) + 1)
               /\ verdict = "walking"
    <3>1. extra \in Bytes /\ patched \in Bytes /\ Len(extra) <= 127
      BY <2>1, <2>3, InitSent
    <3>2. Len(extra) < Word \div 2
      <4>1. Len(extra) \in Nat
        BY <3>1, JoinBytes
      <4> QED
        BY <3>1, <4>1, WordAssumption DEF WordAssumption
    <3> QED
      BY <1>1, <2>3, <3>1, <3>2 DEF WalkTypes, Verdicts
  <2> QED
    BY <1>3, <2>2, <2>3 DEF InitClaim, InitRefused, Plain
<1> QED
  BY <1>2, <1>3 DEF Init

\* Where a field ends, the walk has a place to go on or an error.
LEMMA GoOnTypes ==
  ASSUME WalkTypes, NEW next \in Int, -(Word \div 2) <= next, GoOn(next)
  PROVE  /\ extra' \in Bytes /\ Len(extra') < Word \div 2
         /\ patched' \in Bytes
         /\ Ranged(i')
         /\ verdict' \in Verdicts
<1>1. extra' = extra /\ patched' = patched
  BY DEF GoOn, setVars
<1>2. Len(extra) \in Nat /\ Word \div 2 \in Int
  BY JoinBytes, WordAssumption DEF WalkTypes, WordAssumption
<1>3. CASE next > Len(extra)
  BY <1>1, <1>3 DEF GoOn, WalkTypes, Verdicts
<1>4. CASE ~(next > Len(extra))
  <2>1. i' = next /\ verdict' = verdict
    BY <1>4 DEF GoOn
  <2>2. Ranged(next)
    BY <1>2, <1>4 DEF WalkTypes, Ranged
  <2> QED
    BY <1>1, <2>1, <2>2 DEF WalkTypes
<1> QED
  BY <1>3, <1>4

\* What Nonce looks at is bytes.
LEMMA NonceDataType ==
  ASSUME extra \in Bytes, i \in 0..Len(extra) - 1, NonceFits, Len(extra) \in Nat,
         \A k \in 1..Len(extra) : extra[k] \in Nat
  PROVE  NonceData \in Bytes
<1>1. i + 1 < Len(extra) /\ i + 2 + At(i + 1) <= Len(extra)
  BY DEF NonceFits
<1>2. At(i + 1) \in Nat
  <2>1. (i + 1) + 1 \in 1..Len(extra)
    BY <1>1
  <2> QED
    BY <2>1 DEF At
<1> DEFINE n == At(i + 1)
<1>3. NonceData = SubSeq(extra, i + 3, i + 2 + n)
  BY DEF NonceData
<1> HIDE DEF n
<1>4. n \in Nat /\ i + 2 + n <= Len(extra)
  BY <1>1, <1>2 DEF n
<1>5. i + 3 \in Int /\ i + 2 + n \in Int /\ \A k \in i + 3..i + 2 + n : k \in 1..Len(extra)
  BY <1>4
<1>6. \A k \in i + 3..i + 2 + n : extra[k] \in Byte
  BY <1>5, ElementOfSeq DEF Bytes
<1> QED
  BY <1>3, <1>5, <1>6, SubSeqProperties DEF Bytes

\* A count of additional keys is a number.
LEMMA KeysCount ==
  ASSUME i \in 0..Len(extra) - 1, NEW n \in VarintSizes(i + 1), Len(extra) \in Nat,
         \A k \in 1..Len(extra) : extra[k] \in Nat
  PROVE  n \in Nat \ {0} /\ i \in Nat /\ Varint(i + 1, n) \in Nat
<1>1. n \in Nat \ {0} /\ i \in Nat /\ (i + 1) + n <= Len(extra)
  BY WordAssumption DEF VarintSizes, WordAssumption
<1>2. \A m \in 0..n - 1 : At((i + 1) + m) \in Nat
  <2>1. \A m \in 0..n - 1 : ((i + 1) + m) + 1 \in 1..Len(extra)
    BY <1>1
  <2> QED
    BY <2>1 DEF At
<1>3. Word \in Nat \ {0}
  BY WordAssumption DEF WordAssumption
<1>4. i + 1 \in Nat
  BY <1>1
<1> QED
  BY <1>1, <1>2, <1>3, <1>4, VarintType

LEMMA StepTypes == WalkTypes /\ CodeInv /\ [Next]_vars => WalkTypes'
<1> SUFFICES ASSUME WalkTypes, CodeInv, [Next]_vars
             PROVE  WalkTypes'
  OBVIOUS
<1>1. CASE UNCHANGED vars
  BY <1>1 DEF vars, setVars, WalkTypes
<1>2. /\ Len(extra) \in Nat /\ Word \div 2 \in Nat /\ PubKeySize \in Nat
      /\ \A k \in 1..Len(extra) : extra[k] \in Nat
  <2>1. \A k \in 1..Len(extra) : extra[k] \in Byte
    BY ElementOfSeq DEF WalkTypes, Bytes
  <2>2. \A b \in Byte : b \in Nat
    BY DEF Byte
  <2>3. Word \div 2 \in Nat
    BY WordAssumption DEF WordAssumption
  <2>4. extra \in Bytes
    BY DEF WalkTypes
  <2>5. Len(extra) \in Nat
    BY <2>4, JoinBytes
  <2>6. \A k \in 1..Len(extra) : extra[k] \in Nat
    BY <2>1, <2>2
  <2> QED
    BY <2>3, <2>5, <2>6, DefaultNonceBytes
<1>3. CASE Padding
  <2>1. i + 1 \in Int /\ -(Word \div 2) <= i + 1
    BY <1>2, <1>3 DEF Padding, IsAt
  <2>2. GoOn(i + 1) /\ out' = out
    BY <1>3 DEF Padding
  <2> QED
    BY <2>1, <2>2, GoOnTypes DEF WalkTypes
<1>4. CASE PubKey
  <2>1. i + 1 + PubKeySize \in Int /\ -(Word \div 2) <= i + 1 + PubKeySize
    BY <1>2, <1>4 DEF PubKey, IsAt
  <2>2. GoOn(i + 1 + PubKeySize) /\ out' = out
    BY <1>4 DEF PubKey
  <2> QED
    BY <2>1, <2>2, GoOnTypes DEF WalkTypes
<1>5. CASE Nonce
  <2>1. i \in 0..Len(extra) - 1 /\ NonceFits
    BY <1>5 DEF Nonce, IsAt
  <2>2. NonceData \in Bytes
    BY <1>2, <2>1, NonceDataType DEF WalkTypes
  <2>3. i + 2 + Len(NonceData) \in Int /\ -(Word \div 2) <= i + 2 + Len(NonceData)
    <3>1. Len(NonceData) \in Nat
      BY <2>2, JoinBytes
    <3> QED
      BY <1>2, <2>1, <3>1
  <2>4. GoOn(i + 2 + Len(NonceData))
    BY <1>5 DEF Nonce
  <2>5. \A k \in DOMAIN out' : Buildable(out'[k].name, out'[k].owner)
    <3>1. CASE out' = out
      BY <3>1 DEF WalkTypes
    <3>2. CASE ValidPayload(NonceData) /\ out' = Append(out, DecodePayload(NonceData))
      <4> DEFINE new == DecodePayload(NonceData)
                 All == {out[k] : k \in DOMAIN out} \cup {new}
      <4>1. Buildable(new.name, new.owner)
        BY <3>2 DEF ValidPayload, Decodes, Buildable, DecodePayload
      <4>2. out \in Seq(All) /\ new \in All
        BY SeqMonotonic DEF CodeInv
      <4>3. out' = Append(out, new)
        BY <3>2
      <4> HIDE DEF new, All
      <4>4. /\ Len(out') = Len(out) + 1 /\ Len(out) \in Nat
            /\ DOMAIN out = 1..Len(out) /\ DOMAIN out' = 1..Len(out')
            /\ \A k \in 1..Len(out) : out'[k] = out[k]
            /\ out'[Len(out) + 1] = new
        BY <4>2, <4>3, AppendProperties, LenProperties
      <4>5. \A k \in DOMAIN out' : (k \in DOMAIN out /\ out'[k] = out[k]) \/ out'[k] = new
        BY <4>4
      <4> QED
        BY <4>1, <4>5 DEF WalkTypes
    <3> QED
      BY <1>5, <3>1, <3>2 DEF Nonce
  <2> QED
    BY <2>3, <2>4, <2>5, GoOnTypes DEF WalkTypes
<1>6. CASE AddKeys
  <2>1. PICK n \in VarintSizes(i + 1) :
          GoOn(Signed(i + 1 + n + Signed(Varint(i + 1, n)) * PubKeySize))
    BY <1>6 DEF AddKeys
  <2>2. n \in Nat /\ i \in Nat /\ Varint(i + 1, n) \in Nat
    BY <1>2, <1>6, <2>1, KeysCount DEF AddKeys, IsAt
  <2>5. Signed(Varint(i + 1, n)) \in Int
    BY <2>2, SignedType, WordAssumption
  <2> DEFINE s == Signed(Varint(i + 1, n))
  <2>6. i + 1 + n + s * PubKeySize \in Int
    <3>1. s \in Int
      BY <2>5
    <3> HIDE DEF s
    <3> QED
      BY <1>2, <2>2, <3>1
  <2>7. /\ Signed(i + 1 + n + s * PubKeySize) \in Int
        /\ -(Word \div 2) <= Signed(i + 1 + n + s * PubKeySize)
    BY <2>6, SignedType, WordAssumption
  <2>8. out' = out
    BY <1>6 DEF AddKeys
  <2> QED
    BY <2>1, <2>7, <2>8, GoOnTypes DEF WalkTypes
<1>7. CASE NonceFails \/ AddKeysFails \/ Unsupported \/ End
  <2>1. UNCHANGED <<setVars, i, out>> /\ verdict' \in Verdicts
    BY <1>7 DEF NonceFails, AddKeysFails, Unsupported, End, Fail, Verdicts
  <2> QED
    BY <2>1 DEF setVars, WalkTypes
<1> QED
  BY <1>1, <1>3, <1>4, <1>5, <1>6, <1>7 DEF Next

\* Every variable has its type: the offset stays an int of the machine's, and
\* what was decoded is a name with a key.
THEOREM TypeCorrect == Spec => []TypeOK
<1>1. WalkTypes => TypeOK
  <2> SUFFICES ASSUME WalkTypes
               PROVE  TypeOK
    OBVIOUS
  <2>1. Signed(Word \div 2) = -(Word \div 2)
    <3>1. PICK half \in Nat : Word = 2 * half /\ Word \div 2 = half /\ half > 0
      BY WordAssumption DEF WordAssumption
    <3>2. half % Word = half
      BY <3>1
    <3> QED
      BY <3>1, <3>2 DEF Signed
  <2>2. i \in -(Word \div 2)..Word \div 2
    BY WordAssumption DEF WordAssumption, WalkTypes, Ranged
  <2> QED
    BY <2>1, <2>2 DEF WalkTypes, TypeOK, Bytes
<1> QED
  BY <1>1, InitTypes, StepTypes, AlwaysEncoded, PTL DEF Spec

-----------------------------------------------------------------------------
\* The walk over any extra.

\* What additional keys are said to take is still an int with what is before.
NoSumWraps ==
  IsAt(TagAddKeys) =>
    \A n \in VarintSizes(i + 1) : i + 1 + n + Varint(i + 1, n) * PubKeySize < Word \div 2

LEMMA SignedSame ==
  ASSUME NEW n \in Nat, WordAssumption, n < Word \div 2
  PROVE  Signed(n) = n
<1>1. PICK half \in Nat : Word = 2 * half /\ Word \div 2 = half /\ half > 0
  BY DEF WordAssumption
<1>2. n % Word = n
  BY <1>1
<1> QED
  BY <1>1, <1>2 DEF Signed

LEMMA KeysMove ==
  ASSUME NEW at \in Nat, NEW n \in Nat \ {0}, NEW keys \in Nat, WordAssumption, PubKeySize \in Nat,
         at + 1 + n + keys * PubKeySize < Word \div 2
  PROVE  LET next == Signed(at + 1 + n + Signed(keys) * PubKeySize)
         IN next \in Int /\ at < next
<1> DEFINE half == Word \div 2
           product == keys * PubKeySize
<1>1. half \in Nat /\ product \in Nat /\ at + 1 + n + product < half
  BY DEF WordAssumption
<1>2. CASE PubKeySize = 0
  <2>1. Signed(keys) \in Int
    BY SignedType
  <2>2. Signed(keys) * PubKeySize = 0 /\ product = 0
    BY <1>2, <2>1
  <2>3. Signed(at + 1 + n) = at + 1 + n
    <3>1. at + 1 + n \in Nat /\ at + 1 + n < Word \div 2
      BY <1>1, <2>2
    <3> QED
      BY <3>1, SignedSame
  <2> QED
    BY <2>2, <2>3
<1>3. CASE PubKeySize # 0
  <2>1. keys <= product
    <3>1. \A p \in Nat \ {0} : keys <= keys * p
      <4> SUFFICES ASSUME NEW p \in Nat \ {0}
                   PROVE  keys <= keys * p
        OBVIOUS
      <4>1. PICK q \in Nat : p = q + 1
        BY p - 1 \in Nat
      <4>2. keys * (q + 1) = keys * q + keys /\ keys * q \in Nat
        OBVIOUS
      <4> QED
        BY <4>1, <4>2
    <3> QED
      BY <1>3, <3>1
  <2> HIDE DEF product
  <2>2. keys < Word \div 2
    BY <1>1, <2>1
  <2>3. Signed(keys) = keys
    BY <2>2, SignedSame
  <2>4. at + 1 + n + product \in Nat /\ at + 1 + n + product < Word \div 2
    BY <1>1
  <2>5. Signed(at + 1 + n + product) = at + 1 + n + product
    BY <2>4, SignedSame
  <2>6. at < at + 1 + n + product
    BY <1>1
  <2> QED
    BY <1>1, <2>3, <2>5, <2>6 DEF product
<1> QED
  BY <1>2, <1>3

\* A field that ends further on is within the extra or the walk is over.
LEMMA MovesOn ==
  ASSUME WalkTypes, NEW next \in Int, i < next, GoOn(next), verdict' = "walking", verdict = "walking"
  PROVE  i < i' /\ i' <= Len(extra)
<1>1. Len(extra) \in Nat
  BY JoinBytes DEF WalkTypes
<1> QED
  BY <1>1 DEF GoOn

LEMMA StepMoves ==
  ASSUME WalkTypes, NoSumWraps, Next, verdict' = "walking"
  PROVE  i < i' /\ i' <= Len(extra)
<1>1. /\ Len(extra) \in Nat /\ PubKeySize \in Nat /\ verdict = "walking"
      /\ \A k \in 1..Len(extra) : extra[k] \in Nat
  <2>1. \A k \in 1..Len(extra) : extra[k] \in Byte
    BY ElementOfSeq DEF WalkTypes, Bytes
  <2>2. \A b \in Byte : b \in Nat
    BY DEF Byte
  <2>3. extra \in Bytes
    BY DEF WalkTypes
  <2>4. Len(extra) \in Nat
    BY <2>3, JoinBytes
  <2>5. verdict = "walking"
    BY StepsWalk
  <2> QED
    BY <2>1, <2>2, <2>4, <2>5, DefaultNonceBytes
<1>2. CASE Padding
  <2>1. i + 1 \in Int /\ i < i + 1
    BY <1>1, <1>2 DEF Padding, IsAt
  <2>2. GoOn(i + 1)
    BY <1>2 DEF Padding
  <2> QED
    BY <1>1, <2>1, <2>2, MovesOn
<1>3. CASE PubKey
  <2>1. i + 1 + PubKeySize \in Int /\ i < i + 1 + PubKeySize
    BY <1>1, <1>3 DEF PubKey, IsAt
  <2>2. GoOn(i + 1 + PubKeySize)
    BY <1>3 DEF PubKey
  <2> QED
    BY <1>1, <2>1, <2>2, MovesOn
<1>4. CASE Nonce
  <2>1. GoOn(i + 2 + Len(NonceData))
    BY <1>4 DEF Nonce
  <2>2. i \in 0..Len(extra) - 1 /\ NonceFits
    BY <1>4 DEF Nonce, IsAt
  <2>3. NonceData \in Bytes
    BY <1>1, <2>2, NonceDataType DEF WalkTypes
  <2>4. Len(NonceData) \in Nat
    BY <2>3, JoinBytes
  <2>5. i + 2 + Len(NonceData) \in Int /\ i < i + 2 + Len(NonceData)
    BY <1>1, <2>2, <2>4
  <2> QED
    BY <1>1, <2>1, <2>5, MovesOn
<1>5. CASE AddKeys
  <2>1. PICK n \in VarintSizes(i + 1) :
          GoOn(Signed(i + 1 + n + Signed(Varint(i + 1, n)) * PubKeySize))
    BY <1>5 DEF AddKeys
  <2>2. n \in Nat \ {0} /\ i \in Nat /\ Varint(i + 1, n) \in Nat
    BY <1>1, <1>5, <2>1, KeysCount DEF AddKeys, IsAt
  <2>3. i + 1 + n + Varint(i + 1, n) * PubKeySize < Word \div 2
    BY <1>5, <2>1 DEF AddKeys, NoSumWraps
  <2>4. /\ Signed(i + 1 + n + Signed(Varint(i + 1, n)) * PubKeySize) \in Int
        /\ i < Signed(i + 1 + n + Signed(Varint(i + 1, n)) * PubKeySize)
    BY <1>1, <2>2, <2>3, KeysMove, WordAssumption
  <2> QED
    BY <1>1, <2>1, <2>4, MovesOn
<1>6. CASE NonceFails \/ AddKeysFails \/ Unsupported \/ End
  BY <1>6 DEF NonceFails, AddKeysFails, Unsupported, End, Fail
<1> QED
  BY <1>2, <1>3, <1>4, <1>5, <1>6 DEF Next

\* A walk in which no sum wraps moves forward, field by field, and stays inside
\* the extra, on any bytes (extra.go:7-51): the wrapped sums that extra_wrap
\* shows are all there is against it.
THEOREM WalkMovesUnlessItWraps == Spec /\ []NoSumWraps => WalkMovesInside
<1>1. ASSUME WalkTypes, NoSumWraps, [Next]_vars
      PROVE  [verdict' = "walking" => i < i' /\ i' <= Len(extra)]_vars
  BY <1>1, StepMoves
<1> QED
  BY <1>1, InitTypes, StepTypes, AlwaysEncoded, PTL DEF Spec, WalkMovesInside

-----------------------------------------------------------------------------
\* Owner keys.

\* The claim is one of those that may be asked for.
ClaimKnown == claim = Nobody \/ claim \in Claims

LEMMA OwnerDigits ==
  ASSUME claim \in Claims
  PROVE  claim.owner \in Seq(Nat)
<1>1. claim.owner \in Seq(Byte)
  BY BytesAssumption
<1>2. Byte \subseteq Nat
  BY DEF Byte
<1> QED
  BY <1>1, <1>2, SeqMonotonic

\* Checking a key never divides by zero, in decodePoint or in any round of
\* scalarMult, for every key of every claim (edwards.go:54, 93-95).
THEOREM NoDivisionByZero == Spec => []NeverDividesByZero
<1>1. Init => ClaimKnown
  BY DEF Init, InitClaim, InitOther, ClaimKnown
<1>2. ClaimKnown /\ [Next]_vars => ClaimKnown'
  BY StepsWalk DEF ClaimKnown, vars, setVars
<1>3. ClaimKnown => NeverDividesByZero
  <2> SUFFICES ASSUME claim \in Claims
               PROVE  ~DividesByZero(Number(claim.owner))
    BY DEF ClaimKnown, NeverDividesByZero
  <2>1. claim.owner \in Seq(Nat)
    BY OwnerDigits
  <2>2. Number(claim.owner) \in Nat
    BY <2>1, NumberIs
  <2> QED
    BY <2>2, KeyChecksNeverDivideByZero
<1> QED
  BY <1>1, <1>2, <1>3, PTL DEF Spec

\* A claim is refused as invalid when its payload cannot be built, and only then.
Refused == claim \in Claims => (verdict = "invalid" <=> ~Buildable(claim.name, claim.owner))

\* What ValidateOwnerKey checks beside validOwnerPoint follows from it: the bytes
\* of a valid key are not all zero, and they encode it.
LEMMA ValidOwnerKeyIs ==
  ASSUME NEW owner \in Seq(Nat), Len(owner) = OwnerKeySize
  PROVE  ValidOwnerKey(owner) <=> IsSubgroupEncoding(Number(owner))
<1> DEFINE raw == Number(owner)
<1>1. ValidOwnerKey(owner) => IsSubgroupEncoding(raw)
  BY ValidKeysAreTheSubgroup DEF ValidOwnerKey
<1>2. ASSUME IsSubgroupEncoding(raw)
      PROVE  ValidOwnerKey(owner)
  <2>1. raw # 0
    BY <1>2, ZeroIsNoKey
  <2>2. \E k \in 1..Len(owner) : owner[k] # 0
    BY <2>1, NumberIs
  <2>3. raw \in Encodings
    BY <1>2, SubgroupIsEncoded
  <2>4. ValidOwnerPoint(raw)
    BY <1>2, <2>3, ValidKeysAreTheSubgroup
  <2> HIDE DEF raw
  <2>5. ValidOwnerKey(owner)
    BY <2>2, <2>3, <2>4, Zenon DEF ValidOwnerKey, raw
  <2> QED
    BY <2>5
<1> QED
  BY <1>1, <1>2

\* The keys that claim accepts are the encodings of the points of the prime-order
\* subgroup other than the identity, and no others (edwards.go:23-68).
THEOREM AcceptedKeysAreTheSubgroup == Spec => []KeysAreTheSubgroup
<1>1. Init => ClaimKnown /\ Refused
  <2> SUFFICES ASSUME Init
               PROVE  ClaimKnown /\ Refused
    OBVIOUS
  <2>1. CASE InitClaim
    <3>1. ClaimKnown
      BY <2>1 DEF InitClaim, ClaimKnown
    <3>2. \/ ~Buildable(claim.name, claim.owner) /\ verdict = "invalid"
          \/ Buildable(claim.name, claim.owner) /\ verdict \in {"unpatchable", "walking"}
      BY <2>1, Zenon DEF InitClaim, InitRefused
    <3> QED
      BY <3>1, <3>2 DEF Refused
  <2>2. CASE InitOther
    BY <2>2, BytesAssumption DEF InitOther, ClaimKnown, Refused
  <2> QED
    BY <2>1, <2>2 DEF Init
<1>2. ClaimKnown /\ Refused /\ [Next]_vars => ClaimKnown' /\ Refused'
  <2> SUFFICES ASSUME ClaimKnown, Refused, [Next]_vars
               PROVE  ClaimKnown' /\ Refused'
    OBVIOUS
  <2>1. CASE Next
    <3>1. verdict = "walking" /\ claim' = claim /\ verdict' # "invalid"
      <4>1. verdict = "walking" /\ UNCHANGED setVars
        BY <2>1, StepsWalk
      <4>2. verdict' # "invalid"
        BY <2>1, <4>1 DEF Next, Padding, PubKey, Nonce, NonceFails, AddKeys, AddKeysFails,
                          Unsupported, End, GoOn, Fail
      <4> QED
        BY <4>1, <4>2 DEF setVars
    <3> QED
      BY <3>1 DEF ClaimKnown, Refused
  <2>2. CASE UNCHANGED vars
    BY <2>2 DEF ClaimKnown, Refused, vars, setVars
  <2> QED
    BY <2>1, <2>2
<1>3. ClaimKnown /\ Refused => KeysAreTheSubgroup
  <2> SUFFICES ASSUME claim \in Claims, Refused, ValidName(claim.name),
                      Len(claim.owner) = OwnerKeySize
               PROVE  verdict # "invalid" <=> IsSubgroupEncoding(Number(claim.owner))
    BY DEF ClaimKnown, KeysAreTheSubgroup
  <2>1. claim.owner \in Seq(Nat)
    BY OwnerDigits
  <2>2. verdict # "invalid" <=> ValidOwnerKey(claim.owner)
    BY DEF Refused, Buildable
  <2> QED
    BY <2>1, <2>2, ValidOwnerKeyIs, Zenon
<1> QED
  BY <1>1, <1>2, <1>3, PTL DEF Spec
=============================================================================
