----------------------------- MODULE NameCodec ------------------------------
(***************************************************************************)
(* Names, owner keys and payloads as bytes (pkg/xns/protocol.go).  Texts   *)
(* are sequences of bytes; the hexadecimal text of a key, which is decoded *)
(* and encoded again on the way, stands for the bytes it means.            *)
(***************************************************************************)
EXTENDS Edwards

CONSTANTS
  NameSize,     \* bytes of a name field (32 in the code)
  OwnerKeySize  \* bytes of an owner key (32 in the code)

ASSUME SizeAssumption == NameSize \in Nat \ {0} /\ OwnerKeySize \in Nat

Byte == 0..255

PayloadSize == NameSize + OwnerKeySize

IsNameEdge(c) == c \in 97..122 \/ c \in 48..57

IsNameChar(c) == IsNameEdge(c) \/ c = 45

ValidName(name) ==
  /\ Len(name) \in 1..NameSize
  /\ \A i \in 1..Len(name) : IsNameChar(name[i])
  /\ IsNameEdge(name[1])
  /\ IsNameEdge(name[Len(name)])

EncodeName(name) == [i \in 1..NameSize |-> IF i <= Len(name) THEN name[i] ELSE 0]

\* The number of bytes before the first zero.
NameEnd(raw) ==
  CHOOSE end \in 0..NameSize :
    /\ \A i \in 1..end : raw[i] # 0
    /\ end < NameSize => raw[end + 1] = 0

NameIn(raw) == SubSeq(raw, 1, NameEnd(raw))

\* Whatever follows the first zero is dropped.
DecodesUnpadded(raw) == Len(raw) = NameSize /\ ValidName(NameIn(raw))

\* DecodeName returns no error; what it returns is NameIn.
Decodes(raw) ==
  /\ Len(raw) = NameSize
  /\ \A i \in NameEnd(raw) + 1..NameSize : raw[i] = 0
  /\ ValidName(NameIn(raw))

\* An encoding uses all bits of a key in the code; in a small instance a byte
\* can have more.
ValidOwnerKey(raw) ==
  /\ Len(raw) = OwnerKeySize
  /\ \E i \in 1..Len(raw) : raw[i] # 0
  /\ Number(raw) \in Encodings
  /\ ValidOwnerPoint(Number(raw))

\* BuildPayload returns no error.
Buildable(name, owner) == ValidName(name) /\ ValidOwnerKey(owner)

\* The key before the name.
OwnerFirst(name, owner) == owner \o EncodeName(name)

BuildPayload(name, owner) == EncodeName(name) \o owner

NameField(raw) == SubSeq(raw, 1, NameSize)

OwnerField(raw) == SubSeq(raw, NameSize + 1, PayloadSize)

\* DecodePayload returns no error.
ValidPayload(raw) ==
  /\ Len(raw) = PayloadSize
  /\ Decodes(NameField(raw))
  /\ ValidOwnerKey(OwnerField(raw))

\* The name as it is in its field, with the zeros.
DecodePadded(raw) == [name |-> NameField(raw), owner |-> OwnerField(raw)]

DecodePayload(raw) == [name |-> NameIn(NameField(raw)), owner |-> OwnerField(raw)]
=============================================================================
