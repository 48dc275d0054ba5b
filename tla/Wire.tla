-------------------------------- MODULE Wire --------------------------------
(***************************************************************************)
(* A payload on its way: built by claim, put into the transaction set,     *)
(* found again by the indexer among the fields of a transaction's extra    *)
(* (ExtractPayloads, extra.go, and payloadForTx, indexer.go:618-631).      *)
(* The extra is either what a patched transaction set has, or any bytes    *)
(* that somebody else put into a transaction.  Offsets count from 0, as in *)
(* the code.                                                               *)
(***************************************************************************)
EXTENDS NameCodec, TxSet

CONSTANTS
  Word,        \* integers wrap at this power of two (2^64 in the code)
  MaxGroups,   \* the bytes of the longest varint (10 in the code)
  Claims,      \* the names and owner keys the user may ask for
  TxPubKeys,   \* the public keys of transactions
  Surrounding, \* what can be before and after the extra in a transaction set
  Extras,      \* extras of other people's transactions
  Nobody       \* the claim of no one

ASSUME BytesAssumption ==
  /\ Claims \subseteq [name : Seq(Byte), owner : Seq(Byte)]
  /\ \A key \in TxPubKeys : key \in Seq(Byte) /\ Len(key) = PubKeySize
  /\ Surrounding \subseteq Seq(Byte)
  /\ Extras \subseteq Seq(Byte)
  /\ Nobody \notin Claims

\* Half of a word's values are integers from 0 on, and a length is one of them.
ASSUME WordAssumption ==
  /\ Word \in Nat /\ Word % 2 = 0 /\ 127 < Word \div 2
  /\ \A e \in Extras : Len(e) < Word \div 2
  /\ MaxGroups \in Nat

TagAddKeys == 4

VARIABLES
  claim,    \* the payload asked for, or Nobody
  before, after, patched,  \* the transaction set around the extra, and patched
  extra,    \* the extra of the transaction
  i,        \* how far ExtractPayloads is
  out,      \* the payloads it has found
  verdict   \* whether it is still walking, and what it returns

setVars == <<claim, before, after, patched, extra>>
vars == <<setVars, i, out, verdict>>

\* The bytes that the length at an offset says are the extra.
FieldAt(plain, at) == SubSeq(plain, at + 1, at + plain[at])

\* What claim returns before anything is sent: the payload cannot be built, or
\* the transaction set cannot be patched.
InitRefused(reason) ==
  /\ patched = <<>> /\ extra = <<>>
  /\ verdict = reason

InitClaim ==
  /\ claim \in Claims
  /\ before \in Surrounding /\ after \in Surrounding
  /\ \E key \in TxPubKeys :
       LET plain   == before \o <<OldLen>> \o DefaultExtra(key) \o after
           payload == BuildPayload(claim.name, claim.owner)
       IN \/ /\ ~Buildable(claim.name, claim.owner)
             /\ before = <<>> /\ after = <<>>
             /\ InitRefused("invalid")
          \/ /\ Buildable(claim.name, claim.owner)
             /\ ~Patchable(plain, payload)
             /\ InitRefused("unpatchable")
          \/ /\ Buildable(claim.name, claim.owner)
             /\ Patchable(plain, payload)
             /\ patched = Patch(plain, payload)
             /\ extra = FieldAt(patched, Len(before) + 1)
             /\ verdict = "walking"

InitOther ==
  /\ claim = Nobody
  /\ before = <<>> /\ after = <<>> /\ patched = <<>>
  /\ extra \in Extras
  /\ verdict = "walking"

Init == /\ InitClaim \/ InitOther
        /\ i = 0
        /\ out = <<>>

-----------------------------------------------------------------------------
\* ExtractPayloads

At(k) == extra[k + 1]

IsAt(tag) == verdict = "walking" /\ i \in 0..Len(extra) - 1 /\ At(i) = tag

Fail == verdict' = "error" /\ UNCHANGED <<setVars, i, out>>

\* int: signed and wrapping.
Signed(n) == LET m == n % Word IN IF m >= Word \div 2 THEN m - Word ELSE m

\* The check at the end of a round is missing.
GoOnUnchecked(next) == i' = next /\ UNCHANGED <<setVars, verdict>>

\* The next field begins at next, unless that is beyond the end.  An offset
\* before the first byte is out of range, where the program stops: no action
\* follows.
GoOn(next) ==
  /\ UNCHANGED setVars
  /\ IF next > Len(extra) THEN verdict' = "error" /\ UNCHANGED i
     ELSE i' = next /\ UNCHANGED verdict

Padding == IsAt(0) /\ GoOn(i + 1) /\ UNCHANGED out

PubKey == IsAt(TagPubKey) /\ GoOn(i + 1 + PubKeySize) /\ UNCHANGED out

NonceFits == i + 1 < Len(extra) /\ i + 2 + At(i + 1) <= Len(extra)

NonceData == SubSeq(extra, i + 3, i + 2 + At(i + 1))

NonceFails ==
  /\ IsAt(TagNonce)
  /\ NonceFits => Len(NonceData) = PayloadSize /\ ~ValidPayload(NonceData)
  /\ Fail

Nonce ==
  /\ IsAt(TagNonce)
  /\ NonceFits
  /\ IF Len(NonceData) = PayloadSize
     THEN ValidPayload(NonceData) /\ out' = Append(out, DecodePayload(NonceData))
     ELSE UNCHANGED out
  /\ GoOn(i + 2 + Len(NonceData))

\* The sizes a varint at offset k can have: one or none.
VarintSizes(k) ==
  {n \in 1..MaxGroups : /\ k + n <= Len(extra)
                        /\ At(k + n - 1) < 128
                        /\ \A m \in 0..n - 2 : At(k + m) >= 128}

\* Seven bits of each byte, the first byte lowest; bits above the word are lost.
Varint(k, n) ==
  LET value[m \in 0..n] == IF m = n THEN 0 ELSE ((At(k + m) % 128) + 128 * value[m + 1]) % Word
  IN value[0]

AddKeysFails == IsAt(TagAddKeys) /\ VarintSizes(i + 1) = {} /\ Fail

AddKeys ==
  /\ IsAt(TagAddKeys)
  /\ \E n \in VarintSizes(i + 1) :
       GoOn(Signed(i + 1 + n + Signed(Varint(i + 1, n)) * PubKeySize))
  /\ UNCHANGED out

Unsupported ==
  /\ \A tag \in {0, TagPubKey, TagNonce, TagAddKeys} : ~IsAt(tag)
  /\ IsAt(At(i))
  /\ Fail

\* payloadForTx takes the payload if there is exactly one.
End ==
  /\ verdict = "walking"
  /\ i >= Len(extra)
  /\ verdict' = CASE Len(out) = 0 -> "missing" [] Len(out) = 1 -> "payload" [] OTHER -> "multiple"
  /\ UNCHANGED <<setVars, i, out>>

Next == \/ Padding \/ PubKey \/ Nonce \/ NonceFails \/ AddKeys \/ AddKeysFails
        \/ Unsupported \/ End

Spec == Init /\ [][Next]_vars

-----------------------------------------------------------------------------
Verdicts == {"invalid", "unpatchable", "walking", "error",
             "missing", "payload", "multiple"}

\* Every variable has its type, and what was decoded is a name.
TypeOK ==
  /\ extra \in Seq(Byte) /\ patched \in Seq(Byte)
  /\ i \in Signed(Word \div 2)..Word \div 2
  /\ verdict \in Verdicts
  /\ \A k \in DOMAIN out : Buildable(out[k].name, out[k].owner)

\* The walk moves forward, field by field, and never past the end: it looks at
\* each byte of a field at most once, and it ends (extra.go:7-51).
WalkMovesInside ==
  [][verdict' = "walking" => i < i' /\ i' <= Len(extra)]_vars

\* What claim puts into a transaction is what the indexer finds in it: one
\* payload, the name and the owner that the user asked for (claim.go:230,
\* indexer.go:618-631).
ClaimIsReadBack ==
  claim # Nobody =>
    /\ verdict \in {"invalid", "unpatchable", "walking", "payload"}
    /\ verdict = "payload" => out = <<claim>>

\* The transaction set is changed where its extra is and nowhere else: if
\* something else looks like the extra, it is not patched at all
\* (patchTxSetPlaintext, locateDefaultExtra).
OnlyTheExtraChanges ==
  claim # Nobody /\ verdict \notin {"invalid", "unpatchable"} =>
    patched = before \o <<Len(extra)>> \o extra \o after

\* A payload has one encoding: what was decoded is encoded to the bytes it was
\* decoded from, so no two texts on the chain mean the same name and owner
\* (DecodeName's check of the padding, protocol.go:69-73).
OneEncoding ==
  \A k \in DOMAIN out :
    LET bytes == BuildPayload(out[k].name, out[k].owner)
    IN \E at \in 2..Len(extra) - PayloadSize : SubSeq(extra, at + 1, at + PayloadSize) = bytes

\* The keys that claim accepts are the encodings of the points of the
\* prime-order subgroup other than the identity, one for each point: no second
\* encoding of one, no point of another order, no number that is no point
\* (edwards.go:23-68).
KeysAreTheSubgroup ==
  i = 0 /\ claim # Nobody /\ ValidName(claim.name) /\ Len(claim.owner) = OwnerKeySize =>
    (verdict # "invalid" <=> IsSubgroupEncoding(Number(claim.owner)))

\* Checking a key never divides by zero, in decodePoint or in any round of
\* scalarMult (edwards.go:54, 93-95).
NeverDividesByZero ==
  i = 0 /\ claim # Nobody /\ Len(claim.owner) = OwnerKeySize =>
    ~DividesByZero(Number(claim.owner))
=============================================================================
