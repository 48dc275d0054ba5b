------------------------------- MODULE TxSet -------------------------------
(***************************************************************************)
(* The plain text of an unsigned transaction set (pkg/monero/txset.go):    *)
(* the extra field that the wallet made is found by what it looks like and *)
(* replaced by one with the payload.  What is around it is Monero's and    *)
(* may be any bytes.  The encryption around the plain text, which is its   *)
(* own inverse, and the signature over it are left out.                    *)
(***************************************************************************)
EXTENDS Integers, Sequences, FiniteSets

CONSTANTS
  PubKeySize,    \* bytes of a public key (32 in the code)
  PaymentIDSize  \* bytes of an encrypted payment id (8 in the code)

TagPubKey == 1
TagNonce == 2

\* The empty encrypted payment id that wallets put into every transaction.
DefaultNonce ==
  <<TagNonce, PaymentIDSize + 1, 1>> \o [i \in 1..PaymentIDSize |-> 0]

OldLen == 1 + PubKeySize + Len(DefaultNonce)

\* Its length takes one byte.
ASSUME LengthAssumption ==
  PubKeySize \in Nat /\ PaymentIDSize \in Nat /\ OldLen <= 127

\* What a wallet puts into extra, a public key and the empty payment id.
DefaultExtra(key) == <<TagPubKey>> \o key \o DefaultNonce

\* The offsets of the length bytes of all fields that look like the default
\* extra, as the search for DefaultNonce finds them one after another.
Matches(plain) ==
  {at \in 1..Len(plain) - OldLen :
     /\ plain[at] = OldLen
     /\ plain[at + 1] = TagPubKey
     /\ SubSeq(plain, at + 2 + PubKeySize, at + OldLen) = DefaultNonce}

\* The last of several matches is taken.
LocatesAny(plain) == Matches(plain) # {}

\* locateDefaultExtra returns no error.
Locates(plain) == Cardinality(Matches(plain)) = 1

LengthOffset(plain) == CHOOSE at \in Matches(plain) : TRUE

NewExtra(plain, payload) ==
  LET at == LengthOffset(plain)
  IN SubSeq(plain, at + 1, at + 1 + PubKeySize) \o <<TagNonce, Len(payload)>> \o payload

\* patchTxSetPlaintext returns no error.
Patchable(plain, payload) == Locates(plain) /\ Len(NewExtra(plain, payload)) <= 127

Patch(plain, payload) ==
  LET at == LengthOffset(plain)
      extra == NewExtra(plain, payload)
  IN SubSeq(plain, 1, at - 1) \o <<Len(extra)>> \o extra
       \o SubSeq(plain, at + 1 + OldLen, Len(plain))
=============================================================================
