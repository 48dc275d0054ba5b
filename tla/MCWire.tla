------------------------------- MODULE MCWire -------------------------------
(***************************************************************************)
(* A small instance of Wire: names of up to 3 bytes; keys of one byte, a   *)
(* point on a curve with 40 points over the integers modulo 29 (2^5 - 3)   *)
(* whose subgroup has order 5; public keys of 2 bytes.                     *)
(***************************************************************************)
EXTENDS Wire, SequencesExt

CONSTANT MaxBytes   \* bound: the length of extras of arbitrary bytes

PubKeyField(byte) == <<TagPubKey>> \o [k \in 1..PubKeySize |-> byte]

\* Keys of transactions; one holds a byte that looks like a length.
SomePubKeys == {<<8, 8>>, <<8, OldLen>>}

\* One of the four keys that are accepted.
GoodKey == <<18>>

\* A point that is not in the subgroup.
BadKey == <<0>>

A == 97
Hyphen == 45

\* "a", "a-a", and texts that are no names.
SomeNames == {<<>>, <<A>>, <<A, Hyphen, A>>, <<A, A, Hyphen>>, <<A, A, A, A>>}

\* Every name with a key that is one, and every key for a name that is one.
SomeClaims ==
  {[name |-> n, owner |-> GoodKey] : n \in SomeNames}
    \cup {[name |-> <<A>>, owner |-> <<raw>>] : raw \in Encodings}
    \cup {[name |-> <<A>>, owner |-> <<>>]}

LookAlike == <<OldLen>> \o DefaultExtra(<<8, 8>>)

SomeSurrounding ==
  {<<>>, <<OldLen>>, LookAlike, <<5>> \o DefaultNonce, PubKeyField(0) \o DefaultNonce \o <<9, 9>>,
   <<9, OldLen>> \o PubKeyField(OldLen), DefaultNonce, SubSeq(DefaultNonce, 1, 3)}

Payload(name) == <<TagNonce, PayloadSize>> \o name

\* Fields of an extra, whole and damaged.
SomeFields ==
  {<<0>>, PubKeyField(1), DefaultNonce, <<TagNonce, 0>>, <<TagAddKeys, 0>>,
   <<TagAddKeys, 2, 2, 2, 2, 2>>, <<TagAddKeys, 129, 0, 7, 7>>,
   Payload(<<A, 0, 0>> \o GoodKey), Payload(<<A, A, A>> \o GoodKey), Payload(<<A, 0, A>> \o GoodKey),
   Payload(<<A, Hyphen, 0>> \o GoodKey), Payload(<<A, 0, 0>> \o BadKey), <<TagNonce>>, <<3>>}

SomeBytes == {0, 1, 2, 4, 5, 127, 128, 255}

SomeExtras ==
  {FlattenSeq(fields) : fields \in BoundedSeq(SomeFields, 3)} \cup BoundedSeq(SomeBytes, MaxBytes)
=============================================================================
