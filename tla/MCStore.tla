------------------------------ MODULE MCStore -------------------------------
(***************************************************************************)
(* A small instance of Store: the snapshots are registries of real lists   *)
(* of transfers, replayed by Apply.                                        *)
(***************************************************************************)
EXTENDS Store

CONSTANTS mainnet, stagenet, n1, n2, alice, bob, hash1, hash2

T(txid, height, amount, name, owner) ==
  [txid |-> txid, height |-> height, amount |-> amount,
   payload |-> [name |-> name, owner |-> owner]]

Replayed(height, hash, transfers) ==
  LET step(acc, t) == [Names  |-> NamesAfter(acc.Names, t),
                       Events |-> Append(acc.Events, EventOf(acc.Names, t))]
      all == FoldLeft(step, [Names |-> NewRegistry, Events |-> <<>>], transfers)
  IN [Height |-> height, BlockHash |-> hash, Names |-> all.Names, Events |-> all.Events]

\* Nothing durable yet; one claim; a claim and its renewal in one block, in an
\* order that is not that of their hashes, with a second name and a payment
\* that is ignored.
Plain == {Replayed(0, NoHash, <<>>),
          Replayed(1, hash1, <<T(2, 1, 2, n1, alice)>>),
          Replayed(2, hash2, <<T(2, 1, 2, n1, alice), T(1, 1, 2, n1, alice),
                               T(0, 2, 3, n1, bob), T(3, 2, 4, n2, bob)>>)}

\* One transaction that get_transfers lists twice, for two addresses of the
\* wallet that it pays: a claim and its renewal, or a claim and a payment that
\* is too small.
Twice == {Replayed(1, hash1, <<T(2, 1, 2, n1, alice), T(2, 1, 2, n1, alice)>>),
          Replayed(1, hash1, <<T(2, 1, 2, n1, alice), T(2, 1, 1, n1, alice)>>)}

SomeSnapshots == Plain \cup Twice
=============================================================================
