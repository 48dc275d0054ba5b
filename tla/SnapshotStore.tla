--------------------------- MODULE SnapshotStore ----------------------------
(***************************************************************************)
(* What the indexer expects of its database: one snapshot, replaced as a   *)
(* whole or not at all, handed to each process that starts for the network *)
(* it was saved for, and dropped when a process starts for another one.    *)
(***************************************************************************)

CONSTANTS
  Snapshots,     \* what can be saved, and a snapshot without anything
  Empty,         \* that snapshot
  Networks,      \* protocol addresses, one for each network
  NoProcess      \* the network of no process

VARIABLES
  snapshot,  \* what is stored
  network,   \* the network the running process is for
  loaded     \* what it was given when it started

vars == <<snapshot, network, loaded>>

Foreign(n) == snapshot # Empty /\ snapshot.ProtocolAddress # n

Init == /\ snapshot \in Snapshots
        /\ network = NoProcess
        /\ loaded = Empty

Start(n) == /\ network = NoProcess
            /\ network' = n
            /\ snapshot' = IF Foreign(n) THEN Empty ELSE snapshot
            /\ loaded' = snapshot'

Save(s) == /\ network # NoProcess
           /\ s.ProtocolAddress = network
           /\ snapshot' = s
           /\ UNCHANGED <<network, loaded>>

Stop == /\ network # NoProcess
        /\ network' = NoProcess
        /\ loaded' = Empty
        /\ UNCHANGED snapshot

Next == \/ \E n \in Networks : Start(n)
        \/ \E s \in Snapshots : Save(s)
        \/ Stop

Spec == Init /\ [][Next]_vars
=============================================================================
