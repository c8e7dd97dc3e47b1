---------------------------- MODULE MCChunkWindow ----------------------------
(***************************************************************************)
(* Instances of ChunkWindow for TLC: the chunks each rank owes each peer   *)
(* follow from the planes a rank owns, of which the first ranks own one    *)
(* more when the axis does not divide (fft_partitioning).                  *)
(***************************************************************************)
EXTENDS ChunkWindow

Block(total) == [r \in Ranks |-> total \div P + (IF r < total % P THEN 1 ELSE 0)]

\* A rank sends the planes it owns.
OwnOf(total) == [s \in Ranks |-> [d \in Ranks |-> Block(total)[s]]]
\* Backward, a rank sends the planes its peer owns.
PeersOf(total) == [s \in Ranks |-> [d \in Ranks |-> Block(total)[d]]]

Own_5 == OwnOf(5)
Peers_5 == PeersOf(5)
=============================================================================
