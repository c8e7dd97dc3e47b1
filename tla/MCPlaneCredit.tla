---------------------------- MODULE MCPlaneCredit ----------------------------
(***************************************************************************)
(* The backward scheduler with more planes than credits on both ranks, the *)
(* first rank owning one plane more, as fft_partitioning deals them out.   *)
(***************************************************************************)
EXTENDS PlaneCredit

Block(total) == [r \in Ranks |-> total \div P + (IF r < total % P THEN 1 ELSE 0)]

Seven == Block(7)
=============================================================================
