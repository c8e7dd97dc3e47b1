--------------------------- MODULE MCPlanePipeline ---------------------------
(***************************************************************************)
(* Instances of PlanePipeline for TLC.  fft_partitioning gives the first   *)
(* ranks one plane more when the axis does not divide.                     *)
(***************************************************************************)
EXTENDS PlanePipeline

Block(total) == [r \in Ranks |-> total \div P + (IF r < total % P THEN 1 ELSE 0)]

Five == Block(5)

\* Rank 1 sends eagerly, rank 0 does not.
FromOne == {<<1, 0>>}
=============================================================================
