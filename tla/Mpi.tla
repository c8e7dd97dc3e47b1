-------------------------------- MODULE Mpi --------------------------------
(***************************************************************************)
(* Point-to-point MPI as the transposes use it (external: the library is   *)
(* not part of the repository).  A posted request is a record with at      *)
(* least the fields src, dst, tag and order, its place in the order in     *)
(* which its rank posted on that channel.                                  *)
(***************************************************************************)
EXTENDS Naturals

\* Requests of one class are matched in the order of posting.
SameClass(a, b) == a.src = b.src /\ a.dst = b.dst /\ a.tag = b.tag

Oldest(req, posted) == \A other \in posted : SameClass(other, req) => req.order <= other.order

\* A posted send and a posted receive that MPI may match now.
Matching(m, q, sends, recvs) ==
    /\ SameClass(m, q)
    /\ Oldest(m, sends)
    /\ Oldest(q, recvs)
=============================================================================
