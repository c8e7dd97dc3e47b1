------------------------------- MODULE SameXY -------------------------------
(***************************************************************************)
(* mpi_transpose_4d_same_xy: x,y,z,w with z distributed becomes x,y,w,z    *)
(* with w distributed, and back.                                           *)
(***************************************************************************)
EXTENDS PackedTransfers

forward_send_chunk_elems_(c, me, p) == c.n.x * c.n.y * Share(c.n.z, c.P, me) * Share(c.n.w, c.P, p)
SwappedElems(c, me, p) == forward_send_chunk_elems_(c, me, p)   \* mutant
forward_recv_chunk_elems_(c, me, p) == c.n.x * c.n.y * Share(c.n.z, c.P, p) * Share(c.n.w, c.P, me)
backward_send_chunk_elems_(c, me, p) == c.n.x * c.n.y * Share(c.n.w, c.P, me) * Share(c.n.z, c.P, p)
backward_recv_chunk_elems_(c, me, p) == c.n.x * c.n.y * Share(c.n.w, c.P, p) * Share(c.n.z, c.P, me)

Forward(c, me) ==
    [sent |-> [p \in RanksOf(c) |-> forward_send_chunk_elems_(c, me, p)],
     received |-> [p \in RanksOf(c) |-> forward_recv_chunk_elems_(c, me, p)],
     tags |-> "source", async |-> FALSE, order |-> "packed"]
Backward(c, me) ==
    [sent |-> [p \in RanksOf(c) |-> backward_send_chunk_elems_(c, me, p)],
     received |-> [p \in RanksOf(c) |-> backward_recv_chunk_elems_(c, me, p)],
     tags |-> "dest", async |-> FALSE, order |-> "packed"]

forward_p2p_waitall_(c, me) == Waitall(c, me, Forward(c, me))
forward_p2p_waitany_(c, me) == Waitany(c, me, Forward(c, me))
forward_alltoallv_(c, me) == Collective(c, Forward(c, me))
forward_alltoallw_(c, me) == Collective(c, Forward(c, me))
backward_p2p_waitall_(c, me) == Waitall(c, me, Backward(c, me))
backward_p2p_waitany_(c, me) == Waitany(c, me, Backward(c, me))
backward_alltoallv_(c, me) == Collective(c, Backward(c, me))
backward_alltoallw_(c, me) == Collective(c, Backward(c, me))

transpose_xyzw_to_xywz(c, me) ==
    ByMode(c, forward_p2p_waitall_(c, me), forward_p2p_waitany_(c, me),
           forward_alltoallv_(c, me), forward_alltoallw_(c, me))
transpose_xywz_to_xyzw(c, me) ==
    ByMode(c, backward_p2p_waitall_(c, me), backward_p2p_waitany_(c, me),
           backward_alltoallv_(c, me), backward_alltoallw_(c, me))
=============================================================================
