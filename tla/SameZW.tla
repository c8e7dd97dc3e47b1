------------------------------- MODULE SameZW -------------------------------
(***************************************************************************)
(* mpi_transpose_4d_same_zw: x,z,w,y with x distributed becomes y,z,w,x    *)
(* with y distributed, and back.  The native forms keep the order of the   *)
(* axes; with native_message_layout_enabled_ so do the messages.           *)
(***************************************************************************)
EXTENDS PackedTransfers

forward_send_chunk_elems_(c, me, p) == Share(c.n.y, c.P, p) * c.n.z * c.n.w * Share(c.n.x, c.P, me)
forward_recv_chunk_elems_(c, me, p) == Share(c.n.y, c.P, me) * c.n.z * c.n.w * Share(c.n.x, c.P, p)
backward_send_chunk_elems_(c, me, p) == Share(c.n.y, c.P, me) * c.n.z * c.n.w * Share(c.n.x, c.P, p)
backward_recv_chunk_elems_(c, me, p) == Share(c.n.y, c.P, p) * c.n.z * c.n.w * Share(c.n.x, c.P, me)

Forward(c, me, order) ==
    [sent |-> [p \in RanksOf(c) |-> forward_send_chunk_elems_(c, me, p)],
     received |-> [p \in RanksOf(c) |-> forward_recv_chunk_elems_(c, me, p)],
     tags |-> "source", async |-> FALSE, order |-> order]
Backward(c, me, order) ==
    [sent |-> [p \in RanksOf(c) |-> backward_send_chunk_elems_(c, me, p)],
     received |-> [p \in RanksOf(c) |-> backward_recv_chunk_elems_(c, me, p)],
     tags |-> "dest", async |-> FALSE, order |-> order]

forward_p2p_waitall_(c, me, order) == Waitall(c, me, Forward(c, me, order))
forward_p2p_waitany_(c, me, order) == Waitany(c, me, Forward(c, me, order))
forward_p2p_waitany_peer_paired_(c, me) == PeerPaired(c, me, Forward(c, me, "packed"))
forward_alltoallv_(c, me, order) == Collective(c, Forward(c, me, order))
forward_alltoallw_(c, me, order) == Collective(c, Forward(c, me, order))
backward_p2p_waitall_(c, me, order) == Waitall(c, me, Backward(c, me, order))
backward_p2p_waitany_(c, me, order) == Waitany(c, me, Backward(c, me, order))
backward_p2p_waitany_peer_paired_(c, me) == PeerPaired(c, me, Backward(c, me, "packed"))
backward_alltoallv_(c, me, order) == Collective(c, Backward(c, me, order))
backward_alltoallw_(c, me, order) == Collective(c, Backward(c, me, order))

\* native_message_layout_enabled_
MessageOrder(c) == IF c.nativeMessages THEN "native" ELSE "packed"
peer_paired_p2p_enabled_(c) == c.aware /\ c.paired /\ c.mode = "p2p_waitany"

transpose_xzwy_to_yzwx(c, me) ==
    IF peer_paired_p2p_enabled_(c) THEN forward_p2p_waitany_peer_paired_(c, me)
    ELSE ByMode(c, forward_p2p_waitall_(c, me, "packed"), forward_p2p_waitany_(c, me, "packed"),
                forward_alltoallv_(c, me, "packed"), forward_alltoallw_(c, me, "packed"))
transpose_xzwy_to_xzwy_native(c, me) ==
    LET order == MessageOrder(c)
    IN  ByMode(c, forward_p2p_waitall_(c, me, order), forward_p2p_waitany_(c, me, order),
               forward_alltoallv_(c, me, order), forward_alltoallw_(c, me, order))
transpose_yzwx_to_xzwy(c, me) ==
    IF peer_paired_p2p_enabled_(c) THEN backward_p2p_waitany_peer_paired_(c, me)
    ELSE ByMode(c, backward_p2p_waitall_(c, me, "packed"), backward_p2p_waitany_(c, me, "packed"),
                backward_alltoallv_(c, me, "packed"), backward_alltoallw_(c, me, "packed"))
transpose_xzwy_native_to_xzwy(c, me) ==
    LET order == MessageOrder(c)
    IN  ByMode(c, backward_p2p_waitall_(c, me, order), backward_p2p_waitany_(c, me, order),
               backward_alltoallv_(c, me, order), backward_alltoallw_(c, me, order))
=============================================================================
