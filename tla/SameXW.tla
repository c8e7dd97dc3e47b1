------------------------------- MODULE SameXW -------------------------------
(***************************************************************************)
(* mpi_transpose_4d_same_xw: x,y,w,z with y distributed becomes x,z,w,y    *)
(* with z distributed, and back; the slab-native and degenerate-pencil     *)
(* forms start from or end in other orders of the same axes.  The windowed *)
(* and compact transports are ChunkWindow, the WZ pipelines PlanePipeline  *)
(* and PlaneCredit.                                                        *)
(***************************************************************************)
EXTENDS PackedTransfers

forward_send_chunk_elems_(c, me, p) == c.n.x * Share(c.n.z, c.P, p) * c.n.w * Share(c.n.y, c.P, me)
forward_recv_chunk_elems_(c, me, p) == c.n.x * Share(c.n.z, c.P, me) * c.n.w * Share(c.n.y, c.P, p)
backward_send_chunk_elems_(c, me, p) == c.n.x * Share(c.n.z, c.P, me) * c.n.w * Share(c.n.y, c.P, p)
backward_recv_chunk_elems_(c, me, p) == c.n.x * Share(c.n.z, c.P, p) * c.n.w * Share(c.n.y, c.P, me)

Forward(c, me) ==
    [sent |-> [p \in RanksOf(c) |-> forward_send_chunk_elems_(c, me, p)],
     received |-> [p \in RanksOf(c) |-> forward_recv_chunk_elems_(c, me, p)],
     tags |-> "source", async |-> FALSE, order |-> "packed"]
Backward(c, me) ==
    [sent |-> [p \in RanksOf(c) |-> backward_send_chunk_elems_(c, me, p)],
     received |-> [p \in RanksOf(c) |-> backward_recv_chunk_elems_(c, me, p)],
     tags |-> "dest", async |-> FALSE, order |-> "packed"]

forward_p2p_waitall_(c, me) == Waitall(c, me, Forward(c, me))
forward_p2p_waitany_(c, me) == Waitany(c, me, Forward(c, me))
forward_p2p_waitany_peer_paired_(c, me) == PeerPaired(c, me, Forward(c, me))
forward_alltoallv_(c, me) == Collective(c, Forward(c, me))
forward_alltoallw_(c, me) == Collective(c, Forward(c, me))
backward_p2p_waitall_(c, me) == Waitall(c, me, Backward(c, me))
backward_p2p_waitany_(c, me) == Waitany(c, me, Backward(c, me))
backward_p2p_waitany_peer_paired_(c, me) == PeerPaired(c, me, Backward(c, me))
backward_alltoallv_(c, me) == Collective(c, Backward(c, me))
backward_alltoallw_(c, me) == Collective(c, Backward(c, me))

-----------------------------------------------------------------------------
(* The direct transports: a message lies as the x,z,w,y array does, so the *)
(* receives of a forward call and the sends of a backward call use that    *)
(* array itself.  The chunked ones split a message.  The receive buffer is *)
(* the send buffer (c.alias).                                              *)

ChunkedHow(c) == IF c.chunked THEN "byte" ELSE "plain"

forward_p2p_waitany_native_xzwy_direct_(c, me) ==
    Each(Peers(c, me), LAMBDA p :
        Irecv(ChunkedHow(c), p, "out", p, forward_recv_chunk_elems_(c, me, p), "final"))
    \o Each(All(c), LAMBDA p :
           (IF p = me THEN Now(me, "in", "out", "source", "final")
            ELSE Now(p, "in", "send", "source", "final")
                 \o Isend(ChunkedHow(c), p, "send", me, forward_send_chunk_elems_(c, me, p), "final"))
           \o Drain(ForPeers(c, me, LAMBDA q : <<>>)))
    \o WaitAny(ForPeers(c, me, LAMBDA q : <<>>)) \o WaitSends

backward_p2p_waitany_native_xzwy_direct_(c, me) ==
    LET unpack_chunk(p) == Now(p, "recv", "out", "source", "final")
    IN  Each(Peers(c, me), LAMBDA p :
            Irecv(ChunkedHow(c), p, "recv", me, backward_recv_chunk_elems_(c, me, p), "source"))
        \o Each(All(c), LAMBDA p :
               (IF p = me THEN Now(me, "in", "out", "source", "final")
                ELSE Isend(ChunkedHow(c), p, "in", p, backward_send_chunk_elems_(c, me, p), "source"))
               \o Drain(ForPeers(c, me, unpack_chunk)))
        \o WaitAny(ForPeers(c, me, unpack_chunk)) \o WaitSends

-----------------------------------------------------------------------------
transpose_xywz_to_xzwy(c, me) ==
    ByMode(c, forward_p2p_waitall_(c, me), forward_p2p_waitany_(c, me),
           forward_alltoallv_(c, me), forward_alltoallw_(c, me))
transpose_xzwy_to_xywz(c, me) ==
    ByMode(c, backward_p2p_waitall_(c, me), backward_p2p_waitany_(c, me),
           backward_alltoallv_(c, me), backward_alltoallw_(c, me))

\* With device-aware MPI the waitany mode packs, sends and unpacks peer by peer.
transpose_xyzw_to_yzwx_slab_native(c, me) ==
    IF c.mode = "p2p_waitany" /\ c.aware THEN forward_p2p_waitany_peer_paired_(c, me)
    ELSE transpose_xywz_to_xzwy(c, me)
transpose_yzwx_to_xyzw_slab_native(c, me) ==
    IF c.mode = "p2p_waitany" /\ c.aware THEN backward_p2p_waitany_peer_paired_(c, me)
    ELSE transpose_xzwy_to_xywz(c, me)

\* native_xzwy_direct_layout_enabled_ is for these four.
transpose_xyzw_to_xzwy_slab_native(c, me) ==
    IF c.mode = "p2p_waitany" /\ c.aware /\ c.alias
    THEN forward_p2p_waitany_native_xzwy_direct_(c, me)
    ELSE transpose_xyzw_to_yzwx_slab_native(c, me)
transpose_xzwy_to_xyzw_slab_native(c, me) ==
    IF c.mode = "p2p_waitany" /\ c.aware /\ c.alias
    THEN backward_p2p_waitany_native_xzwy_direct_(c, me)
    ELSE transpose_yzwx_to_xyzw_slab_native(c, me)
transpose_xywz_to_xzwy_degenerate_pencil_native(c, me) == transpose_xyzw_to_xzwy_slab_native(c, me)
transpose_xzwy_to_xywz_degenerate_pencil_native(c, me) == transpose_xzwy_to_xyzw_slab_native(c, me)
=============================================================================
