------------------------------- MODULE SameZ -------------------------------
(***************************************************************************)
(* mpi_transpose_3d_same_z: x,y,z with x distributed becomes x,y,z with y  *)
(* distributed, and back, within a column of the process grid.  The        *)
(* optimized functions are for the order z,y,x and the xfast ones for      *)
(* x,z,y, in which the blocks of one side are contiguous.                  *)
(***************************************************************************)
EXTENDS PackedTransfers

forward_chunk_elems_(c, me, p) == Share(c.n.x, c.P, me) * Share(c.n.y, c.P, p) * c.n.z
forward_recv_elems_(c, me, p) == Share(c.n.x, c.P, p) * Share(c.n.y, c.P, me) * c.n.z
backward_chunk_elems_(c, me, p) == Share(c.n.x, c.P, me) * Share(c.n.y, c.P, p) * c.n.z
\* backward_sendcounts_, and input_dim_.size_x[p] * ny_local_ * nz_local_ in the loops.
backward_send_elems_(c, me, p) == Share(c.n.x, c.P, p) * Share(c.n.y, c.P, me) * c.n.z

cuda_aware_direct_p2p_enabled_(c) == c.aware /\ c.direct
cuda_aware_byte_p2p_enabled_(c) == c.aware /\ c.byte
persistent_p2p_enabled_(c) == c.aware /\ c.persistent /\ ~cuda_aware_byte_p2p_enabled_(c)
\* By value or, direct_backward_byte_receive_enabled_, in parts of whole rows.
direct_backward_receive_requested_(c) == c.aware /\ c.direct /\ c.directRecv

RecvHow(c) == IF cuda_aware_byte_p2p_enabled_(c) THEN "byte" ELSE "plain"
SendHow(c) == IF persistent_p2p_enabled_(c) THEN "kept" ELSE RecvHow(c)

Forward(c, me) ==
    [sent |-> [p \in RanksOf(c) |-> forward_chunk_elems_(c, me, p)],
     received |-> [p \in RanksOf(c) |-> forward_recv_elems_(c, me, p)],
     tags |-> "source", async |-> TRUE, order |-> "packed"]
Backward(c, me) ==
    [sent |-> [p \in RanksOf(c) |-> backward_send_elems_(c, me, p)],
     received |-> [p \in RanksOf(c) |-> backward_chunk_elems_(c, me, p)],
     tags |-> "dest", async |-> TRUE, order |-> "packed"]

forward_p2p_waitall_(c, me) == Waitall(c, me, Forward(c, me))
forward_p2p_waitany_(c, me) == Waitany(c, me, Forward(c, me))
forward_alltoallv_(c, me) == Collective(c, Forward(c, me))
forward_alltoallw_(c, me) == Collective(c, Forward(c, me))
backward_p2p_waitall_(c, me) == Waitall(c, me, Backward(c, me))
backward_p2p_waitany_(c, me) == Waitany(c, me, Backward(c, me))
backward_alltoallv_(c, me) == Collective(c, Backward(c, me))
backward_alltoallw_(c, me) == Collective(c, Backward(c, me))

-----------------------------------------------------------------------------
(* What the optimized and xfast functions have in common.                  *)

\* The receives, straight into the output array when "direct".
Receives(c, me, direct, counts) ==
    Each(Peers(c, me), LAMBDA p :
        IF direct THEN Irecv(RecvHow(c), p, "out", p, counts[p], "final")
        ELSE Irecv(RecvHow(c), p, RecvBuf(c), p, counts[p], "packed"))

\* A block from the receive buffer, the host's or the device's, to the output array.
Land(c, p) == Copy(p, RecvBuf(c), "out", "packed", "final")
Self(me) == Copy(me, "in", "out", "source", "final")

LandAll(c, me, direct) == WaitRecvs \o When(~direct, Each(Peers(c, me), LAMBDA p : Land(c, p)))
LandAny(c, me, direct) == WaitAny(ForPeers(c, me, LAMBDA p : When(~direct, Land(c, p))))

\* A block on its way into the send buffer, the host's or the device's.
PackSilent(c, me) ==   \* mutant
    Each(Peers(c, me), LAMBDA p : Copy(p, "in", SendBuf(c), "source", "packed"))
PackReady(c, me) ==
    Each(Peers(c, me), LAMBDA p : Copy(p, "in", SendBuf(c), "source", "packed") \o Ready(p))

\* An alltoallv or alltoallw of packed blocks, landed at once.
PackedAlltoall(c, d) ==
    LET exchange(from, to) ==
            Alltoall(c, from, d.sent, "packed", to, d.received, "packed")
    IN  PackAll(c, d)
        \o When(~c.aware, HostCopy("send", "hsend"))
        \o exchange(SendBuf(c), RecvBuf(c))
        \o Each(All(c), LAMBDA p : Land(c, p)) \o SyncAll(c)

-----------------------------------------------------------------------------
\* xfast, forward: a source block is contiguous in the input array.
ForwardXfastPosts(c, me) ==
    LET received(p) == forward_recv_elems_(c, me, p)
    IN  Receives(c, me, FALSE, ForPeers(c, me, received))
        \o (IF c.aware
            THEN Each(Peers(c, me), LAMBDA p :
                     Isend(SendHow(c), p, "in", me, forward_chunk_elems_(c, me, p), "source"))
            ELSE Each(Peers(c, me), LAMBDA p : Copy(p, "in", "hsend", "source", "packed"))
                 \o SyncAll(c)
                 \o Each(Peers(c, me), LAMBDA p :
                        Isend("plain", p, "hsend", me, forward_chunk_elems_(c, me, p), "packed")))
        \o Self(me)

forward_xfast_p2p_waitall_(c, me) ==
    ForwardXfastPosts(c, me) \o LandAll(c, me, FALSE) \o SyncAll(c) \o WaitSends
forward_xfast_p2p_waitany_(c, me) ==
    ForwardXfastPosts(c, me) \o LandAny(c, me, FALSE) \o SyncAll(c) \o WaitSends
forward_xfast_alltoallv_(c, me) == PackedAlltoall(c, Forward(c, me))
forward_xfast_alltoallw_(c, me) == PackedAlltoall(c, Forward(c, me))

\* xfast, backward.  The sends take the count of the receives, backward_chunk_elems_( p ).
BackwardXfastPosts(c, me) ==
    LET count(p) == backward_chunk_elems_(c, me, p)
        start_send(p) == Isend(SendHow(c), p, SendBuf(c), me, count(p), "packed")
        posting == PostReady(c.thread, ForPeers(c, me, start_send))
    IN  Receives(c, me, direct_backward_receive_requested_(c), ForPeers(c, me, count))
        \o When(c.thread, posting)
        \o PackReady(c, me)
        \o When(~c.thread, posting \o Join)
        \o Self(me)

backward_xfast_p2p_waitall_(c, me) ==
    BackwardXfastPosts(c, me) \o LandAll(c, me, direct_backward_receive_requested_(c))
    \o SyncAll(c) \o Join \o WaitSends
backward_xfast_p2p_waitany_(c, me) ==
    BackwardXfastPosts(c, me) \o LandAny(c, me, direct_backward_receive_requested_(c))
    \o SyncAll(c) \o Join \o WaitSends
backward_xfast_alltoallv_(c, me) == PackedAlltoall(c, Backward(c, me))
backward_xfast_alltoallw_(c, me) == PackedAlltoall(c, Backward(c, me))

-----------------------------------------------------------------------------
\* optimized, forward: a final block is contiguous in the output array.
ForwardOptimizedPosts(c, me) ==
    LET received(p) == forward_recv_elems_(c, me, p)
        start_send(p) == Isend(SendHow(c), p, SendBuf(c), me, forward_chunk_elems_(c, me, p), "packed")
        posting == PostReady(c.thread, ForPeers(c, me, start_send))
    IN  Receives(c, me, cuda_aware_direct_p2p_enabled_(c), ForPeers(c, me, received))
        \o PackReady(c, me)
        \o When(c.thread, posting)
        \o Self(me)
        \o When(~c.thread, posting \o Join)

forward_optimized_p2p_waitall_(c, me) ==
    ForwardOptimizedPosts(c, me) \o LandAll(c, me, cuda_aware_direct_p2p_enabled_(c))
    \o SyncAll(c) \o Join \o WaitSends
forward_optimized_p2p_waitany_(c, me) ==
    ForwardOptimizedPosts(c, me) \o LandAny(c, me, cuda_aware_direct_p2p_enabled_(c))
    \o SyncAll(c) \o Join \o WaitSends

\* With device-aware MPI the blocks arrive in the output array itself.
ForwardOptimizedAlltoall(c, me) ==
    IF ~c.aware THEN PackedAlltoall(c, Forward(c, me))
    ELSE PackAll(c, Forward(c, me))
         \o Alltoall(c, "send", [p \in RanksOf(c) |-> forward_chunk_elems_(c, me, p)], "packed",
                     "out", [p \in RanksOf(c) |-> forward_recv_elems_(c, me, p)], "final")
         \o SyncAll(c)
forward_optimized_alltoallv_(c, me) == ForwardOptimizedAlltoall(c, me)
forward_optimized_alltoallw_(c, me) == ForwardOptimizedAlltoall(c, me)

\* optimized, backward: a source block is contiguous in the input array.
BackwardOptimizedPosts(c, me) ==
    LET direct == direct_backward_receive_requested_(c)
        received(p) == backward_chunk_elems_(c, me, p)
        sent(p) == backward_send_elems_(c, me, p)
        start_send(p) == Isend("plain", p, "hsend", me, sent(p), "source")
        posting == PostReady(c.thread, ForPeers(c, me, start_send))
        stage(p) == Move(p, "in", "hsend") \o Ready(p)
    IN  IF c.aware
        THEN Each(Peers(c, me), LAMBDA p :
                 (IF direct THEN Irecv(RecvHow(c), p, "out", p, received(p), "final")
                  ELSE Irecv(RecvHow(c), p, "recv", p, received(p), "packed"))
                 \o Isend(SendHow(c), p, "in", me, sent(p), "source"))
             \o Self(me)
        ELSE Receives(c, me, FALSE, ForPeers(c, me, received))
             \o Each(Peers(c, me), stage)
             \o When(c.thread, posting)
             \o Self(me)
             \o When(~c.thread, posting \o Join)

backward_optimized_p2p_waitall_(c, me) ==
    BackwardOptimizedPosts(c, me) \o LandAll(c, me, direct_backward_receive_requested_(c))
    \o SyncAll(c) \o When(~c.aware, Join) \o WaitSends
backward_optimized_p2p_waitany_(c, me) ==
    BackwardOptimizedPosts(c, me) \o LandAny(c, me, direct_backward_receive_requested_(c))
    \o SyncAll(c) \o When(~c.aware, Join) \o WaitSends

BackwardOptimizedAlltoall(c, me) ==
    LET exchange(from, to) ==
            Alltoall(c, from, [p \in RanksOf(c) |-> backward_send_elems_(c, me, p)], "source",
                     to, [p \in RanksOf(c) |-> backward_chunk_elems_(c, me, p)], "packed")
    IN  (IF c.aware THEN exchange("in", "recv")
         ELSE HostCopy("in", "hsend") \o exchange("hsend", "hrecv"))
        \o Each(All(c), LAMBDA p : Land(c, p)) \o SyncAll(c)
backward_optimized_alltoallv_(c, me) == BackwardOptimizedAlltoall(c, me)
backward_optimized_alltoallw_(c, me) == BackwardOptimizedAlltoall(c, me)

-----------------------------------------------------------------------------
transpose_x_to_y(c, me) ==
    ByMode(c, forward_p2p_waitall_(c, me), forward_p2p_waitany_(c, me),
           forward_alltoallv_(c, me), forward_alltoallw_(c, me))
transpose_y_to_x(c, me) ==
    ByMode(c, backward_p2p_waitall_(c, me), backward_p2p_waitany_(c, me),
           backward_alltoallv_(c, me), backward_alltoallw_(c, me))
transpose_x_to_y_optimized_layout(c, me) ==
    ByMode(c, forward_optimized_p2p_waitall_(c, me), forward_optimized_p2p_waitany_(c, me),
           forward_optimized_alltoallv_(c, me), forward_optimized_alltoallw_(c, me))
transpose_y_to_x_optimized_layout(c, me) ==
    ByMode(c, backward_optimized_p2p_waitall_(c, me), backward_optimized_p2p_waitany_(c, me),
           backward_optimized_alltoallv_(c, me), backward_optimized_alltoallw_(c, me))
transpose_x_to_y_xfast(c, me) ==
    ByMode(c, forward_xfast_p2p_waitall_(c, me), forward_xfast_p2p_waitany_(c, me),
           forward_xfast_alltoallv_(c, me), forward_xfast_alltoallw_(c, me))
transpose_y_to_x_xfast(c, me) ==
    ByMode(c, backward_xfast_p2p_waitall_(c, me), backward_xfast_p2p_waitany_(c, me),
           backward_xfast_alltoallv_(c, me), backward_xfast_alltoallw_(c, me))
=============================================================================
