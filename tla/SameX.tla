------------------------------- MODULE SameX -------------------------------
(***************************************************************************)
(* mpi_transpose_3d_same_x: x,y,z with y distributed becomes x,z,y with z  *)
(* distributed, and back, within a row of the process grid.  A forward     *)
(* source block is contiguous in the input array; a backward final block   *)
(* is contiguous in the output array.                                      *)
(***************************************************************************)
EXTENDS TransferSteps

forward_send_chunk_elems_(c, me, p) == c.n.x * Share(c.n.y, c.P, me) * Share(c.n.z, c.P, p)
forward_recv_chunk_elems_(c, me, p) == c.n.x * Share(c.n.y, c.P, p) * Share(c.n.z, c.P, me)
backward_send_chunk_elems_(c, me, p) == forward_recv_chunk_elems_(c, me, p)
backward_recv_chunk_elems_(c, me, p) == forward_send_chunk_elems_(c, me, p)

cuda_aware_byte_p2p_enabled_(c) == c.aware /\ c.byte
cuda_aware_direct_p2p_enabled_(c) == c.aware /\ c.direct /\ c.directRecv
cuda_aware_direct_forward_send_enabled_(c) == c.aware /\ c.direct
cuda_aware_direct_backward_send_enabled_(c) ==
    c.aware /\ c.direct /\ ~cuda_aware_byte_p2p_enabled_(c) /\ c.P <= 1
persistent_p2p_enabled_(c) == c.aware /\ c.persistent /\ ~cuda_aware_byte_p2p_enabled_(c)

\* How messages go: the receives, and the sends where persistent ones are in use.
RecvHow(c) == IF cuda_aware_byte_p2p_enabled_(c) THEN "byte" ELSE "plain"
SendHow(c) == IF persistent_p2p_enabled_(c) THEN "kept" ELSE RecvHow(c)

Unpack(p) == Copy(p, "recv", "out", "packed", "final")
ForwardSelf(me) == Copy(me, "in", "out", "source", "final")
HostUnpack(p) == Move(p, "hrecv", "recv") \o Unpack(p)

-----------------------------------------------------------------------------
\* The posting both plain forward functions begin with.
ForwardPosts(c, me) ==
    LET from == IF c.aware THEN "in" ELSE "hsend"
        to == IF c.aware THEN "recv" ELSE "hrecv"
    IN  ForwardSelf(me)
        \o When(~c.aware, HostCopy("in", "hsend"))
        \o Each(Peers(c, me), LAMBDA p :
               Irecv(RecvHow(c), p, to, p, forward_recv_chunk_elems_(c, me, p), "packed")
               \o Isend(RecvHow(c), p, from, me, forward_send_chunk_elems_(c, me, p), "source"))

forward_p2p_waitall_(c, me) ==
    ForwardPosts(c, me)
    \o WaitRecvs
    \o When(~c.aware, Each(Peers(c, me), LAMBDA p : Move(p, "hrecv", "recv")))
    \o Each(Peers(c, me), Unpack)
    \o SyncAll(c) \o WaitSends

forward_p2p_waitany_(c, me) ==
    ForwardPosts(c, me)
    \o WaitAny(ForPeers(c, me, LAMBDA p : IF c.aware THEN Unpack(p) ELSE HostUnpack(p)))
    \o SyncAll(c) \o WaitSends

\* The optimized functions: receives first, then sends as their blocks get ready.
OptimizedPosts(c, me) ==
    LET directSend == cuda_aware_direct_forward_send_enabled_(c)
        directRecv == cuda_aware_direct_p2p_enabled_(c) /\ ~cuda_aware_byte_p2p_enabled_(c)
        start_send(p) == IF directSend
                         THEN Isend(SendHow(c), p, "in", me, forward_send_chunk_elems_(c, me, p), "source")
                         ELSE Isend(SendHow(c), p, "send", me, forward_send_chunk_elems_(c, me, p), "packed")
        posting == PostReady(c.thread, ForPeers(c, me, start_send))
    IN  Each(Peers(c, me), LAMBDA p :
            IF directRecv THEN Irecv("plain", p, "out", p, forward_recv_chunk_elems_(c, me, p), "final")
            ELSE Irecv(RecvHow(c), p, "recv", p, forward_recv_chunk_elems_(c, me, p), "packed"))
        \o (IF directSend THEN Each(Peers(c, me), start_send)
            ELSE When(c.thread, posting)
                 \o Each(Peers(c, me), LAMBDA p : Copy(p, "in", "send", "source", "packed") \o Ready(p))
                 \o When(~c.thread, posting \o Join))
        \o ForwardSelf(me)

forward_p2p_waitall_optimized_(c, me) ==
    IF ~c.aware THEN forward_p2p_waitall_(c, me)
    ELSE OptimizedPosts(c, me)
         \o WaitRecvs
         \o When(~cuda_aware_direct_p2p_enabled_(c) \/ cuda_aware_byte_p2p_enabled_(c),
                 Each(Peers(c, me), Unpack))
         \o SyncAll(c) \o Join \o WaitSends

forward_p2p_waitany_optimized_(c, me) ==
    IF ~c.aware THEN forward_p2p_waitany_(c, me)
    ELSE OptimizedPosts(c, me)
         \o (IF cuda_aware_direct_p2p_enabled_(c) /\ ~cuda_aware_byte_p2p_enabled_(c)
             THEN WaitRecvs ELSE WaitAny(ForPeers(c, me, Unpack)))
         \o SyncAll(c) \o Join \o WaitSends

forward_alltoallv_(c, me) ==
    LET exchange(from, need, to) ==
            Alltoall(c, from, [p \in RanksOf(c) |-> forward_send_chunk_elems_(c, me, p)], need,
                     to, [p \in RanksOf(c) |-> forward_recv_chunk_elems_(c, me, p)], "packed")
    IN  (IF c.aware THEN exchange("in", "source", "recv")
         ELSE HostCopy("in", "hsend") \o exchange("hsend", "source", "hrecv") \o HostCopy("hrecv", "recv"))
        \o Each(All(c), Unpack) \o SyncAll(c)

\* Both ends use datatypes; the receiving ones lay a block out as in the output array.
forward_alltoallw_(c, me) ==
    LET exchange(from, to) ==
            Alltoall(c, from, [p \in RanksOf(c) |-> forward_send_chunk_elems_(c, me, p)], "source",
                     to, [p \in RanksOf(c) |-> forward_recv_chunk_elems_(c, me, p)], "final")
    IN  IF c.aware THEN exchange("in", "out")
        ELSE HostCopy("in", "hsend") \o exchange("hsend", "hrecv") \o HostCopy("hrecv", "recv")
             \o Each(All(c), Unpack) \o SyncAll(c)

-----------------------------------------------------------------------------
PackBackward(p) == Copy(p, "in", "send", "source", "packed")
BackwardSelf(me) == Copy(me, "send", "out", "packed", "final")
Land(p) == Copy(p, "recv", "out", "packed", "final")
LandHost(p) == Copy(p, "hrecv", "out", "packed", "final")

\* Without device-aware MPI: everything is packed, copied to the host and sent.
BackwardHostPosts(c, me) ==
    Each(All(c), LAMBDA p :
        PackBackward(p)
        \o When(p # me, Irecv("plain", p, "hrecv", me, backward_recv_chunk_elems_(c, me, p), "packed")))
    \o SyncAll(c)
    \o HostCopy("send", "hsend")
    \o Each(Peers(c, me), LAMBDA p : Isend("plain", p, "hsend", p, backward_send_chunk_elems_(c, me, p), "packed"))
    \o BackwardSelf(me)

PackReady(c, me, p) == PackBackward(p) \o When(p # me, Ready(p))

\* With it: receives first, then sends as their blocks get packed.
BackwardPosts(c, me) ==
    LET directSend == cuda_aware_direct_backward_send_enabled_(c)
        start_send(p) == IF directSend
                         THEN Isend(SendHow(c), p, "in", p, backward_send_chunk_elems_(c, me, p), "source")
                         ELSE Isend(SendHow(c), p, "send", p, backward_send_chunk_elems_(c, me, p), "packed")
        posting == PostReady(c.thread, ForPeers(c, me, start_send))
    IN  Each(Peers(c, me), LAMBDA p :
            IF cuda_aware_direct_p2p_enabled_(c)
            THEN Irecv(RecvHow(c), p, "out", me, backward_recv_chunk_elems_(c, me, p), "final")
            ELSE Irecv(RecvHow(c), p, "recv", me, backward_recv_chunk_elems_(c, me, p), "packed"))
        \o (IF directSend THEN Each(Peers(c, me), start_send)
            ELSE When(c.thread, posting)
                 \o Each(All(c), LAMBDA p : PackReady(c, me, p))
                 \o When(~c.thread, posting \o Join))
        \o (IF directSend THEN Copy(me, "in", "out", "source", "final")
            ELSE Sync({me}) \o BackwardSelf(me))

backward_p2p_waitall_(c, me) ==
    IF ~c.aware
    THEN BackwardHostPosts(c, me) \o WaitRecvs \o Each(Peers(c, me), LandHost) \o SyncAll(c) \o WaitSends
    ELSE BackwardPosts(c, me)
         \o WaitRecvs
         \o When(~cuda_aware_direct_p2p_enabled_(c), Each(Peers(c, me), Land))
         \o SyncAll(c) \o Join \o WaitSends

backward_p2p_waitany_(c, me) ==
    IF ~c.aware
    THEN BackwardHostPosts(c, me) \o WaitAny(ForPeers(c, me, LandHost)) \o WaitSends \o SyncAll(c)
    ELSE BackwardPosts(c, me)
         \o (IF cuda_aware_direct_p2p_enabled_(c) THEN WaitRecvs ELSE WaitAny(ForPeers(c, me, Land)))
         \o SyncAll(c) \o Join \o WaitSends

\* alltoallv sends packed blocks; so does alltoallw, with datatypes of its own.
BackwardAlltoall(c, me) ==
    LET exchange(from, to, make) ==
            Alltoall(c, from, [p \in RanksOf(c) |-> backward_send_chunk_elems_(c, me, p)], "packed",
                     to, [p \in RanksOf(c) |-> backward_recv_chunk_elems_(c, me, p)], make)
    IN  Each(All(c), PackBackward) \o SyncAll(c)
        \o (IF c.aware THEN exchange("send", "out", "final")
            ELSE HostCopy("send", "hsend") \o exchange("hsend", "hrecv", "final") \o HostCopy("hrecv", "out"))

backward_alltoallv_(c, me) == BackwardAlltoall(c, me)
backward_alltoallw_(c, me) == BackwardAlltoall(c, me)

-----------------------------------------------------------------------------
transpose_xyz_to_xzy(c, me) ==
    ByMode(c, forward_p2p_waitall_(c, me), forward_p2p_waitany_(c, me),
           forward_alltoallv_(c, me), forward_alltoallw_(c, me))
transpose_xyz_to_xzy_optimized_layout(c, me) ==
    ByMode(c, forward_p2p_waitall_optimized_(c, me), forward_p2p_waitany_optimized_(c, me),
           forward_alltoallv_(c, me), forward_alltoallw_(c, me))
transpose_xzy_to_xyz(c, me) ==
    ByMode(c, backward_p2p_waitall_(c, me), backward_p2p_waitany_(c, me),
           backward_alltoallv_(c, me), backward_alltoallw_(c, me))
transpose_xzy_to_xyz_optimized_layout(c, me) == transpose_xzy_to_xyz(c, me)
=============================================================================
