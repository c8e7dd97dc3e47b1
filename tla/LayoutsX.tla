----------------------------- MODULE LayoutsX -----------------------------
(***************************************************************************)
(* The copies and datatypes of mpi_transpose_3d_same_x, on raw memory in   *)
(* the order y,x,z, the fastest axis first.                                *)
(*                                                                         *)
(* c.p2p is FALSE in the collectives, which carry the rank's own block     *)
(* too; c.direct has messages leave the array itself, c.directRecv land in  *)
(* the result itself.                                                      *)
(***************************************************************************)
EXTENDS IndexMaps

X == INSTANCE SameX

forward_send_chunk_elems_(c, me, p) == X!forward_send_chunk_elems_(c, me, p)
forward_recv_chunk_elems_(c, me, p) == X!forward_recv_chunk_elems_(c, me, p)
backward_send_chunk_elems_(c, me, p) == X!backward_send_chunk_elems_(c, me, p)
backward_recv_chunk_elems_(c, me, p) == X!backward_recv_chunk_elems_(c, me, p)

forward_send_offset_elems_(c, me, p) == start(c, "z", p) * c.n.x * size(c, "y", me)
forward_recv_offset_elems_(c, me, p) == c.n.x * size(c, "z", me) * start(c, "y", p)
backward_send_offsets_(c, me, p) == Offset([q \in RanksOf(c) |-> backward_send_chunk_elems_(c, me, q)], p)
backward_recv_offset_elems_(c, me, p) == start(c, "z", p) * c.n.x * size(c, "y", me)

-----------------------------------------------------------------------------
copy_chunk_to_output_async_(c, me, p, from) ==
    memcpy_3d(Pitched(start(c, "y", p), c.n.y, c.n.x), Pitched(from, size(c, "y", p), c.n.x),
              <<size(c, "y", p), c.n.x, size(c, "z", me)>>)
pack_forward_send_chunk_async_(c, me, p) ==
    memcpy(forward_send_offset_elems_(c, me, p), forward_send_offset_elems_(c, me, p),
           forward_send_chunk_elems_(c, me, p))
pack_backward_chunk_async_(c, me, p, to) ==
    memcpy_3d(Pitched(to, size(c, "y", p), c.n.x), Pitched(start(c, "y", p), c.n.y, c.n.x),
              <<size(c, "y", p), c.n.x, size(c, "z", me)>>)
copy_backward_recv_chunk_to_output_async_(c, me, p) ==
    memcpy(backward_recv_offset_elems_(c, me, p), backward_recv_offset_elems_(c, me, p),
           backward_recv_chunk_elems_(c, me, p))

\* How the message of p lands in the result itself.
forward_recvtypes_(c, me, p) ==
    type_vector(start(c, "y", p), c.n.x * size(c, "z", me), size(c, "y", p), c.n.y)

-----------------------------------------------------------------------------
\* The array with y distributed, and that with z distributed.
xyz(c, me) == Raw3(<<size(c, "y", me), c.n.x, c.n.z>>, LAMBDA y, x, z : <<x, start(c, "y", me) + y, z>>)
xzy(c, me) == Raw3(<<c.n.y, c.n.x, size(c, "z", me)>>, LAMBDA y, x, z : <<x, y, start(c, "z", me) + z>>)

OwnBlock(c, copy) == IF c.p2p THEN copy ELSE {}

Sends(c, me) ==
    CASE c.fn = "transpose_xyz_to_xzy" /\ c.direct ->
           InPlaceSender(c, xyz(c, me),
                         LAMBDA p : Run(forward_send_offset_elems_(c, me, p), forward_send_chunk_elems_(c, me, p)))
      [] c.fn = "transpose_xyz_to_xzy" /\ ~c.direct ->
           Sender(c, xyz(c, me), LAMBDA p : pack_forward_send_chunk_async_(c, me, p),
                  LAMBDA p : forward_send_offset_elems_(c, me, p), LAMBDA p : forward_send_chunk_elems_(c, me, p))
      [] c.fn = "transpose_xzy_to_xyz" ->
           Sender(c, xzy(c, me), LAMBDA p : pack_backward_chunk_async_(c, me, p, backward_send_offsets_(c, me, p)),
                  LAMBDA p : backward_send_offsets_(c, me, p), LAMBDA p : backward_send_chunk_elems_(c, me, p))

Receives(c, me) ==
    LET forwardSelf == copy_chunk_to_output_async_(c, me, me, forward_send_offset_elems_(c, me, me))
        backwardSelf == pack_backward_chunk_async_(c, me, me, backward_recv_offset_elems_(c, me, me))
    IN
    CASE c.fn = "transpose_xyz_to_xzy" /\ c.directRecv ->
           InPlaceReceiver(c, xzy(c, me), LAMBDA p : forward_recvtypes_(c, me, p), OwnBlock(c, forwardSelf))
      [] c.fn = "transpose_xyz_to_xzy" /\ ~c.directRecv ->
           [Receiver(c, xzy(c, me), LAMBDA p : forward_recv_offset_elems_(c, me, p),
                     LAMBDA p : forward_recv_chunk_elems_(c, me, p),
                     LAMBDA p : copy_chunk_to_output_async_(c, me, p, forward_recv_offset_elems_(c, me, p)))
            EXCEPT !.self = OwnBlock(c, forwardSelf)]
      [] c.fn = "transpose_xzy_to_xyz" /\ c.directRecv ->
           InPlaceReceiver(c, xyz(c, me),
                           LAMBDA p : Run(backward_recv_offset_elems_(c, me, p), backward_recv_chunk_elems_(c, me, p)),
                           OwnBlock(c, backwardSelf))
      [] c.fn = "transpose_xzy_to_xyz" /\ ~c.directRecv ->
           Receiver(c, xyz(c, me), LAMBDA p : backward_recv_offset_elems_(c, me, p),
                    LAMBDA p : backward_recv_chunk_elems_(c, me, p),
                    LAMBDA p : copy_backward_recv_chunk_to_output_async_(c, me, p))
=============================================================================
