----------------------------- MODULE LayoutsZ -----------------------------
(***************************************************************************)
(* The copies of mpi_transpose_3d_same_z in its three orders of the axes:  *)
(* y,x,z (the plain functions), z,y,x (optimized) and x,z,y (xfast), the   *)
(* fastest axis first.  All of them address raw memory.                    *)
(*                                                                         *)
(* c.p2p is FALSE in the collectives, which carry the rank's own block     *)
(* too; c.direct has messages land in the result; c.rows is the most       *)
(* elements of a part of a message that lands row by row, 0 for one whole. *)
(***************************************************************************)
EXTENDS IndexMaps

Z == INSTANCE SameZ

forward_chunk_elems_(c, me, p) == Z!forward_chunk_elems_(c, me, p)
forward_recv_elems_(c, me, p) == Z!forward_recv_elems_(c, me, p)
backward_send_elems_(c, me, p) == Z!backward_send_elems_(c, me, p)
backward_chunk_elems_(c, me, p) == Z!backward_chunk_elems_(c, me, p)

forward_send_offsets_(c, me, p) == Offset([q \in RanksOf(c) |-> forward_chunk_elems_(c, me, q)], p)
forward_recv_offsets_(c, me, p) == Offset([q \in RanksOf(c) |-> forward_recv_elems_(c, me, q)], p)
backward_send_offsets_(c, me, p) == Offset([q \in RanksOf(c) |-> backward_send_elems_(c, me, q)], p)
backward_recv_offsets_(c, me, p) == Offset([q \in RanksOf(c) |-> backward_chunk_elems_(c, me, q)], p)

-----------------------------------------------------------------------------
(* y,x,z                                                                   *)

pack_forward_chunk_async_(c, me, p) ==
    memcpy_3d(Pitched(forward_send_offsets_(c, me, p), size(c, "y", p), size(c, "x", me)),
              Pitched(start(c, "y", p), c.n.y, size(c, "x", me)),
              <<size(c, "y", p), size(c, "x", me), c.n.z>>)
unpack_forward_chunk_async_(c, me, p) ==
    memcpy_3d(Pitched(size(c, "y", me) * start(c, "x", p), size(c, "y", me), c.n.x),
              Pitched(forward_recv_offsets_(c, me, p), size(c, "y", me), size(c, "x", p)),
              <<size(c, "y", me), size(c, "x", p), c.n.z>>)
pack_backward_chunk_async_(c, me, p) ==
    memcpy_3d(Pitched(backward_send_offsets_(c, me, p), size(c, "y", me), size(c, "x", p)),
              Pitched(size(c, "y", me) * start(c, "x", p), size(c, "y", me), c.n.x),
              <<size(c, "y", me), size(c, "x", p), c.n.z>>)
unpack_backward_chunk_async_(c, me, p) ==
    memcpy_3d(Pitched(start(c, "y", p), c.n.y, size(c, "x", me)),
              Pitched(backward_recv_offsets_(c, me, p), size(c, "y", p), size(c, "x", me)),
              <<size(c, "y", p), size(c, "x", me), c.n.z>>)

-----------------------------------------------------------------------------
(* z,y,x: the blocks of the side that has all of x are runs of it.         *)

forward_output_offset_elems_(c, me, p) == start(c, "x", p) * size(c, "y", me) * c.n.z

pack_forward_optimized_chunk_async_(c, me, p, to) ==
    memcpy_3d(Pitched(to, size(c, "y", p) * c.n.z, size(c, "x", me)),
              Pitched(start(c, "y", p) * c.n.z, c.n.y * c.n.z, size(c, "x", me)),
              <<size(c, "y", p) * c.n.z, size(c, "x", me), 1>>)
unpack_forward_optimized_chunk_async_(c, me, p) ==
    memcpy(forward_output_offset_elems_(c, me, p), forward_recv_offsets_(c, me, p), forward_recv_elems_(c, me, p))
copy_backward_optimized_chunk_to_output_async_(c, me, p, from) ==
    memcpy_3d(Pitched(start(c, "y", p) * c.n.z, c.n.y * c.n.z, size(c, "x", me)),
              Pitched(from, size(c, "y", p) * c.n.z, size(c, "x", me)),
              <<size(c, "y", p) * c.n.z, size(c, "x", me), 1>>)

\* Where the message of p lands in the result itself, whole or in parts of whole rows.
direct_backward_recvtypes_(c, me, p) ==
    type_vector(start(c, "y", p) * c.n.z, size(c, "x", me), size(c, "y", p) * c.n.z, c.n.y * c.n.z)
direct_backward_byte_recv_chunks_(c, me, p) ==
    LET row == size(c, "y", p) * c.n.z
        stride == c.n.y * c.n.z
        rows_step == IF row = 0 \/ c.rows < row THEN 1 ELSE c.rows \div row
        part(k) == k \div (rows_step * row)
        rows(k) == LET left == size(c, "x", me) - part(k) * rows_step IN
                   IF rows_step < left THEN rows_step ELSE left
    IN  [k \in 0 .. size(c, "x", me) * row - 1 |->
            type_vector(start(c, "y", p) * c.n.z + part(k) * rows_step * stride, rows(k), row, stride)
                [k - part(k) * rows_step * row]]

-----------------------------------------------------------------------------
(* x,z,y: the blocks of the side that has all of y are runs of it.         *)

forward_xfast_input_offset_elems_(c, me, p) == size(c, "x", me) * c.n.z * start(c, "y", p)
backward_xfast_output_offset_elems_(c, me, p) == size(c, "x", me) * c.n.z * start(c, "y", p)

pack_forward_xfast_layout_(c, me, p) ==
    memcpy(forward_send_offsets_(c, me, p), forward_xfast_input_offset_elems_(c, me, p),
           forward_chunk_elems_(c, me, p))
copy_forward_xfast_chunk_to_output_async_(c, me, p, from) ==
    memcpy_3d(Pitched(start(c, "x", p), c.n.x, c.n.z),
              Pitched(from, size(c, "x", p), c.n.z),
              <<size(c, "x", p), c.n.z, size(c, "y", me)>>)
pack_backward_xfast_chunk_async_(c, me, p, to) ==
    memcpy_3d(Pitched(to, size(c, "x", p), c.n.z),
              Pitched(start(c, "x", p), c.n.x, c.n.z),
              <<size(c, "x", p), c.n.z, size(c, "y", me)>>)
copy_backward_xfast_recv_chunk_to_output_async_(c, me, p) ==
    memcpy(backward_xfast_output_offset_elems_(c, me, p), backward_recv_offsets_(c, me, p),
           backward_chunk_elems_(c, me, p))

-----------------------------------------------------------------------------
\* The arrays with x distributed and those with y distributed, in each order.
XArray(c, me) ==
    LET at(x, y, z) == <<start(c, "x", me) + x, y, z>> IN
    CASE c.order = "yxz" -> Raw3(<<c.n.y, size(c, "x", me), c.n.z>>, LAMBDA y, x, z : at(x, y, z))
      [] c.order = "zyx" -> Raw3(<<c.n.z, c.n.y, size(c, "x", me)>>, LAMBDA z, y, x : at(x, y, z))
      [] c.order = "xzy" -> Raw3(<<size(c, "x", me), c.n.z, c.n.y>>, LAMBDA x, z, y : at(x, y, z))
YArray(c, me) ==
    LET at(x, y, z) == <<x, start(c, "y", me) + y, z>> IN
    CASE c.order = "yxz" -> Raw3(<<size(c, "y", me), c.n.x, c.n.z>>, LAMBDA y, x, z : at(x, y, z))
      [] c.order = "zyx" -> Raw3(<<c.n.z, size(c, "y", me), c.n.x>>, LAMBDA z, y, x : at(x, y, z))
      [] c.order = "xzy" -> Raw3(<<c.n.x, c.n.z, size(c, "y", me)>>, LAMBDA x, z, y : at(x, y, z))

\* In the orders of the loops a rank's own block does not travel.
OwnBlock(c, copy) == IF c.p2p /\ c.order # "yxz" THEN copy ELSE {}

Sends(c, me) ==
    LET forwardFrom(Pack(_)) ==
            Sender(c, XArray(c, me), Pack, LAMBDA p : forward_send_offsets_(c, me, p),
                   LAMBDA p : forward_chunk_elems_(c, me, p))
        backwardFrom(Pack(_)) ==
            Sender(c, YArray(c, me), Pack, LAMBDA p : backward_send_offsets_(c, me, p),
                   LAMBDA p : backward_send_elems_(c, me, p))
    IN
    CASE c.fn = "transpose_x_to_y" -> forwardFrom(LAMBDA p : pack_forward_chunk_async_(c, me, p))
      [] c.fn = "transpose_y_to_x" -> backwardFrom(LAMBDA p : pack_backward_chunk_async_(c, me, p))
      [] c.fn = "transpose_x_to_y_optimized_layout" ->
           forwardFrom(LAMBDA p : pack_forward_optimized_chunk_async_(c, me, p, forward_send_offsets_(c, me, p)))
      [] c.fn = "transpose_y_to_x_optimized_layout" ->
           InPlaceSender(c, YArray(c, me),
                         LAMBDA p : Run(backward_send_offsets_(c, me, p), backward_send_elems_(c, me, p)))
      [] c.fn = "transpose_x_to_y_xfast" /\ c.direct ->
           InPlaceSender(c, XArray(c, me),
                         LAMBDA p : Run(forward_xfast_input_offset_elems_(c, me, p), forward_chunk_elems_(c, me, p)))
      [] c.fn = "transpose_x_to_y_xfast" /\ ~c.direct ->
           forwardFrom(LAMBDA p : pack_forward_xfast_layout_(c, me, p))
      [] c.fn = "transpose_y_to_x_xfast" ->
           backwardFrom(LAMBDA p : pack_backward_xfast_chunk_async_(c, me, p, backward_send_offsets_(c, me, p)))

Receives(c, me) ==
    LET forwardTo(Unpack(_), self) ==
            [Receiver(c, YArray(c, me), LAMBDA p : forward_recv_offsets_(c, me, p),
                      LAMBDA p : forward_recv_elems_(c, me, p), Unpack) EXCEPT !.self = OwnBlock(c, self)]
        backwardTo(Unpack(_), self) ==
            [Receiver(c, XArray(c, me), LAMBDA p : backward_recv_offsets_(c, me, p),
                      LAMBDA p : backward_chunk_elems_(c, me, p), Unpack) EXCEPT !.self = OwnBlock(c, self)]
        optimizedSelf ==
            pack_forward_optimized_chunk_async_(c, me, me, forward_output_offset_elems_(c, me, me))
        backwardSelf ==
            copy_backward_optimized_chunk_to_output_async_(c, me, me, backward_send_offsets_(c, me, me))
        xfastSelf ==
            pack_backward_xfast_chunk_async_(c, me, me, backward_xfast_output_offset_elems_(c, me, me))
    IN
    CASE c.fn = "transpose_x_to_y" -> forwardTo(LAMBDA p : unpack_forward_chunk_async_(c, me, p), {})
      [] c.fn = "transpose_y_to_x" -> backwardTo(LAMBDA p : unpack_backward_chunk_async_(c, me, p), {})
      [] c.fn = "transpose_x_to_y_optimized_layout" /\ ~c.direct ->
           forwardTo(LAMBDA p : unpack_forward_optimized_chunk_async_(c, me, p), optimizedSelf)
      [] c.fn = "transpose_x_to_y_optimized_layout" /\ c.direct ->
           InPlaceReceiver(c, YArray(c, me),
                           LAMBDA p : Run(forward_output_offset_elems_(c, me, p), forward_recv_elems_(c, me, p)),
                           OwnBlock(c, optimizedSelf))
      [] c.fn = "transpose_y_to_x_optimized_layout" /\ ~c.direct ->
           backwardTo(LAMBDA p : copy_backward_optimized_chunk_to_output_async_(
                                     c, me, p, backward_recv_offsets_(c, me, p)), backwardSelf)
      [] c.fn = "transpose_y_to_x_optimized_layout" /\ c.direct ->
           InPlaceReceiver(c, XArray(c, me),
                           LAMBDA p : IF c.rows = 0 THEN direct_backward_recvtypes_(c, me, p)
                                      ELSE direct_backward_byte_recv_chunks_(c, me, p), backwardSelf)
      [] c.fn = "transpose_x_to_y_xfast" ->
           forwardTo(LAMBDA p : copy_forward_xfast_chunk_to_output_async_(c, me, p, forward_recv_offsets_(c, me, p)),
                     copy_forward_xfast_chunk_to_output_async_(
                         c, me, me, forward_xfast_input_offset_elems_(c, me, me)))
      [] c.fn = "transpose_y_to_x_xfast" /\ ~c.direct ->
           backwardTo(LAMBDA p : copy_backward_xfast_recv_chunk_to_output_async_(c, me, p), xfastSelf)
      [] c.fn = "transpose_y_to_x_xfast" /\ c.direct ->
           InPlaceReceiver(c, XArray(c, me),
                           LAMBDA p : Run(backward_xfast_output_offset_elems_(c, me, p), backward_chunk_elems_(c, me, p)),
                           xfastSelf)
=============================================================================
