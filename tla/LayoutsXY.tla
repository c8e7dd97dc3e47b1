----------------------------- MODULE LayoutsXY -----------------------------
(* The kernels of mpi_transpose_4d_same_xy: x,y,z,W to x,y,w,Z and back. *)
EXTENDS SameXY, IndexMaps

forward_send_offsets_(c, me, p) == Offset([q \in RanksOf(c) |-> forward_send_chunk_elems_(c, me, q)], p)
forward_recv_offsets_(c, me, p) == Offset([q \in RanksOf(c) |-> forward_recv_chunk_elems_(c, me, q)], p)
backward_send_offsets_(c, me, p) == Offset([q \in RanksOf(c) |-> backward_send_chunk_elems_(c, me, q)], p)
backward_recv_offsets_(c, me, p) == Offset([q \in RanksOf(c) |-> backward_recv_chunk_elems_(c, me, q)], p)

-----------------------------------------------------------------------------
pack_forward_functor(offset, w_offset, nx, ny, nz, i) ==
    {<<offset + packed_index_4d(i, nx, ny, nz), <<i[1], i[2], i[3], w_offset + i[4]>>>>}
unpack_forward_functor(offset, z_offset, nx, ny, nz, i) ==
    {<<<<i[1], i[2], i[4], z_offset + i[3]>>, offset + packed_index_4d(i, nx, ny, nz)>>}
pack_backward_functor(offset, z_offset, nx, ny, nz, i) ==
    {<<offset + packed_index_4d(i, nx, ny, nz), <<i[1], i[2], i[4], z_offset + i[3]>>>>}
unpack_backward_functor(offset, w_offset, nx, ny, nz, i) ==
    {<<<<i[1], i[2], i[3], w_offset + i[4]>>, offset + packed_index_4d(i, nx, ny, nz)>>}

pack_forward_all_(c, me, p) ==
    ForEach(<<c.n.x, c.n.y, size(c, "z", me), size(c, "w", p)>>,
        LAMBDA i : pack_forward_functor(forward_send_offsets_(c, me, p), start(c, "w", p),
                                        c.n.x, c.n.y, size(c, "z", me), i))
unpack_forward_chunk_(c, me, p) ==
    ForEach(<<c.n.x, c.n.y, size(c, "z", p), size(c, "w", me)>>,
        LAMBDA i : unpack_forward_functor(forward_recv_offsets_(c, me, p), start(c, "z", p),
                                          c.n.x, c.n.y, size(c, "z", p), i))
pack_backward_all_(c, me, p) ==
    ForEach(<<c.n.x, c.n.y, size(c, "z", p), size(c, "w", me)>>,
        LAMBDA i : pack_backward_functor(backward_send_offsets_(c, me, p), start(c, "z", p),
                                         c.n.x, c.n.y, size(c, "z", p), i))
unpack_backward_chunk_(c, me, p) ==
    ForEach(<<c.n.x, c.n.y, size(c, "z", me), size(c, "w", p)>>,
        LAMBDA i : unpack_backward_functor(backward_recv_offsets_(c, me, p), start(c, "w", p),
                                           c.n.x, c.n.y, size(c, "z", me), i))

-----------------------------------------------------------------------------
\* The arrays the shape checks ask for.
xyzw(c, me) == Tensor(<<c.n.x, c.n.y, size(c, "z", me), c.n.w>>,
                      LAMBDA x, y, z, w : <<x, y, start(c, "z", me) + z, w>>)
xywz(c, me) == Tensor(<<c.n.x, c.n.y, size(c, "w", me), c.n.z>>,
                      LAMBDA x, y, w, z : <<x, y, z, start(c, "w", me) + w>>)

Sends(c, me) ==
    CASE c.fn = "transpose_xyzw_to_xywz" ->
           Sender(c, xyzw(c, me), LAMBDA p : pack_forward_all_(c, me, p),
                  LAMBDA p : forward_send_offsets_(c, me, p), LAMBDA p : forward_send_chunk_elems_(c, me, p))
      [] c.fn = "transpose_xywz_to_xyzw" ->
           Sender(c, xywz(c, me), LAMBDA p : pack_backward_all_(c, me, p),
                  LAMBDA p : backward_send_offsets_(c, me, p), LAMBDA p : backward_send_chunk_elems_(c, me, p))
Receives(c, me) ==
    CASE c.fn = "transpose_xyzw_to_xywz" ->
           Receiver(c, xywz(c, me), LAMBDA p : forward_recv_offsets_(c, me, p),
                    LAMBDA p : forward_recv_chunk_elems_(c, me, p), LAMBDA p : unpack_forward_chunk_(c, me, p))
      [] c.fn = "transpose_xywz_to_xyzw" ->
           Receiver(c, xyzw(c, me), LAMBDA p : backward_recv_offsets_(c, me, p),
                    LAMBDA p : backward_recv_chunk_elems_(c, me, p), LAMBDA p : unpack_backward_chunk_(c, me, p))
=============================================================================
