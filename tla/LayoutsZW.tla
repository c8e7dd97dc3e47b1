----------------------------- MODULE LayoutsZW -----------------------------
(***************************************************************************)
(* The kernels and copies of mpi_transpose_4d_same_zw: x,z,w,Y to y,z,w,X  *)
(* or, in the native forms, to X,z,w,y; and back.  With nativeMessages the *)
(* arrays are physically x,w,z,y and so are the messages.                  *)
(***************************************************************************)
EXTENDS SameZW, IndexMaps

forward_send_offsets_(c, me, p) == Offset([q \in RanksOf(c) |-> forward_send_chunk_elems_(c, me, q)], p)
forward_recv_offsets_(c, me, p) == Offset([q \in RanksOf(c) |-> forward_recv_chunk_elems_(c, me, q)], p)
backward_send_offsets_(c, me, p) == Offset([q \in RanksOf(c) |-> backward_send_chunk_elems_(c, me, q)], p)
backward_recv_offsets_(c, me, p) == Offset([q \in RanksOf(c) |-> backward_recv_chunk_elems_(c, me, q)], p)

-----------------------------------------------------------------------------
pack_forward_functor(offset, y_offset, ny, nz, nw, i) ==
    {<<offset + packed_index_4d(i, ny, nz, nw), <<i[4], i[2], i[3], y_offset + i[1]>>>>}
unpack_forward_functor(offset, x_offset, ny, nz, nw, i) ==
    {<<<<i[1], i[2], i[3], x_offset + i[4]>>, offset + packed_index_4d(i, ny, nz, nw)>>}
unpack_forward_native_functor(offset, x_offset, ny, nz, nw, i) ==
    {<<<<x_offset + i[4], i[2], i[3], i[1]>>, offset + packed_index_4d(i, ny, nz, nw)>>}
pack_backward_functor(offset, x_offset, ny, nz, nw, i) ==
    {<<offset + packed_index_4d(i, ny, nz, nw), <<i[1], i[2], i[3], x_offset + i[4]>>>>}
unpack_backward_functor(offset, y_offset, ny, nz, nw, i) ==
    {<<<<i[4], i[2], i[3], y_offset + i[1]>>, offset + packed_index_4d(i, ny, nz, nw)>>}
pack_backward_native_functor(offset, x_offset, ny, nz, nw, i) ==
    {<<offset + packed_index_4d(i, ny, nz, nw), <<x_offset + i[4], i[2], i[3], i[1]>>>>}
unpack_forward_native_layout_functor(offset, x_offset, nx, nw, nz, i) ==
    {<<<<x_offset + i[1], i[3], i[2], i[4]>>, offset + packed_index_4d(i, nx, nw, nz)>>}
pack_backward_native_layout_functor(offset, x_offset, nx, nw, nz, i) ==
    {<<offset + packed_index_4d(i, nx, nw, nz), <<x_offset + i[1], i[3], i[2], i[4]>>>>}

-----------------------------------------------------------------------------
pack_forward_chunk_(c, me, p) ==
    ForEach(<<size(c, "y", p), c.n.z, c.n.w, size(c, "x", me)>>,
        LAMBDA i : pack_forward_functor(forward_send_offsets_(c, me, p), start(c, "y", p),
                                        size(c, "y", p), c.n.z, c.n.w, i))
pack_forward_native_layout_chunk_(c, me, p) ==
    memcpy(forward_send_offsets_(c, me, p), start(c, "y", p) * size(c, "x", me) * c.n.w * c.n.z,
           forward_send_chunk_elems_(c, me, p))
unpack_forward_chunk_(c, me, p) ==
    ForEach(<<size(c, "y", me), c.n.z, c.n.w, size(c, "x", p)>>,
        LAMBDA i : unpack_forward_functor(forward_recv_offsets_(c, me, p), start(c, "x", p),
                                          size(c, "y", me), c.n.z, c.n.w, i))
unpack_forward_native_chunk_(c, me, p) ==
    ForEach(<<size(c, "y", me), c.n.z, c.n.w, size(c, "x", p)>>,
        LAMBDA i : unpack_forward_native_functor(forward_recv_offsets_(c, me, p), start(c, "x", p),
                                                 size(c, "y", me), c.n.z, c.n.w, i))
unpack_forward_native_layout_chunk_(c, me, p) ==
    ForEach(<<size(c, "x", p), c.n.w, c.n.z, size(c, "y", me)>>,
        LAMBDA i : unpack_forward_native_layout_functor(forward_recv_offsets_(c, me, p), start(c, "x", p),
                                                        size(c, "x", p), c.n.w, c.n.z, i))
pack_backward_chunk_(c, me, p) ==
    ForEach(<<size(c, "y", me), c.n.z, c.n.w, size(c, "x", p)>>,
        LAMBDA i : pack_backward_functor(backward_send_offsets_(c, me, p), start(c, "x", p),
                                         size(c, "y", me), c.n.z, c.n.w, i))
pack_backward_native_chunk_(c, me, p) ==
    ForEach(<<size(c, "y", me), c.n.z, c.n.w, size(c, "x", p)>>,
        LAMBDA i : pack_backward_native_functor(backward_send_offsets_(c, me, p), start(c, "x", p),
                                                size(c, "y", me), c.n.z, c.n.w, i))
pack_backward_native_layout_chunk_(c, me, p) ==
    ForEach(<<size(c, "x", p), c.n.w, c.n.z, size(c, "y", me)>>,
        LAMBDA i : pack_backward_native_layout_functor(backward_send_offsets_(c, me, p), start(c, "x", p),
                                                       size(c, "x", p), c.n.w, c.n.z, i))
unpack_backward_chunk_(c, me, p) ==
    ForEach(<<size(c, "y", p), c.n.z, c.n.w, size(c, "x", me)>>,
        LAMBDA i : unpack_backward_functor(backward_recv_offsets_(c, me, p), start(c, "y", p),
                                           size(c, "y", p), c.n.z, c.n.w, i))
unpack_backward_native_layout_chunk_(c, me, p) ==
    memcpy(start(c, "y", p) * size(c, "x", me) * c.n.w * c.n.z, backward_recv_offsets_(c, me, p),
           backward_recv_chunk_elems_(c, me, p))

-----------------------------------------------------------------------------
\* The arrays the shape checks ask for; the one that raw copies address, as memory.
xzwy(c, me) == Tensor(<<size(c, "x", me), c.n.z, c.n.w, c.n.y>>,
                      LAMBDA x, z, w, y : <<start(c, "x", me) + x, y, z, w>>)
yzwx(c, me) == Tensor(<<size(c, "y", me), c.n.z, c.n.w, c.n.x>>,
                      LAMBDA y, z, w, x : <<x, start(c, "y", me) + y, z, w>>)
xzwy_native(c, me) == Tensor(<<c.n.x, c.n.z, c.n.w, size(c, "y", me)>>,
                             LAMBDA x, z, w, y : <<x, start(c, "y", me) + y, z, w>>)
xwzy_memory(c, me) == Raw4(<<size(c, "x", me), c.n.w, c.n.z, c.n.y>>,
                           LAMBDA x, w, z, y : <<start(c, "x", me) + x, y, z, w>>)

Pack(c, me, p) ==
    CASE c.fn = "transpose_xzwy_to_yzwx" -> pack_forward_chunk_(c, me, p)
      [] c.fn = "transpose_xzwy_to_xzwy_native" ->
           IF c.nativeMessages THEN pack_forward_native_layout_chunk_(c, me, p) ELSE pack_forward_chunk_(c, me, p)
      [] c.fn = "transpose_yzwx_to_xzwy" -> pack_backward_chunk_(c, me, p)
      [] c.fn = "transpose_xzwy_native_to_xzwy" ->
           IF c.nativeMessages THEN pack_backward_native_layout_chunk_(c, me, p)
           ELSE pack_backward_native_chunk_(c, me, p)
Unpack(c, me, p) ==
    CASE c.fn = "transpose_xzwy_to_yzwx" -> unpack_forward_chunk_(c, me, p)
      [] c.fn = "transpose_xzwy_to_xzwy_native" ->
           IF c.nativeMessages THEN unpack_forward_native_layout_chunk_(c, me, p)
           ELSE unpack_forward_native_chunk_(c, me, p)
      [] c.fn = "transpose_yzwx_to_xzwy" -> unpack_backward_chunk_(c, me, p)
      [] c.fn = "transpose_xzwy_native_to_xzwy" ->
           IF c.nativeMessages THEN unpack_backward_native_layout_chunk_(c, me, p)
           ELSE unpack_backward_chunk_(c, me, p)

Is_forward(c) == c.fn \in {"transpose_xzwy_to_yzwx", "transpose_xzwy_to_xzwy_native"}
NearArray(c, me) == IF c.nativeMessages THEN xwzy_memory(c, me) ELSE xzwy(c, me)
FarArray(c, me) ==
    IF c.fn \in {"transpose_xzwy_to_yzwx", "transpose_yzwx_to_xzwy"} THEN yzwx(c, me) ELSE xzwy_native(c, me)

Sends(c, me) ==
    IF Is_forward(c)
    THEN Sender(c, NearArray(c, me), LAMBDA p : Pack(c, me, p),
                LAMBDA p : forward_send_offsets_(c, me, p), LAMBDA p : forward_send_chunk_elems_(c, me, p))
    ELSE Sender(c, FarArray(c, me), LAMBDA p : Pack(c, me, p),
                LAMBDA p : backward_send_offsets_(c, me, p), LAMBDA p : backward_send_chunk_elems_(c, me, p))
Receives(c, me) ==
    IF Is_forward(c)
    THEN Receiver(c, FarArray(c, me), LAMBDA p : forward_recv_offsets_(c, me, p),
                  LAMBDA p : forward_recv_chunk_elems_(c, me, p), LAMBDA p : Unpack(c, me, p))
    ELSE Receiver(c, NearArray(c, me), LAMBDA p : backward_recv_offsets_(c, me, p),
                  LAMBDA p : backward_recv_chunk_elems_(c, me, p), LAMBDA p : Unpack(c, me, p))
=============================================================================
