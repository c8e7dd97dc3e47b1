----------------------------- MODULE LayoutsXW -----------------------------
(***************************************************************************)
(* The kernels of mpi_transpose_4d_same_xw: x,y,w,Z (a pencil) or x,y,Z,w  *)
(* (a slab) to x,z,w,Y or Y,z,w,x, and back.                               *)
(*                                                                         *)
(* c.kernels chooses the slab kernels: "plain", "tensor_coalesced",        *)
(* "tiled" or "vector4".  c.limit is the most elements of a compact chunk. *)
(***************************************************************************)
EXTENDS SameXW, IndexMaps

forward_send_offsets_(c, me, p) == Offset([q \in RanksOf(c) |-> forward_send_chunk_elems_(c, me, q)], p)
forward_recv_offsets_(c, me, p) == Offset([q \in RanksOf(c) |-> forward_recv_chunk_elems_(c, me, q)], p)
backward_send_offsets_(c, me, p) == Offset([q \in RanksOf(c) |-> backward_send_chunk_elems_(c, me, q)], p)
backward_recv_offsets_(c, me, p) == Offset([q \in RanksOf(c) |-> backward_recv_chunk_elems_(c, me, q)], p)

-----------------------------------------------------------------------------
(* Messages in the order x,z,w,y.                                          *)

pack_forward_functor(offset, z_offset, nx, nz, nw, i) ==
    {<<offset + packed_index_4d(i, nx, nz, nw), <<i[1], i[4], i[3], z_offset + i[2]>>>>}
unpack_forward_functor(offset, y_offset, nx, nz, nw, i) ==
    {<<<<i[1], i[2], i[3], y_offset + i[4]>>, offset + packed_index_4d(i, nx, nz, nw)>>}
pack_backward_functor(offset, y_offset, nx, nz, nw, i) ==
    {<<offset + packed_index_4d(i, nx, nz, nw), <<i[1], i[2], i[3], y_offset + i[4]>>>>}
unpack_backward_functor(offset, z_offset, nx, nz, nw, i) ==
    {<<<<i[1], i[4], i[3], z_offset + i[2]>>, offset + packed_index_4d(i, nx, nz, nw)>>}

pack_forward_chunk_(c, me, p) ==
    ForEach(<<c.n.x, size(c, "z", p), c.n.w, size(c, "y", me)>>,
        LAMBDA i : pack_forward_functor(forward_send_offsets_(c, me, p), start(c, "z", p),
                                        c.n.x, size(c, "z", p), c.n.w, i))
unpack_forward_chunk_(c, me, p) ==
    ForEach(<<c.n.x, size(c, "z", me), c.n.w, size(c, "y", p)>>,
        LAMBDA i : unpack_forward_functor(forward_recv_offsets_(c, me, p), start(c, "y", p),
                                          c.n.x, size(c, "z", me), c.n.w, i))
pack_backward_chunk_(c, me, p) ==
    ForEach(<<c.n.x, size(c, "z", me), c.n.w, size(c, "y", p)>>,
        LAMBDA i : pack_backward_functor(backward_send_offsets_(c, me, p), start(c, "y", p),
                                         c.n.x, size(c, "z", me), c.n.w, i))
unpack_backward_chunk_(c, me, p) ==
    ForEach(<<c.n.x, size(c, "z", p), c.n.w, size(c, "y", me)>>,
        LAMBDA i : unpack_backward_functor(backward_recv_offsets_(c, me, p), start(c, "z", p),
                                           c.n.x, size(c, "z", p), c.n.w, i))

-----------------------------------------------------------------------------
(* The slab kernels.  A work item i of a kernel over nx, nz, nw, ny handles *)
(* the cells <<x, z, w, y>> of a set; the sets are those of one item of the *)
(* plain, coalesced, vector_x and tile_xy functors, which all four maps     *)
(* below come in.                                                           *)

slab_functor(i) == {i}
slab_tensor_coalesced_functor(i) == {<<i[4], i[2], i[1], i[3]>>}
slab_vector_x_functor(VectorWidth, nx, i) ==
    {<<x, i[2], i[3], i[4]>> :
        x \in {i[1] * VectorWidth + lane : lane \in 0 .. VectorWidth - 1} \cap 0 .. nx - 1}
TileUnchecked(TileX, TileY, nx, ny, i) ==                                     \* mutant
    {<<x, i[2], i[3], y>> :
        x \in {i[1] * TileX + xx : xx \in 0 .. TileX - 1} \cap 0 .. nx - 1,
        y \in {i[4] * TileY + yy : yy \in 0 .. TileY - 1}}
slab_tile_xy_functor(TileX, TileY, nx, ny, i) ==
    {<<x, i[2], i[3], y>> :
        x \in {i[1] * TileX + xx : xx \in 0 .. TileX - 1} \cap 0 .. nx - 1,
        y \in {i[4] * TileY + yy : yy \in 0 .. TileY - 1} \cap 0 .. ny - 1}

pack_forward_xyzw_slab(offset, z_offset, nx, nz, nw, cells) ==
    {<<offset + packed_index_4d(k, nx, nz, nw), <<k[1], k[4], z_offset + k[2], k[3]>>>> : k \in cells}
unpack_forward_yzwx_slab(offset, y_offset, nx, nz, nw, cells) ==
    {<<<<y_offset + k[4], k[2], k[3], k[1]>>, offset + packed_index_4d(k, nx, nz, nw)>> : k \in cells}
pack_backward_yzwx_slab(offset, y_offset, nx, nz, nw, cells) ==
    {<<offset + packed_index_4d(k, nx, nz, nw), <<y_offset + k[4], k[2], k[3], k[1]>>>> : k \in cells}
unpack_backward_xyzw_slab(offset, z_offset, nx, nz, nw, cells) ==
    {<<<<k[1], k[4], z_offset + k[2], k[3]>>, offset + packed_index_4d(k, nx, nz, nw)>> : k \in cells}

\* The work items of the kernel that c has enabled for the cells nx, nz, nw, ny.
SlabItems(c, nx, nz, nw, ny) ==
    CASE c.kernels = "vector4" ->
           [i \in All4(<<CeilDiv(nx, 4), nz, nw, ny>>) |-> slab_vector_x_functor(4, nx, i)]
      [] c.kernels = "tiled" ->
           [i \in All4(<<CeilDiv(nx, 4), nz, nw, CeilDiv(ny, 2)>>) |-> slab_tile_xy_functor(4, 2, nx, ny, i)]
      [] c.kernels = "tensor_coalesced" ->
           [i \in All4(<<nw, nz, ny, nx>>) |-> slab_tensor_coalesced_functor(i)]
      [] c.kernels = "plain" -> [i \in All4(<<nx, nz, nw, ny>>) |-> slab_functor(i)]
LaunchSlab(items, Work(_)) == UNION {{<<m[1], m[2], i>> : m \in Work(items[i])} : i \in DOMAIN items}

launch_pack_forward_slab_native_chunk_(c, me, p) ==
    LaunchSlab(SlabItems(c, c.n.x, size(c, "z", p), c.n.w, size(c, "y", me)),
        LAMBDA cells : pack_forward_xyzw_slab(forward_send_offsets_(c, me, p), start(c, "z", p),
                                              c.n.x, size(c, "z", p), c.n.w, cells))
launch_unpack_forward_slab_native_chunk_(c, me, p) ==
    LaunchSlab(SlabItems(c, c.n.x, size(c, "z", me), c.n.w, size(c, "y", p)),
        LAMBDA cells : unpack_forward_yzwx_slab(forward_recv_offsets_(c, me, p), start(c, "y", p),
                                                c.n.x, size(c, "z", me), c.n.w, cells))
launch_pack_backward_slab_native_chunk_(c, me, p) ==
    LaunchSlab(SlabItems(c, c.n.x, size(c, "z", me), c.n.w, size(c, "y", p)),
        LAMBDA cells : pack_backward_yzwx_slab(backward_send_offsets_(c, me, p), start(c, "y", p),
                                               c.n.x, size(c, "z", me), c.n.w, cells))
launch_unpack_backward_slab_native_chunk_(c, me, p) ==
    LaunchSlab(SlabItems(c, c.n.x, size(c, "z", p), c.n.w, size(c, "y", me)),
        LAMBDA cells : unpack_backward_xyzw_slab(backward_recv_offsets_(c, me, p), start(c, "z", p),
                                                 c.n.x, size(c, "z", p), c.n.w, cells))
-----------------------------------------------------------------------------
(* Messages in the order x,w,z,y, which is that of a native x,z,w,y array: *)
(* the y planes of a rank are one run of it.                               *)

pack_forward_pencil_xwzy_ptr_functor(offset, z_offset, nx, nw, nz, i) ==
    {<<offset + packed_index_4d(i, nx, nw, nz), <<i[1], i[4], i[2], z_offset + i[3]>>>>}
pack_forward_slab_xwzy_ptr_functor(offset, z_offset, nx, nw, nz, i) ==
    {<<offset + packed_index_4d(i, nx, nw, nz), <<i[1], i[4], z_offset + i[3], i[2]>>>>}
unpack_backward_pencil_xwzy_ptr_functor(offset, z_offset, nx, nw, nz, i) ==
    {<<<<i[1], i[4], i[2], z_offset + i[3]>>, offset + packed_index_4d(i, nx, nw, nz)>>}
unpack_backward_slab_xwzy_ptr_functor(offset, z_offset, nx, nw, nz, i) ==
    {<<<<i[1], i[4], z_offset + i[3], i[2]>>, offset + packed_index_4d(i, nx, nw, nz)>>}

pack_forward_pencil_xwzy_chunk_to_(c, me, p, offset) ==
    ForEach(<<c.n.x, c.n.w, size(c, "z", p), size(c, "y", me)>>,
        LAMBDA i : pack_forward_pencil_xwzy_ptr_functor(offset, start(c, "z", p), c.n.x, c.n.w, size(c, "z", p), i))
pack_forward_slab_native_xwzy_chunk_to_(c, me, p, offset) ==
    ForEach(<<c.n.x, c.n.w, size(c, "z", p), size(c, "y", me)>>,
        LAMBDA i : pack_forward_slab_xwzy_ptr_functor(offset, start(c, "z", p), c.n.x, c.n.w, size(c, "z", p), i))
unpack_backward_pencil_xwzy_chunk_from_(c, me, p, offset) ==
    ForEach(<<c.n.x, c.n.w, size(c, "z", p), size(c, "y", me)>>,
        LAMBDA i : unpack_backward_pencil_xwzy_ptr_functor(offset, start(c, "z", p),
                                                           c.n.x, c.n.w, size(c, "z", p), i))
unpack_backward_slab_native_xwzy_chunk_from_(c, me, p, offset) ==
    ForEach(<<c.n.x, c.n.w, size(c, "z", p), size(c, "y", me)>>,
        LAMBDA i : unpack_backward_slab_xwzy_ptr_functor(offset, start(c, "z", p),
                                                         c.n.x, c.n.w, size(c, "z", p), i))

-----------------------------------------------------------------------------
(* WZ communication: the slab too is physically x,w,Z,y, so a block is the *)
(* same part of each y plane and the planes go out as they lie.            *)

\* The offsets of an index of each array.
SlabOffset(c, i) == i[1] + c.n.x * (i[4] + c.n.w * (i[3] + c.n.z * i[2]))
NativeOffset(c, me, i) == i[1] + c.n.x * (i[3] + c.n.w * (i[2] + size(c, "z", me) * i[4]))

CopyFirstSelf(c, me) ==                                                         \* mutant
    ForEach(<<c.n.x, c.n.w, size(c, "z", me), size(c, "y", me)>>,
        LAMBDA i : {<<NativeOffset(c, me, <<i[1], i[3], i[2], start(c, "y", me) + i[4]>>),
                      SlabOffset(c, <<i[1], i[4], i[3], i[2]>>)>>})
copy_forward_slab_wz_communication_self(c, me) ==
    ForEach(<<c.n.x, c.n.w, size(c, "z", me), size(c, "y", me)>>,
        LAMBDA i : {<<NativeOffset(c, me, <<i[1], i[3], i[2], start(c, "y", me) + i[4]>>),
                      SlabOffset(c, <<i[1], i[4], start(c, "z", me) + i[3], i[2]>>)>>})
copy_backward_slab_wz_communication_self(c, me) ==
    ForEach(<<c.n.x, c.n.w, size(c, "z", me), size(c, "y", me)>>,
        LAMBDA i : {<<SlabOffset(c, <<i[1], i[4], start(c, "z", me) + i[3], i[2]>>),
                      NativeOffset(c, me, <<i[1], i[3], i[2], start(c, "y", me) + i[4]>>)>>})

\* The planes of a slab that p has the z of, and the y planes that p has of a native array.
SlabPlanes(c, me, p) ==
    LET plane_elems == c.n.x * c.n.w IN
    type_vector(start(c, "z", p) * plane_elems, size(c, "y", me), size(c, "z", p) * plane_elems, c.n.z * plane_elems)
NativePlanes(c, me, p) ==
    LET elems == size(c, "z", me) * c.n.x * c.n.w IN
    type_vector(start(c, "y", p) * elems, size(c, "y", p), elems, elems)

-----------------------------------------------------------------------------
(* Compact chunks: runs of whole y planes, each packed from the start of a *)
(* slot of the window and sent to where its planes lie.                    *)

native_xzwy_compact_chunk_span_(c, nz, y_count, chunk) ==
    LET plane_elems == c.n.x * c.n.w * nz
        y_per_chunk == c.limit \div plane_elems
        y_begin == chunk * y_per_chunk
        this_y == IF y_per_chunk < y_count - y_begin THEN y_per_chunk ELSE y_count - y_begin
    IN  [begin_elems |-> y_begin * plane_elems, y_begin |-> y_begin, y_count |-> this_y]
CountWholeChunks(c, nz, y_count) ==                                             \* mutant
    IF nz = 0 \/ y_count = 0 THEN 0 ELSE y_count \div (c.limit \div (c.n.x * c.n.w * nz))
native_xzwy_compact_chunk_count_(c, nz, y_count) ==
    IF nz = 0 \/ y_count = 0 THEN 0 ELSE CeilDiv(y_count, c.limit \div (c.n.x * c.n.w * nz))

pack_forward_pencil_xwzy_y_chunk_ptr_functor(z_offset, y_offset, nx, nw, nz, i) ==
    {<<packed_index_4d(i, nx, nw, nz), <<i[1], y_offset + i[4], i[2], z_offset + i[3]>>>>}
pack_forward_slab_xwzy_y_chunk_ptr_functor(z_offset, y_offset, nx, nw, nz, i) ==
    {<<packed_index_4d(i, nx, nw, nz), <<i[1], y_offset + i[4], z_offset + i[3], i[2]>>>>}
unpack_backward_pencil_xwzy_y_chunk_ptr_functor(z_offset, y_offset, nx, nw, nz, i) ==
    {<<<<i[1], y_offset + i[4], i[2], z_offset + i[3]>>, packed_index_4d(i, nx, nw, nz)>>}
unpack_backward_slab_xwzy_y_chunk_ptr_functor(z_offset, y_offset, nx, nw, nz, i) ==
    {<<<<i[1], y_offset + i[4], z_offset + i[3], i[2]>>, packed_index_4d(i, nx, nw, nz)>>}

pack_forward_pencil_xwzy_compact_chunk_(c, me, p, chunk) ==
    LET span == native_xzwy_compact_chunk_span_(c, size(c, "z", p), size(c, "y", me), chunk) IN
    ForEach(<<c.n.x, c.n.w, size(c, "z", p), span.y_count>>,
        LAMBDA i : pack_forward_pencil_xwzy_y_chunk_ptr_functor(start(c, "z", p), span.y_begin,
                                                                c.n.x, c.n.w, size(c, "z", p), i))
pack_forward_slab_native_xwzy_compact_chunk_(c, me, p, chunk) ==
    LET span == native_xzwy_compact_chunk_span_(c, size(c, "z", p), size(c, "y", me), chunk) IN
    ForEach(<<c.n.x, c.n.w, size(c, "z", p), span.y_count>>,
        LAMBDA i : pack_forward_slab_xwzy_y_chunk_ptr_functor(start(c, "z", p), span.y_begin,
                                                              c.n.x, c.n.w, size(c, "z", p), i))
unpack_backward_pencil_xwzy_compact_chunk_(c, me, p, chunk) ==
    LET span == native_xzwy_compact_chunk_span_(c, size(c, "z", p), size(c, "y", me), chunk) IN
    ForEach(<<c.n.x, c.n.w, size(c, "z", p), span.y_count>>,
        LAMBDA i : unpack_backward_pencil_xwzy_y_chunk_ptr_functor(start(c, "z", p), span.y_begin,
                                                                   c.n.x, c.n.w, size(c, "z", p), i))
unpack_backward_slab_native_xwzy_compact_chunk_(c, me, p, chunk) ==
    LET span == native_xzwy_compact_chunk_span_(c, size(c, "z", p), size(c, "y", me), chunk) IN
    ForEach(<<c.n.x, c.n.w, size(c, "z", p), span.y_count>>,
        LAMBDA i : unpack_backward_slab_xwzy_y_chunk_ptr_functor(start(c, "z", p), span.y_begin,
                                                                 c.n.x, c.n.w, size(c, "z", p), i))

\* All the chunks of a block: chunk's slot holds the block's elements from begin_elems on.
BlockChunks(c, me, p) ==
    0 .. native_xzwy_compact_chunk_count_(c, size(c, "z", p), size(c, "y", me)) - 1
ChunkAt(c, me, p, chunk) ==
    native_xzwy_compact_chunk_span_(c, size(c, "z", p), size(c, "y", me), chunk).begin_elems
AllPacked(c, me, p, offset, chunks) ==
    UNION {{<<offset + ChunkAt(c, me, p, k) + w[1], w[2], <<k, w[3]>>>> : w \in chunks[k]} : k \in DOMAIN chunks}
AllUnpacked(c, me, p, offset, chunks) ==
    UNION {{<<w[1], offset + ChunkAt(c, me, p, k) + w[2], <<k, w[3]>>>> : w \in chunks[k]} : k \in DOMAIN chunks}

-----------------------------------------------------------------------------
\* The arrays the shape checks ask for; a native x,z,w,y array as memory, too.
xywz(c, me) == Tensor(<<c.n.x, size(c, "y", me), c.n.w, c.n.z>>,
                      LAMBDA x, y, w, z : <<x, start(c, "y", me) + y, z, w>>)
xyzw(c, me) == Tensor(<<c.n.x, size(c, "y", me), c.n.z, c.n.w>>,
                      LAMBDA x, y, z, w : <<x, start(c, "y", me) + y, z, w>>)
xzwy(c, me) == Tensor(<<c.n.x, size(c, "z", me), c.n.w, c.n.y>>,
                      LAMBDA x, z, w, y : <<x, y, start(c, "z", me) + z, w>>)
yzwx(c, me) == Tensor(<<c.n.y, size(c, "z", me), c.n.w, c.n.x>>,
                      LAMBDA y, z, w, x : <<x, y, start(c, "z", me) + z, w>>)
xwzy_memory(c, me) == Raw4(<<c.n.x, c.n.w, size(c, "z", me), c.n.y>>,
                           LAMBDA x, w, z, y : <<x, y, start(c, "z", me) + z, w>>)
slab_memory(c, me) == Raw4(<<c.n.x, c.n.w, c.n.z, size(c, "y", me)>>,
                           LAMBDA x, w, z, y : <<x, start(c, "y", me) + y, z, w>>)

ForwardOut(c, me) ==
    IF c.fn = "transpose_xyzw_to_yzwx_slab_native" THEN yzwx(c, me) ELSE xzwy(c, me)
ForwardIn(c, me) == IF c.pencil THEN xywz(c, me) ELSE xyzw(c, me)

ForwardPack(c, me, p, offset) ==
    CASE ~c.direct /\ c.pencil -> pack_forward_chunk_(c, me, p)
      [] ~c.direct /\ ~c.pencil -> launch_pack_forward_slab_native_chunk_(c, me, p)
      [] c.direct /\ ~c.compact /\ c.pencil -> pack_forward_pencil_xwzy_chunk_to_(c, me, p, offset)
      [] c.direct /\ ~c.compact /\ ~c.pencil -> pack_forward_slab_native_xwzy_chunk_to_(c, me, p, offset)
      [] c.direct /\ c.compact /\ c.pencil ->
           AllPacked(c, me, p, offset,
                     [k \in BlockChunks(c, me, p) |-> pack_forward_pencil_xwzy_compact_chunk_(c, me, p, k)])
      [] c.direct /\ c.compact /\ ~c.pencil ->
           AllPacked(c, me, p, offset,
                     [k \in BlockChunks(c, me, p) |-> pack_forward_slab_native_xwzy_compact_chunk_(c, me, p, k)])
ForwardUnpack(c, me, p) ==
    IF c.fn = "transpose_xyzw_to_yzwx_slab_native"
    THEN launch_unpack_forward_slab_native_chunk_(c, me, p) ELSE unpack_forward_chunk_(c, me, p)
ForwardSelf(c, me) ==
    LET offset == forward_recv_offsets_(c, me, me) IN
    IF c.pencil THEN pack_forward_pencil_xwzy_chunk_to_(c, me, me, offset)
    ELSE pack_forward_slab_native_xwzy_chunk_to_(c, me, me, offset)

BackwardPack(c, me, p) ==
    IF c.fn = "transpose_yzwx_to_xyzw_slab_native"
    THEN launch_pack_backward_slab_native_chunk_(c, me, p) ELSE pack_backward_chunk_(c, me, p)
BackwardUnpack(c, me, p, offset) ==
    CASE ~c.direct /\ c.pencil -> unpack_backward_chunk_(c, me, p)
      [] ~c.direct /\ ~c.pencil -> launch_unpack_backward_slab_native_chunk_(c, me, p)
      [] c.direct /\ ~c.compact /\ c.pencil -> unpack_backward_pencil_xwzy_chunk_from_(c, me, p, offset)
      [] c.direct /\ ~c.compact /\ ~c.pencil -> unpack_backward_slab_native_xwzy_chunk_from_(c, me, p, offset)
      [] c.direct /\ c.compact /\ c.pencil ->
           AllUnpacked(c, me, p, offset,
                     [k \in BlockChunks(c, me, p) |-> unpack_backward_pencil_xwzy_compact_chunk_(c, me, p, k)])
      [] c.direct /\ c.compact /\ ~c.pencil ->
           AllUnpacked(c, me, p, offset,
                     [k \in BlockChunks(c, me, p) |-> unpack_backward_slab_native_xwzy_compact_chunk_(c, me, p, k)])
BackwardSelf(c, me) ==
    LET offset == backward_send_offsets_(c, me, me) IN
    IF c.pencil THEN unpack_backward_pencil_xwzy_chunk_from_(c, me, me, offset)
    ELSE unpack_backward_slab_native_xwzy_chunk_from_(c, me, me, offset)

ForwardFns == {"transpose_xywz_to_xzwy", "transpose_xyzw_to_yzwx_slab_native",
               "transpose_xyzw_to_xzwy_slab_native", "transpose_xywz_to_xzwy_degenerate_pencil_native"}
BackwardFns == {"transpose_xzwy_to_xywz", "transpose_yzwx_to_xyzw_slab_native",
                "transpose_xzwy_to_xyzw_slab_native", "transpose_xzwy_to_xywz_degenerate_pencil_native"}

Sends(c, me) ==
    CASE c.fn \in ForwardFns ->
           Sender(c, ForwardIn(c, me), LAMBDA p : ForwardPack(c, me, p, forward_send_offsets_(c, me, p)),
                  LAMBDA p : forward_send_offsets_(c, me, p), LAMBDA p : forward_send_chunk_elems_(c, me, p))
      [] c.fn \in BackwardFns /\ c.direct ->
           InPlaceSender(c, xwzy_memory(c, me),
                         LAMBDA p : Run(backward_send_offsets_(c, me, p), backward_send_chunk_elems_(c, me, p)))
      [] c.fn \in BackwardFns /\ ~c.direct ->
           Sender(c, IF c.fn = "transpose_yzwx_to_xyzw_slab_native" THEN yzwx(c, me) ELSE xzwy(c, me),
                  LAMBDA p : BackwardPack(c, me, p),
                  LAMBDA p : backward_send_offsets_(c, me, p), LAMBDA p : backward_send_chunk_elems_(c, me, p))
      [] c.fn = "transpose_xyzw_wz_communication_to_xzwy_slab_native" ->
           InPlaceSender(c, slab_memory(c, me), LAMBDA p : SlabPlanes(c, me, p))
      [] c.fn = "transpose_xzwy_to_xyzw_wz_communication_slab_native" ->
           InPlaceSender(c, xwzy_memory(c, me), LAMBDA p : NativePlanes(c, me, p))
Receives(c, me) ==
    CASE c.fn \in ForwardFns /\ c.direct ->
           InPlaceReceiver(c, xwzy_memory(c, me),
                           LAMBDA p : Run(forward_recv_offsets_(c, me, p), forward_recv_chunk_elems_(c, me, p)),
                           ForwardSelf(c, me))
      [] c.fn \in ForwardFns /\ ~c.direct ->
           Receiver(c, ForwardOut(c, me), LAMBDA p : forward_recv_offsets_(c, me, p),
                    LAMBDA p : forward_recv_chunk_elems_(c, me, p), LAMBDA p : ForwardUnpack(c, me, p))
      [] c.fn \in BackwardFns ->
           [Receiver(c, ForwardIn(c, me), LAMBDA p : backward_recv_offsets_(c, me, p),
                     LAMBDA p : backward_recv_chunk_elems_(c, me, p),
                     LAMBDA p : BackwardUnpack(c, me, p, backward_recv_offsets_(c, me, p)))
            EXCEPT !.self = IF c.direct THEN BackwardSelf(c, me) ELSE {}]
      [] c.fn = "transpose_xyzw_wz_communication_to_xzwy_slab_native" ->
           InPlaceReceiver(c, xwzy_memory(c, me), LAMBDA p : NativePlanes(c, me, p),
                           copy_forward_slab_wz_communication_self(c, me))
      [] c.fn = "transpose_xzwy_to_xyzw_wz_communication_slab_native" ->
           InPlaceReceiver(c, slab_memory(c, me), LAMBDA p : SlabPlanes(c, me, p),
                           copy_backward_slab_wz_communication_self(c, me))
=============================================================================
