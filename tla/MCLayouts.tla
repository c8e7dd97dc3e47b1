----------------------------- MODULE MCLayouts -----------------------------
(* The transposes of three ranks, on grids that their number does not divide. *)
EXTENDS IndexMaps

X == INSTANCE LayoutsX
Z == INSTANCE LayoutsZ
XY == INSTANCE LayoutsXY
ZW == INSTANCE LayoutsZW
XW == INSTANCE LayoutsXW

Base == [P |-> 3, p2p |-> TRUE, direct |-> FALSE, directRecv |-> FALSE, rows |-> 0, order |-> "",
         nativeMessages |-> FALSE, pencil |-> TRUE, compact |-> FALSE, kernels |-> "plain", limit |-> 0]
Collective(c) == [c EXCEPT !.p2p = FALSE]

\* Three axes.
XJobs ==
    {[fn |-> f, n |-> [x |-> 2, y |-> 5, z |-> 4]] @@ c :
        f \in {"transpose_xyz_to_xzy", "transpose_xzy_to_xyz"},
        c \in {[q EXCEPT !.direct = d[1], !.directRecv = d[2]] :
                 q \in {Base, Collective(Base)},
                 d \in {<<FALSE, FALSE>>, <<TRUE, FALSE>>, <<TRUE, TRUE>>}}}
ZOrder == "transpose_x_to_y" :> "yxz" @@ "transpose_y_to_x" :> "yxz"
          @@ "transpose_x_to_y_optimized_layout" :> "zyx" @@ "transpose_y_to_x_optimized_layout" :> "zyx"
          @@ "transpose_x_to_y_xfast" :> "xzy" @@ "transpose_y_to_x_xfast" :> "xzy"
ZJobs ==
    {[fn |-> f, n |-> [x |-> 5, y |-> 4, z |-> 2]] @@ [c EXCEPT !.order = ZOrder[f]] :
        f \in DOMAIN ZOrder,
        c \in {Base, Collective(Base), [Base EXCEPT !.direct = TRUE]}}
    \* In parts of three elements of rows of two, and of one row.
    \cup {[fn |-> "transpose_y_to_x_optimized_layout", n |-> [x |-> 7, y |-> 3, z |-> 2]]
             @@ [Base EXCEPT !.order = "zyx", !.direct = TRUE, !.rows = r] : r \in {5, 1}}
ThreeAxes == {"transpose_xyz_to_xzy", "transpose_xzy_to_xyz"} \cup DOMAIN ZOrder

\* Four axes.
XYJobs == {[fn |-> f, n |-> [x |-> 2, y |-> 2, z |-> 4, w |-> 4]] @@ Base :
              f \in {"transpose_xyzw_to_xywz", "transpose_xywz_to_xyzw"}}
ZWJobs ==
    {[fn |-> f, n |-> [x |-> 5, y |-> 4, z |-> 2, w |-> 2]] @@ Base :
        f \in {"transpose_xzwy_to_yzwx", "transpose_yzwx_to_xzwy"}}
    \cup {[fn |-> f, n |-> [x |-> 5, y |-> 4, z |-> 2, w |-> 3]] @@ [Base EXCEPT !.nativeMessages = m] :
             f \in {"transpose_xzwy_to_xzwy_native", "transpose_xzwy_native_to_xzwy"}, m \in BOOLEAN}

XWGrid == [x |-> 5, y |-> 5, z |-> 4, w |-> 2]
Pencil == [Base EXCEPT !.pencil = TRUE]
Slab == [Base EXCEPT !.pencil = FALSE]
Direct(c) == {[c EXCEPT !.direct = TRUE],
              \* One or two y planes of the largest block in a chunk.
              [c EXCEPT !.direct = TRUE, !.compact = TRUE, !.limit = 20]}
Kernels == {"plain", "tensor_coalesced", "tiled", "vector4"}
XWJobs ==
    {[fn |-> f, n |-> XWGrid] @@ c :
        f \in {"transpose_xywz_to_xzwy", "transpose_xzwy_to_xywz"}, c \in {Pencil}}
    \cup {[fn |-> f, n |-> XWGrid] @@ c :
        f \in {"transpose_xywz_to_xzwy_degenerate_pencil_native",
               "transpose_xzwy_to_xywz_degenerate_pencil_native"}, c \in {Pencil} \cup Direct(Pencil)}
    \cup {[fn |-> f, n |-> XWGrid] @@ [Slab EXCEPT !.kernels = k] :
        f \in {"transpose_xyzw_to_yzwx_slab_native", "transpose_yzwx_to_xyzw_slab_native",
               "transpose_xyzw_to_xzwy_slab_native", "transpose_xzwy_to_xyzw_slab_native"}, k \in Kernels}
    \cup {[fn |-> f, n |-> XWGrid] @@ c :
        f \in {"transpose_xyzw_to_xzwy_slab_native", "transpose_xzwy_to_xyzw_slab_native"}, c \in Direct(Slab)}
    \cup {[fn |-> f, n |-> XWGrid] @@ Slab :
        f \in {"transpose_xyzw_wz_communication_to_xzwy_slab_native",
               "transpose_xzwy_to_xyzw_wz_communication_slab_native"}}

\* Fewer planes than ranks: the last rank has none.
Few == [x |-> 2, y |-> 2, z |-> 2, w |-> 2]
SparseJobs ==
    {[fn |-> f, n |-> Few] @@ c :
        f \in {"transpose_xywz_to_xzwy_degenerate_pencil_native",
               "transpose_xzwy_to_xywz_degenerate_pencil_native"},
        c \in {Pencil} \cup Direct(Pencil)}
    \cup {[fn |-> f, n |-> Few] @@ [Base EXCEPT !.order = ZOrder[f]] :
             f \in DOMAIN ZOrder}
    \cup {[fn |-> "transpose_y_to_x_optimized_layout", n |-> Few]
             @@ [Base EXCEPT !.order = "zyx", !.direct = TRUE, !.rows = 3]}

\* One rank alone copies its block in the direct backward call.
Alone == [fn |-> "transpose_xzy_to_xyz", n |-> [x |-> 2, y |-> 3, z |-> 2]]
         @@ [Base EXCEPT !.P = 1, !.direct = TRUE, !.directRecv = TRUE]

\* Every rank receives: the first has the larger shares, the last the smaller.
MCJobs ==
    {t[1] @@ [me |-> t[2]] : t \in (XJobs \cup ZJobs \cup XYJobs \cup ZWJobs \cup XWJobs \cup SparseJobs) \X {0, 1, 2}}
    \cup {Alone @@ [me |-> 0]}

Packing(c, r) ==
    CASE c.fn \in {j.fn : j \in XJobs} -> X!Sends(c, r)
      [] c.fn \in DOMAIN ZOrder -> Z!Sends(c, r)
      [] c.fn \in {j.fn : j \in XYJobs} -> XY!Sends(c, r)
      [] c.fn \in {j.fn : j \in ZWJobs} -> ZW!Sends(c, r)
      [] c.fn \in {j.fn : j \in XWJobs} -> XW!Sends(c, r)
Landing(c, r) ==
    CASE c.fn \in {j.fn : j \in XJobs} -> X!Receives(c, r)
      [] c.fn \in DOMAIN ZOrder -> Z!Receives(c, r)
      [] c.fn \in {j.fn : j \in XYJobs} -> XY!Receives(c, r)
      [] c.fn \in {j.fn : j \in ZWJobs} -> ZW!Receives(c, r)
      [] c.fn \in {j.fn : j \in XWJobs} -> XW!Receives(c, r)
=============================================================================
