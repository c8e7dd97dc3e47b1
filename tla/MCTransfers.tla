---------------------------- MODULE MCTransfers ----------------------------
(* The generic transposes of three ranks, on a grid that no size divides. *)
EXTENDS Transfers

SX == INSTANCE SameX
SZ == INSTANCE SameZ
XY == INSTANCE SameXY
ZW == INSTANCE SameZW
XW == INSTANCE SameXW

Grid == [x |-> 5, y |-> 4, z |-> 5, w |-> 4]
EvenGrid == [x |-> 3, y |-> 3, z |-> 5, w |-> 4]

Base == [P |-> 3, n |-> Grid, calls |-> 1, chunks |-> 1, aware |-> TRUE, byte |-> FALSE,
         persistent |-> FALSE, direct |-> FALSE, directRecv |-> FALSE, thread |-> FALSE,
         alias |-> FALSE, chunked |-> FALSE, paired |-> FALSE, nativeMessages |-> FALSE]

Host == [Base EXCEPT !.aware = FALSE]
Byte == [Base EXCEPT !.byte = TRUE, !.chunks = 2]
Twice == [Base EXCEPT !.persistent = TRUE, !.calls = 2]
Direct == [Base EXCEPT !.direct = TRUE]
DirectBoth == [Direct EXCEPT !.directRecv = TRUE]
ByteDirect == [DirectBoth EXCEPT !.byte = TRUE, !.chunks = 2]
TwiceDirect == [Twice EXCEPT !.direct = TRUE, !.directRecv = TRUE]
Alone == [DirectBoth EXCEPT !.P = 1, !.calls = 2]
Paired == [Base EXCEPT !.paired = TRUE]
NativeMessages == [Base EXCEPT !.nativeMessages = TRUE]
NativeDirect == [Base EXCEPT !.alias = TRUE]
NativeChunked == [NativeDirect EXCEPT !.chunked = TRUE, !.chunks = 2]

Threaded(configs) == configs \cup {[c EXCEPT !.thread = TRUE] : c \in configs}
Even(configs) == {[c EXCEPT !.n = EvenGrid] : c \in configs}

\* The options a transpose looks at.
Simple == {Host, Base}
Overlapped == Threaded({Host, Base, Byte, Twice, Direct, DirectBoth, ByteDirect, TwiceDirect})

Modes == {"p2p_waitall", "p2p_waitany", "alltoallv", "alltoallw"}
P2p == {"p2p_waitall", "p2p_waitany"}
Collectives == {"alltoallv", "alltoallw"}

\* Seen from the first rank, and from one with a peer on either side.
As(fns, modes, configs) ==
    {[fn |-> t[1], mode |-> t[2], me |-> t[4]] @@ t[3] :
        t \in {t \in fns \X modes \X configs \X {0, 1} : t[4] \in RanksOf(t[3])}}

MCJobs ==
    As({"transpose_xyz_to_xzy"}, P2p, {Host, Base, Byte})
    \cup As({"transpose_xyz_to_xzy_optimized_layout", "transpose_xzy_to_xyz"}, P2p, Overlapped \cup {Alone})
    \cup As({"transpose_xyz_to_xzy"}, Collectives, {Base})
    \cup As({"transpose_xyz_to_xzy"}, {"alltoallv"}, {Host})
    \cup As({"transpose_xzy_to_xyz"}, Collectives, Simple)
    \cup As({"transpose_x_to_y", "transpose_y_to_x"}, Modes, Simple)
    \cup As({"transpose_x_to_y_optimized_layout", "transpose_y_to_x_optimized_layout"}, P2p, Overlapped)
    \cup As({"transpose_x_to_y_xfast"}, P2p, {Host, Base, Byte, Twice})
    \cup As({"transpose_y_to_x_xfast"}, P2p, Even(Overlapped))
    \cup As({"transpose_x_to_y_optimized_layout", "transpose_y_to_x_optimized_layout",
             "transpose_x_to_y_xfast", "transpose_y_to_x_xfast"}, Collectives, Simple)
    \cup As({"transpose_xyzw_to_xywz", "transpose_xywz_to_xyzw"}, Modes, Simple)
    \cup As({"transpose_xzwy_to_yzwx", "transpose_yzwx_to_xzwy"}, Modes, {Host, Base, Paired})
    \cup As({"transpose_xzwy_to_xzwy_native", "transpose_xzwy_native_to_xzwy"}, Modes, {Base, NativeMessages})
    \cup As({"transpose_xywz_to_xzwy", "transpose_xzwy_to_xywz"}, Modes, Simple)
    \cup As({"transpose_xyzw_to_yzwx_slab_native", "transpose_yzwx_to_xyzw_slab_native"}, {"p2p_waitany"}, Simple)
    \cup As({"transpose_xyzw_to_xzwy_slab_native", "transpose_xzwy_to_xyzw_slab_native"}, {"p2p_waitany"},
            {Base, NativeDirect, NativeChunked})

Scripted(c, me) ==
    CASE c.fn = "transpose_xyz_to_xzy" -> SX!transpose_xyz_to_xzy(c, me)
      [] c.fn = "transpose_xyz_to_xzy_optimized_layout" -> SX!transpose_xyz_to_xzy_optimized_layout(c, me)
      [] c.fn = "transpose_xzy_to_xyz" -> SX!transpose_xzy_to_xyz(c, me)
      [] c.fn = "transpose_x_to_y" -> SZ!transpose_x_to_y(c, me)
      [] c.fn = "transpose_y_to_x" -> SZ!transpose_y_to_x(c, me)
      [] c.fn = "transpose_x_to_y_optimized_layout" -> SZ!transpose_x_to_y_optimized_layout(c, me)
      [] c.fn = "transpose_y_to_x_optimized_layout" -> SZ!transpose_y_to_x_optimized_layout(c, me)
      [] c.fn = "transpose_x_to_y_xfast" -> SZ!transpose_x_to_y_xfast(c, me)
      [] c.fn = "transpose_y_to_x_xfast" -> SZ!transpose_y_to_x_xfast(c, me)
      [] c.fn = "transpose_xyzw_to_xywz" -> XY!transpose_xyzw_to_xywz(c, me)
      [] c.fn = "transpose_xywz_to_xyzw" -> XY!transpose_xywz_to_xyzw(c, me)
      [] c.fn = "transpose_xzwy_to_yzwx" -> ZW!transpose_xzwy_to_yzwx(c, me)
      [] c.fn = "transpose_yzwx_to_xzwy" -> ZW!transpose_yzwx_to_xzwy(c, me)
      [] c.fn = "transpose_xzwy_to_xzwy_native" -> ZW!transpose_xzwy_to_xzwy_native(c, me)
      [] c.fn = "transpose_xzwy_native_to_xzwy" -> ZW!transpose_xzwy_native_to_xzwy(c, me)
      [] c.fn = "transpose_xywz_to_xzwy" -> XW!transpose_xywz_to_xzwy(c, me)
      [] c.fn = "transpose_xzwy_to_xywz" -> XW!transpose_xzwy_to_xywz(c, me)
      [] c.fn = "transpose_xyzw_to_yzwx_slab_native" -> XW!transpose_xyzw_to_yzwx_slab_native(c, me)
      [] c.fn = "transpose_yzwx_to_xyzw_slab_native" -> XW!transpose_yzwx_to_xyzw_slab_native(c, me)
      [] c.fn = "transpose_xyzw_to_xzwy_slab_native" -> XW!transpose_xyzw_to_xzwy_slab_native(c, me)
      [] c.fn = "transpose_xzwy_to_xyzw_slab_native" -> XW!transpose_xzwy_to_xyzw_slab_native(c, me)

\* What the checks of the code let through, on the uneven grid.
UnevenJobs == As({"transpose_y_to_x_xfast"}, P2p, Simple)

HostWJobs == As({"transpose_xyz_to_xzy"}, {"alltoallw"}, {Host})
=============================================================================
