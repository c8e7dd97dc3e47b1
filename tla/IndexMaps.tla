----------------------------- MODULE IndexMaps -----------------------------
(***************************************************************************)
(* Which cell of an array goes to which slot of a message: the kernels,    *)
(* the pitched copies and the MPI datatypes of the transposes, as sets of  *)
(* writes.  A write is <<to, from, by>>: the address written, the address  *)
(* read, and the work item that does it; two items that write one address  *)
(* race.  Addresses are the indices of a tensor, or offsets from the start *)
(* of raw memory.                                                          *)
(***************************************************************************)
EXTENDS TransferSteps, FiniteSetsExt

-----------------------------------------------------------------------------
(* Offsets.  compute_offsets of fft_partitioning, and the running sums in  *)
(* which a plan lays the blocks of its buffers one after the other.        *)

Offset(elems, p) == MapThenSumSet(LAMBDA q : elems[q], 0 .. p - 1)
size(c, axis, p) == Share(c.n[axis], c.P, p)
start(c, axis, p) == Offset([q \in RanksOf(c) |-> size(c, axis, q)], p)

All4(d) == (0 .. d[1] - 1) \X (0 .. d[2] - 1) \X (0 .. d[3] - 1) \X (0 .. d[4] - 1)

-----------------------------------------------------------------------------
(* Kernels.                                                                *)

packed_index_4d(i, d0, d1, d2) == i[1] + d0 * (i[2] + d1 * (i[3] + d2 * i[4]))

\* for_each over make_range_4d( d ): Work(i) is the set of <<to, from>> of item i.
ForEach(d, Work(_)) == UNION {{<<m[1], m[2], i>> : m \in Work(i)} : i \in All4(d)}

CeilDiv(a, b) == (a + b - 1) \div b

-----------------------------------------------------------------------------
(* Copies.                                                                 *)

memcpy(to, from, elems) == {<<to + k, from + k, k>> : k \in 0 .. elems - 1}

\* A pitched pointer with a position: row r of plane d starts at at + pitch * (r + rows * d).
Pitched(at, pitch, rows) == [at |-> at, pitch |-> pitch, rows |-> rows]
Address(ptr, i) == ptr.at + i[1] + ptr.pitch * (i[2] + ptr.rows * i[3])

memcpy_3d(to, from, extent) ==
    {<<Address(to, i), Address(from, i), i>> :
        i \in (0 .. extent[1] - 1) \X (0 .. extent[2] - 1) \X (0 .. extent[3] - 1)}

-----------------------------------------------------------------------------
(* Where the elements of a message land: in a run, or as an MPI vector.    *)

Run(at, elems) == [k \in 0 .. elems - 1 |-> at + k]
type_vector(at, count, blocklength, stride) ==
    [k \in 0 .. count * blocklength - 1 |-> at + stride * (k \div blocklength) + (k % blocklength)]

-----------------------------------------------------------------------------
(* Arrays.  A tensor of four axes is addressed by its indices; raw memory  *)
(* of three or four axes, the first fastest, by offsets.  What(...) is the *)
(* cell of the grid stored there.                                          *)

Tensor(d, What(_, _, _, _)) == [i \in All4(d) |-> What(i[1], i[2], i[3], i[4])]
Raw4(d, What(_, _, _, _)) ==
    [k \in 0 .. d[1] * d[2] * d[3] * d[4] - 1 |->
        What(k % d[1], (k \div d[1]) % d[2], (k \div (d[1] * d[2])) % d[3], k \div (d[1] * d[2] * d[3]))]
Raw3(d, What(_, _, _)) ==
    [k \in 0 .. d[1] * d[2] * d[3] - 1 |->
        What(k % d[1], (k \div d[1]) % d[2], k \div (d[1] * d[2]))]

-----------------------------------------------------------------------------
(* The two ends of an exchange.  A sender packs a block for each rank and  *)
(* takes the elements of a message from where take says; a receiver lets   *)
(* them land and unpacks.                                                  *)

Sender(c, in, Pack(_), At(_), Elems(_)) ==
    [in |-> in, from |-> "send", pack |-> [p \in RanksOf(c) |-> Pack(p)],
     take |-> [p \in RanksOf(c) |-> Run(At(p), Elems(p))]]
\* The messages are parts of the array itself.
InPlaceSender(c, in, Take(_)) ==
    [in |-> in, from |-> "in", pack |-> [p \in RanksOf(c) |-> {}], take |-> [p \in RanksOf(c) |-> Take(p)]]

Receiver(c, result, At(_), Elems(_), Unpack(_)) ==
    [result |-> result, into |-> "recv", self |-> {},
     land |-> [p \in RanksOf(c) |-> Run(At(p), Elems(p))], unpack |-> [p \in RanksOf(c) |-> Unpack(p)]]
\* The message lands in the result; the rank's own block is copied by self.
InPlaceReceiver(c, result, Land(_), self) ==
    [result |-> result, into |-> "out", self |-> self,
     land |-> [p \in RanksOf(c) |-> Land(p)], unpack |-> [p \in RanksOf(c) |-> {}]]
=============================================================================
