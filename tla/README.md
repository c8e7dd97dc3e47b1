# FFTM in TLA+

FFTM computes 2D, 3D and 4D Fourier transforms on one GPU (`ffts.hpp`) or on
the GPUs of many MPI ranks (`fftm.hpp`).  A distributed transform alternates
local FFTs with redistributions over MPI sub-communicators; almost everything
that is hard to get right is in the redistributions, where MPI requests, GPU
streams, host callbacks and threads run against each other, and in the measured
autotuner, where ranks that may fail must keep their collective calls paired.
This project models those parts in TLA+, down to the cells the packing kernels
copy, model-checks them with TLC on small instances, and proves with TLAPS what
does not depend on the instance: the safety properties of the chunk window, the
plane pipelines, the ready send, the pencil executor, the workspace and the
autotuner.

All paths below are relative to `src/source/` unless they start with `docs/` or
`examples/`.

## 1. The system

| Component | Where | State it keeps | Operations | What makes it correct |
|---|---|---|---|---|
| Distributed plan | `fftm.hpp`, `fftm_options.hpp` | partitions, the transposes, FFT plans, views on a shared work area | `init`, `forward`, `backward`, `release_resources`, reuse of a workspace | a failed `init` can be cleaned up; views never outlive their storage |
| Shared workspace | `detail/shared_workspace_buffer.h` | required and allocated bytes, lease | `require_size_bytes`, `activate`, `release`, `acquire`, `release_lease` | one plan at a time; no growth under live views |
| Chunk window | `detail/mpi_transpose_4d_same_xw.h` 2890-3396, 4774-5548 | per peer and direction: next chunk, completed chunks, slot contents | post a slot, complete a slot, repost it, drain, wait | every chunk lands in its place once, slots are not reused under MPI, the call returns |
| Plane-credit scheduler | `detail/mpi_transpose_4d_same_xw.h` 3937-4241 | slots, pending requests, ready queue, FFT lanes | activate, poll lanes, test, recycle, wait | an FFT starts on complete data, once; the scheduler ends on every rank |
| Forward WZ pipeline | same file 3398-3699 | FFT lanes, the chunk window of receives, sends in flight | launch, poll, post, drain, overlap with the next FFT | no plane is sent before its FFT; nothing in flight when the call ends |
| Generic 3D transposes | `detail/mpi_transpose_3d_same_x.h`, `..._same_z.h` | streams, ready queue, poster thread, persistent requests | pack, callback, post, wait, unpack, cancel | no send before its copy, both ends agree, nothing lost or left behind |
| Generic 4D transposes | `detail/mpi_transpose_4d_same_{xy,zw,xw}.h` | buffers, requests | pack, exchange, unpack | as above; every cell arrives once, at its place |
| Native pencil executor | `detail/mpi_transpose_3d_pencil_pencil_reference_owned*` | buffers in slots of one work area, one set of deferred sends | two redistributions per direction, drain of deferred sends | no stage writes memory a pending send reads |
| Measured autotuner | `fftm_autotune_measure.hpp`, `..._4d.hpp` | candidate results, cache file | inspect cache, measure, select, save, load | ranks stay in step, agree, and the cache survives crashes |
| Policy autotuner | `fftm_autotune.hpp`, `..._4d.hpp` | cache file | create or load | a usable configuration, the same on every rank |
| Partitioning | `fft_partitioning.h` | sizes and starts per rank | `init` | the parts cover the axis without overlap |
| Vendor wrappers, profiling, single-GPU plan | `external_wrap/`, `common/`, `ffts.hpp` | handles, timers | thin calls | sequential |

How they interact: the plan owns the transposes and the workspace and calls them
in sequence; a transpose calls MPI through SCFD's communicator wrappers and the
GPU through streams; the GPU calls back into the ready queue from a driver
thread; the autotuner builds and destroys plans over one workspace, and talks to
other ranks by collectives and to later jobs by its cache file.

Behaviours that are hard: interleaving of MPI completion with reposting (chunk
window, plane credit, pipeline), blocking on one set of requests while another one
could move, equal tags for requests in flight, both ends of a message computing
its size on their own, persistent requests started for other arrays, buffers that
are packed, sent, received and unpacked at once, callbacks and condition
variables, exceptions on one rank between collective calls, an `init` that throws
half-way and undoes nothing, a crash around the rename of the cache file, sends
that stay pending across an FFT.  `PROJECT.json` lists each hazard at its line
with the properties aimed at it.

## 2. Modules

| Module | Stands for | Composes |
|---|---|---|
| `Mpi` | matching of point-to-point requests (external): oldest send with oldest receive of the same source, destination and tag | |
| `Exchange` | abstract specification of one redistribution | |
| `ChunkWindow` | the chunk window and its callers on all ranks, with MPI | `Mpi`, refines `Exchange` |
| `ChunkWindow_proofs` | placement and slots of `ChunkWindow`, proved | `ChunkWindow` |
| `ChunkWindow_refinement` | `ChunkWindow` implements `Exchange`, proved | `ChunkWindow_proofs`, `Exchange` |
| `PlaneCredit` | the backward plane-credit scheduler on all ranks, with MPI and the GPU lanes | `Mpi` |
| `PlanePipeline` | both plane-by-plane redistributions of a slab plan: the forward pipeline, with or without send overlap, or the backward scheduler | `PlaneCredit` |
| `PlaneCredit_proofs` | theorems about the scheduler by itself | `PlaneCredit` |
| `PlanePipeline_proofs` | theorems about both pipelines | `PlanePipeline`, `PlaneCredit_proofs` |
| `TransferSteps` | the vocabulary of the generic transposes: a function is a script of steps | |
| `PackedTransfers` | the shape most of their functions share: pack all, exchange, unpack | `TransferSteps` |
| `SameX`, `SameZ`, `SameXY`, `SameZW`, `SameXW` | the functions of the five transposes, as scripts | `TransferSteps` or `PackedTransfers` |
| `Transfers` | one rank running scripts: main thread, poster thread, streams, MPI, the peers | `TransferSteps`, the scripts through `MCTransfers` |
| `ReadySend` | one optimized 3D transpose on one rank in close-up: callbacks, condition variable, failures | |
| `ReadySend_proofs` | theorems about `ReadySend` | `ReadySend` |
| `IndexMaps` | index maps: kernels, pitched copies, MPI datatypes, offsets | `TransferSteps` |
| `LayoutsX`, `LayoutsZ`, `LayoutsXY`, `LayoutsZW`, `LayoutsXW` | which cell the kernels, copies and datatypes of each transpose move where | `IndexMaps`, the element counts of `SameX` ... |
| `Layouts` | one transpose, cell by cell: pack, carry, unpack in any order | `IndexMaps`, the maps through `MCLayouts` |
| `MCTransposes` | the generic transposes in both views, a call or its cells | `Transfers` through `MCTransfers`, `Layouts` |
| `PencilPipeline` | the native 3D pencil executor on all ranks: stages, memory, deferred sends, MPI | |
| `PencilPipeline_proofs` | theorems about `PencilPipeline` | `PencilPipeline` |
| `Workspace` | the plans of one process, their buffers and the pool they lease | |
| `Workspace_proofs` | theorems about `Workspace` | `Workspace` |
| `AutotuneMeasure` | the measured autotuner on all ranks, its cache file, a sequence of jobs | |
| `AutotuneMeasure_proofs` | theorems about `AutotuneMeasure` | `AutotuneMeasure` |
| `MC...` | the small instances | |

Operators written `...Early`, `...Swapped` and so on under a comment "Mutant"
are not part of the specification: each is a fault a programmer might have made
in the definition that follows it, and shows that the property named in
`PROJECT.json` notices it.

### Mpi

A request is a record with its channel, its tag and `order`, the place in which
its rank posted it on that channel.  `Matching` allows a send and a receive to
meet when each is the oldest of its class: MPI's non-overtaking rule.  Whether a
send completes at the post (eager) or only after it was matched (rendezvous) is
the constant `Buffered` of `ChunkWindow` and, channel by channel, `Eager` of
`PlaneCredit`; both occur in practice, depending on message size and transport.

### ChunkWindow

*Code.*  `native_xzwy_chunk_window_state` and its functions
(`mpi_transpose_4d_same_xw.h` 2890-3200) and the callers
`run_slab_wz_communication_plane_exchange_`, the windowed and the
compact-windowed forward transposes, and the windowed backward transpose.

*State.*  `rchunk`, `rnext`, `rdone` (and `schunk`, `snext`, `sdone`) are
`slot_chunks`, `next_chunks` and `completed_chunks` of the receive and the send
window of every rank, kept per peer.  `pc` says where a rank is: posting its
receives, starting the sends of one peer after the other (`cursor`), at the head
of the loop, in `drain_recv`, in `drain_send`, or blocked in `MPI_Waitany` on one
of the two windows.  `unpacked` records what the backward path has copied to the
output.  `recvs`, `sends`, `unacked`, `landed` belong to MPI.

*Actions.*  `PostRecvs`, `StartSends`, `EndStart`, `Loop`, `TestRecv`,
`EndDrainRecv`, `TestSend`, `EndDrainSend`, `WaitRecv`, `WaitSend` are the steps of
the caller's control flow; completing a slot and posting its next chunk are one
action because the code does both in one function call, without another MPI
call between them.  `Match` and `Acknowledge` are MPI.

*Variants.*  The constants `Interleaved` (requests are drained after each peer's
first sends), `ShortCircuit` (`drain_recv() || drain_send()` in the backward
caller against two calls in the others), `UnpackPeer` and `Backward` (the base
tag is the destination's index) select the caller.

*Abstractions.*  A chunk is its number; byte offsets and lengths, which are a
function of that number, are left out, and so are the GPU synchronisations that
precede the posts.

### Exchange

What a caller of a redistribution relies on: each piece owed lands once, in its
own place, and a rank returns only when all pieces for it have landed and, if
MPI does not copy at the post, all pieces from it have too.  `ChunkWindow`
implements it under the mapping in `Delivery` (property `DeliverySpec`).

### PlaneCredit

*Code.*  `backward_p2p_waitany_slab_wz_communication_plane_credit_` (3937-4241).

*State.*  `plane` is `slot_plane`; `rwait` and `swait` are the peers whose request
of a slot is still active; `network` is `completed_network_planes`; `ready` the
queue from `ready_head` on; `lane` is `lane_plane`; `transformed` the planes counted
in `completed_plan_count`; `running` is the GPU's own view of the lanes.

*Actions.*  One per lambda or phase of the loop: `Activate`, `PollLanes` (poll and
launch), `TestRecv`, `TestSend`, `Recycle`, `EndRound` (the last launch and the
choice of what to block on), `WaitRecv`, `WaitSend`; `FinishFFT`, `Match` and
`Acknowledge` are the environment.  The exception "made no progress" is the
phase `noProgress`.

`MCPlaneCredit` runs the scheduler by itself, `MCPlanePipeline` as the backward way of
`PlanePipeline`.

### ReadySend

*Code.*  The optimized point-to-point transposes of `mpi_transpose_3d_same_x.h`
(the ready queue and its thread at 480-590, their callers at 1380-1470,
1540-1660, 1930-2020 and 2180-2310) and their twins in `..._same_z.h` (562-650).

*State.*  `call` holds the configuration of one call, `stream[p]` the operations
queued on the GPU stream of peer `p` (a copy, then the host callback in two steps:
push to the queue under the mutex, then notify; later the unpacking), `ready` the
`ready_peers` stack, `thread` the poster thread, `held` the peer it has
taken, `posted`, `sent`, `arrived`, `got`, `output` the progress of each peer's
data.  One rank is modelled; its peers are part of the environment.  The same
functions are also scripts of `Transfers`; this module has what the scripts leave
out, the queue's mutex and condition variable and every failure.

*Actions.*  The main thread's steps, the poster's steps, `cancel` and `join` with
their early returns, the GPU's steps in stream order, MPI completions, and a
failure at any call that can throw.  If the stream synchronization of the clean-up
itself throws, the exception finds `send_thread` joinable and the process ends in
`std::terminate`: the phase `terminated`, of which nothing is claimed but that the
call has ended.

### AutotuneMeasure

*Code.*  `load_or_measure_3d_config` (`fftm_autotune_measure.hpp` 433-611), the
evaluator (614-977), the 4D twin (`fftm_autotune_measure_4d.hpp` 348-516,
645-766), `save_key_value_file` (`fftm_autotune.hpp` 126-142).

*State.*  `pc`, `cand`, `step` say where each rank is; `calls[r]` is the sequence of
points at which rank `r` called a collective, so that "the collectives pair" is a
statement about the sequences; `valid` and `passed` are what each rank believes of
the candidates; `state`, `winner`, `saveError` are the values rank 0 broadcasts;
`cache` and `tmp` are the two files, which survive jobs.

*Actions.*  `Script` lists the collectives and the local steps that may throw of one
candidate, in the code's order; `Collective`, `LocalStep` and `CandidateFails` walk
through it.  `Inspect`, `Choose`, `Save`, `SaveFails` are rank 0's; `Vote` is
the 4D vote; `Load` the reading of the file by every rank; `Crash` and
`NextJob` are the environment.  A job asks for a problem with constraints
and for what to do with a file it finds (`request`); its measurements are drawn
from `Fates` and `Millis`.  `problem` stands for all that a measured file has to match
(`SameProblem`): sizes, ranks and hardware, and in 4D also the device-aware MPI
request and the set of accepted spectral layouts.  A median time of 0 stands for one
that is not positive and finite; such a candidate passes but is not valid (`Timed`).

*Abstractions.*  A rank leaves a collective when every rank has called as many;
calling different collectives at the same place in the order counts as stuck,
whatever MPI does then.  A distributed transform counts as a
collective, as it needs every rank.  A policy file is accepted when the job has
no constraints and, in 4D, the file's spectral layout is the one the job asks for
(`fits`, which rank 0 does not look at when it inspects the file).  `DiskFails` makes `open` or `rename` fail, the two failures the
code looks at.  Not modelled: failure of rank 0 to inspect the file, files one
rank cannot see, a write that fails without an error from `open` or `rename`.

### PencilPipeline

*Code.*  The pipelines `forward*` and `backward*` of
`mpi_transpose_3d_pencil_pencil_reference_owned_pipeline_execution.inc`, the
redistributions they call, `..._deferred_send.inc`, and the places that decide where
things are in memory (`..._workspace_binding.inc`, `fftm.hpp` 838-985, 3035-3080,
4783-4855).

*State.*  `at` is the stage of a rank, counted over all calls; a call has five: FFT,
redistribution, FFT, redistribution, FFT.  `mem[r]` maps the regions of a rank's
memory (the user's two arrays, the scratch arrays, and the cells of the shared work
area, one domain each) to what they hold: parts of the result of one stage, or
junk.  `sends` and `recvs` are the unmatched requests of each pair of ranks,
`deferred` is `deferred_send_state_`, `unwaited` is `byte_recv_remaining`, `landed` the
completed receives not yet waited for.  `setup` fixes layout, transport and calls.

*Actions.*  `StartCall`; `FftStart`, `FftEnd`, `FftFails`; `EnterExchange` (reset),
`PostPeer` (receive, pack, synchronize, send), `WaitAny` and `WaitAll`, `CloseExchange`
(`wait_or_defer_send_requests_`); `Probe`, `Drain`, `FailDrain`; and MPI's `Transfer`,
which for an unbuffered send reads the source as it is *then*.

*Abstractions.*  A region is a whole stage or buffer; `FftStart` turns the output and
the plan's scratch space into junk, `FftEnd` writes the result if the input was
complete.  The rank's own block is copied when the streams are synchronized.  Row
and line are told apart by the pair of ranks.  The transport is the one that
deferral requires (byte transfers, reference parity); packing all peers before
the first send, which one schedule does, is not told apart from packing each.  MPI
errors (which abort by default) do not occur.
The user's input array of a 3D plan keeps storage of its own.  The work area has four
cells besides the scratch space (`PipelineAssumption`): the send, receive and stage
slots at its start and one stage behind the scratch space.

### Workspace

*Code.*  `shared_workspace_buffer.h`, and of `fftm.hpp` the life of a plan:
`set_reusable_workspace_resource`, `init` with the stages that can throw, the choice of
the compact Y workspace and its preflight, `release_resources`, the destructor, the
data arrays made over the pool, `prepare_candidates` of the autotuner.

*State.*  `leased` and `pool` are the shared resource; `pooled`, `lease`, `initDone`,
`built`, `own` and `bound` belong to each plan.  A buffer is its required and its
allocated size; as storage moves only to grow, its size names it.

*Actions.*  `SetPool`; `init`, which ends in `InitRefused` (preflight or lease),
`InitOutgrows` (growth of a buffer in use) or `InitAllocates` (any `malloc` may find no
room, and a binding may fail); `ReleaseResources`; `Destroy`; `DataArrays`; `Prepare`.
`init` is one action: the plans of a process are used by one thread, and what a
throwing stage leaves behind is in the next state.

*Abstractions.*  Sizes are in units of the 256 bytes they are rounded to.  A second
`init` of a plan whose first one threw, without `release_resources` between them, is
not modelled: what it does depends on how far the first one got, as the FFT plan map
keeps the old plans (`external_wrap/fft_wrap_many.h` 132) or, once activated, throws
(128).  Nor is a device error in the first two lines of `release_resources` (342-343):
called directly it leaves the plan as it was, in the destructor see section 4.
Overflow of sizes is not modelled.

## 3. Runs

| Run | Instance | Question | Result |
|---|---|---|---|
| `cw_window` | P=2, W=2, 3 planes against 2, interleaved backward caller, rendezvous, fair | placement under shared tags, slots, no payload unpacked early, refinement of `Exchange`, every rank returns | holds |
| `cw_stall` | P=2, W=1, 3 against 2, rendezvous, fair | every rank returns | **violated** (finding 1) |
| `wz_planes` | P=2, 3 planes against 2, credit 2, window 2, one lane or two, rank 1 eager; backward, forward, forward with overlap | an FFT on complete data, once; no send before its FFT; nothing behind; a forward call can always move | holds |
| `wz_stall` | P=2, 4 planes against 3, credit 2, one lane, rendezvous; backward | the backward scheduler can always move | **violated** (finding 5) |
| `rs_call` | 3 peers, all configurations, failures anywhere, fair | sends, completion, cleanliness, every call ends | holds |
| `am_jobs` | 2 ranks, 2 candidates, 2 jobs, 3D and 4D, crashes, failing disk, fair | in step, fastest selected, cache whole and kept, all or none, every job ends | holds |
| `am_alone` | 2 ranks, one fails a candidate alone, fair | every job ends | **violated** (finding 2) |
| `pp_calls` | 2x2 grid, five setups of layout, deferral, buffering, chunks and failures, fair | pending sends keep their data, right results, nothing left pending, drains end, calls end | holds |
| `pp_race` | 2x2 grid, opt1 backward, deferred, scratch space of one domain | right results | **violated** (finding 3) |
| `tr_calls` | the transpose functions in all modes and options but for the cases left out below, rank 0 or 1 of 3, fair; and every kernel and layout, each of 3 ranks, cell by cell | no race on memory, both ends agree, right results, receives first, every call returns; disjoint writes, whole messages, the array transposed | holds |
| `tr_uneven` | `transpose_y_to_x_xfast` on a grid 5x4x5 over 3 ranks | both ends agree | **violated** (finding 4) |
| `ws_plans` | two plans of three sizes, over the pool or not | lease, bound storage, pools that never move | holds |

`PROJECT.json` names, for each property, a mutant of the code that the same run
catches.

### Why these bounds

The numbers of planes and the shares of an axis are those `fft_partitioning`
produces: when the axis does not divide, the first ranks own one more.

- *Chunk window.*  The interesting cases are a slot that is reposted while the
  other one is in flight (W = 2 with three chunks), two requests in flight with
  the same tag (the receive of chunk 2 is posted while that of chunk 0 is not
  matched), a peer with no more chunks than the window, and a rank that is done
  early.  Counts 3 and 2 contain all of them.  The caller is the one with the most
  control (drains between the first sends, `||` in the loop, one unpack per peer);
  `cw_stall` is another one, and the theorems hold for all of them, with and without
  buffering, and for any number of ranks.
- *Planes.*  A credit and a window of two with three planes, so that a slot is
  recycled while the other is pending, and a rank that owns fewer planes than the
  other and still owes it sends.  One lane backward makes FFTs queue; two forward
  finish out of order.  One rank's sends are eager and the other's not, so both
  kinds of completion meet.  `ForwardMoves` is claimed for forward calls; with
  rendezvous sends on both ranks, a window of one and planes 4 and 3 TLC finds it
  true as well, and the theorem covers every size.  The backward scheduler does stall,
  from planes 4 and 3 with a credit of two and no eager channel on: that is the
  instance of `wz_stall`, and finding 5.
- *Ready send.*  Three peers give a queue with more than one element while the
  poster holds another.
- *Autotuner.*  Two candidates, so that "the next candidate" exists, and two jobs,
  so that a job finds what a killed or successful one left.  The jobs are a 3D
  and a 4D sweep, one that stops at the first error, one with constraints, and one
  that keeps what it finds; the candidates fail in every way the ranks share.  The
  second candidate is the faster one or cannot be timed, and the file a job finds at
  first is none, or a policy file that fits or does not.
- *Pencil pipeline.*  2x2 is the smallest grid that does not take the degenerate
  paths of `fftm.hpp` 3690-3890.  Each setup of `MCSetups` is there for one case: ranks
  that disagree on the compact layout; scratch space of two domains and a failing
  rank; two requests per peer, posted unpaired and waited for; two calls without
  deferral whose equal tags are in flight at once; deferred sends directly from a stage.
- *Transfers.*  Three ranks: a rank with one peer on either side and one without,
  shares that differ (5 and 4 over 3 give 2, 2, 1).  Byte transfers come in two
  parts.  With persistent requests the function is called twice, on other arrays,
  so that a request can be stale.  Three combinations are left out, as the code is
  wrong there: host-staged `forward_alltoallw_` of same_x (section 4, "Host staging") and
  the two point-to-point functions of finding 4 where the shares are uneven
  (`transpose_y_to_x_xfast` runs on a grid that divides; `tr_uneven` shows the rest).
- *Layouts.*  Every rank of three is the receiver in turn; extents of 5, 4 and 2 leave
  tails in tiles of 4x2 and vectors of 4 (the code's constants), and a grid of two
  planes leaves a rank without any.  A message is a set of cells, so nothing is lost
  by small extents but repetition.
- *Workspace.*  Room for one large plan but not for two, a host buffer that only the
  small plan outgrows, a size the compact workspace can save.  The plans differ in
  their names only, which makes symmetry sound (no liveness is checked).

### Fairness

`FairSpec` (of `ChunkWindow`, `ReadySend`, `AutotuneMeasure` and `PencilPipeline`) and the
`Fairness` of `Transfers` assume weak fairness of each rank's or thread's steps (a
process or thread that can run is scheduled), of MPI's matching and acknowledgement
(MPI progresses every posted request; the code runs its progress by `MPI_Testany` and
`MPI_Waitany` on every rank, which is what the standard asks for) and of
the GPU (a launched operation finishes).  No fairness is assumed for failures
or crashes.  In `ReadySend` the condition variable has no spurious wake-ups it
could rely on.  Strong fairness is nowhere needed.
`PencilPipeline` and the environment of `ReadySend` state one weak fairness for the
disjunction of their actions: there every behaviour is finite and no step disables
another for ever, so that this is the same as one condition per action.
In `Transfers` the peers' ends of messages progress by `Deliver` and `HandOver`.  That
peers take and send messages in the end is not free: it holds because no
rank ever blocks before all its receives are posted, which is the invariant
`ReceivesFirst` of the same run.
`PlanePipeline` and `PlaneCredit` state no fairness: `ForwardMoves` and `AlwaysMoves` say
that until all ranks have ended some rank, the GPU or MPI can take a step, which is
what a deadlock would violate.  `wz_planes` also runs with TLC's own deadlock check.

## 4. Findings

1. *Chunk window, `mpi_transpose_4d_same_xw.h` 3352 and the same loop in the other
   callers.*  When a round completes nothing, the rank blocks in `MPI_Waitany` on
   its receives only.  With rendezvous sends and more chunks than slots both
   ranks can be there while a completed send of each would have to be reposted.
   `docs/fftm_options_reference.md` 67 describes the window as "bounded
   scheduling" of the chunks.  Remedy: wait on both request arrays.
2. *Autotuner, `fftm_autotune_measure.hpp` 524.*  A candidate that fails on one rank
   alone takes that rank to the next candidate's collectives while the others are
   still inside the failed one; `examples/poisson/README.md` 131-133 says
   measurement continues.
3. *Deferred sends, `..._deferred_send.inc` 247.*  In the opt1 layout the send buffer
   is the start of the work area in which the FFT plans have their scratch space.
   The backward redistributions always pack into it; if they are deferred, the
   next FFT runs over what MPI still reads.  `docs/fftm_options_reference.md` 110 calls
   the points at which they are drained "safe later boundaries", and no check of
   the options (`fftm.hpp` 1466) excludes the combination.  It takes an FFT library
   that asks for scratch space.  The same holds for opt1 forward with the stable
   send buffer, and for the compact topology if that space exceeds one domain.
   Remedy: drain before the FFT in these layouts, or bind the plans behind the
   buffers as opt0 does.
4. *Uneven shares, `detail/mpi_transpose_3d_same_z.h` 2046.*  The point-to-point sends
   of `backward_xfast_p2p_waitall_` and `..._waitany_` take the element count of the
   *receive* from that peer.  The two are equal only if the column divides both
   extents; otherwise messages are too long or too short.  The collective
   functions beside them use the right counts.  Remedy: the counts of
   `backward_sendcounts_`.

5. *Plane credit, `mpi_transpose_4d_same_xw.h` 4195.*  The blocking choice of finding 1:
   a round without progress blocks on the receives as long as there are any.  With
   planes 4 and 3, a credit of two and rendezvous sends both ranks wait for a plane
   whose slot the other still holds for a send that has completed in the meantime.
   `PROJECT.json` quotes what the documentation says of the policy.  The forward pipeline
   of the same file is not affected: it blocks on receives only after its last send
   was posted.  Remedy: wait on both request arrays.

Observed while modelling, without a run of their own:

- *Backward pipeline without credits, 3701-3934,* has the same choice when its window
  is bounded.
- *Host staging of `forward_alltoallw_`, `detail/mpi_transpose_3d_same_x.h` 1738.*  The
  collective receives with the datatypes of the final layout, and the staged copy
  treats the result as packed blocks.  With `Jobs <- HostWJobs` (`MCTransfers`),
  `ResultRight` of `tr_calls` fails.
- *A pool after a failed `malloc`, `detail/shared_workspace_buffer.h` 274.*  The old
  storage is freed first and the larger requirement stays, so that a later,
  smaller plan asks for the large size again.  `BoundLive` and `PoolStable` hold:
  nothing was bound to an empty buffer.
- *Buffers of a plan's own, `fftm.hpp` 353-364.*  If an `init` without a pool fails and
  a pool is set then, `release_resources` does not look at the plan's own buffers;
  they stay until the destructor.
- *A device error in the destructor, `fftm.hpp` 331-343.*  `release_resources` synchronizes
  the device before it gives the lease back; if that throws, the destructor swallows
  the exception, the plan is gone and the pool stays leased.  `LeaseHeld` would fail
  there.  The same order in a direct call is harmless: it can be repeated.

## 5. Proofs

### Chunk window

`ChunkWindow_proofs` proves, for every number of ranks, window size, table of
chunk counts, caller variant and buffering, from the assumption
`WindowAssumption` alone:

- `TypeCorrect`: `Spec => []TypeOK`;
- `InPlaceCorrect`: `Spec => []InPlace`;
- `SendSlotHeldCorrect`: `Spec => []SendSlotHeld`.

`InPlace` is not inductive: that equal tags do not swap chunks depends on what
both sides have posted.  The inductive invariant `IInv` adds:

- `RecvsPosted`, `SendsPosted`: a posted request carries a chunk below `rnext`
  (`snext`), the tag of that chunk, and `order = chunk`;
- `RecvsCovered`, `SendsCovered`: the *posted* prefix of a channel is contiguous; a
  chunk below `rnext` is either still posted or has landed (been sent);
- `LandedPosted`: what has landed was posted on both sides;
- `RecvsOnce`, `SendsOnce`, `RecvsFresh`, `SendsFresh`: a chunk is posted once, and
  one that has landed is not posted any more;
- `NotStarted`: a peer whose sends are not started has none;
- `SlotsPosted`, `UnackedPosted`, `SendSlotHeld`: slots and requests name each other.

The heart is `MatchedChunk`: the oldest send and the oldest receive of a tag carry
the same chunk, because both sides have posted every smaller chunk of that tag
and each of those has already landed.  There is one lemma per action, then
`InvInit`, `InvStep` and the temporal theorem.

`ChunkWindow_refinement` goes on from `IInv` to what a caller relies on:

- `UnpackAfterArrivalCorrect`: `Spec => []UnpackAfterArrival`;
- `DeliveryCorrect`: `Spec => DeliverySpec`, the refinement of `Exchange`.

The code decides that a peer is finished by counting completions, which do not say
*which* chunks have come.  `CInv` closes the gap: `RecvsCounted` and `SendsCounted`
say that the completed chunks and the slots that hold one add up to the chunks
posted (a cardinality, so the proof counts slots), `RecvSlotHeld` and `SendsUnacked`
that a request not yet landed, or not yet matched, still holds its slot, and
`DoneComplete` that a rank is done with both counters full.  When the last chunk is
counted no slot is left, so no receive can be waiting, and by `RecvsCovered` every
chunk has landed.  In the refinement a `Match` is a `Place` of `Exchange`, the step
that sets `pc[r]` to done is its return, and every other step stutters.

### Plane credit

`PlaneCredit_proofs` proves from `CreditAssumption`, for any number of ranks,
planes (also ranks with none), credits and lanes and any eager channels:

- `TransformedOnceCorrect`: no plane that has arrived is lost or transformed twice;
- `LaunchAfterArrivalCorrect`: an FFT starts on data that has arrived, in its plane;
- `CompleteOnReturnCorrect`: nothing is left at the end, and neither "made no
  progress" nor "completion ended early" is ever thrown.

The inductive invariant `KInv` rests on two facts.  A slot walks through the planes
of one residue class (`SlotsOwn`), tags tell the classes apart, and what a rank has
begun is posted or landed (`RecvsCover`, `SendsCover`): a send and a receive that match
are for one plane (`MatchedPlane`).  And the planes that have arrived are, each
once, in the queue, on a lane or transformed (`QueueInv`): a launch moves a prefix
of the queue to the idle lanes in the order of both.  `Counted` relates the
counters of the loop to these sets, `Rounds` what a round has found so far to what it
may block on, which excludes the exceptions.

### Plane pipelines

`PlanePipeline_proofs` proves from `PipelineAssumption` and `CreditAssumption` that
`PipeSpec` has `TransformedOnce`, `SendsTransformed`, `ReadsArrived`, `NothingBehind` and
`ForwardMoves` for all numbers of ranks, planes, credits, window slots and lanes, with and without
the overlapped FFT, whether its launch throws or not.

A backward call is the scheduler above: `PInv` is `KInv`, over the steps of
`PlaneCredit`.  For a forward call it is `FInv`:

- `LanesHold`: the lanes hold the planes from the next one to send to the next one to
  launch, each once, and are full while planes are left to launch.  Posting sends
  the prefix of these that is done and launches as many, in order: `LanesHold` is
  what makes `SendsTransformed` inductive, since `posted` is only a number;
- `LanesRun`: a lane that is not idle runs the FFT it holds unless polled;
- `WindowInv`: the slots of the receive window and their counters, as in `ChunkWindow`;
- `PlaneTransfers`: a plane below the sender's `posted`, or below the receiver's
  counter, is posted or has landed.  With this the match needs no arithmetic of tags:
  of two requests of one tag the older is the one whose plane is smaller, and both
  sides have posted, or passed, every smaller plane of that tag;
- `PhasesInv`: what each place of the loop implies about the above; while planes are
  left to post some lane holds one not polled yet, so that "stalled" is never thrown;
  a rank blocks on receives only with all of its planes posted, and on sends only
  with all of its receives complete.

`ForwardMovesCorrect` follows: where every rank is blocked each has sent all it owes
(`ForwardGoes`), so that a plane somebody waits for is posted on both sides and the
oldest pair of its tag can match (`WaitingMatches`), or a matched send can be
acknowledged.  This is what the backward scheduler lacks: it blocks on receives with
planes of its own still to send, and no theorem says that it moves (finding 5).

TLC checked `PInv` on the instance of `wz_planes` before it was proved.

### Ready send

`ReadySend_proofs` proves `TypeOK`, `SentOncePacked`, `CompleteOnReturn` and `QuietAtEnd`
for any number of peers, every configuration and a failure at any call, from
`PeersAssumption`.

The invariant `RInv` says that a peer is in one place at a time (`OnePlace`): its
report is in its stream, or it is on the stack of ready peers (once: `ReadyOnce`), or
in the poster's hand, or posted.  `TakenCounted` says that the poster counts what it
takes, so that none is `left` only with every peer posted; the
stream's shape (`WellFormed`: one copy, before the one report) gives "packed before
sent"; `Posters` and `Progress` tie the two threads' phases together, so that a failing
call that started the thread has joined it and synchronized the streams.

### Autotuner

`AutotuneMeasure_proofs` proves for any number of ranks, candidates, iterations and
jobs, either number of axes, every request, crash and disk failure:

- `TypeCorrect` and `SweptOnceCorrect` (an action property) without a condition, and
  `CacheWholeCorrect` under `Shows`;
- `InStepCorrect` and `AllOrNoneCorrect` under `Alone = {}`, and
  `FastestSelectedCorrect` under `Alone = {}` and `Shows`.

`Alone = {}` says that a candidate that fails does so on every rank.  What the ranks do
together needs it: without it `InStep` is false, and `am_alone` shows what becomes of
the job (finding 2).  The file does not: a job in which one rank fails alone may hang
and have to be killed, but the cache it leaves is whole, holds candidates that ran to
the end on rank 0, and is measured again by no later job of the same problem.
`Shows` says that verification is on or no candidate retains memory: a plan that
keeps memory is noticed by the verification only, so without it a candidate whose
fate is not "ok" can be the fastest valid one.

The argument is that of a program in lock step.  `Follows` gives the collective that
comes after another one, `Coming` the one a rank is in or comes to; `LockStep` says that
each rank's calls are a chain of `Follows`, from which any two ranks made the
same calls as far as both have come (`SamePrefix`).  A call that has ended therefore
tells what the others have done (`MadeBefore`), and in particular rank 0: what it
broadcasts, and the file, are final when another rank reads them (`Final`,
`Saving`).  `Sweeping` says what each rank has found of the candidates it is done
with, the same on all (those that ran to the end are `Good`, those of them that were
timed `Usable`); `Verdicts` why a rank has failed, and that no reason
holds on a rank that returned.  `MInv` is their conjunction.  The bound on
`Len(calls)` in `TypeOK` needs an invariant of its own, `Counted`: the calls a rank has
made are at most those its place in the script allows.

The types and the file follow from `Kept`, which looks at no peer: `Own` is the place of
each rank, `RootSweep` says that rank 0 calls valid only candidates none of whose steps
it saw fail, and `RootFile` that the file is renamed from what rank 0 wrote in this job,
after it found no measured one for the same problem.  The case that needs it is the
last candidate failing on rank 0 alone: rank 0 goes on to the broadcast of the winner,
which the root of a broadcast need not wait in, and saves while its peers hang.

### Pencil executor

`PencilPipeline_proofs` proves, for every grid of at least 2x2, any sequence of calls,
any number of requests per peer, any layout, size of the scratch space, buffering
and failing ranks, from `PipelineAssumption`:

- `TypeCorrect`, `NothingPendingCorrect` (so none of the three `logic_error`s about
  deferred sends is ever thrown) and `DrainReadyCorrect`;
- `SourceHeldCorrect` and `ResultRightCorrect` under `ScratchClear`.

`ScratchClear` says of the setups that defer sends which MPI does not copy: with the
opt1 layout and a library that wants scratch space the calls are forward ones without
the stable send buffer, and with the compact topology that space is one domain at
most.  These are the exceptions of finding 3, and without the hypothesis the theorem
is false: `pp_race` violates it.  It is a condition on the constants; `MCSetups` meets
it, and restricts nothing where sends are not deferred.

The argument is in three parts, the invariants `CInv` (control) and `DInv` (data).

- *Requests.*  All messages of a pair of ranks have one tag, so that MPI matches the
  oldest send with the oldest receive, whatever stages they belong to.  `Posted` and
  `Asked` say, from the places of the two ranks, which stages each has posted.  By
  `InOrder` each queue is in the order of stages and chunks, and by `Matched` a chunk
  that both have posted is unmatched on both sides or on neither.  Were the stages of
  the two oldest requests different, the earlier one would have to be on the other
  side too, before what is the oldest there: `HeadsMatch`.  That row and line differ
  and the two peer orders are symmetric (`Symmetric`) is what makes `Posted` and `Asked`
  speak of the same exchange.
- *Completion.*  `unwaited` counts the chunks of a peer not asked for, not matched or
  not waited for (`Counted`, a cardinality).  A rank leaves a redistribution with
  nothing due, so everything it asked for has come; what it has still to send is
  exactly what is deferred (`SendsAre`), and by `Matched` its peer has posted the
  receive of it (`DrainReady`).
- *Memory.*  `DInv` says, rank by rank: the input of a stage is whole until the stage
  ends; what a pending send reads is intact; a chunk that arrived is in the receive
  buffer until its peer is unpacked, then in the output (`Arrived`).  Each step writes
  one region or the scratch space, and `RegionFacts`, `SourceFacts` and `ClearFacts` say
  that it is none of those still needed; these lemmas are where the layouts and the
  bindings of `fftm.hpp` enter.

TLC checked `CInv` and `DInv` on small instances before they were proved.

### Workspace

`Workspace_proofs` proves, for any set of plans, any sizes and any amount of memory,
from `WorkspaceAssumption` alone:

- `LeaseHeldCorrect`: `Spec => []LeaseHeld`;
- `BoundLiveCorrect`: `Spec => []BoundLive`;
- `PoolStableCorrect`: `Spec => PoolStable`, an action property.

`BoundLive` and `PoolStable` are not inductive: that a plan's `activate` does not move a
buffer others are bound to needs that a buffer with storage has no unmet
requirement.  `IInv` adds to `TypeOK`, `LeaseHeld` and `BoundLive`:

- `PoolSettled`: a device pool that has storage has asked for no more since;
- `SizeKnown`: an initialized plan has the size it was built with.

The lemmas `RequireFacts` and `ActivateFacts` say what the buffer operations do;
`ActivateFacts` holds for *every* amount of room, so that no fact about the sum of
what is allocated is used: the theorems cover a `malloc` that fails at any time,
for reasons the model does not know.  Then one lemma per action, as above.

### Model-checked only

- Liveness (`EveryRankReturns`, `EveryRankEnds`, `CallEnds`, `AllEnd`, `Returns`).
- `Transfers` and `Layouts` evaluate folds over scripts and sets of writes that stand
  for recursive sums: what they compute for every input is induction over data,
  out of the provers' reach.
- `IndexMaps` and the scripts and maps of the single transposes, for the same reason.

## 6. Plan

To model next:

1. the backward pipeline without plane credits (3701-3934) in `PlanePipeline`, and the
   launch of a plane that throws once the code handles it;
2. the policy cache (`load_or_create_3d_config`) next to `AutotuneMeasure`;
3. the persistent, value-count and host-staged transports of the pencil executor;
4. the composition of `Workspace` with the autotuner's sequence of candidates.

To prove next: for `Transfers` what holds step by step of any script, such as that a
request is completed before its buffer is reused.

## 7. Not modelled

- Numerical results and the local FFTs; the local axis permutations of
  `detail/direct_transpose_4d.h` and the arrangers of `array_arrangers.h` other
  than the copies of the transposes.
- Shape checks and option validation; overflow of sizes (`make_range_4d`,
  `mpi_int_cast`); the choice of a process grid.
- Vendor FFT wrappers and profiling: no control state of their own.
- The inside of collective transports (`MPI_Alltoallw` and friends): one MPI call.
- Lifetimes of streams, communicators and datatypes.
- Candidate lists, parsing and formatting of caches and options; hardware inventory.
- Device errors in `release_resources` and in the destructor of a plan.
- Write errors that neither `open` nor `rename` report (`fftm_autotune.hpp` 133), and a
  cache file that not all ranks see.
- Tests, CPU reference, examples, scripts, container files: not the library.
