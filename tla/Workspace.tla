------------------------------ MODULE Workspace ------------------------------
(***************************************************************************)
(* The life of the plans of one process and of the memory they work in.    *)
(* A plan (fftm.hpp) has buffers of its own, or leases those of a pool     *)
(* that outlives it (shared_workspace_buffer.h): the measured autotuner    *)
(* passes one pool from candidate to candidate and on to the application,  *)
(* since memory registered with a device-aware MPI should not move.        *)
(*                                                                         *)
(* init can throw at every stage and undoes nothing: what the failed plan  *)
(* took stays with it until release_resources or its destructor.  Sizes    *)
(* are in units of the 256 bytes they are rounded to; a storage is named   *)
(* by its size, since a buffer moves only to grow.                         *)
(***************************************************************************)
EXTENDS Integers, FiniteSetsExt

CONSTANTS
    Plans,        \* the plan objects of the process
    Sizes,        \* what a plan may need, see SizeType
    None,         \* no size
    Capacity,     \* device memory
    HostCapacity, \* memory for host staging
    Reserve       \* native_opt0_memory_feasibility_reserve_bytes

SizeType ==
    [fourD : BOOLEAN,   \* init<4>, else init<3>
     guarded : BOOLEAN, \* use_native_opt0_memory_feasibility_guard, on the opt0 layout
     scratch : Nat,     \* the stage arrays
     device : Nat,      \* shared_work_size_
     compact : Nat,     \* the same with the compact Y workspace
     host : Nat,        \* shared_host_work_size_
     input : Nat, spectrum : Nat]

ASSUME WorkspaceAssumption ==
    /\ Sizes \subseteq SizeType /\ None \notin Sizes
    /\ \A s \in Sizes : s.guarded => ~s.fourD
    /\ Capacity \in Nat /\ HostCapacity \in Nat /\ Reserve \in Nat

VARIABLES
    leased,   \* reusable_workspace_resource::leased_
    pool,     \* its buffers
    pooled,   \* plans with a reusable_workspace_resource_
    lease,    \* reusable_workspace_lease_active_
    initDone, \* init_done_
    built,    \* the size of the stage arrays and FFT plans a plan holds
    own,      \* shared_work_buffer_, shared_host_work_buffer_
    bound     \* the work areas the FFT plans and the transposes were given

planVars == <<pooled, lease, initDone, built, own, bound>>
vars == <<leased, pool, planVars>>

Larger(m, n) == IF m >= n THEN m ELSE n
-----------------------------------------------------------------------------
(* shared_workspace_buffer                                                 *)

Buffer == [required : Nat, allocated : Nat]
Empty == [required |-> 0, allocated |-> 0]

Require(b, n) == [b EXCEPT !.required = Larger(@, n)]

\* The old storage is freed first; when malloc throws, nothing is allocated and
\* the requirement stays.
Activate(b, room) ==
    IF b.required <= b.allocated THEN b
    ELSE IF b.required <= room + b.allocated THEN [b EXCEPT !.allocated = b.required]
    ELSE [b EXCEPT !.allocated = 0]

Short(b) == b.allocated < b.required

\* Mutant: every buffer may grow.
GrowsNever(b, n) == n < 0

\* reject_growth_
Grows(b, n) == b.allocated # 0 /\ n > b.allocated
-----------------------------------------------------------------------------
(* Memory, as the process sees it.                                         *)

Held(p) == own[p].device.allocated + (IF built[p] = None THEN 0 ELSE built[p].scratch)

Room ==
    Capacity - (pool.device.allocated + pool.input.allocated + pool.spectrum.allocated
                + MapThenSumSet(Held, Plans))

HostRoom ==
    HostCapacity - (pool.host.allocated + MapThenSumSet(LAMBDA p : own[p].host.allocated, Plans))

Buffers(p) == IF pooled[p] THEN pool ELSE own[p]

\* What is left once the stage arrays are there.
RoomFor(s) == Room - s.scratch

ReusableCapacity(p) == IF pooled[p] THEN pool.device.allocated ELSE 0

\* Whether init switches to the compact Y workspace by itself.
Compacts(p, s) ==
    LET capacity == ReusableCapacity(p)
    IN  /\ s.guarded
        /\ capacity < s.device
        /\ \/ capacity # 0 /\ capacity >= s.compact
           \/ s.compact + Reserve <= RoomFor(s) /\ RoomFor(s) < s.device + Reserve

WorkSize(p, s) == IF Compacts(p, s) THEN s.compact ELSE s.device

\* preflight_native_opt0_shared_work_allocation_ does not throw.
Preflight(p, s) ==
    LET capacity == ReusableCapacity(p)
        size == WorkSize(p, s)
    IN  s.guarded =>
            /\ capacity # 0 => capacity >= size
            /\ RoomFor(s) >= Reserve + (IF capacity >= size THEN 0 ELSE size)
-----------------------------------------------------------------------------
NoWork == [size |-> 0, device |-> 0, host |-> 0]

Init ==
    /\ leased = FALSE
    /\ pool = [device |-> Empty, host |-> Empty, input |-> Empty, spectrum |-> Empty]
    /\ pooled = [p \in Plans |-> FALSE]
    /\ lease = [p \in Plans |-> FALSE]
    /\ initDone = [p \in Plans |-> FALSE]
    /\ built = [p \in Plans |-> None]
    /\ own = [p \in Plans |-> [device |-> Empty, host |-> Empty]]
    /\ bound = [p \in Plans |-> NoWork]

\* set_reusable_workspace_resource, with the pool or without; else it throws.
SetPool(p, on) ==
    /\ ~initDone[p] /\ ~lease[p]
    /\ pooled' = [pooled EXCEPT ![p] = on]
    /\ UNCHANGED <<leased, pool, lease, initDone, built, own, bound>>

\* init on a plan that holds nothing yet, up to activate_shared_work_area_.
Builds(p, s) ==
    /\ ~initDone[p] /\ built[p] = None
    /\ s.scratch <= Room
    /\ built' = [built EXCEPT ![p] = s]
    /\ UNCHANGED pooled

\* The guard throws, or another plan has the lease.
InitRefused(p, s) ==
    /\ Builds(p, s)
    /\ Preflight(p, s) => pooled[p] /\ leased
    /\ UNCHANGED <<leased, pool, lease, initDone, own, bound>>

\* Mutant: acquire does not look at leased_.
AcquiresTaken(p, s) ==
    /\ Builds(p, s)
    /\ Preflight(p, s)
    /\ leased' = (leased \/ pooled[p])
    /\ lease' = [lease EXCEPT ![p] = pooled[p]]

\* acquire
Acquires(p, s) ==
    /\ Builds(p, s)
    /\ Preflight(p, s)
    /\ pooled[p] => ~leased
    /\ leased' = (leased \/ pooled[p])
    /\ lease' = [lease EXCEPT ![p] = pooled[p]]

\* The pool's device buffer is in use at a smaller size.
InitOutgrows(p, s) ==
    /\ Acquires(p, s)
    /\ pooled[p] /\ Grows(pool.device, WorkSize(p, s))
    /\ UNCHANGED <<pool, initDone, own, bound>>

SetBuffers(p, device, host) ==
    IF pooled[p]
    THEN /\ pool' = [pool EXCEPT !.device = device, !.host = host]
         /\ UNCHANGED own
    ELSE /\ own' = [own EXCEPT ![p] = [device |-> device, host |-> host]]
         /\ UNCHANGED pool

\* The buffers are allocated and bound.  binds: no FFT plan or transpose refuses
\* its work area.
InitAllocates(p, s, binds) ==
    LET size   == WorkSize(p, s)
        device == Activate(Require(Buffers(p).device, size), RoomFor(s))
        host   == IF Short(device) THEN Buffers(p).host
                  ELSE Activate(Require(Buffers(p).host, s.host), HostRoom)
        done   == ~Short(device) /\ ~Short(host) /\ binds
    IN  /\ Acquires(p, s)
        /\ ~(pooled[p] /\ Grows(pool.device, size))
        /\ SetBuffers(p, device, host)
        /\ initDone' = [initDone EXCEPT ![p] = done]
        /\ bound' = IF done
                    THEN [bound EXCEPT ![p] =
                              [size |-> size, device |-> device.allocated, host |-> host.allocated]]
                    ELSE bound

\* Mutant: a plan gives the lease back only when its initialization ended.
GivesBackInitialized(p) == pooled[p] /\ initDone[p]

GivesBack(p) == pooled[p] /\ lease[p]

\* release_resources: with a pool, the plan's own buffers are not looked at.
ReleaseResources(p) ==
    /\ leased' = (leased /\ ~GivesBack(p))
    /\ lease' = [lease EXCEPT ![p] = @ /\ ~GivesBack(p)]
    /\ own' = IF pooled[p] THEN own
              ELSE [own EXCEPT ![p] = [device |-> Empty, host |-> Empty]]
    /\ built' = [built EXCEPT ![p] = None]
    /\ initDone' = [initDone EXCEPT ![p] = FALSE]
    /\ bound' = [bound EXCEPT ![p] = NoWork]
    /\ UNCHANGED <<pool, pooled>>

\* The destructor; the object's place is taken by a new plan.
Destroy(p) ==
    /\ leased' = (leased /\ ~GivesBack(p))
    /\ lease' = [lease EXCEPT ![p] = FALSE]
    /\ own' = [own EXCEPT ![p] = [device |-> Empty, host |-> Empty]]
    /\ built' = [built EXCEPT ![p] = None]
    /\ initDone' = [initDone EXCEPT ![p] = FALSE]
    /\ bound' = [bound EXCEPT ![p] = NoWork]
    /\ pooled' = [pooled EXCEPT ![p] = FALSE]
    /\ UNCHANGED pool
-----------------------------------------------------------------------------
(* The pool's input and spectrum.                                          *)

\* require_input_size_bytes, then require_spectrum_size_bytes, which may throw
\* when the first has been done; three axes leave the input to its array.
InputRequired(fourD, n) ==
    IF fourD /\ ~Grows(pool.input, n) THEN Require(pool.input, n) ELSE pool.input

Outgrown(fourD, input, spectrum) == (fourD /\ Grows(pool.input, input)) \/ Grows(pool.spectrum, spectrum)

\* init_autotuned_3d_data_arrays, init_autotuned_4d_data_arrays for a plan that
\* holds the lease; the arrays are views of the pool's buffers.
DataArrays(p) ==
    LET s == built[p]
        input == IF s.fourD THEN Activate(InputRequired(TRUE, s.input), Room) ELSE pool.input
        spectrum == Require(pool.spectrum, s.spectrum)
    IN  /\ initDone[p] /\ pooled[p]
        /\ pool' = IF Outgrown(s.fourD, s.input, s.spectrum)
                   THEN [pool EXCEPT !.input = InputRequired(s.fourD, s.input)]
                   ELSE [pool EXCEPT
                            !.input = input,
                            !.spectrum = IF s.fourD /\ Short(input) THEN spectrum
                                         ELSE Activate(spectrum, Room - (input.allocated - pool.input.allocated))]
        /\ UNCHANGED <<leased, planVars>>

\* prepare_candidates: the largest arrays are known before the first candidate.
Prepare(fourD, input, spectrum) ==
    /\ ~leased
    /\ pool' = [pool EXCEPT
                   !.input = InputRequired(fourD, input),
                   !.spectrum = IF Outgrown(fourD, input, spectrum) THEN @ ELSE Require(@, spectrum)]
    /\ UNCHANGED <<leased, planVars>>

Next ==
    \/ \E p \in Plans :
          \/ \E on \in BOOLEAN : SetPool(p, on)
          \/ \E s \in Sizes : \/ InitRefused(p, s)
                              \/ InitOutgrows(p, s)
                              \/ \E binds \in BOOLEAN : InitAllocates(p, s, binds)
          \/ ReleaseResources(p)
          \/ Destroy(p)
          \/ DataArrays(p)
    \/ \E s, t \in Sizes : s.fourD = t.fourD /\ Prepare(s.fourD, s.input, t.spectrum)

Spec == Init /\ [][Next]_vars
-----------------------------------------------------------------------------
Storages == [size : Nat, device : Nat, host : Nat]

\* Every variable ranges over what its field can hold.
TypeOK ==
    /\ leased \in BOOLEAN
    /\ pool \in [device : Buffer, host : Buffer, input : Buffer, spectrum : Buffer]
    /\ pooled \in [Plans -> BOOLEAN] /\ lease \in [Plans -> BOOLEAN] /\ initDone \in [Plans -> BOOLEAN]
    /\ built \in [Plans -> Sizes \cup {None}]
    /\ own \in [Plans -> [device : Buffer, host : Buffer]]
    /\ bound \in [Plans -> Storages]

(***************************************************************************)
(* The pool is marked as leased exactly when one plan has the lease and    *)
(* will give it back, and an initialized plan over the pool has it.  An    *)
(* init that throws keeps the lease; release_resources and the destructor  *)
(* must then return it, or every later plan is refused.                    *)
(***************************************************************************)
LeaseHeld ==
    /\ leased <=> \E p \in Plans : lease[p]
    /\ \A p, q \in Plans : lease[p] /\ lease[q] => p = q
    /\ \A p \in Plans : /\ lease[p] => pooled[p]
                        /\ initDone[p] /\ pooled[p] => lease[p]

(***************************************************************************)
(* The work areas an initialized plan was bound to, its own or the pool's, *)
(* are still allocated where they were and are large enough, whatever the  *)
(* other plans have done since.                                            *)
(***************************************************************************)
BoundLive ==
    \A p \in Plans : initDone[p] =>
        /\ bound[p].device = Buffers(p).device.allocated
        /\ bound[p].host = Buffers(p).host.allocated
        /\ bound[p].size <= bound[p].device
        /\ built[p].host <= bound[p].host

(***************************************************************************)
(* The pools of device memory "are reused without freeing and reallocating *)
(* device-aware MPI-registered storage" (README.md:485), and so no data    *)
(* array made over them, and given to the application, is left dangling.   *)
(***************************************************************************)
PoolStable ==
    [][\A k \in {"device", "input", "spectrum"} :
          pool[k].allocated # 0 => pool'[k].allocated = pool[k].allocated]_vars
=============================================================================
