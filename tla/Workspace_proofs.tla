--------------------------- MODULE Workspace_proofs ---------------------------
(***************************************************************************)
(* Proofs about plans and their workspace, for any plans, sizes and amount *)
(* of memory.  Nothing is assumed of what is left of the memory: wherever  *)
(* malloc fails, the properties hold.                                      *)
(***************************************************************************)
EXTENDS Workspace, TLAPS

\* A buffer that has storage has asked for no more since (a requirement that a
\* failed malloc left behind has none).
Settled(b) == b.allocated # 0 => b.required <= b.allocated

DeviceKinds == {"device", "input", "spectrum"}

PoolSettled == \A k \in DeviceKinds : Settled(pool[k])

BufferRecords == [device : Buffer, host : Buffer]
PoolRecords == [device : Buffer, host : Buffer, input : Buffer, spectrum : Buffer]

\* An initialized plan knows its sizes.
SizeKnown == \A p \in Plans : initDone[p] => built[p] \in Sizes

IInv == TypeOK /\ LeaseHeld /\ BoundLive /\ PoolSettled /\ SizeKnown

-----------------------------------------------------------------------------
(* The operations of a buffer.                                             *)

\* A requirement only grows and moves nothing.
LEMMA RequireFacts ==
    ASSUME NEW b \in Buffer, NEW n \in Nat
    PROVE  /\ Require(b, n) \in Buffer
           /\ Require(b, n).allocated = b.allocated
           /\ n <= Require(b, n).required
           /\ Settled(b) /\ ~Grows(b, n) => Settled(Require(b, n))
<1>1. Larger(b.required, n) \in Nat /\ n <= Larger(b.required, n)
  BY DEF Larger, Buffer
<1>2. Require(b, n) = [required |-> Larger(b.required, n), allocated |-> b.allocated]
  BY DEF Require, Buffer
<1>3. Settled(b) /\ ~Grows(b, n) => Settled(Require(b, n))
  BY <1>2 DEF Settled, Grows, Larger, Buffer
<1> QED
  BY <1>1, <1>2, <1>3 DEF Buffer

\* Whatever room there is, a settled buffer with storage keeps it.
LEMMA ActivateFacts ==
    ASSUME NEW b \in Buffer, NEW room
    PROVE  /\ Activate(b, room) \in Buffer
           /\ Activate(b, room).required = b.required
           /\ Settled(Activate(b, room))
           /\ Settled(b) /\ b.allocated # 0 => Activate(b, room).allocated = b.allocated
<1>1. CASE b.required <= b.allocated
  <2>1. Activate(b, room) = b
    BY <1>1 DEF Activate
  <2> QED
    BY <2>1, <1>1 DEF Settled
<1>2. CASE ~(b.required <= b.allocated)
  <2>1. \/ Activate(b, room) = [required |-> b.required, allocated |-> b.required]
        \/ Activate(b, room) = [required |-> b.required, allocated |-> 0]
    BY <1>2 DEF Activate, Buffer
  <2> QED
    BY <2>1, <1>2 DEF Settled, Buffer
<1> QED
  BY <1>1, <1>2

-----------------------------------------------------------------------------
(* What the actions do to the pool.                                        *)

\* The lease is taken by a plan without work areas, and by nobody else.
LEMMA AcquiresLease ==
    ASSUME TypeOK, LeaseHeld, NEW p \in Plans, NEW s \in Sizes, Acquires(p, s)
    PROVE  /\ leased' \in BOOLEAN /\ lease' \in [Plans -> BOOLEAN]
           /\ leased' <=> \E q \in Plans : lease'[q]
           /\ \A q, t \in Plans : lease'[q] /\ lease'[t] => q = t
           /\ \A q \in Plans : lease'[q] => pooled[q]
           /\ \A q \in Plans : q # p => lease'[q] = lease[q]
           /\ pooled[p] => lease'[p]
           /\ pooled[p] => \A q \in Plans : ~lease[q]
<1>1. /\ lease' = [lease EXCEPT ![p] = pooled[p]]
      /\ leased' = (leased \/ pooled[p])
      /\ pooled[p] => ~leased
  BY DEF Acquires
<1>2. CASE pooled[p]
  <2>1. \A q \in Plans : ~lease[q]
    BY <1>1, <1>2 DEF LeaseHeld
  <2> QED
    BY <1>1, <1>2, <2>1 DEF TypeOK
<1>3. CASE ~pooled[p]
  <2>1. ~lease[p]
    BY <1>3 DEF LeaseHeld
  <2>2. lease' = lease /\ leased' = leased
    BY <1>1, <1>3, <2>1 DEF TypeOK
  <2> QED
    BY <2>2, <1>3 DEF TypeOK, LeaseHeld
<1> QED
  BY <1>2, <1>3

\* init asks for a number of bytes.
LEMMA WorkSizeNat ==
    ASSUME NEW p \in Plans, NEW s \in Sizes
    PROVE  WorkSize(p, s) \in Nat /\ s.host \in Nat
BY WorkspaceAssumption DEF WorkSize, SizeType

-----------------------------------------------------------------------------
(* The actions, one by one.                                                *)

LEMMA SetPoolInv ==
    ASSUME IInv, NEW p \in Plans, NEW on \in BOOLEAN, SetPool(p, on)
    PROVE  IInv'
<1>1. /\ ~initDone[p] /\ ~lease[p]
      /\ pooled' = [pooled EXCEPT ![p] = on]
      /\ UNCHANGED <<leased, pool, lease, initDone, built, own, bound>>
  BY DEF SetPool
<1>2. TypeOK'
  BY <1>1 DEF IInv, TypeOK
<1>3. LeaseHeld'
  BY <1>1 DEF IInv, TypeOK, LeaseHeld
<1>4. BoundLive'
  <2> SUFFICES ASSUME NEW q \in Plans, initDone[q]
               PROVE  /\ q # p
                      /\ Buffers(q)' = Buffers(q)
    BY <1>1 DEF IInv, BoundLive
  <2> QED
    BY <1>1 DEF Buffers, IInv, TypeOK
<1>5. PoolSettled'
  BY <1>1 DEF IInv, PoolSettled
<1>6. SizeKnown'
  BY <1>1 DEF IInv, SizeKnown
<1> QED
  BY <1>2, <1>3, <1>4, <1>5, <1>6 DEF IInv

\* init that throws before it touches a buffer.
LEMMA InitThrowsInv ==
    ASSUME IInv, NEW p \in Plans, NEW s \in Sizes, InitRefused(p, s) \/ InitOutgrows(p, s)
    PROVE  IInv' /\ pool' = pool
<1>1. /\ ~initDone[p]
      /\ built' = [built EXCEPT ![p] = s]
      /\ UNCHANGED <<pooled, pool, initDone, own, bound>>
  BY DEF InitRefused, InitOutgrows, Acquires, Builds
<1>2. TypeOK' /\ LeaseHeld'
  <2>1. CASE InitRefused(p, s)
    BY <1>1, <2>1 DEF IInv, TypeOK, LeaseHeld, InitRefused
  <2>2. CASE InitOutgrows(p, s)
    <3>1. Acquires(p, s)
      BY <2>2 DEF InitOutgrows
    <3>2. TypeOK'
      BY <1>1, <3>1, AcquiresLease DEF IInv, TypeOK
    <3>3. LeaseHeld'
      BY <1>1, <3>1, AcquiresLease DEF IInv, LeaseHeld
    <3> QED
      BY <3>2, <3>3
  <2> QED
    BY <2>1, <2>2
<1>3. BoundLive'
  <2> SUFFICES ASSUME NEW q \in Plans, initDone[q]
               PROVE  built'[q] = built[q] /\ Buffers(q)' = Buffers(q)
    BY <1>1 DEF IInv, BoundLive
  <2> QED
    BY <1>1 DEF Buffers, IInv, TypeOK
<1>4. PoolSettled'
  BY <1>1 DEF IInv, PoolSettled
<1>5. SizeKnown'
  BY <1>1 DEF IInv, TypeOK, SizeKnown
<1> QED
  BY <1>1, <1>2, <1>3, <1>4, <1>5 DEF IInv

\* The buffers of a plan that may be initialized are free to change: those of
\* the pool are nobody else's while the plan has the lease.
LEMMA InitAllocatesInv ==
    ASSUME IInv, NEW p \in Plans, NEW s \in Sizes, NEW binds \in BOOLEAN, InitAllocates(p, s, binds)
    PROVE  /\ IInv'
           /\ \A k \in DeviceKinds : pool[k].allocated # 0 => pool'[k].allocated = pool[k].allocated
<1> DEFINE size == WorkSize(p, s)
           required == Require(Buffers(p).device, size)
           device == Activate(required, RoomFor(s))
           host == IF Short(device) THEN Buffers(p).host
                   ELSE Activate(Require(Buffers(p).host, s.host), HostRoom)
           done == ~Short(device) /\ ~Short(host) /\ binds
<1>1. /\ Acquires(p, s)
      /\ ~(pooled[p] /\ Grows(pool.device, size))
      /\ SetBuffers(p, device, host)
      /\ initDone' = [initDone EXCEPT ![p] = done]
      /\ bound' = IF done
                  THEN [bound EXCEPT ![p] =
                            [size |-> size, device |-> device.allocated, host |-> host.allocated]]
                  ELSE bound
  BY DEF InitAllocates
<1>2. /\ ~initDone[p]
      /\ built' = [built EXCEPT ![p] = s]
      /\ pooled' = pooled
  BY <1>1 DEF Acquires, Builds
<1>3. /\ size \in Nat /\ s.host \in Nat
      /\ Buffers(p).device \in Buffer /\ Buffers(p).host \in Buffer
  BY WorkSizeNat DEF Buffers, IInv, TypeOK
<1>4. /\ required \in Buffer /\ size <= required.required
      /\ required.allocated = Buffers(p).device.allocated
      /\ pooled[p] => Settled(required)
  BY <1>1, <1>3, RequireFacts DEF IInv, PoolSettled, Buffers, DeviceKinds
<1>5. /\ device \in Buffer /\ device.required = required.required /\ Settled(device)
      /\ pooled[p] /\ pool.device.allocated # 0 => device.allocated = pool.device.allocated
  BY <1>4, ActivateFacts DEF Buffers
<1>6. /\ host \in Buffer
      /\ ~Short(device) => s.host <= host.required
  <2>1. /\ Require(Buffers(p).host, s.host) \in Buffer
        /\ s.host <= Require(Buffers(p).host, s.host).required
    BY <1>3, RequireFacts
  <2>2. /\ Activate(Require(Buffers(p).host, s.host), HostRoom) \in Buffer
        /\ s.host <= Activate(Require(Buffers(p).host, s.host), HostRoom).required
    BY <2>1, ActivateFacts
  <2> QED
    BY <2>2, <1>3
<1> HIDE DEF size, required, device, host, done
<1>7. /\ pool' \in PoolRecords /\ own' \in [Plans -> BufferRecords]
      /\ pool'.input = pool.input /\ pool'.spectrum = pool.spectrum
      /\ pooled[p] => pool'.device = device /\ pool'.host = host /\ own' = own
      /\ ~pooled[p] => pool' = pool /\ own'[p] = [device |-> device, host |-> host]
      /\ \A q \in Plans : q # p => own'[q] = own[q]
  <2>1. /\ pool \in PoolRecords /\ own \in [Plans -> BufferRecords]
        /\ device \in Buffer /\ host \in Buffer
    BY <1>5, <1>6 DEF IInv, TypeOK, PoolRecords, BufferRecords
  <2>2. CASE pooled[p]
    <3>1. pool' = [pool EXCEPT !.device = device, !.host = host] /\ own' = own
      BY <2>2, <1>1 DEF SetBuffers
    <3> QED
      BY <3>1, <2>1, <2>2 DEF PoolRecords
  <2>3. CASE ~pooled[p]
    <3>1. own' = [own EXCEPT ![p] = [device |-> device, host |-> host]] /\ pool' = pool
      BY <2>3, <1>1 DEF SetBuffers
    <3> QED
      BY <3>1, <2>1, <2>3 DEF BufferRecords
  <2> QED
    BY <2>2, <2>3
<1>8. Buffers(p)'.device = device /\ Buffers(p)'.host = host
  BY <1>2, <1>7 DEF Buffers
<1>9. TypeOK'
  <2>1. /\ initDone' \in [Plans -> BOOLEAN] /\ built' \in [Plans -> Sizes \cup {None}]
        /\ bound' \in [Plans -> Storages]
    BY <1>1, <1>2, <1>3, <1>5, <1>6 DEF IInv, TypeOK, Buffer, Storages, done, Short
  <2> QED
    BY <2>1, <1>1, <1>2, <1>7, AcquiresLease DEF IInv, TypeOK, PoolRecords, BufferRecords
<1>10. LeaseHeld'
  <2>1. ASSUME NEW q \in Plans, initDone'[q], pooled[q] PROVE lease'[q]
    BY <2>1, <1>1, AcquiresLease DEF IInv, TypeOK, LeaseHeld
  <2> QED
    BY <2>1, <1>1, <1>2, AcquiresLease DEF IInv, LeaseHeld
<1>11. BoundLive'
  <2> SUFFICES ASSUME NEW q \in Plans, initDone'[q]
               PROVE  /\ bound'[q].device = Buffers(q)'.device.allocated
                      /\ bound'[q].host = Buffers(q)'.host.allocated
                      /\ bound'[q].size <= bound'[q].device
                      /\ built'[q].host <= bound'[q].host
    BY DEF BoundLive
  <2>1. CASE q = p
    <3>1. done
      BY <2>1, <1>1 DEF IInv, TypeOK
    <3>2. bound'[p] = [size |-> size, device |-> device.allocated, host |-> host.allocated]
      BY <3>1, <1>1 DEF IInv, TypeOK
    <3>3. size <= device.allocated /\ s.host <= host.allocated
      BY <3>1, <1>3, <1>4, <1>5, <1>6 DEF done, Short, Buffer
    <3>4. built'[p] = s
      BY <1>2 DEF IInv, TypeOK
    <3> QED
      BY <2>1, <3>2, <3>3, <3>4, <1>8
  <2>2. CASE q # p
    <3>1. initDone[q] /\ bound'[q] = bound[q] /\ built'[q] = built[q]
      BY <2>2, <1>1, <1>2 DEF IInv, TypeOK
    <3>2. ~(pooled[q] /\ pooled[p])
      BY <3>1, <1>1, AcquiresLease DEF IInv, LeaseHeld
    <3>3. Buffers(q)' = Buffers(q)
      BY <2>2, <3>2, <1>2, <1>7 DEF Buffers
    <3> QED
      BY <3>1, <3>3 DEF IInv, BoundLive
  <2> QED
    BY <2>1, <2>2
<1>12. PoolSettled'
  BY <1>5, <1>7 DEF IInv, PoolSettled, DeviceKinds
<1>13. \A k \in DeviceKinds : pool[k].allocated # 0 => pool'[k].allocated = pool[k].allocated
  BY <1>5, <1>7 DEF DeviceKinds
<1>14. SizeKnown'
  BY <1>1, <1>2 DEF IInv, TypeOK, SizeKnown
<1> QED
  BY <1>9, <1>10, <1>11, <1>12, <1>13, <1>14 DEF IInv

\* Release and destruction take the plan's own things away, and its lease.
LEMMA EndsInv ==
    ASSUME IInv, NEW p \in Plans, ReleaseResources(p) \/ Destroy(p)
    PROVE  IInv' /\ pool' = pool
<1>1. /\ GivesBack(p) <=> lease[p]
      /\ leased' = (leased /\ ~GivesBack(p))
      /\ pool' = pool
      /\ initDone' = [initDone EXCEPT ![p] = FALSE]
      /\ built' = [built EXCEPT ![p] = None]
      /\ bound' = [bound EXCEPT ![p] = NoWork]
  BY DEF ReleaseResources, Destroy, GivesBack, IInv, LeaseHeld
<1>2. /\ lease' = [lease EXCEPT ![p] = FALSE]
      /\ pooled' \in [Plans -> BOOLEAN] /\ own' \in [Plans -> BufferRecords]
      /\ \A q \in Plans : q # p => pooled'[q] = pooled[q] /\ own'[q] = own[q]
  <2>1. CASE ReleaseResources(p)
    <3>1. lease' = [lease EXCEPT ![p] = FALSE]
      BY <2>1, <1>1 DEF ReleaseResources, IInv, TypeOK
    <3> QED
      BY <3>1, <2>1 DEF ReleaseResources, IInv, TypeOK, BufferRecords, Buffer, Empty
  <2>2. CASE Destroy(p)
    BY <2>2 DEF Destroy, IInv, TypeOK, BufferRecords, Buffer, Empty
  <2> QED
    BY <2>1, <2>2
<1>3. TypeOK'
  BY <1>1, <1>2 DEF IInv, TypeOK, BufferRecords, Storages, NoWork, GivesBack
<1>4. LeaseHeld'
  <2>1. \A q \in Plans : lease'[q] <=> lease[q] /\ q # p
    BY <1>2 DEF IInv, TypeOK
  <2>2. \A q \in Plans : initDone'[q] => initDone[q] /\ q # p
    BY <1>1 DEF IInv, TypeOK
  <2>3. leased' <=> \E q \in Plans : lease'[q]
    BY <2>1, <1>1 DEF IInv, LeaseHeld
  <2> QED
    BY <2>1, <2>2, <2>3, <1>2 DEF IInv, LeaseHeld
<1>5. BoundLive'
  <2> SUFFICES ASSUME NEW q \in Plans, initDone'[q]
               PROVE  /\ initDone[q] /\ bound'[q] = bound[q] /\ built'[q] = built[q]
                      /\ Buffers(q)' = Buffers(q)
    BY DEF IInv, BoundLive
  <2>1. q # p
    BY <1>1 DEF IInv, TypeOK
  <2> QED
    BY <2>1, <1>1, <1>2 DEF Buffers, IInv, TypeOK
<1>6. PoolSettled'
  BY <1>1 DEF IInv, PoolSettled
<1>7. SizeKnown'
  BY <1>1 DEF IInv, TypeOK, SizeKnown
<1> QED
  BY <1>1, <1>3, <1>4, <1>5, <1>6, <1>7 DEF IInv

-----------------------------------------------------------------------------
(* The input and the spectrum.                                             *)

\* The operations on the data pools leave the work areas alone.
LEMMA DataPoolsInv ==
    ASSUME IInv, UNCHANGED <<leased, planVars>>,
           pool' \in PoolRecords, pool'.device = pool.device, pool'.host = pool.host,
           Settled(pool'.input), Settled(pool'.spectrum)
    PROVE  IInv'
<1>1. UNCHANGED <<leased, pooled, lease, initDone, built, own, bound>>
  BY DEF planVars
<1>2. TypeOK' /\ LeaseHeld'
  BY <1>1 DEF IInv, TypeOK, LeaseHeld, PoolRecords
<1>3. \A q \in Plans : /\ Buffers(q)'.device = Buffers(q).device
                       /\ Buffers(q)'.host = Buffers(q).host
  BY <1>1 DEF Buffers
<1>4. BoundLive'
  BY <1>1, <1>3 DEF IInv, BoundLive
<1>5. PoolSettled'
  BY DEF IInv, PoolSettled, DeviceKinds
<1>6. SizeKnown'
  BY <1>1 DEF IInv, SizeKnown
<1> QED
  BY <1>2, <1>4, <1>5, <1>6 DEF IInv

LEMMA InputRequiredFacts ==
    ASSUME IInv, NEW fourD \in BOOLEAN, NEW n \in Nat
    PROVE  /\ InputRequired(fourD, n) \in Buffer
           /\ Settled(InputRequired(fourD, n))
           /\ InputRequired(fourD, n).allocated = pool.input.allocated
<1>1. pool.input \in Buffer /\ Settled(pool.input)
  BY DEF IInv, TypeOK, PoolSettled, DeviceKinds
<1> QED
  BY <1>1, RequireFacts DEF InputRequired

\* init_autotuned_..._data_arrays
LEMMA DataArraysInv ==
    ASSUME IInv, NEW p \in Plans, DataArrays(p)
    PROVE  /\ IInv'
           /\ \A k \in DeviceKinds : pool[k].allocated # 0 => pool'[k].allocated = pool[k].allocated
<1> DEFINE s == built[p]
           input == IF s.fourD THEN Activate(InputRequired(TRUE, s.input), Room) ELSE pool.input
           spectrum == Require(pool.spectrum, s.spectrum)
           active == Activate(spectrum, Room - (input.allocated - pool.input.allocated))
<1>1. /\ initDone[p] /\ pooled[p]
      /\ pool' = IF Outgrown(s.fourD, s.input, s.spectrum)
                 THEN [pool EXCEPT !.input = InputRequired(s.fourD, s.input)]
                 ELSE [pool EXCEPT !.input = input,
                                   !.spectrum = IF s.fourD /\ Short(input) THEN spectrum ELSE active]
      /\ UNCHANGED <<leased, planVars>>
  BY DEF DataArrays
<1>2. s.fourD \in BOOLEAN /\ s.input \in Nat /\ s.spectrum \in Nat
  BY <1>1, WorkspaceAssumption DEF IInv, SizeKnown, SizeType
<1>3. /\ pool \in PoolRecords
      /\ \A k \in DeviceKinds : Settled(pool[k])
  BY DEF IInv, TypeOK, PoolSettled, PoolRecords
<1> HIDE DEF s
<1>4. CASE Outgrown(s.fourD, s.input, s.spectrum)
  <2>1. pool' = [pool EXCEPT !.input = InputRequired(s.fourD, s.input)]
    BY <1>1, <1>4
  <2>2. /\ InputRequired(s.fourD, s.input) \in Buffer
        /\ Settled(InputRequired(s.fourD, s.input))
        /\ InputRequired(s.fourD, s.input).allocated = pool.input.allocated
    BY <1>2, InputRequiredFacts
  <2>3. /\ pool' \in PoolRecords /\ pool'.input = InputRequired(s.fourD, s.input)
        /\ \A k \in {"device", "host", "spectrum"} : pool'[k] = pool[k]
    BY <1>3, <2>1, <2>2 DEF PoolRecords
  <2> QED
    BY <1>1, <1>3, <2>2, <2>3, DataPoolsInv DEF DeviceKinds
<1>5. CASE ~Outgrown(s.fourD, s.input, s.spectrum)
  <2> DEFINE newSpectrum == IF s.fourD /\ Short(input) THEN spectrum ELSE active
  <2>1. pool' = [pool EXCEPT !.input = input, !.spectrum = newSpectrum]
    BY <1>1, <1>5
  <2>2. /\ input \in Buffer /\ Settled(input)
        /\ pool.input.allocated # 0 => input.allocated = pool.input.allocated
    <3>1. CASE s.fourD
      <4>1. /\ InputRequired(TRUE, s.input) \in Buffer
            /\ Settled(InputRequired(TRUE, s.input))
            /\ InputRequired(TRUE, s.input).allocated = pool.input.allocated
        BY <1>2, InputRequiredFacts
      <4> QED
        BY <3>1, <4>1, ActivateFacts
    <3>2. CASE ~s.fourD
      BY <3>2, <1>3 DEF PoolRecords, DeviceKinds
    <3> QED
      BY <3>1, <3>2
  <2>3. ~Grows(pool.spectrum, s.spectrum)
    BY <1>5 DEF Outgrown
  <2>4. /\ spectrum \in Buffer /\ Settled(spectrum)
        /\ spectrum.allocated = pool.spectrum.allocated
    BY <1>2, <1>3, <2>3, RequireFacts DEF PoolRecords, DeviceKinds
  <2>5. /\ active \in Buffer /\ Settled(active)
        /\ pool.spectrum.allocated # 0 => active.allocated = pool.spectrum.allocated
    BY <2>4, ActivateFacts
  <2>6. /\ newSpectrum \in Buffer /\ Settled(newSpectrum)
        /\ pool.spectrum.allocated # 0 => newSpectrum.allocated = pool.spectrum.allocated
    BY <2>4, <2>5
  <2> HIDE DEF input, newSpectrum
  <2>7. /\ pool' \in PoolRecords /\ pool'.input = input /\ pool'.spectrum = newSpectrum
        /\ \A k \in {"device", "host"} : pool'[k] = pool[k]
    BY <1>3, <2>1, <2>2, <2>6 DEF PoolRecords
  <2> QED
    BY <1>1, <2>2, <2>6, <2>7, DataPoolsInv DEF DeviceKinds
<1> QED
  BY <1>4, <1>5

\* prepare_candidates only asks for more.
LEMMA PrepareInv ==
    ASSUME IInv, NEW s \in Sizes, NEW t \in Sizes, Prepare(s.fourD, s.input, t.spectrum)
    PROVE  /\ IInv'
           /\ \A k \in DeviceKinds : pool'[k].allocated = pool[k].allocated
<1> DEFINE input == InputRequired(s.fourD, s.input)
           spectrum == IF Outgrown(s.fourD, s.input, t.spectrum) THEN pool.spectrum
                       ELSE Require(pool.spectrum, t.spectrum)
<1>1. /\ pool' = [pool EXCEPT !.input = input, !.spectrum = spectrum]
      /\ UNCHANGED <<leased, planVars>>
  BY DEF Prepare
<1>2. s.fourD \in BOOLEAN /\ s.input \in Nat /\ t.spectrum \in Nat
  BY WorkspaceAssumption DEF SizeType
<1>3. /\ pool \in PoolRecords
      /\ \A k \in DeviceKinds : Settled(pool[k])
  BY DEF IInv, TypeOK, PoolSettled, PoolRecords
<1>4. input \in Buffer /\ Settled(input) /\ input.allocated = pool.input.allocated
  BY <1>2, InputRequiredFacts
<1>5. /\ spectrum \in Buffer /\ Settled(spectrum)
      /\ spectrum.allocated = pool.spectrum.allocated
  <2>1. CASE Outgrown(s.fourD, s.input, t.spectrum)
    BY <2>1, <1>3 DEF PoolRecords, DeviceKinds
  <2>2. CASE ~Outgrown(s.fourD, s.input, t.spectrum)
    <3>1. ~Grows(pool.spectrum, t.spectrum)
      BY <2>2 DEF Outgrown
    <3> QED
      BY <3>1, <2>2, <1>2, <1>3, RequireFacts DEF PoolRecords, DeviceKinds
  <2> QED
    BY <2>1, <2>2
<1> HIDE DEF input, spectrum
<1>6. /\ pool' \in PoolRecords /\ pool'.input = input /\ pool'.spectrum = spectrum
      /\ \A k \in {"device", "host"} : pool'[k] = pool[k]
  BY <1>1, <1>3, <1>4, <1>5 DEF PoolRecords
<1> QED
  BY <1>1, <1>4, <1>5, <1>6, DataPoolsInv DEF DeviceKinds

-----------------------------------------------------------------------------
(* The specification.                                                      *)

LEMMA InvInit == Init => IInv
<1> SUFFICES ASSUME Init PROVE IInv
  OBVIOUS
<1>1. TypeOK
  BY DEF Init, TypeOK, Buffer, Empty, Storages, NoWork
<1>2. LeaseHeld /\ BoundLive /\ SizeKnown
  BY DEF Init, LeaseHeld, BoundLive, SizeKnown
<1>3. PoolSettled
  BY DEF Init, PoolSettled, Settled, Empty, DeviceKinds
<1> QED
  BY <1>1, <1>2, <1>3 DEF IInv

\* No step breaks the invariant, and none moves the pool's device memory.
LEMMA InvStep ==
    ASSUME IInv, [Next]_vars
    PROVE  /\ IInv'
           /\ \A k \in DeviceKinds : pool[k].allocated # 0 => pool'[k].allocated = pool[k].allocated
<1>1. ASSUME NEW p \in Plans, NEW on \in BOOLEAN, SetPool(p, on)
      PROVE  IInv' /\ pool' = pool
  BY <1>1, SetPoolInv DEF SetPool
<1>2. ASSUME NEW p \in Plans, NEW s \in Sizes, InitRefused(p, s) \/ InitOutgrows(p, s)
      PROVE  IInv' /\ pool' = pool
  BY <1>2, InitThrowsInv
<1>3. ASSUME NEW p \in Plans, NEW s \in Sizes, NEW binds \in BOOLEAN, InitAllocates(p, s, binds)
      PROVE  /\ IInv'
             /\ \A k \in DeviceKinds : pool[k].allocated # 0 => pool'[k].allocated = pool[k].allocated
  BY <1>3, InitAllocatesInv
<1>4. ASSUME NEW p \in Plans, ReleaseResources(p) \/ Destroy(p)
      PROVE  IInv' /\ pool' = pool
  BY <1>4, EndsInv
<1>5. ASSUME NEW p \in Plans, DataArrays(p)
      PROVE  /\ IInv'
             /\ \A k \in DeviceKinds : pool[k].allocated # 0 => pool'[k].allocated = pool[k].allocated
  BY <1>5, DataArraysInv
<1>6. ASSUME NEW s \in Sizes, NEW t \in Sizes, Prepare(s.fourD, s.input, t.spectrum)
      PROVE  /\ IInv'
             /\ \A k \in DeviceKinds : pool'[k].allocated = pool[k].allocated
  BY <1>6, PrepareInv
<1>7. CASE UNCHANGED vars
  BY <1>7 DEF vars, planVars, IInv, TypeOK, LeaseHeld, BoundLive, Buffers, PoolSettled, SizeKnown
<1> QED
  BY <1>1, <1>2, <1>3, <1>4, <1>5, <1>6, <1>7 DEF Next

LEMMA Invariance == Spec => []IInv
<1>1. IInv /\ [Next]_vars => IInv'
  BY InvStep
<1> QED
  BY InvInit, <1>1, PTL DEF Spec

(***************************************************************************)
(* Whatever plans there are and however their initializations fail, the    *)
(* pool is leased exactly when one plan holds it and will return it: no    *)
(* throw in init (fftm.hpp:1170) strands the lease.                        *)
(***************************************************************************)
THEOREM LeaseHeldCorrect == Spec => []LeaseHeld
<1>1. IInv => LeaseHeld
  BY DEF IInv
<1> QED
  BY Invariance, <1>1, PTL

(***************************************************************************)
(* The work areas that an initialized plan gave its FFT plans and its      *)
(* transposes stay allocated and large enough, whatever other plans do.    *)
(***************************************************************************)
THEOREM BoundLiveCorrect == Spec => []BoundLive
<1>1. IInv => BoundLive
  BY DEF IInv
<1> QED
  BY Invariance, <1>1, PTL

(***************************************************************************)
(* The pool's device memory, registered with MPI or handed out as arrays,  *)
(* is never freed and reallocated, for any sizes and any room, a failing   *)
(* malloc included: require() refuses to grow what is in use               *)
(* (shared_workspace_buffer.h:274).                                        *)
(***************************************************************************)
THEOREM PoolStableCorrect == Spec => PoolStable
<1>1. IInv /\ [Next]_vars =>
        [\A k \in {"device", "input", "spectrum"} :
            pool[k].allocated # 0 => pool'[k].allocated = pool[k].allocated]_vars
  BY InvStep DEF DeviceKinds
<1> QED
  BY Invariance, <1>1, PTL DEF Spec, PoolStable
=============================================================================
