----------------------------- MODULE PlaneCredit -----------------------------
(***************************************************************************)
(* backward_p2p_waitany_slab_wz_communication_plane_credit_ of             *)
(* mpi_transpose_4d_same_xw.h.  Every rank owns Planes[r] Y planes and     *)
(* needs one part of each of them from every peer; it transforms a plane   *)
(* on an FFT lane of its GPU once all parts have arrived.  Credit slot s   *)
(* takes the planes s, s + Credit, s + 2 * Credit, ... of every rank in    *)
(* turn: the receives of the rank's own plane of that number and the sends *)
(* to the peers that own such a plane.  A slot moves on when all of its    *)
(* requests are complete.                                                  *)
(***************************************************************************)
EXTENDS Integers, Sequences, FiniteSets, Mpi

CONSTANTS
    P,          \* line_comm_info_.num_procs
    Planes,     \* Planes[r] = input_dim_.size_y[r]
    Credit,     \* slab_native_wz_backward_plane_credit_window_
    Lanes,      \* plan_lanes of every rank
    Eager       \* the channels <<s, d>> on which MPI copies a send at the post

Ranks == 0 .. P - 1
Slots == 0 .. Credit - 1
LaneIds == 1 .. Lanes

ASSUME CreditAssumption ==
    /\ P \in Nat \ {0}
    /\ Planes \in [Ranks -> Nat]
    /\ \E r \in Ranks : Planes[r] > 0
    /\ Credit \in Nat \ {0}
    /\ P <= 32767 \div Credit
    /\ Lanes \in Nat \ {0}
    /\ Eager \subseteq Ranks \X Ranks

Peers(r) == Ranks \ {r}

\* max_plane_count: the slots of every rank walk through the same numbers.
MaxPlanes == CHOOSE n \in {Planes[r] : r \in Ranks} : \A r \in Ranks : Planes[r] <= n

VARIABLES
    pc,          \* where each rank is in the scheduler's loop
    progressed,
    plane,       \* slot_plane, -1 when the slot is not active: [rank][slot]
    rwait,       \* peers whose receive the slot still waits for: [rank][slot]
    swait,       \* peers whose send the slot still waits for: [rank][slot]
    network,     \* completed_network_planes
    ready,       \* ready_planes from ready_head on
    lane,        \* lane_plane: [rank][lane]
    running,     \* the lanes <<rank, lane>> whose FFT the GPU has not finished
    transformed, \* the planes the rank has seen finished: completed_plan_count
    recvs, sends, unacked, landed  \* MPI, as in ChunkWindow

rankVars == <<pc, progressed>>
slotVars == <<plane, rwait, swait, network>>
planVars == <<ready, lane, running, transformed>>
mpiVars  == <<recvs, sends, unacked, landed>>
vars     == <<rankVars, slotVars, planVars, mpiVars>>

Tag(d, n) == d + P * (n % Credit)

\* A request of slot s for plane n; the planes of a slot only grow, so that n
\* is its place in the order of posting within its tag.
Request(src, dst, n, s) ==
    [src |-> src, dst |-> dst, tag |-> Tag(dst, n), order |-> n, plane |-> n, slot |-> s]

-----------------------------------------------------------------------------

Init ==
    /\ pc = [r \in Ranks |-> "activate"]
    /\ progressed = [r \in Ranks |-> FALSE]
    /\ plane = [r \in Ranks |-> [s \in Slots |-> -1]]
    /\ rwait = [r \in Ranks |-> [s \in Slots |-> {}]]
    /\ swait = [r \in Ranks |-> [s \in Slots |-> {}]]
    /\ network = [r \in Ranks |-> 0]
    /\ ready = [r \in Ranks |-> <<>>]
    /\ lane = [r \in Ranks |-> [l \in LaneIds |-> -1]]
    /\ running = {}
    /\ transformed = [r \in Ranks |-> {}]
    /\ recvs = {} /\ sends = {} /\ unacked = {} /\ landed = {}

\* Mutant: a plane is queued before all of its parts have arrived.
QueueEarly(queue, r, n, waiting) ==
    IF n < Planes[r] /\ Cardinality(waiting) < 2 THEN Append(queue, n) ELSE queue

\* queue_ready_plane, for the plane and the receives the slot has now.
QueueReady(queue, r, n, waiting) ==
    IF n < Planes[r] /\ waiting = {} THEN Append(queue, n) ELSE queue

\* activate_slot: whom it receives from and whom it sends to.
Sources(r, n) == IF n < Planes[r] THEN Peers(r) ELSE {}

Targets(r, n) == {p \in Peers(r) : n < Planes[p]}

NewRecvs(r, n, s) == {Request(p, r, n, s) : p \in Sources(r, n)}
NewSends(r, n, s) == {Request(r, p, n, s) : p \in Targets(r, n)}

PostSlot(r, n, s) ==
    /\ recvs' = recvs \cup NewRecvs(r, n, s)
    /\ sends' = sends \cup NewSends(r, n, s)
    /\ unacked' = unacked \cup {m \in NewSends(r, n, s) : <<r, m.dst>> \notin Eager}

\* The first slots are activated one by one; then the rank copies its own part.
Activate(r) ==
    LET free == {s \in Slots : s < MaxPlanes /\ plane[r][s] = -1}
    IN  /\ pc[r] = "activate"
        /\ IF free = {}
           THEN /\ pc' = [pc EXCEPT ![r] = "head"]
                /\ UNCHANGED <<plane, rwait, swait, ready, recvs, sends, unacked>>
           ELSE LET s == CHOOSE x \in free : \A y \in free : x <= y
                IN  /\ plane' = [plane EXCEPT ![r][s] = s]
                    /\ rwait' = [rwait EXCEPT ![r][s] = Sources(r, s)]
                    /\ swait' = [swait EXCEPT ![r][s] = Targets(r, s)]
                    /\ ready' = [ready EXCEPT ![r] = QueueReady(@, r, s, Sources(r, s))]
                    /\ PostSlot(r, s, s)
                    /\ UNCHANGED pc
        /\ UNCHANGED <<progressed, network, lane, running, transformed, landed>>

\* launch_ready_planes once the lanes in "freed" became idle: idle lanes take
\* the ready planes in order.  Lanes are interchangeable.
IdleLanes(r, freed) == {l \in LaneIds : lane[r][l] = -1 \/ l \in freed}
Rank(l, set) == Cardinality({x \in set : x <= l})
Launches(r, freed) == {l \in IdleLanes(r, freed) : Rank(l, IdleLanes(r, freed)) <= Len(ready[r])}

\* Mutant: ready_head is not advanced.
LaunchNoAdvance(r, freed) ==
    LET idle == IdleLanes(r, freed)
        used == Launches(r, freed)
    IN  /\ lane' = [lane EXCEPT ![r] = [l \in LaneIds |->
                       IF l \in used THEN ready[r][Rank(l, idle)]
                       ELSE IF l \in freed THEN -1 ELSE @[l]]]
        /\ running' = running \cup {<<r, l>> : l \in used}
        /\ ready' = ready

Launch(r, freed) ==
    LET idle == IdleLanes(r, freed)
        used == Launches(r, freed)
    IN  /\ lane' = [lane EXCEPT ![r] = [l \in LaneIds |->
                       IF l \in used THEN ready[r][Rank(l, idle)]
                       ELSE IF l \in freed THEN -1 ELSE @[l]]]
        /\ running' = running \cup {<<r, l>> : l \in used}
        /\ ready' = [ready EXCEPT ![r] = SubSeq(@, Cardinality(used) + 1, Len(@))]

\* The loop condition, then the lanes are polled and the idle ones launched.
Unfinished(r) == network[r] < MaxPlanes \/ Cardinality(transformed[r]) < Planes[r]

PollLanes(r) ==
    LET freed == {l \in LaneIds : lane[r][l] # -1 /\ <<r, l>> \notin running}
    IN  /\ pc[r] = "head"
        /\ IF Unfinished(r)
           THEN /\ Launch(r, freed)
                /\ transformed' = [transformed EXCEPT ![r] = @ \cup {lane[r][l] : l \in freed}]
                /\ progressed' = [progressed EXCEPT ![r] = freed # {} \/ Launches(r, freed) # {}]
                /\ pc' = [pc EXCEPT ![r] = "testRecv"]
           ELSE /\ pc' = [pc EXCEPT ![r] = "done"]
                /\ UNCHANGED <<progressed, planVars>>
        /\ UNCHANGED <<slotVars, mpiVars>>

\* A request of slot s with peer p that MPI reports as complete.
RecvReady(r, s, p) ==
    /\ p \in rwait[r][s]
    /\ \A q \in recvs : ~(q.dst = r /\ q.src = p /\ q.slot = s)
SendReady(r, s, p) ==
    /\ p \in swait[r][s]
    /\ \A m \in unacked : ~(m.src = r /\ m.dst = p /\ m.slot = s)

TakeRecv(r, s, p) ==
    /\ RecvReady(r, s, p)
    /\ rwait' = [rwait EXCEPT ![r][s] = @ \ {p}]
    /\ ready' = [ready EXCEPT ![r] = QueueReady(@, r, plane[r][s], rwait[r][s] \ {p})]
    /\ UNCHANGED <<plane, swait, network, lane, running, transformed, mpiVars>>

TakeSend(r, s, p) ==
    /\ SendReady(r, s, p)
    /\ swait' = [swait EXCEPT ![r][s] = @ \ {p}]
    /\ UNCHANGED <<plane, rwait, network, planVars, mpiVars>>

TestRecv(r) ==
    /\ pc[r] = "testRecv"
    /\ \/ /\ \E s \in Slots, p \in Peers(r) : TakeRecv(r, s, p)
          /\ progressed' = [progressed EXCEPT ![r] = TRUE]
          /\ UNCHANGED pc
       \/ /\ \A s \in Slots, p \in Peers(r) : ~RecvReady(r, s, p)
          /\ pc' = [pc EXCEPT ![r] = "testSend"]
          /\ UNCHANGED <<progressed, slotVars, planVars, mpiVars>>

TestSend(r) ==
    /\ pc[r] = "testSend"
    /\ \/ /\ \E s \in Slots, p \in Peers(r) : TakeSend(r, s, p)
          /\ progressed' = [progressed EXCEPT ![r] = TRUE]
          /\ UNCHANGED pc
       \/ /\ \A s \in Slots, p \in Peers(r) : ~SendReady(r, s, p)
          /\ pc' = [pc EXCEPT ![r] = "recycle"]
          /\ UNCHANGED <<progressed, slotVars, planVars, mpiVars>>

\* recycle_network_slots, one slot at a time.
Recyclable(r) == {s \in Slots : plane[r][s] # -1 /\ rwait[r][s] = {} /\ swait[r][s] = {}}

\* A slot that is free takes its next plane while some rank owns such a plane.
Continues(n) == n < MaxPlanes

Recycle(r) ==
    /\ pc[r] = "recycle"
    /\ \E s \in Recyclable(r) :
           LET n == plane[r][s] + Credit
           IN  /\ network' = [network EXCEPT ![r] = @ + 1]
               /\ IF Continues(n)
                  THEN /\ plane' = [plane EXCEPT ![r][s] = n]
                       /\ rwait' = [rwait EXCEPT ![r][s] = Sources(r, n)]
                       /\ swait' = [swait EXCEPT ![r][s] = Targets(r, n)]
                       /\ ready' = [ready EXCEPT ![r] = QueueReady(@, r, n, Sources(r, n))]
                       /\ PostSlot(r, n, s)
                  ELSE /\ plane' = [plane EXCEPT ![r][s] = -1]
                       /\ UNCHANGED <<rwait, swait, ready, recvs, sends, unacked>>
    /\ progressed' = [progressed EXCEPT ![r] = TRUE]
    /\ UNCHANGED <<pc, lane, running, transformed, landed>>

Receiving(r) == \E s \in Slots : rwait[r][s] # {}
Sending(r) == \E s \in Slots : swait[r][s] # {}

\* The last launch of the round, and what the rank blocks on when the round
\* changed nothing; the exception "made no progress" is a phase of its own.
EndRound(r) ==
    /\ pc[r] = "recycle"
    /\ Recyclable(r) = {}
    /\ Launch(r, {})
    /\ pc' = [pc EXCEPT ![r] =
                 IF progressed[r] \/ Launches(r, {}) # {} THEN "head"
                 ELSE IF Receiving(r) THEN "waitRecv"
                 ELSE IF Sending(r) THEN "waitSend"
                 ELSE IF \E l \in LaneIds : lane[r][l] # -1 THEN "head"
                 ELSE "noProgress"]
    /\ UNCHANGED <<progressed, slotVars, transformed, mpiVars>>

WaitRecv(r) ==
    /\ pc[r] = "waitRecv"
    /\ \E s \in Slots, p \in Peers(r) : TakeRecv(r, s, p)
    /\ pc' = [pc EXCEPT ![r] = "head"]
    /\ UNCHANGED progressed

WaitSend(r) ==
    /\ pc[r] = "waitSend"
    /\ \E s \in Slots, p \in Peers(r) : TakeSend(r, s, p)
    /\ pc' = [pc EXCEPT ![r] = "head"]
    /\ UNCHANGED progressed

-----------------------------------------------------------------------------

\* The GPU finishes the inverse FFT of a lane (external).
FinishFFT ==
    \E x \in running :
        /\ running' = running \ {x}
        /\ UNCHANGED <<rankVars, slotVars, ready, lane, transformed, mpiVars>>

Match ==
    \E m \in sends, q \in recvs :
        /\ Matching(m, q, sends, recvs)
        /\ sends' = sends \ {m}
        /\ recvs' = recvs \ {q}
        /\ landed' = landed \cup {[src |-> q.src, dst |-> q.dst, want |-> q.plane, got |-> m.plane]}
        /\ UNCHANGED <<rankVars, slotVars, planVars, unacked>>

Acknowledge ==
    \E m \in unacked :
        /\ m \notin sends
        /\ unacked' = unacked \ {m}
        /\ UNCHANGED <<rankVars, slotVars, planVars, recvs, sends, landed>>

-----------------------------------------------------------------------------

RankStep(r) ==
    \/ Activate(r)
    \/ PollLanes(r)
    \/ TestRecv(r)
    \/ TestSend(r)
    \/ Recycle(r)
    \/ EndRound(r)
    \/ WaitRecv(r)
    \/ WaitSend(r)

Returned == \A r \in Ranks : pc[r] = "done"
Finished == Returned /\ UNCHANGED vars

Next ==
    \/ \E r \in Ranks : RankStep(r)
    \/ FinishFFT
    \/ Match
    \/ Acknowledge
    \/ Finished

Spec == Init /\ [][Next]_vars

-----------------------------------------------------------------------------

\* An inverse FFT runs only on a plane every part of which has landed, each part
\* in its own plane: the data the GPU reads is complete.
LaunchAfterArrival ==
    \A x \in running : \A p \in Peers(x[1]) : \E l \in landed :
        l.src = p /\ l.dst = x[1] /\ l.want = lane[x[1]][x[2]] /\ l.got = l.want

\* A plane is transformed once: it is waiting, on one lane, or finished (the FFT
\* is in place, so that a second launch would corrupt it).
TransformedOnce ==
    \A r \in Ranks :
        /\ \A i, j \in 1 .. Len(ready[r]) : i # j => ready[r][i] # ready[r][j]
        /\ \A l \in LaneIds : lane[r][l] # -1 =>
               /\ lane[r][l] \notin transformed[r]
               /\ \A k \in LaneIds : k # l => lane[r][k] # lane[r][l]
               /\ \A i \in 1 .. Len(ready[r]) : ready[r][i] # lane[r][l]

\* A rank throws neither "made no progress" nor "completion ended early", and
\* returns with every plane of its own transformed and no request of its own
\* left: the caller reuses both tensors.
CompleteOnReturn ==
    \A r \in Ranks :
      /\ pc[r] # "noProgress"
      /\ pc[r] = "waitRecv" => Receiving(r)
      /\ pc[r] = "done" =>
        /\ transformed[r] = 0 .. Planes[r] - 1
        /\ \A q \in recvs : q.dst # r
        /\ \A m \in unacked : m.src # r

\* Bounding the planes in flight must not stop them: until the call has returned
\* everywhere, some rank or MPI can take a step.  A rank that made no progress waits
\* for receives alone, while a send it has not seen complete may hold the slot in
\* which a peer's plane is due.
Blocked(r) ==
    \/ pc[r] = "done"
    \/ pc[r] = "waitRecv" /\ \A s \in Slots, p \in Peers(r) : ~RecvReady(r, s, p)
    \/ pc[r] = "waitSend" /\ \A s \in Slots, p \in Peers(r) : ~SendReady(r, s, p)
AlwaysMoves ==
    \/ Returned
    \/ \E r \in Ranks : ~Blocked(r)
    \/ \E m \in sends, q \in recvs : Matching(m, q, sends, recvs)
    \/ \E m \in unacked : m \notin sends
=============================================================================
