--------------------------- MODULE PlanePipeline ---------------------------
(***************************************************************************)
(* Both redistributions of a slab plan that works plane by plane: backward *)
(* the plane-credit scheduler, forward                                     *)
(* forward_p2p_waitany_slab_wz_communication_pipelined_ of the same file.  *)
(* Forward, a rank transforms its own Y planes on the lanes of its GPU,    *)
(* sends each to every peer as soon as it and all before it are done, and  *)
(* receives the planes of the others through a chunk window.  With send    *)
(* overlap it launches the next FFT on what it received while its sends    *)
(* are in flight, and drains them whether or not the launch throws.        *)
(*                                                                         *)
(* The GPU, MPI, the lanes and the loop's phases are those of PlaneCredit; *)
(* in a forward call its slots and queues are not in use.                  *)
(***************************************************************************)
EXTENDS PlaneCredit

CONSTANTS
    Window,       \* native_xzwy_chunk_window_
    PlanLanes     \* slab_native_wz_plan_concurrency

ASSUME PipelineAssumption ==
    /\ Window \in Nat \ {0}
    /\ P <= 32767 \div Window
    /\ PlanLanes \in Nat \ {0}
    /\ \A r \in Ranks : Planes[r] > 0   \* else the call is refused

VARIABLES
    way,         \* fixed: "backward", "forward", or "overlap", forward with send overlap
    holds,       \* the plane a lane was launched on and has not sent, else -1: [rank][lane]
    polled,      \* lanes in the state lane_fft_ready: [rank]
    launched,    \* next_plane_to_launch
    posted,      \* next_plane_to_post
    receiving,   \* active receives of the window, as <<peer, plane>>: [rank]
    rnext,       \* next_chunks of the window: [rank][peer]
    sending,     \* active sends, as <<peer, plane>>: [rank]
    computed     \* the GPU's view: the planes it has transformed: [rank]

pipeVars == <<holds, polled, launched, posted, receiving, rnext, sending>>
creditVars == <<slotVars, ready, lane, transformed>>
allVars == <<vars, way, pipeVars, computed>>

\* native_4d_wz_plan_concurrency_
PlanLaneIds == 1 .. PlanLanes
LanesOf(r) == {l \in PlanLaneIds : l <= Planes[r]}

\* The overlapped FFT has a stream of its own.
Overlapped(r) == <<r, 0>>

\* Plane n of rank src.
PlaneRequest(src, dst, n) ==
    [src |-> src, dst |-> dst, tag |-> src + P * (n % Window), order |-> n, plane |-> n]

Filled(count) == IF count < Window THEN count ELSE Window

-----------------------------------------------------------------------------
IdlePipe ==
    /\ holds = [r \in Ranks |-> [l \in PlanLaneIds |-> -1]]
    /\ polled = [r \in Ranks |-> {}]
    /\ launched = [r \in Ranks |-> 0]
    /\ posted = [r \in Ranks |-> 0]
    /\ receiving = [r \in Ranks |-> {}]
    /\ rnext = [r \in Ranks |-> [p \in Ranks |-> 0]]
    /\ sending = [r \in Ranks |-> {}]
    /\ computed = [r \in Ranks |-> {}]

PipeInit ==
    /\ way \in {"backward", "forward", "overlap"}
    /\ Init
    /\ IdlePipe

\* All windows are filled and the first planes launched.
Begin(r) ==
    LET first == UNION {{<<p, n>> : n \in 0 .. Filled(Planes[p]) - 1} : p \in Peers(r)}
    IN  /\ pc[r] = "activate"
        /\ receiving' = [receiving EXCEPT ![r] = first]
        /\ recvs' = recvs \cup {PlaneRequest(x[1], r, x[2]) : x \in first}
        /\ rnext' = [rnext EXCEPT ![r] = [p \in Ranks |-> IF p # r THEN Filled(Planes[p]) ELSE @[p]]]
        /\ holds' = [holds EXCEPT ![r] = [l \in PlanLaneIds |-> IF l \in LanesOf(r) THEN l - 1 ELSE @[l]]]
        /\ running' = running \cup {<<r, l>> : l \in LanesOf(r)}
        /\ launched' = [launched EXCEPT ![r] = Cardinality(LanesOf(r))]
        /\ pc' = [pc EXCEPT ![r] = "head"]
        /\ UNCHANGED <<progressed, polled, posted, sending, sends, unacked, landed>>

\* A plane of every peer has arrived and all of the rank's own are on their way.
Received(r) == receiving[r] = {} /\ \A p \in Peers(r) : rnext[r][p] = Planes[p]
InputsReady(r) == posted[r] = Planes[r] /\ Received(r)

\* Mutant: the loop does not look at the sends in either mode.
PipeUnfinishedInputs(r) == ~InputsReady(r)

PipeUnfinished(r) == ~InputsReady(r) \/ (way = "forward" /\ sending[r] # {})

\* Mutant: a launched plane counts as transformed.
LaneDoneLaunched(r, l) == holds[r][l] # -1

\* lane_ready: nothing is left on the lane's stream.
LaneDone(r, l) == holds[r][l] # -1 /\ <<r, l>> \notin running

\* The planes that can be sent now, in the order of their numbers, when the
\* lanes in "done" hold transformed planes.
Sendable(r, done) ==
    {n \in posted[r] .. Planes[r] - 1 :
        \A m \in posted[r] .. n : \E l \in done : holds[r][l] = m}

\* The lanes are polled; the planes that can be sent are, and their lanes take
\* the next planes in the same order.
PollAndPost(r) ==
    LET done == {l \in LanesOf(r) : LaneDone(r, l)}
        out == Sendable(r, done)
        freed == {l \in done : holds[r][l] \in out}
        next(l) == LET n == launched[r] + holds[r][l] - posted[r] IN IF n < Planes[r] THEN n ELSE -1
        new == {PlaneRequest(r, x[1], x[2]) : x \in Peers(r) \X out}
    IN  /\ pc[r] = "head"
        /\ PipeUnfinished(r)
        /\ polled' = [polled EXCEPT ![r] = done \ freed]
        /\ sends' = sends \cup new
        /\ unacked' = unacked \cup {m \in new : <<r, m.dst>> \notin Eager}
        /\ sending' = [sending EXCEPT ![r] = @ \cup (Peers(r) \X out)]
        /\ posted' = [posted EXCEPT ![r] = @ + Cardinality(out)]
        /\ holds' = [holds EXCEPT ![r] = [l \in PlanLaneIds |-> IF l \in freed THEN next(l) ELSE @[l]]]
        /\ running' = running \cup {<<r, l>> : l \in {l \in freed : next(l) # -1}}
        /\ launched' = [launched EXCEPT ![r] = @ + Cardinality({l \in freed : next(l) # -1})]
        /\ progressed' = [progressed EXCEPT ![r] = done # polled[r]]
        /\ pc' = [pc EXCEPT ![r] = "testRecv"]
        /\ UNCHANGED <<receiving, rnext, recvs, landed>>

PlaneArrived(r, p, n) ==
    /\ <<p, n>> \in receiving[r]
    /\ PlaneRequest(p, r, n) \notin recvs
PlaneSent(r, p, n) ==
    /\ <<p, n>> \in sending[r]
    /\ PlaneRequest(r, p, n) \notin unacked

\* advance_recv: the slot takes the peer's next plane.
AdvanceRecv(r, p, n) ==
    LET more == {m \in {rnext[r][p]} : m < Planes[p]}
    IN  /\ PlaneArrived(r, p, n)
        /\ receiving' = [receiving EXCEPT ![r] = (@ \ {<<p, n>>}) \cup ({p} \X more)]
        /\ recvs' = recvs \cup {PlaneRequest(p, r, m) : m \in more}
        /\ rnext' = [rnext EXCEPT ![r][p] = @ + Cardinality(more)]
        /\ UNCHANGED <<polled, launched, posted, sending, holds, running, sends, unacked, landed>>

AdvanceSend(r, p, n) ==
    /\ PlaneSent(r, p, n)
    /\ sending' = [sending EXCEPT ![r] = @ \ {<<p, n>>}]
    /\ UNCHANGED <<polled, launched, posted, receiving, rnext, holds, running, mpiVars>>

SomeArrived(r) == \E x \in receiving[r] : PlaneArrived(r, x[1], x[2])
SomeSent(r) == \E x \in sending[r] : PlaneSent(r, x[1], x[2])

PipeTestRecv(r) ==
    /\ pc[r] = "testRecv"
    /\ \/ /\ \E x \in receiving[r] : AdvanceRecv(r, x[1], x[2])
          /\ progressed' = [progressed EXCEPT ![r] = TRUE]
          /\ UNCHANGED pc
       \/ /\ ~SomeArrived(r)
          /\ pc' = [pc EXCEPT ![r] = "testSend"]
          /\ UNCHANGED <<progressed, pipeVars, running, mpiVars>>

PipeTestSend(r) ==
    /\ pc[r] = "testSend"
    /\ \/ /\ \E x \in sending[r] : AdvanceSend(r, x[1], x[2])
          /\ progressed' = [progressed EXCEPT ![r] = TRUE]
          /\ UNCHANGED pc
       \/ /\ ~SomeSent(r)
          /\ pc' = [pc EXCEPT ![r] = "recycle"]
          /\ UNCHANGED <<progressed, pipeVars, running, mpiVars>>

\* Mutant: as in the backward scheduler, receives are waited for before the FFTs
\* that are running and the planes that are left to send are looked at.
PipeEndRoundRecvFirst(r) ==
    /\ pc[r] = "recycle"
    /\ pc' = [pc EXCEPT ![r] =
                 IF progressed[r] THEN "head"
                 ELSE IF ~Received(r) THEN "waitRecv"
                 ELSE IF \E l \in LanesOf(r) \ polled[r] : holds[r][l] # -1 THEN "head"
                 ELSE IF posted[r] < Planes[r] THEN "noProgress"
                 ELSE IF way = "forward" /\ sending[r] # {} THEN "waitSend"
                 ELSE "head"]
    /\ UNCHANGED <<progressed, pipeVars, running, mpiVars>>

\* What the rank blocks on when the round changed nothing; "stalled before
\* posting all plane sends" is the phase noProgress.
PipeEndRound(r) ==
    /\ pc[r] = "recycle"
    /\ pc' = [pc EXCEPT ![r] =
                 IF progressed[r] \/ \E l \in LanesOf(r) \ polled[r] : holds[r][l] # -1 THEN "head"
                 ELSE IF posted[r] < Planes[r] THEN "noProgress"
                 ELSE IF ~Received(r) THEN "waitRecv"
                 ELSE IF way = "forward" /\ sending[r] # {} THEN "waitSend"
                 ELSE "head"]
    /\ UNCHANGED <<progressed, pipeVars, running, mpiVars>>

PipeWaitRecv(r) ==
    /\ pc[r] = "waitRecv"
    /\ \E x \in receiving[r] : AdvanceRecv(r, x[1], x[2])
    /\ pc' = [pc EXCEPT ![r] = "head"]
    /\ UNCHANGED progressed

PipeWaitSend(r) ==
    /\ pc[r] = "waitSend"
    /\ \E x \in sending[r] : AdvanceSend(r, x[1], x[2])
    /\ pc' = [pc EXCEPT ![r] = "head"]
    /\ UNCHANGED progressed

\* Out of the loop: the lanes are synchronized and the own part is copied.
LeaveLoop(r) ==
    /\ pc[r] = "head"
    /\ ~PipeUnfinished(r)
    /\ \A l \in LanesOf(r) : <<r, l>> \notin running
    /\ pc' = [pc EXCEPT ![r] = IF way = "overlap" THEN "launch" ELSE "done"]
    /\ UNCHANGED <<progressed, pipeVars, running, mpiVars>>

\* launch_overlap; it may throw.
LaunchOverlap(r) ==
    /\ pc[r] = "launch"
    /\ \/ /\ running' = running \cup {Overlapped(r)}
          /\ pc' = [pc EXCEPT ![r] = "drain"]
       \/ /\ pc' = [pc EXCEPT ![r] = "failDrain"]
          /\ UNCHANGED running
    /\ UNCHANGED <<progressed, pipeVars, mpiVars>>

\* drain_pending_sends, on either path.
DrainSend(r) ==
    /\ pc[r] \in {"drain", "failDrain"}
    /\ \E x \in sending[r] : AdvanceSend(r, x[1], x[2])
    /\ UNCHANGED rankVars

\* synchronize_overlap, or the exception goes on.
EndOverlap(r) ==
    /\ sending[r] = {}
    /\ \/ pc[r] = "drain" /\ Overlapped(r) \notin running
       \/ pc[r] = "failDrain"
    /\ pc' = [pc EXCEPT ![r] = IF @ = "drain" THEN "done" ELSE "failed"]
    /\ UNCHANGED <<progressed, pipeVars, running, mpiVars>>

\* The GPU finishes a lane, or the overlapped FFT (external).
FinishPlane ==
    \E x \in running :
        /\ running' = running \ {x}
        /\ computed' = IF x = Overlapped(x[1]) THEN computed
                       ELSE [computed EXCEPT ![x[1]] = @ \cup {holds[x[1]][x[2]]}]
        /\ UNCHANGED <<rankVars, creditVars, mpiVars>>

-----------------------------------------------------------------------------
PipeStep(r) ==
    \/ Begin(r)
    \/ PollAndPost(r)
    \/ PipeTestRecv(r)
    \/ PipeTestSend(r)
    \/ PipeEndRound(r)
    \/ PipeWaitRecv(r)
    \/ PipeWaitSend(r)
    \/ LeaveLoop(r)
    \/ LaunchOverlap(r)
    \/ DrainSend(r)
    \/ EndOverlap(r)

Ended(r) == pc[r] \in {"done", "failed"}

PipeNext ==
    \/ way = "backward" /\ Next /\ UNCHANGED <<way, pipeVars, computed>>
    \/ way # "backward" /\ (\E r \in Ranks : PipeStep(r)) /\ UNCHANGED <<way, creditVars, computed>>
    \/ way # "backward" /\ FinishPlane /\ UNCHANGED <<way, pipeVars>>
    \/ way # "backward" /\ (Match \/ Acknowledge) /\ UNCHANGED <<way, pipeVars, computed>>
    \/ way # "backward" /\ (\A r \in Ranks : Ended(r)) /\ UNCHANGED allVars

PipeSpec == PipeInit /\ [][PipeNext]_allVars

-----------------------------------------------------------------------------
(***************************************************************************)
(* Forward, MPI reads only transformed planes: from the post until the     *)
(* send is complete the plane's FFT is done and no lane works on it again. *)
(***************************************************************************)
SendsTransformed ==
    way # "backward" =>
        \A m \in sends \cup unacked :
            /\ m.plane \in computed[m.src]
            /\ \A l \in PlanLaneIds : <<m.src, l>> \in running => holds[m.src][l] # m.plane

(***************************************************************************)
(* What the GPU reads of the peers is complete and in its place: backward  *)
(* before a plane's inverse FFT starts, forward before the FFT that        *)
(* overlaps the sends starts.                                              *)
(***************************************************************************)
ReadsArrived ==
    /\ way = "backward" => LaunchAfterArrival
    /\ \A r \in Ranks : Overlapped(r) \in running =>
          \A p \in Peers(r), n \in 0 .. MaxPlanes - 1 :
              n < Planes[p] => [src |-> p, dst |-> r, want |-> n, got |-> n] \in landed

(***************************************************************************)
(* A call that returns, or throws what the overlapped launch threw, has    *)
(* done all of its work and leaves nothing behind that reads or writes the *)
(* arrays: no FFT, no request of its own.  No scheduler throws of itself.  *)
(***************************************************************************)
NothingBehind ==
    /\ way = "backward" => CompleteOnReturn
    /\ way # "backward" =>
        \A r \in Ranks :
            /\ pc[r] # "noProgress"
            /\ pc[r] = "waitRecv" => receiving[r] # {}
            /\ Ended(r) =>
                /\ launched[r] = Planes[r] /\ posted[r] = Planes[r] /\ Received(r)
                /\ \A x \in running : x[1] # r
                /\ \A m \in sends \cup unacked : m.src # r \/ <<r, m.dst>> \in Eager
                /\ \A q \in recvs : q.dst # r

(***************************************************************************)
(* A forward call never blocks for ever: until every rank has ended, a     *)
(* rank, the GPU or MPI can move.  A rank may wait in MPI_Waitany only     *)
(* when it owes its peers no plane and has posted every receive it has a   *)
(* slot for; the backward scheduler does not see to that (AlwaysMoves).    *)
(***************************************************************************)
PipeBlocked(r) ==
    \/ Ended(r)
    \/ pc[r] = "waitRecv" /\ ~SomeArrived(r)
    \/ pc[r] = "waitSend" /\ ~SomeSent(r)
    \/ pc[r] \in {"drain", "failDrain"} /\ sending[r] # {} /\ ~SomeSent(r)
ForwardMoves ==
    way # "backward" =>
        \/ \A r \in Ranks : Ended(r)
        \/ \E r \in Ranks : ~PipeBlocked(r)
        \/ running # {}
        \/ \E m \in sends, q \in recvs : Matching(m, q, sends, recvs)
        \/ \E m \in unacked : m \notin sends
=============================================================================
