-------------------------- MODULE PencilPipeline --------------------------
(***************************************************************************)
(* The native 3D pencil executor on a P1 x P2 grid: three local FFTs and,  *)
(* between them, two redistributions, one in the row and one in the line   *)
(* of the grid.  A redistribution may return while its sends are still     *)
(* pending ("deferred send completion"); they are drained after the next   *)
(* FFT.  What makes this correct is a matter of memory: the stages, the    *)
(* send and receive buffers and the scratch space of the FFT library share *)
(* one work area, so memory is modelled by regions with symbolic contents. *)
(***************************************************************************)
EXTENDS Integers, Sequences, FiniteSets, FiniteSetsExt

CONSTANTS
    P1, P2,      \* the process grid
    Setups,      \* what the program does with which configuration, see below
    Cells        \* bound: cells of the work area, each the size of one domain

(***************************************************************************)
(* A setup is a record with                                                *)
(*   calls     the transforms run: a sequence of "forward" and "backward"  *)
(*   kind      "opt1", "opt0" or "topology" (opt0 with the reference       *)
(*             Y-buffer topology)                                          *)
(*   deferred  use_3d_deferred_send_completion                             *)
(*   stable    use_stable_forward_byte_send_buffer                         *)
(*   landing   forward_receive_lands_in_stage_                             *)
(*   alias     native_opt0_default_z_scratch_aliasing                      *)
(*   paired    peer_paired_large_count_byte_schedule                       *)
(*   chunks    requests per peer, more than one for very long messages     *)
(*   span      scratch space the FFT library asks for, in domains          *)
(*   compact   the ranks that chose the compact work area                  *)
(*   failing   the ranks whose FFTs may throw                              *)
(*   eager     whether MPI completes a send before it is matched           *)
(***************************************************************************)
Ranks == 0 .. P1 * P2 - 1

\* The work area has room for three slots, the scratch space and one stage.
ASSUME PipelineAssumption ==
    /\ P1 \in Nat \ {0, 1} /\ P2 \in Nat \ {0, 1}
    /\ Cells \in Nat
    /\ Setups \subseteq
         [calls : Seq({"forward", "backward"}), kind : {"opt1", "opt0", "topology"},
          deferred : BOOLEAN, stable : BOOLEAN, landing : BOOLEAN, alias : BOOLEAN,
          paired : BOOLEAN, eager : BOOLEAN, chunks : Nat \ {0}, span : Nat,
          compact : SUBSET Ranks, failing : SUBSET Ranks]
    /\ \A s \in Setups : /\ s.calls # <<>>
                         /\ s.paired => s.chunks = 1
                         /\ s.kind # "opt1" => s.span > 0
                         /\ s.kind # "topology" => s.compact = {}
                         /\ s.span + 4 <= Cells

VARIABLES
    setup,      \* fixed; the same on all ranks but for "compact"
    at,         \* the stage a rank is in, counted over all calls
    pc,         \* where it is in that stage
    peers,      \* the peers whose send is not posted yet
    unwaited,   \* byte_recv_remaining
    landed,     \* receive requests that are complete and not waited for
    deferred,   \* deferred_send_state_
    computing,  \* whether the running FFT was given its data
    sends,      \* MPI: posted and unmatched sends of a pair of ranks, oldest first
    recvs,      \* MPI: posted and unmatched receives, likewise
    mem         \* what each region of a rank's memory holds

vars == <<setup, at, pc, peers, unwaited, landed, deferred, computing, sends, recvs, mem>>

-----------------------------------------------------------------------------
(***************************************************************************)
(* Stages: FFT, redistribution, FFT, redistribution, FFT.                  *)
(***************************************************************************)
StepsPerCall == 5
LastStage == StepsPerCall * Len(setup.calls)

StepOf(n) == IF n = 0 THEN 0 ELSE ((n - 1) % StepsPerCall) + 1
Way(n) == setup.calls[((n - 1) \div StepsPerCall) + 1]
IsExchange(n) == StepOf(n) \in {2, 4}

\* The row is walked first on the way forward and last on the way back.
InRow(n) == (Way(n) = "forward") <=> (StepOf(n) = 2)

I(r) == r \div P2
J(r) == r % P2

\* row_comm_order_ and line_comm_order_: the other members, from the next one on.
PeerOrder(r, n) ==
    IF InRow(n) THEN [k \in 1 .. P2 - 1 |-> (I(r) * P2) + ((J(r) + k) % P2)]
                ELSE [k \in 1 .. P1 - 1 |-> (((I(r) + k) % P1) * P2) + J(r)]

Peers(r, n) == {PeerOrder(r, n)[k] : k \in DOMAIN PeerOrder(r, n)}
Chunks == 1 .. setup.chunks

-----------------------------------------------------------------------------
(***************************************************************************)
(* Memory.  Cells of the work area are numbered from 0, arrays have names. *)
(***************************************************************************)
Physical == -1     \* the user's real array
Spectral == -2     \* the user's complex array
Shared   == -3     \* scratch_stage0_xfft_3d_
XFast    == -4     \* scratch_stage1_xfast_3d_
Stage1   == -5     \* scratch_stage1_3d_
DefaultZ == -6     \* scratch_stage0_default_z_3d_
Regions  == DefaultZ .. Cells - 1

\* Mutant: the FFT library's scratch space starts one cell too early.
EarlyWorkBase(r) == IF setup.kind = "opt1" THEN 0 ELSE IF r \in setup.compact THEN 0 ELSE 2

\* native_opt0_reference_workspace_slot_offset_; the whole work area otherwise.
WorkBase(r) == IF setup.kind = "opt1" THEN 0 ELSE IF r \in setup.compact THEN 1 ELSE 3

WorkCells(r) == WorkBase(r) .. WorkBase(r) + setup.span - 1

\* native_opt0_reference_backward_y_output_offset_bytes_
BackwardY(r) == Max({WorkBase(r) + setup.span, 3})

SendSlot == IF setup.kind = "topology" THEN 2 ELSE 0
RecvSlot == 1

\* The arrays a call goes through, the input first.
ArraysOf(r, way) ==
    LET zStage(cell) == IF setup.alias THEN cell ELSE DefaultZ
    IN  CASE setup.kind = "opt1" /\ way = "forward"
               -> <<Physical, Shared, Spectral, XFast, Shared, Spectral>>
          [] setup.kind = "opt1" /\ way = "backward"
               -> <<Spectral, Shared, XFast, Spectral, Shared, Physical>>
          [] setup.kind = "opt0" /\ way = "forward"
               -> <<Physical, DefaultZ, Stage1, XFast, Spectral, Spectral>>
          [] setup.kind = "opt0" /\ way = "backward"
               -> <<Spectral, Shared, XFast, Stage1, DefaultZ, Physical>>
          [] setup.kind = "topology" /\ way = "forward"
               -> <<Physical, zStage(BackwardY(r)), 0, Spectral, 0, Spectral>>
          [] setup.kind = "topology" /\ way = "backward"
               -> <<Spectral, 0, Spectral, BackwardY(r), zStage(0), Physical>>

Input(r, n)  == ArraysOf(r, Way(n))[StepOf(n)]
Output(r, n) == ArraysOf(r, Way(n))[StepOf(n) + 1]

\* Whether a chunk is copied to the send buffer first, and whether it is received in place.
Packed(n) == setup.kind # "opt1" \/ setup.stable \/ Way(n) = "backward"
Lands(n)  == setup.kind = "opt1" /\ (setup.landing \/ Way(n) = "backward")

Source(r, n) == IF Packed(n) THEN SendSlot ELSE Input(r, n)

(***************************************************************************)
(* A region holds parts of the result of one stage.                        *)
(***************************************************************************)
Junk == [what |-> -1, parts |-> {}]
Full(n) == [what |-> n, parts |-> Ranks \X Chunks]

\* Adding parts; what another stage left there is lost.
Added(c, n, parts) ==
    IF c.what = n THEN [c EXCEPT !.parts = @ \cup parts] ELSE [what |-> n, parts |-> parts]

Whole(r, c, n) ==
    /\ c.what = n
    /\ (IF IsExchange(n) THEN {r} \cup Peers(r, n) ELSE Ranks) \X Chunks \subseteq c.parts

\* Rank r still has, where MPI reads it, what it sends to rank p in stage n.
Intact(r, p, n) ==
    LET c == mem[r][Source(r, n)]
    IN  IF Packed(n) THEN c.what = n /\ {p} \X Chunks \subseteq c.parts
                     ELSE Whole(r, c, n - 1)

-----------------------------------------------------------------------------
NoDeferred == [stage |-> 0, requests |-> {}, remaining |-> 0]
Active(r) == deferred[r].stage # 0

\* The enumerator deferred_send_stage does not say which call it belongs to.
StageName(n) == <<Way(n), StepOf(n)>>

Init ==
    /\ setup \in Setups
    /\ at = [r \in Ranks |-> 0]
    /\ pc = [r \in Ranks |-> "idle"]
    /\ peers = [r \in Ranks |-> <<>>]
    /\ unwaited = [r \in Ranks |-> [p \in Ranks |-> 0]]
    /\ landed = [r \in Ranks |-> {}]
    /\ deferred = [r \in Ranks |-> NoDeferred]
    /\ computing = [r \in Ranks |-> FALSE]
    /\ sends = [c \in Ranks \X Ranks |-> <<>>]
    /\ recvs = [c \in Ranks \X Ranks |-> <<>>]
    /\ mem = [r \in Ranks |-> [x \in Regions |-> Junk]]

-----------------------------------------------------------------------------
(***************************************************************************)
(* The local FFTs.                                                         *)
(***************************************************************************)

GoTo(r, stage, place) ==
    /\ at' = [at EXCEPT ![r] = stage]
    /\ pc' = [pc EXCEPT ![r] = place]

\* The program fills its array and calls forward or backward.
StartCall(r) ==
    /\ pc[r] = "idle"
    /\ at[r] < LastStage
    /\ mem' = [mem EXCEPT ![r][Input(r, at[r] + 1)] = Full(at[r])]
    /\ GoTo(r, at[r] + 1, "fft")
    /\ UNCHANGED <<setup, peers, unwaited, landed, deferred, computing, sends, recvs>>

\* The kernels start: the output and the scratch space are no longer what they were.
FftStart(r) ==
    LET in  == Input(r, at[r])
        out == Output(r, at[r])
    IN  /\ pc[r] = "fft"
        /\ computing' = [computing EXCEPT ![r] = /\ Whole(r, mem[r][in], at[r] - 1)
                                                 /\ {in, out} \cap WorkCells(r) = {}]
        /\ mem' = [mem EXCEPT ![r] = [x \in Regions |->
                                        IF x = out \/ x \in WorkCells(r) THEN Junk ELSE @[x]]]
        /\ pc' = [pc EXCEPT ![r] = "running"]
        /\ UNCHANGED <<setup, at, peers, unwaited, landed, deferred, sends, recvs>>

\* exec_local_fft_ returns: the device is synchronized.
FftEnd(r) ==
    /\ pc[r] = "running"
    /\ mem' = IF computing[r] THEN [mem EXCEPT ![r][Output(r, at[r])] = Full(at[r])] ELSE mem
    /\ computing' = [computing EXCEPT ![r] = FALSE]
    /\ IF StepOf(at[r]) = 1 THEN GoTo(r, at[r] + 1, "exchange") ELSE GoTo(r, at[r], "probe")
    /\ UNCHANGED <<setup, peers, unwaited, landed, deferred, sends, recvs>>

\* It throws: execute_with_deferred_send_overlap_ drains the sends and rethrows.
FftFails(r) ==
    /\ pc[r] = "running"
    /\ r \in setup.failing
    /\ pc' = [pc EXCEPT ![r] = IF StepOf(at[r]) = 1 THEN "failed" ELSE "failDrain"]
    /\ computing' = [computing EXCEPT ![r] = FALSE]
    /\ UNCHANGED <<setup, at, peers, unwaited, landed, deferred, sends, recvs, mem>>

-----------------------------------------------------------------------------
(***************************************************************************)
(* Deferred sends.                                                         *)
(***************************************************************************)

\* MPI holds the data of a send until it is matched, unless it has copied it.
Complete(r, n, p, c) ==
    \A k \in DOMAIN sends[<<r, p>>] :
        LET m == sends[<<r, p>>][k] IN setup.eager \/ m.stage # n \/ m.chunk # c

AllComplete(r, n, requests) == \A q \in requests : Complete(r, n, q[1], q[2])

AfterFft(r) ==
    IF StepOf(at[r]) = StepsPerCall THEN GoTo(r, at[r], "idle") ELSE GoTo(r, at[r] + 1, "exchange")

\* Mutant: the completed request is not counted.
TestedUncounted(d, q) == [d EXCEPT !.requests = @ \ {q}]

\* MPI_Testany has set the request to null; one less remains.
Tested(d, q) == [d EXCEPT !.requests = @ \ {q}, !.remaining = @ - 1]

\* probe_deferred_send_after_fft_: one MPI_Testany.
Probe(r) ==
    LET d    == deferred[r]
        done == {q \in d.requests : Complete(r, d.stage, q[1], q[2])}
    IN  /\ pc[r] = "probe"
        /\ \/ /\ ~Active(r)
              /\ AfterFft(r)
              /\ UNCHANGED deferred
           \/ /\ Active(r)
              /\ IF StageName(d.stage) # StageName(at[r] - 1)
                 THEN GoTo(r, at[r], "broken") /\ UNCHANGED deferred
                 ELSE IF d.remaining > 0 /\ done # {}
                 THEN \E q \in done :
                        /\ deferred' = [deferred EXCEPT ![r] = Tested(@, q)]
                        /\ UNCHANGED <<at, pc>>
                 ELSE /\ GoTo(r, at[r], "drain")
                      /\ deferred' = IF d.requests = {} THEN [deferred EXCEPT ![r].remaining = 0]
                                                        ELSE deferred
        /\ UNCHANGED <<setup, peers, unwaited, landed, computing, sends, recvs, mem>>

\* drain_deferred_send_: MPI_Waitall on what the probe left.
Drain(r) ==
    /\ pc[r] = "drain"
    /\ deferred[r].remaining > 0 => AllComplete(r, deferred[r].stage, deferred[r].requests)
    /\ deferred' = [deferred EXCEPT ![r] = NoDeferred]
    /\ AfterFft(r)
    /\ UNCHANGED <<setup, peers, unwaited, landed, computing, sends, recvs, mem>>

\* Mutant: the exception passes without a drain.
FailNoDrain(r) ==
    /\ pc[r] = "failDrain"
    /\ deferred' = [deferred EXCEPT ![r] = NoDeferred]
    /\ GoTo(r, at[r], "failed")
    /\ UNCHANGED <<setup, peers, unwaited, landed, computing, sends, recvs, mem>>

\* drain_deferred_send_noexcept_, on the way out of a failed FFT.
FailDrain(r) ==
    /\ pc[r] = "failDrain"
    /\ AllComplete(r, deferred[r].stage, deferred[r].requests)
    /\ deferred' = [deferred EXCEPT ![r] = NoDeferred]
    /\ GoTo(r, at[r], "failed")
    /\ UNCHANGED <<setup, peers, unwaited, landed, computing, sends, recvs, mem>>

-----------------------------------------------------------------------------
(***************************************************************************)
(* One redistribution.                                                     *)
(***************************************************************************)
\* Mutant: only the first of a long message's receives is posted.
OneRequest(n) == <<[stage |-> n, chunk |-> 1]>>

\* The receives of one peer.
Requests(n) == [k \in Chunks |-> [stage |-> n, chunk |-> k]]

\* reset_row_requests_ or reset_line_requests_, and the receives of the unpaired schedule.
EnterExchange(r) ==
    LET n == at[r] IN
    /\ pc[r] = "exchange"
    /\ IF Active(r)
       THEN /\ pc' = [pc EXCEPT ![r] = "broken"]
            /\ UNCHANGED <<peers, unwaited, recvs>>
       ELSE /\ pc' = [pc EXCEPT ![r] = "post"]
            /\ peers' = [peers EXCEPT ![r] = PeerOrder(r, n)]
            /\ unwaited' = [unwaited EXCEPT ![r] =
                              [p \in Ranks |-> IF p \in Peers(r, n) THEN setup.chunks ELSE 0]]
            /\ recvs' = IF setup.paired THEN recvs
                        ELSE [c \in Ranks \X Ranks |->
                                IF c[2] = r /\ c[1] \in Peers(r, n)
                                THEN recvs[c] \o Requests(n) ELSE recvs[c]]
    /\ UNCHANGED <<setup, at, landed, deferred, computing, sends, mem>>

\* The next peer: in the paired schedule its receive; the copy to the send
\* buffer and the synchronization of its stream, if it is packed; its sends.
PostPeer(r) ==
    LET n == at[r]
        p == Head(peers[r])
        packs == IF Packed(n) /\ Whole(r, mem[r][Input(r, n)], n - 1)
                 THEN [mem EXCEPT ![r][SendSlot] = Added(@, n, {p} \X Chunks)] ELSE mem
        good == IF Packed(n) THEN Whole(r, mem[r][Input(r, n)], n - 1) ELSE Intact(r, p, n)
    IN  /\ pc[r] = "post"
        /\ peers[r] # <<>>
        /\ peers' = [peers EXCEPT ![r] = Tail(@)]
        /\ recvs' = IF setup.paired THEN [recvs EXCEPT ![<<p, r>>] = @ \o Requests(n)] ELSE recvs
        /\ mem' = packs
        /\ sends' = [sends EXCEPT ![<<r, p>>] = @ \o
                         [k \in Chunks |-> [stage |-> n, chunk |-> k, good |-> good]]]
        /\ UNCHANGED <<setup, at, pc, unwaited, landed, deferred, computing>>

Waiting(r) == pc[r] = "post" /\ peers[r] = <<>>

\* Copying what came from a set of peers out of the receive buffer.
Unpacked(r, n, from) ==
    LET have == IF mem[r][RecvSlot].what = n THEN mem[r][RecvSlot].parts ELSE {}
    IN  [mem EXCEPT ![r][Output(r, n)] = Added(@, n, have \cap (from \X Chunks))]

\* Mutant: a peer is unpacked after its first chunk.
UnpackAfter(left) == left = setup.chunks - 1

\* byte_recv_remaining[p] == 0
UnpackNow(left) == left = 0

\* Forward: MPI_Waitany over the receives, unpacking peer by peer.
WaitAny(r) ==
    LET n == at[r] IN
    /\ Waiting(r)
    /\ Way(n) = "forward"
    /\ \E q \in landed[r] :
          LET left == unwaited[r][q[1]] - 1 IN
          /\ landed' = [landed EXCEPT ![r] = @ \ {q}]
          /\ unwaited' = [unwaited EXCEPT ![r][q[1]] = left]
          /\ mem' = IF UnpackNow(left) /\ ~Lands(n) THEN Unpacked(r, n, {q[1]}) ELSE mem
    /\ UNCHANGED <<setup, at, pc, peers, deferred, computing, sends, recvs>>

\* Backward: MPI_Waitall, then all the unpacking.
WaitAll(r) ==
    LET n == at[r] IN
    /\ Waiting(r)
    /\ Way(n) = "backward"
    /\ landed[r] = Peers(r, n) \X Chunks
    /\ landed' = [landed EXCEPT ![r] = {}]
    /\ unwaited' = [unwaited EXCEPT ![r] = [p \in Ranks |-> 0]]
    /\ mem' = IF Lands(n) THEN mem ELSE Unpacked(r, n, Peers(r, n))
    /\ UNCHANGED <<setup, at, pc, peers, deferred, computing, sends, recvs>>

\* Mutant: the sends are deferred while receives are still waited for.
SkipReceives(r) == TRUE

ReceivesDone(r) == \A p \in Ranks : unwaited[r][p] = 0

\* The receives are done, and with the streams the copy of the rank's own
\* block: wait_or_defer_send_requests_.
CloseExchange(r) ==
    LET n == at[r]
        requests == Peers(r, n) \X Chunks
        own == IF Whole(r, mem[r][Input(r, n)], n - 1)
               THEN [mem EXCEPT ![r][Output(r, n)] = Added(@, n, {r} \X Chunks)] ELSE mem
    IN  /\ Waiting(r)
        /\ ReceivesDone(r)
        /\ IF setup.deferred
           THEN IF Active(r)
                THEN /\ GoTo(r, n, "broken")
                     /\ UNCHANGED deferred
                ELSE /\ deferred' = [deferred EXCEPT ![r] =
                                       [stage |-> n, requests |-> requests,
                                        remaining |-> Cardinality(requests)]]
                     /\ GoTo(r, n + 1, "fft")
           ELSE /\ AllComplete(r, n, requests)
                /\ GoTo(r, n + 1, "fft")
                /\ UNCHANGED deferred
        /\ mem' = own
        /\ UNCHANGED <<setup, peers, unwaited, landed, computing, sends, recvs>>

\* MPI: between two ranks on one communicator all tags are equal, so the oldest
\* send meets the oldest receive.  A send that was not buffered is read now.
Transfer(f, t) ==
    LET c == <<f, t>> IN
    /\ sends[c] # <<>> /\ recvs[c] # <<>>
    /\ LET m == Head(sends[c])
           q == Head(recvs[c])
           good == /\ IF setup.eager THEN m.good ELSE Intact(f, t, m.stage)
                   /\ m.stage = q.stage /\ m.chunk = q.chunk
           place == IF Lands(q.stage) THEN Output(t, q.stage) ELSE RecvSlot
       IN  /\ mem' = [mem EXCEPT ![t][place] =
                        IF good THEN Added(@, q.stage, {<<f, q.chunk>>}) ELSE Junk]
           /\ landed' = [landed EXCEPT ![t] = @ \cup {<<f, q.chunk>>}]
    /\ sends' = [sends EXCEPT ![c] = Tail(@)]
    /\ recvs' = [recvs EXCEPT ![c] = Tail(@)]
    /\ UNCHANGED <<setup, at, pc, peers, unwaited, deferred, computing>>

-----------------------------------------------------------------------------
RankStep(r) ==
    \/ StartCall(r) \/ FftStart(r) \/ FftEnd(r)
    \/ Probe(r) \/ Drain(r) \/ FailDrain(r)
    \/ EnterExchange(r) \/ PostPeer(r)
    \/ WaitAny(r) \/ WaitAll(r) \/ CloseExchange(r)

Progress ==
    \/ \E r \in Ranks : RankStep(r)
    \/ \E f, t \in Ranks : Transfer(f, t)

Next == Progress \/ \E r \in Ranks : FftFails(r)

Spec == Init /\ [][Next]_vars

\* A rank that can go on does, MPI moves what is matched, an FFT ends.  Every step
\* brings its rank or its request forward and none is undone, so that no action
\* is passed over for ever: fairness of the whole is fairness of each part.
FairSpec == Spec /\ WF_vars(Progress)

-----------------------------------------------------------------------------
\* Stages, requests and regions have their types.
TypeOK ==
    /\ setup \in Setups
    /\ at \in [Ranks -> 0 .. LastStage]
    /\ \A r \in Ranks :
         /\ pc[r] \in {"idle", "fft", "running", "probe", "drain", "failDrain", "failed", "broken",
                       "exchange", "post"}
         /\ \A p \in Ranks : unwaited[r][p] \in 0 .. setup.chunks
         /\ landed[r] \subseteq Ranks \X Chunks
         /\ deferred[r].requests \subseteq Ranks \X Chunks
         /\ deferred[r].remaining = Cardinality(deferred[r].requests)
         /\ computing[r] \in BOOLEAN
         /\ at[r] > 0 => Output(r, at[r]) \in Regions
         /\ WorkCells(r) \subseteq Regions

(***************************************************************************)
(* Until MPI has read a pending send, nothing overwrites what it reads: no *)
(* stage output, no packing and no scratch space of an FFT that runs over  *)
(* the deferred sends.                                                     *)
(***************************************************************************)
SourceHeld ==
    ~setup.eager =>
        \A f, t \in Ranks : \A k \in DOMAIN sends[<<f, t>>] : Intact(f, t, sends[<<f, t>>][k].stage)

(***************************************************************************)
(* A call that returned left the result of its own last stage, computed    *)
(* from complete inputs only, in the user's array.                         *)
(***************************************************************************)
ResultRight ==
    \A r \in Ranks : pc[r] = "idle" /\ at[r] > 0 =>
        Whole(r, mem[r][Output(r, at[r])], at[r])

(***************************************************************************)
(* Outside a call, returned or left by an exception, MPI reads none of the *)
(* rank's memory any more, and no request is forgotten; and so the         *)
(* logic_errors about deferred sends (a redistribution begun, or sends     *)
(* deferred, over others; a drain at the wrong stage) are never thrown,    *)
(* whatever fails.                                                         *)
(***************************************************************************)
NothingPending ==
    \A r \in Ranks :
      /\ pc[r] # "broken"
      /\ pc[r] \in {"idle", "failed"} =>
        /\ ~Active(r)
        /\ ~setup.eager => \A t \in Ranks : sends[<<r, t>>] = <<>>

(***************************************************************************)
(* The peer of a deferred send has posted its receive by the time the send *)
(* is deferred, so that the drain waits for MPI and never for what the     *)
(* peer does next.                                                         *)
(***************************************************************************)
DrainReady ==
    \A r, t \in Ranks : \A k \in DOMAIN sends[<<r, t>>] :
        Active(r) /\ ~setup.eager =>
           /\ k \in DOMAIN recvs[<<r, t>>]
           /\ recvs[<<r, t>>][k].stage = sends[<<r, t>>][k].stage

\* Unless an FFT fails, every rank finishes all its calls.
AllEnd ==
    <>(\/ \A r \in Ranks : pc[r] = "idle" /\ at[r] = LastStage
       \/ \E r \in Ranks : pc[r] = "failed")
=============================================================================
