----------------------------- MODULE ChunkWindow -----------------------------
(***************************************************************************)
(* The windowed redistribution of mpi_transpose_4d_same_xw.h: each rank of *)
(* a line communicator owes every other rank a number of chunks (byte      *)
(* chunks of a peer's payload, or whole WZ planes), and at most W requests *)
(* per peer and direction are in flight.  A slot whose request completes   *)
(* takes the next chunk.  Chunk c travels under a tag that depends on      *)
(* c % W only, so that two chunks in flight may share a tag: the placement *)
(* of the data rests on MPI matching equal tags in the order of posting.   *)
(*                                                                         *)
(* One module stands for the callers of the window:                        *)
(*   - run_slab_wz_communication_plane_exchange_     (Interleaved = FALSE) *)
(*   - forward_..._windowed_, ..._compact_windowed_  (Interleaved = TRUE)  *)
(*   - backward_..._windowed_                        (UnpackPeer = TRUE)   *)
(***************************************************************************)
EXTENDS Integers, Mpi

CONSTANTS
    P,            \* line_comm_info_.num_procs
    W,            \* native_xzwy_chunk_window_
    Count,        \* Count[s][d]: the chunks rank s owes rank d
    Backward,     \* TRUE: the base tag is the destination, else the source
    Interleaved,  \* TRUE: the requests are drained after each peer's first sends
    ShortCircuit, \* TRUE: drain_recv() || drain_send(), else both are called
    UnpackPeer,   \* TRUE: a peer's payload is unpacked after its last chunk
    Buffered      \* TRUE: MPI copies what is sent at the post (eager protocol)

Ranks == 0 .. P - 1
Slots == 0 .. W - 1

ASSUME WindowAssumption ==
    /\ P \in Nat \ {0}
    /\ W \in Nat \ {0}
    /\ P <= 32767 \div W        \* ensure_native_xzwy_chunk_window_supported_
    /\ Count \in [Ranks -> [Ranks -> Nat]]
    /\ Backward \in BOOLEAN
    /\ Interleaved \in BOOLEAN
    /\ ShortCircuit \in BOOLEAN
    /\ UnpackPeer \in BOOLEAN
    /\ Buffered \in BOOLEAN

VARIABLES
    pc,          \* where each rank is in the exchange
    cursor,      \* the peer whose sends are started next
    progressed,  \* whether the current round completed a request
    rchunk,      \* slot_chunks of the receive window: [rank, peer, slot]
    rnext,       \* next_chunks of the receive window: [rank, peer]
    rdone,       \* completed_chunks of the receive window, per peer
    schunk, snext, sdone,  \* the same for the send window
    unpacked,    \* the chunks <<rank, peer, chunk>> unpacked into the output
    recvs,       \* MPI: posted receives not matched yet
    sends,       \* MPI: posted sends not matched yet
    unacked,     \* MPI: sends whose request is not complete
    landed       \* MPI: what each matched receive asked for and got

rankVars == <<pc, cursor, progressed>>
recvVars == <<rchunk, rnext, rdone, unpacked>>
sendVars == <<schunk, snext, sdone>>
mpiVars  == <<recvs, sends, unacked, landed>>
vars     == <<rankVars, recvVars, sendVars, mpiVars>>

Phases == {"postRecv", "start", "loop", "drainRecv", "drainSend",
           "waitRecv", "waitSend", "done"}

Peers(r) == Ranks \ {r}

\* The request slots of a window: no more than the peer has chunks.
SlotCount(count) == IF count < W THEN count ELSE W

SlotsFor(count) == 0 .. SlotCount(count) - 1

Tag(s, d, chunk) == (IF Backward THEN d ELSE s) + P * (chunk % W)

\* A request: the channel, the tag, its place in the order of posting, the
\* chunk it carries and the window slot that owns it.
Request(s, d, order, chunk, slot) ==
    [src |-> s, dst |-> d, tag |-> Tag(s, d, chunk),
     order |-> order, chunk |-> chunk, slot |-> slot]

Requests == [src : Ranks, dst : Ranks, tag : Nat, order : Nat, chunk : Nat, slot : Slots]

\* Mutants: the slot is given a chunk the peer does not have; the last chunk of
\* a peer is forgotten.
MoreThanAll(next, count) == next <= count
MoreButLast(next, count) == next + 1 < count

\* A completed slot is replenished while the peer has chunks not posted yet.
More(next, count) == next < count

-----------------------------------------------------------------------------

Init ==
    /\ pc = [r \in Ranks |-> "postRecv"]
    /\ cursor = [r \in Ranks |-> 0]
    /\ progressed = [r \in Ranks |-> FALSE]
    /\ rchunk = [x \in Ranks \X Ranks \X Slots |-> -1]
    /\ schunk = [x \in Ranks \X Ranks \X Slots |-> -1]
    /\ rnext = [x \in Ranks \X Ranks |-> 0]
    /\ snext = [x \in Ranks \X Ranks |-> 0]
    /\ rdone = [x \in Ranks \X Ranks |-> 0]
    /\ sdone = [x \in Ranks \X Ranks |-> 0]
    /\ unpacked = {}
    /\ recvs = {}
    /\ sends = {}
    /\ unacked = {}
    /\ landed = {}

\* completed_chunks < total_chunks, kept per peer: no peer exceeds its count.
RecvPending(r) == \E p \in Peers(r) : rdone[<<r, p>>] < Count[p][r]
SendPending(r) == \E p \in Peers(r) : sdone[<<r, p>>] < Count[r][p]

\* Mutant: the loop ends when either window is done.
PendingBoth(r) == RecvPending(r) /\ SendPending(r)

Pending(r) == RecvPending(r) \/ SendPending(r)

\* MPI_Testany and MPI_Waitany see a request as complete.
RecvReady(r, p, k) ==
    /\ rchunk[<<r, p, k>>] # -1
    /\ \A q \in recvs : ~(q.dst = r /\ q.src = p /\ q.slot = k)

\* Mutant: a send counts as complete once it is matched.
SendReadyEarly(r, p, k) ==
    /\ schunk[<<r, p, k>>] # -1
    /\ \A m \in sends : ~(m.src = r /\ m.dst = p /\ m.slot = k)

SendReady(r, p, k) ==
    /\ schunk[<<r, p, k>>] # -1
    /\ \A m \in unacked : ~(m.src = r /\ m.dst = p /\ m.slot = k)

\* start_native_xzwy_chunk_window_peer_ for every peer's receives.
PostRecvs(r) ==
    /\ pc[r] = "postRecv"
    /\ rchunk' = [x \in Ranks \X Ranks \X Slots |->
                     IF x[1] = r /\ x[2] # r /\ x[3] \in SlotsFor(Count[x[2]][r])
                     THEN x[3] ELSE rchunk[x]]
    /\ rnext' = [x \in Ranks \X Ranks |->
                     IF x[1] = r /\ x[2] # r THEN SlotCount(Count[x[2]][r])
                     ELSE rnext[x]]
    /\ recvs' = recvs \cup UNION {{Request(p, r, k, k, k) : k \in SlotsFor(Count[p][r])} : p \in Peers(r)}
    /\ pc' = [pc EXCEPT ![r] = "start"]
    /\ UNCHANGED <<cursor, progressed, rdone, unpacked, sendVars, sends, unacked, landed>>

\* The same for the sends to one peer; the loop over the peers moves on.
StartSends(r) ==
    LET p == cursor[r]
        msgs == {Request(r, p, k, k, k) : k \in SlotsFor(Count[r][p])}
    IN  /\ pc[r] = "start"
        /\ p < P
        /\ IF p = r
           THEN UNCHANGED <<sendVars, sends, unacked>>
           ELSE /\ schunk' = [x \in Ranks \X Ranks \X Slots |->
                                 IF x[1] = r /\ x[2] = p /\ x[3] \in SlotsFor(Count[r][p])
                                 THEN x[3] ELSE schunk[x]]
                /\ snext' = [snext EXCEPT ![<<r, p>>] = SlotCount(Count[r][p])]
                /\ sends' = sends \cup msgs
                /\ unacked' = IF Buffered THEN unacked ELSE unacked \cup msgs
                /\ UNCHANGED sdone
        /\ IF Interleaved
           THEN pc' = [pc EXCEPT ![r] = "drainRecv"] /\ UNCHANGED cursor
           ELSE cursor' = [cursor EXCEPT ![r] = p + 1] /\ UNCHANGED pc
        /\ UNCHANGED <<progressed, recvVars, recvs, landed>>

EndStart(r) ==
    /\ pc[r] = "start"
    /\ cursor[r] = P
    /\ pc' = [pc EXCEPT ![r] = "loop"]
    /\ UNCHANGED <<cursor, progressed, recvVars, sendVars, mpiVars>>

\* The head of the main loop.
Loop(r) ==
    /\ pc[r] = "loop"
    /\ pc' = [pc EXCEPT ![r] = IF Pending(r) THEN "drainRecv" ELSE "done"]
    /\ progressed' = [progressed EXCEPT ![r] = FALSE]
    /\ UNCHANGED <<cursor, recvVars, sendVars, mpiVars>>

\* Mutant: the payload is unpacked when its last chunk is posted.
LastChunkPosted(r, p) == rnext[<<r, p>>] = Count[p][r]

\* --remaining_by_peer[peer] == 0: the completion in hand is the peer's last.
LastChunk(r, p) == rdone[<<r, p>>] + 1 = Count[p][r]

\* Mutant: completed_chunk is posted again instead of next_chunk.
AdvanceRecvCompleted(r, p, k) ==
    LET next == rnext[<<r, p>>]
    IN  /\ RecvReady(r, p, k)
        /\ rdone' = [rdone EXCEPT ![<<r, p>>] = @ + 1]
        /\ IF More(next, Count[p][r])
           THEN /\ rnext' = [rnext EXCEPT ![<<r, p>>] = next + 1]
                /\ rchunk' = [rchunk EXCEPT ![<<r, p, k>>] = next]
                /\ recvs' = recvs \cup {Request(p, r, next, rchunk[<<r, p, k>>], k)}
           ELSE /\ rchunk' = [rchunk EXCEPT ![<<r, p, k>>] = -1]
                /\ UNCHANGED <<rnext, recvs>>
        /\ UNCHANGED unpacked

\* complete_native_xzwy_chunk_window_slot_, the unpacking the caller does, and
\* the post of the slot's next chunk.
AdvanceRecv(r, p, k) ==
    LET next == rnext[<<r, p>>]
    IN  /\ RecvReady(r, p, k)
        /\ rdone' = [rdone EXCEPT ![<<r, p>>] = @ + 1]
        /\ unpacked' = IF UnpackPeer /\ LastChunk(r, p)
                       THEN unpacked \cup {<<r, p, c>> : c \in 0 .. Count[p][r] - 1}
                       ELSE unpacked
        /\ IF More(next, Count[p][r])
           THEN /\ rnext' = [rnext EXCEPT ![<<r, p>>] = next + 1]
                /\ rchunk' = [rchunk EXCEPT ![<<r, p, k>>] = next]
                /\ recvs' = recvs \cup {Request(p, r, next, next, k)}
           ELSE /\ rchunk' = [rchunk EXCEPT ![<<r, p, k>>] = -1]
                /\ UNCHANGED <<rnext, recvs>>

AdvanceSend(r, p, k) ==
    LET next == snext[<<r, p>>]
        msg  == Request(r, p, next, next, k)
    IN  /\ SendReady(r, p, k)
        /\ sdone' = [sdone EXCEPT ![<<r, p>>] = @ + 1]
        /\ IF More(next, Count[r][p])
           THEN /\ snext' = [snext EXCEPT ![<<r, p>>] = next + 1]
                /\ schunk' = [schunk EXCEPT ![<<r, p, k>>] = next]
                /\ sends' = sends \cup {msg}
                /\ unacked' = IF Buffered THEN unacked ELSE unacked \cup {msg}
           ELSE /\ schunk' = [schunk EXCEPT ![<<r, p, k>>] = -1]
                /\ UNCHANGED <<snext, sends, unacked>>

\* drain_recv: MPI_Testany until nothing is complete.
TestRecv(r, p, k) ==
    /\ pc[r] = "drainRecv"
    /\ AdvanceRecv(r, p, k)
    /\ progressed' = [progressed EXCEPT ![r] = TRUE]
    /\ UNCHANGED <<pc, cursor, sendVars, sends, unacked, landed>>

EndDrainRecv(r) ==
    /\ pc[r] = "drainRecv"
    /\ \A p \in Peers(r), k \in Slots : ~RecvReady(r, p, k)
    /\ pc' = [pc EXCEPT ![r] =
                 IF ShortCircuit /\ cursor[r] = P /\ progressed[r] THEN "loop" ELSE "drainSend"]
    /\ UNCHANGED <<cursor, progressed, recvVars, sendVars, mpiVars>>

\* drain_send, and what follows it: the next peer's sends, another round, or
\* the choice of what to block on when nothing moved.
TestSend(r, p, k) ==
    /\ pc[r] = "drainSend"
    /\ AdvanceSend(r, p, k)
    /\ progressed' = [progressed EXCEPT ![r] = TRUE]
    /\ UNCHANGED <<pc, cursor, recvVars, recvs, landed>>


AfterDrain(r) ==
    IF cursor[r] < P THEN "start"
    ELSE IF progressed[r] THEN "loop"
    ELSE IF RecvPending(r) THEN "waitRecv"
    ELSE "waitSend"

EndDrainSend(r) ==
    /\ pc[r] = "drainSend"
    /\ \A p \in Peers(r), k \in Slots : ~SendReady(r, p, k)
    /\ pc' = [pc EXCEPT ![r] = AfterDrain(r)]
    /\ cursor' = IF cursor[r] < P THEN [cursor EXCEPT ![r] = @ + 1] ELSE cursor
    /\ UNCHANGED <<progressed, recvVars, sendVars, mpiVars>>

\* MPI_Waitany on one window: the other one is not looked at meanwhile.
WaitRecv(r, p, k) ==
    /\ pc[r] = "waitRecv"
    /\ AdvanceRecv(r, p, k)
    /\ pc' = [pc EXCEPT ![r] = "loop"]
    /\ UNCHANGED <<cursor, progressed, sendVars, sends, unacked, landed>>

WaitSend(r, p, k) ==
    /\ pc[r] = "waitSend"
    /\ AdvanceSend(r, p, k)
    /\ pc' = [pc EXCEPT ![r] = "loop"]
    /\ UNCHANGED <<cursor, progressed, recvVars, recvs, landed>>

-----------------------------------------------------------------------------
(***************************************************************************)
(* MPI (external).  A send that is not buffered completes some time after  *)
(* it is matched.                                                          *)
(***************************************************************************)

Match ==
    \E m \in sends, q \in recvs :
        /\ Matching(m, q, sends, recvs)
        /\ sends' = sends \ {m}
        /\ recvs' = recvs \ {q}
        /\ landed' = landed \cup {[src |-> q.src, dst |-> q.dst, want |-> q.chunk, got |-> m.chunk]}
        /\ UNCHANGED <<rankVars, recvVars, sendVars, unacked>>

Acknowledge ==
    \E m \in unacked :
        /\ m \notin sends
        /\ unacked' = unacked \ {m}
        /\ UNCHANGED <<rankVars, recvVars, sendVars, recvs, sends, landed>>

-----------------------------------------------------------------------------

RankStep(r) ==
    \/ PostRecvs(r)
    \/ StartSends(r)
    \/ EndStart(r)
    \/ Loop(r)
    \/ EndDrainRecv(r)
    \/ EndDrainSend(r)
    \/ \E p \in Peers(r), k \in Slots :
           \/ TestRecv(r, p, k)
           \/ TestSend(r, p, k)
           \/ WaitRecv(r, p, k)
           \/ WaitSend(r, p, k)

Returned == \A r \in Ranks : pc[r] = "done"

\* The call has returned on every rank.
Finished == Returned /\ UNCHANGED vars

Next ==
    \/ \E r \in Ranks : RankStep(r)
    \/ Match
    \/ Acknowledge
    \/ Finished

Spec == Init /\ [][Next]_vars

\* A rank that can move is scheduled, and MPI makes progress on every request.
Fairness ==
    /\ \A r \in Ranks : WF_vars(RankStep(r))
    /\ WF_vars(Match)
    /\ WF_vars(Acknowledge)

FairSpec == Spec /\ Fairness

-----------------------------------------------------------------------------

\* The variables range over what the code can hold; no chunk beyond a peer's
\* count is ever posted.
TypeOK ==
    /\ pc \in [Ranks -> Phases]
    /\ cursor \in [Ranks -> 0 .. P]
    /\ progressed \in [Ranks -> BOOLEAN]
    /\ rchunk \in [Ranks \X Ranks \X Slots -> Nat \cup {-1}]
    /\ schunk \in [Ranks \X Ranks \X Slots -> Nat \cup {-1}]
    /\ rnext \in [Ranks \X Ranks -> Nat]
    /\ snext \in [Ranks \X Ranks -> Nat]
    /\ rdone \in [Ranks \X Ranks -> Nat]
    /\ sdone \in [Ranks \X Ranks -> Nat]
    /\ \A r, p \in Ranks : rnext[<<r, p>>] <= Count[p][r] /\ snext[<<r, p>>] <= Count[r][p]
    /\ unpacked \subseteq (Ranks \X Ranks \X Nat)
    /\ recvs \subseteq Requests
    /\ sends \subseteq Requests
    /\ unacked \subseteq Requests
    /\ landed \subseteq [src : Ranks, dst : Ranks, want : Nat, got : Nat]

\* A chunk lands in the memory of that chunk and of no other, although chunks
\* in flight share tags (native_xzwy_chunk_window_tag_ keeps chunk % W only).
InPlace == \A l \in landed : l.want = l.got

\* While MPI may still read a send, its slot (and with compact staging the
\* memory of native_xzwy_compact_slot_ptr_) belongs to that chunk.
SendSlotHeld == \A m \in unacked : schunk[<<m.src, m.dst, m.slot>>] = m.chunk

\* unpack_chunk(peer) of the backward path reads a receive buffer in which every
\* chunk of the peer has landed.
UnpackAfterArrival ==
    \A u \in unpacked : \E l \in landed :
        l.dst = u[1] /\ l.src = u[2] /\ l.want = u[3]

\* The windowed schedule implements the exchange the caller relies on.
Owed ==
    UNION {{<<pair[1], pair[2], c>> : c \in 0 .. Count[pair[1]][pair[2]] - 1} :
               pair \in {x \in Ranks \X Ranks : x[1] # x[2]}}

Delivery == INSTANCE Exchange WITH
    Pieces   <- Owed,
    placed   <- {<<<<l.src, l.dst, l.got>>, <<l.src, l.dst, l.want>>>> : l \in landed},
    returned <- {r \in Ranks : pc[r] = "done"}
DeliverySpec == Delivery!Spec

\* "A positive value selects bounded scheduling" of the same chunks: every call
\* returns, on every rank.
EveryRankReturns == <>Returned
=============================================================================
