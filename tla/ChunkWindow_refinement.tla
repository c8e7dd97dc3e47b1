------------------------ MODULE ChunkWindow_refinement ------------------------
(***************************************************************************)
(* The windowed exchange implements Exchange, for any number of ranks, any *)
(* window and any chunk counts.  The argument adds to the invariant of     *)
(* ChunkWindow_proofs that the counters of a window agree: the chunks a    *)
(* peer's requests have completed, and the slots that hold a chunk, are    *)
(* together the chunks posted.  When the last completion is counted, no    *)
(* other slot holds a chunk, and so every chunk of the peer has landed.    *)
(***************************************************************************)
EXTENDS ChunkWindow_proofs, FiniteSetTheorems

-----------------------------------------------------------------------------
(***************************************************************************)
(* The inductive invariant, on top of IInv.                                *)
(***************************************************************************)

\* The slots of one peer that hold a chunk: slot_chunks[slot] >= 0.
Held(chunks, r, p) == {k \in Slots : chunks[<<r, p, k>>] # -1}

\* completed_chunks and the active slots add up to next_chunks.
RecvsCounted ==
    \A r, p \in Ranks : rdone[<<r, p>>] + Cardinality(Held(rchunk, r, p)) = rnext[<<r, p>>]
SendsCounted ==
    \A r, p \in Ranks : sdone[<<r, p>>] + Cardinality(Held(schunk, r, p)) = snext[<<r, p>>]

\* A receive that is waiting holds its slot, and comes from another rank.
RecvSlotHeld ==
    \A q \in recvs : rchunk[<<q.dst, q.src, q.slot>>] = q.chunk /\ q.src # q.dst

\* Without buffering a send is not complete before it is matched.
SendsUnacked == ~Buffered => sends \subseteq unacked

\* A rank returns with both of its windows complete.
DoneComplete == \A r \in Ranks : pc[r] = "done" => ~Pending(r)

CInv ==
    /\ RecvsCounted /\ SendsCounted
    /\ RecvSlotHeld
    /\ SendsUnacked
    /\ DoneComplete
    /\ UnpackAfterArrival

-----------------------------------------------------------------------------
(***************************************************************************)
(* Counting the slots.                                                     *)
(***************************************************************************)

LEMMA HeldType ==
    ASSUME NEW S, S \subseteq Slots
    PROVE  /\ IsFiniteSet(S)
           /\ Cardinality(S) \in Nat
           /\ Cardinality(S) = 0 <=> S = {}
<1>1. IsFiniteSet(Slots)
  BY Sizes, FS_Interval DEF Slots
<1>2. IsFiniteSet(S)
  BY <1>1, FS_Subset
<1> QED
  BY <1>2, FS_CardinalityType, FS_EmptySet

\* The slots that start_native_xzwy_chunk_window_peer_ fills.
LEMMA SlotsForCount ==
    ASSUME NEW n \in Nat
    PROVE  Cardinality(SlotsFor(n)) = SlotCount(n)
<1>1. SlotCount(n) \in Nat
  BY SlotsType
<1>2. 0 \in Int /\ SlotCount(n) - 1 \in Int
  BY <1>1
<1>3. Cardinality(0 .. SlotCount(n) - 1) =
          IF 0 > SlotCount(n) - 1 THEN 0 ELSE (SlotCount(n) - 1) - 0 + 1
  BY <1>2, FS_Interval
<1> QED
  BY <1>1, <1>3 DEF SlotsFor

\* The last slot that holds a chunk.
LEMMA OnlySlot ==
    ASSUME NEW S, S \subseteq Slots, NEW k \in S, Cardinality(S) <= 1
    PROVE  S = {k}
<1>1. IsFiniteSet(S) /\ Cardinality(S) \in Nat /\ Cardinality(S) # 0
  BY HeldType
<1>2. Cardinality(S) = 1
  BY <1>1
<1> QED
  BY <1>1, <1>2, FS_Singleton

-----------------------------------------------------------------------------
(***************************************************************************)
(* What the counters say.                                                  *)
(***************************************************************************)

\* All receives from a peer are posted and none of them is waiting.
LEMMA PeerLanded ==
    ASSUME IInv, NEW r \in Ranks, NEW p \in Ranks, rnext[<<r, p>>] = Count[p][r],
           \A q \in recvs : ~(q.dst = r /\ q.src = p)
    PROVE  \A c \in 0 .. Count[p][r] - 1 : Landed(p, r, c)
<1> SUFFICES ASSUME NEW c \in 0 .. Count[p][r] - 1 PROVE Landed(p, r, c)
  OBVIOUS
<1>1. c \in Nat /\ c < rnext[<<r, p>>]
  BY CountType
<1> QED
  BY <1>1 DEF IInv, RecvsCovered

\* The completion in hand is the peer's last (--remaining_by_peer[peer] == 0).
LEMMA LastChunkLanded ==
    ASSUME IInv, CInv, NEW r \in Ranks, NEW p \in Ranks, NEW k \in Slots,
           RecvReady(r, p, k), LastChunk(r, p)
    PROVE  \A c \in 0 .. Count[p][r] - 1 : Landed(p, r, c)
<1> DEFINE S == Held(rchunk, r, p)
<1>1. k \in S /\ S \subseteq Slots
  BY DEF RecvReady, Held
<1>2. Cardinality(S) \in Nat /\ Cardinality(S) # 0
  BY <1>1, HeldType
<1>3. /\ rdone[<<r, p>>] + Cardinality(S) = rnext[<<r, p>>]
      /\ rdone[<<r, p>>] + 1 = Count[p][r]
      /\ rdone[<<r, p>>] \in Nat
      /\ rnext[<<r, p>>] <= Count[p][r]
  BY DEF CInv, RecvsCounted, LastChunk, IInv, TypeOK
<1>4. Cardinality(S) <= 1 /\ rnext[<<r, p>>] = Count[p][r]
  BY <1>2, <1>3
<1>5. S = {k}
  BY <1>1, <1>4, OnlySlot
<1>6. ASSUME NEW q \in recvs, q.dst = r, q.src = p PROVE FALSE
  <2>1. q.slot \in Slots /\ q.chunk \in Nat
    BY DEF IInv, TypeOK, Requests
  <2>2. rchunk[<<r, p, q.slot>>] = q.chunk
    BY <1>6 DEF CInv, RecvSlotHeld
  <2>3. q.slot \in S
    BY <2>1, <2>2 DEF Held
  <2> QED
    BY <1>5, <1>6, <2>3 DEF RecvReady
<1> QED
  BY <1>4, <1>6, PeerLanded

\* A rank whose windows are complete: what it receives has landed, and without
\* buffering what it sends.
LEMMA CompleteWindow ==
    ASSUME IInv, CInv, NEW r \in Ranks, ~Pending(r), NEW p \in Peers(r)
    PROVE  /\ \A c \in 0 .. Count[p][r] - 1 : Landed(p, r, c)
           /\ ~Buffered => \A c \in 0 .. Count[r][p] - 1 : Landed(r, p, c)
           /\ \A q \in recvs : ~(q.dst = r /\ q.src = p)
<1>1. p \in Ranks
  BY DEF Peers
<1>2. Held(rchunk, r, p) = {} /\ rnext[<<r, p>>] = Count[p][r]
  <2>1. /\ Cardinality(Held(rchunk, r, p)) \in Nat
        /\ Cardinality(Held(rchunk, r, p)) = 0 <=> Held(rchunk, r, p) = {}
    BY HeldType DEF Held
  <2>2. /\ rdone[<<r, p>>] + Cardinality(Held(rchunk, r, p)) = rnext[<<r, p>>]
        /\ rdone[<<r, p>>] \in Nat /\ rnext[<<r, p>>] \in Nat /\ Count[p][r] \in Nat
        /\ rnext[<<r, p>>] <= Count[p][r]
        /\ ~(rdone[<<r, p>>] < Count[p][r])
    BY <1>1, CountType DEF CInv, RecvsCounted, IInv, TypeOK, Pending, RecvPending
  <2> QED
    BY <2>1, <2>2
<1>3. Held(schunk, r, p) = {} /\ snext[<<r, p>>] = Count[r][p]
  <2>1. /\ Cardinality(Held(schunk, r, p)) \in Nat
        /\ Cardinality(Held(schunk, r, p)) = 0 <=> Held(schunk, r, p) = {}
    BY HeldType DEF Held
  <2>2. /\ sdone[<<r, p>>] + Cardinality(Held(schunk, r, p)) = snext[<<r, p>>]
        /\ sdone[<<r, p>>] \in Nat /\ snext[<<r, p>>] \in Nat /\ Count[r][p] \in Nat
        /\ snext[<<r, p>>] <= Count[r][p]
        /\ ~(sdone[<<r, p>>] < Count[r][p])
    BY <1>1, CountType DEF CInv, SendsCounted, IInv, TypeOK, Pending, SendPending
  <2> QED
    BY <2>1, <2>2
<1>4. ASSUME NEW q \in recvs, q.dst = r, q.src = p PROVE FALSE
  <2>1. q.slot \in Slots /\ q.chunk \in Nat
    BY DEF IInv, TypeOK, Requests
  <2>2. rchunk[<<r, p, q.slot>>] = q.chunk
    BY <1>4 DEF CInv, RecvSlotHeld
  <2> QED
    BY <1>2, <2>1, <2>2 DEF Held
<1>5. ASSUME ~Buffered, NEW m \in sends, m.src = r, m.dst = p PROVE FALSE
  <2>1. m \in unacked /\ m.slot \in Slots /\ m.chunk \in Nat
    BY <1>5 DEF CInv, SendsUnacked, IInv, TypeOK, Requests
  <2>2. schunk[<<r, p, m.slot>>] = m.chunk
    BY <1>5, <2>1 DEF IInv, SendSlotHeld
  <2> QED
    BY <1>3, <2>1, <2>2 DEF Held
<1>6. ASSUME ~Buffered, NEW c \in 0 .. Count[r][p] - 1 PROVE Landed(r, p, c)
  <2>1. c \in Nat /\ c < snext[<<r, p>>]
    BY <1>1, <1>3, CountType
  <2> QED
    BY <1>1, <1>5, <1>6, <2>1 DEF IInv, SendsCovered
<1> QED
  BY <1>1, <1>2, <1>4, <1>6, PeerLanded

-----------------------------------------------------------------------------
(***************************************************************************)
(* The counters stay right, action by action.                              *)
(***************************************************************************)

\* A window that posted nothing is empty.
LEMMA NothingHeld ==
    ASSUME NEW chunks, NEW r \in Ranks, NEW p \in Ranks, NEW n \in Nat,
           n + Cardinality(Held(chunks, r, p)) = 0
    PROVE  n = 0 /\ Held(chunks, r, p) = {}
<1>1. /\ Cardinality(Held(chunks, r, p)) \in Nat
      /\ Cardinality(Held(chunks, r, p)) = 0 <=> Held(chunks, r, p) = {}
  BY HeldType DEF Held
<1> QED
  BY <1>1

\* What a rank has done stays done, unless it is the rank that moves.
LEMMA DoneStable ==
    ASSUME CInv, NEW r \in Ranks, pc'[r] # "done",
           \A a \in Ranks : a # r => pc'[a] = pc[a],
           \A a, b \in Ranks : a # r => /\ rdone'[<<a, b>>] = rdone[<<a, b>>]
                                        /\ sdone'[<<a, b>>] = sdone[<<a, b>>]
    PROVE  DoneComplete'
  BY DEF CInv, DoneComplete, Pending, RecvPending, SendPending, Peers

LEMMA LandedStable ==
    ASSUME CInv, unpacked' = unpacked, landed \subseteq landed'
    PROVE  UnpackAfterArrival'
  BY DEF CInv, UnpackAfterArrival

LEMMA PostRecvsCounted ==
    ASSUME IInv, CInv, NEW r \in Ranks, PostRecvs(r)
    PROVE  CInv'
<1> DEFINE A == UNION {{Request(p, r, k, k, k) : k \in SlotsFor(Count[p][r])} : p \in Peers(r)}
<1>1. TypeOK /\ pc[r] = "postRecv"
  BY DEF IInv, PostRecvs
<1>2. /\ recvs' = recvs \cup A
      /\ UNCHANGED <<rdone, unpacked, schunk, snext, sdone, sends, unacked, landed>>
      /\ pc' = [pc EXCEPT ![r] = "start"]
  BY DEF PostRecvs, sendVars
<1>3. /\ \A a, p \in Ranks :
            rnext'[<<a, p>>] = IF a = r /\ p # r THEN SlotCount(Count[p][r]) ELSE rnext[<<a, p>>]
      /\ \A a, p \in Ranks, k \in Slots :
            rchunk'[<<a, p, k>>] =
                IF a = r /\ p # r /\ k \in SlotsFor(Count[p][r]) THEN k ELSE rchunk[<<a, p, k>>]
  BY DEF PostRecvs
<1>4. \A p \in Ranks : /\ rnext[<<r, p>>] = 0
                       /\ rdone[<<r, p>>] = 0
                       /\ Held(rchunk, r, p) = {}
  <2> SUFFICES ASSUME NEW p \in Ranks
               PROVE  rnext[<<r, p>>] = 0 /\ rdone[<<r, p>>] = 0 /\ Held(rchunk, r, p) = {}
    OBVIOUS
  <2>1. rnext[<<r, p>>] = 0 /\ rdone[<<r, p>>] \in Nat
    BY <1>1 DEF IInv, NotStarted, TypeOK
  <2>2. rdone[<<r, p>>] + Cardinality(Held(rchunk, r, p)) = 0
    BY <2>1 DEF CInv, RecvsCounted
  <2> QED
    BY <2>1, <2>2, NothingHeld
<1>5. RecvsCounted'
  <2> SUFFICES ASSUME NEW a \in Ranks, NEW p \in Ranks
               PROVE  rdone'[<<a, p>>] + Cardinality(Held(rchunk', a, p)) = rnext'[<<a, p>>]
    BY DEF RecvsCounted, Held
  <2>1. CASE a = r /\ p # r
    <3>1. SlotsFor(Count[p][r]) \subseteq Slots /\ SlotCount(Count[p][r]) \in Nat
      BY CountType, SlotsType
    <3>2. Held(rchunk', a, p) = SlotsFor(Count[p][r])
      <4>1. \A k \in Slots : rchunk[<<r, p, k>>] = -1
        BY <1>4 DEF Held
      <4>2. \A k \in Slots : rchunk'[<<r, p, k>>] # -1 <=> k \in SlotsFor(Count[p][r])
        BY <1>3, <2>1, <4>1, CountType, SlotsType
      <4> QED
        BY <2>1, <3>1, <4>2 DEF Held
    <3> QED
      BY <1>2, <1>3, <1>4, <2>1, <3>1, <3>2, CountType, SlotsForCount
  <2>2. CASE ~(a = r /\ p # r)
    <3>1. Held(rchunk', a, p) = Held(rchunk, a, p)
      BY <1>3, <2>2 DEF Held
    <3> QED
      BY <1>2, <1>3, <2>2, <3>1 DEF CInv, RecvsCounted
  <2> QED
    BY <2>1, <2>2
<1>6. RecvSlotHeld'
  <2>1. ASSUME NEW p \in Peers(r), NEW k \in SlotsFor(Count[p][r]), NEW q,
               q = Request(p, r, k, k, k)
        PROVE  rchunk'[<<q.dst, q.src, q.slot>>] = q.chunk /\ q.src # q.dst
    <3>1. p \in Ranks /\ p # r /\ k \in Slots
      BY CountType, SlotsType DEF Peers
    <3> QED
      BY <1>3, <2>1, <3>1, RequestFields
  <2>2. ASSUME NEW q \in recvs
        PROVE  rchunk'[<<q.dst, q.src, q.slot>>] = q.chunk /\ q.src # q.dst
    <3>1. /\ q.dst \in Ranks /\ q.src \in Ranks /\ q.slot \in Slots /\ q.chunk \in Nat
          /\ q.chunk < rnext[<<q.dst, q.src>>]
      BY <1>1 DEF IInv, RecvsPosted, TypeOK, Requests
    <3>2. q.dst # r
      BY <1>4, <3>1
    <3> QED
      BY <1>3, <3>1, <3>2 DEF CInv, RecvSlotHeld
  <2>3. ASSUME NEW q \in A
        PROVE  rchunk'[<<q.dst, q.src, q.slot>>] = q.chunk /\ q.src # q.dst
    BY <2>1
  <2> QED
    BY <1>2, <2>2, <2>3 DEF RecvSlotHeld
<1>7. SendsCounted' /\ SendsUnacked'
  BY <1>2 DEF CInv, SendsCounted, SendsUnacked, Held
<1>8. DoneComplete'
  BY <1>1, <1>2, DoneStable DEF TypeOK
<1>9. UnpackAfterArrival'
  BY <1>2, LandedStable
<1> QED
  BY <1>5, <1>6, <1>7, <1>8, <1>9 DEF CInv

LEMMA StartSendsCounted ==
    ASSUME IInv, CInv, NEW r \in Ranks, StartSends(r)
    PROVE  CInv'
<1> DEFINE p == cursor[r]
<1> DEFINE msgs == {Request(r, p, k, k, k) : k \in SlotsFor(Count[r][p])}
<1>1. TypeOK /\ pc[r] = "start" /\ p \in Ranks
  <2>1. TypeOK /\ pc[r] = "start" /\ p < P
    BY DEF IInv, StartSends
  <2>2. p \in 0 .. P
    BY <2>1 DEF TypeOK
  <2> QED
    BY <2>1, <2>2, Sizes DEF Ranks
<1>2. /\ UNCHANGED <<rchunk, rnext, rdone, unpacked, recvs, landed, sdone>>
      /\ pc' = pc \/ pc' = [pc EXCEPT ![r] = "drainRecv"]
  BY DEF StartSends, recvVars, sendVars
<1>3. \/ p = r /\ UNCHANGED <<schunk, snext, sends, unacked>>
      \/ /\ p # r
         /\ \A a, b \in Ranks, k \in Slots :
                schunk'[<<a, b, k>>] =
                    IF a = r /\ b = p /\ k \in SlotsFor(Count[r][p]) THEN k ELSE schunk[<<a, b, k>>]
         /\ snext' = [snext EXCEPT ![<<r, p>>] = SlotCount(Count[r][p])]
         /\ sends' = sends \cup msgs
         /\ unacked' = IF Buffered THEN unacked ELSE unacked \cup msgs
  BY DEF StartSends, sendVars
<1>4. snext[<<r, p>>] = 0 /\ sdone[<<r, p>>] = 0 /\ Held(schunk, r, p) = {}
  <2>1. snext[<<r, p>>] = 0 /\ sdone[<<r, p>>] \in Nat
    BY <1>1 DEF IInv, NotStarted, TypeOK
  <2>2. sdone[<<r, p>>] + Cardinality(Held(schunk, r, p)) = 0
    BY <1>1, <2>1 DEF CInv, SendsCounted
  <2> QED
    BY <1>1, <2>1, <2>2, NothingHeld
<1>5. SendsCounted'
  <2>1. CASE p = r /\ UNCHANGED <<schunk, snext, sends, unacked>>
    BY <1>2, <2>1 DEF CInv, SendsCounted, Held
  <2>2. CASE ~(p = r /\ UNCHANGED <<schunk, snext, sends, unacked>>)
    <3> SUFFICES ASSUME NEW a \in Ranks, NEW b \in Ranks
                 PROVE  sdone'[<<a, b>>] + Cardinality(Held(schunk', a, b)) = snext'[<<a, b>>]
      BY DEF SendsCounted, Held
    <3>1. /\ \A k \in Slots : schunk'[<<a, b, k>>] =
                 IF a = r /\ b = p /\ k \in SlotsFor(Count[r][p]) THEN k ELSE schunk[<<a, b, k>>]
          /\ snext'[<<a, b>>] = IF a = r /\ b = p THEN SlotCount(Count[r][p]) ELSE snext[<<a, b>>]
      BY <1>1, <1>3, <2>2 DEF TypeOK
    <3>2. CASE a = r /\ b = p
      <4>1. SlotsFor(Count[r][p]) \subseteq Slots /\ SlotCount(Count[r][p]) \in Nat
        BY <1>1, CountType, SlotsType
      <4>2. \A k \in Slots : schunk[<<r, p, k>>] = -1
        BY <1>4 DEF Held
      <4>3. \A k \in Slots : schunk'[<<a, b, k>>] # -1 <=> k \in SlotsFor(Count[r][p])
        BY <1>1, <3>1, <3>2, <4>2, CountType, SlotsType
      <4>4. Held(schunk', a, b) = SlotsFor(Count[r][p])
        BY <4>1, <4>3 DEF Held
      <4> QED
        BY <1>1, <1>2, <1>4, <3>1, <3>2, <4>1, <4>4, CountType, SlotsForCount
    <3>3. CASE ~(a = r /\ b = p)
      <4>1. Held(schunk', a, b) = Held(schunk, a, b)
        BY <3>1, <3>3 DEF Held
      <4> QED
        BY <1>2, <3>1, <3>3, <4>1 DEF CInv, SendsCounted
    <3> QED
      BY <3>2, <3>3
  <2> QED
    BY <2>1, <2>2
<1>6. SendsUnacked'
  BY <1>3 DEF CInv, SendsUnacked
<1>7. RecvsCounted' /\ RecvSlotHeld'
  BY <1>2 DEF CInv, RecvsCounted, RecvSlotHeld, Held
<1>8. DoneComplete'
  BY <1>1, <1>2, DoneStable DEF TypeOK
<1>9. UnpackAfterArrival'
  BY <1>2, LandedStable
<1> QED
  BY <1>5, <1>6, <1>7, <1>8, <1>9 DEF CInv

LEMMA ControlCounted ==
    ASSUME IInv, CInv, NEW r \in Ranks,
           EndStart(r) \/ Loop(r) \/ EndDrainRecv(r) \/ EndDrainSend(r)
    PROVE  CInv'
<1>1. UNCHANGED <<rchunk, rnext, rdone, unpacked, schunk, snext, sdone, recvs, sends, unacked, landed>>
  BY DEF EndStart, Loop, EndDrainRecv, EndDrainSend, recvVars, sendVars, mpiVars
<1>2. \A a \in Ranks : pc'[a] = "done" => pc[a] = "done" \/ ~Pending(a)
  BY DEF EndStart, Loop, EndDrainRecv, EndDrainSend, AfterDrain, IInv, TypeOK
<1>3. \A a \in Ranks : Pending(a)' <=> Pending(a)
  BY <1>1 DEF Pending, RecvPending, SendPending
<1>4. DoneComplete'
  BY <1>2, <1>3 DEF CInv, DoneComplete
<1> QED
  BY <1>1, <1>4
  DEF CInv, RecvsCounted, SendsCounted, RecvSlotHeld, SendsUnacked, UnpackAfterArrival, Held

LEMMA AdvanceRecvCounted ==
    ASSUME IInv, CInv, NEW r \in Ranks, NEW p \in Peers(r), NEW k \in Slots,
           TestRecv(r, p, k) \/ WaitRecv(r, p, k)
    PROVE  CInv'
<1> DEFINE next == rnext[<<r, p>>]
<1>1. TypeOK /\ p \in Ranks /\ p # r /\ next \in Nat /\ AdvanceRecv(r, p, k) /\ RecvReady(r, p, k)
  BY DEF IInv, TypeOK, Peers, TestRecv, WaitRecv, AdvanceRecv
<1>2. /\ UNCHANGED <<schunk, snext, sdone, sends, unacked, landed>>
      /\ pc[r] \in {"drainRecv", "waitRecv"}
      /\ pc' = pc \/ pc' = [pc EXCEPT ![r] = "loop"]
  BY DEF TestRecv, WaitRecv, sendVars
<1>3. PICK c \in Nat \cup {-1} :
          /\ rchunk' = [rchunk EXCEPT ![<<r, p, k>>] = c]
          /\ c = -1 => rnext' = rnext /\ recvs' = recvs
          /\ c # -1 => /\ c = next
                       /\ rnext' = [rnext EXCEPT ![<<r, p>>] = next + 1]
                       /\ recvs' = recvs \cup {Request(p, r, next, next, k)}
  <2>1. CASE More(next, Count[p][r])
    BY <1>1, <2>1 DEF AdvanceRecv
  <2>2. CASE ~More(next, Count[p][r])
    BY <1>1, <2>2 DEF AdvanceRecv
  <2> QED
    BY <2>1, <2>2
<1>4. rdone' = [rdone EXCEPT ![<<r, p>>] = rdone[<<r, p>>] + 1] /\ rdone[<<r, p>>] \in Nat
  BY <1>1 DEF AdvanceRecv, TypeOK
<1>5. rchunk \in [Ranks \X Ranks \X Slots -> Nat \cup {-1}] /\ rchunk[<<r, p, k>>] # -1
  BY <1>1 DEF TypeOK, RecvReady
<1>6. RecvsCounted'
  <2> SUFFICES ASSUME NEW a \in Ranks, NEW b \in Ranks
               PROVE  rdone'[<<a, b>>] + Cardinality(Held(rchunk', a, b)) = rnext'[<<a, b>>]
    BY DEF RecvsCounted, Held
  <2>1. rdone[<<a, b>>] + Cardinality(Held(rchunk, a, b)) = rnext[<<a, b>>]
    BY DEF CInv, RecvsCounted
  <2>2. /\ c # -1 => Cardinality(Held(rchunk', r, p)) = Cardinality(Held(rchunk, r, p))
        /\ c = -1 => Cardinality(Held(rchunk', r, p)) = Cardinality(Held(rchunk, r, p)) - 1
        /\ ~(a = r /\ b = p) => Held(rchunk', a, b) = Held(rchunk, a, b)
    <3>1. \A i, j \in Ranks, x \in Slots :
              rchunk'[<<i, j, x>>] = IF i = r /\ j = p /\ x = k THEN c ELSE rchunk[<<i, j, x>>]
      BY <1>1, <1>3, <1>5
    <3>2. c # -1 => Held(rchunk', r, p) = Held(rchunk, r, p)
      BY <1>1, <1>5, <3>1 DEF Held
    <3>3. c = -1 => Held(rchunk', r, p) = Held(rchunk, r, p) \ {k}
      BY <1>1, <1>5, <3>1 DEF Held
    <3>4. ~(a = r /\ b = p) => Held(rchunk', a, b) = Held(rchunk, a, b)
      BY <3>1 DEF Held
    <3>5. k \in Held(rchunk, r, p) /\ IsFiniteSet(Held(rchunk, r, p))
      BY <1>5, HeldType DEF Held
    <3>6. Cardinality(Held(rchunk, r, p) \ {k}) = Cardinality(Held(rchunk, r, p)) - 1
      BY <3>5, FS_RemoveElement
    <3> QED
      BY <3>2, <3>3, <3>4, <3>6
  <2>3. /\ rdone'[<<a, b>>] = IF a = r /\ b = p THEN rdone[<<a, b>>] + 1 ELSE rdone[<<a, b>>]
        /\ rnext'[<<a, b>>] = IF a = r /\ b = p /\ c # -1 THEN rnext[<<a, b>>] + 1 ELSE rnext[<<a, b>>]
    BY <1>1, <1>3, <1>4 DEF TypeOK
  <2>4. /\ Cardinality(Held(rchunk, a, b)) \in Nat
        /\ rdone[<<a, b>>] \in Nat /\ rnext[<<a, b>>] \in Nat
    BY <1>1, HeldType DEF Held, TypeOK
  <2>5. CASE a = r /\ b = p
    BY <2>1, <2>2, <2>3, <2>4, <2>5
  <2>6. CASE ~(a = r /\ b = p)
    BY <2>1, <2>2, <2>3, <2>6
  <2> QED
    BY <2>5, <2>6
<1>7. RecvSlotHeld'
  <2>1. ASSUME NEW q \in recvs
        PROVE  rchunk'[<<q.dst, q.src, q.slot>>] = q.chunk /\ q.src # q.dst
    <3>1. q.dst \in Ranks /\ q.src \in Ranks /\ q.slot \in Slots
      BY <1>1 DEF TypeOK, Requests
    <3>2. ~(q.dst = r /\ q.src = p /\ q.slot = k)
      BY <1>1 DEF RecvReady
    <3>3. rchunk'[<<q.dst, q.src, q.slot>>] = rchunk[<<q.dst, q.src, q.slot>>]
      BY <1>3, <1>5, <3>1, <3>2
    <3> QED
      BY <3>3 DEF CInv, RecvSlotHeld
  <2>2. ASSUME c # -1, NEW q, q = Request(p, r, next, next, k)
        PROVE  rchunk'[<<q.dst, q.src, q.slot>>] = q.chunk /\ q.src # q.dst
    BY <1>1, <1>3, <1>5, <2>2, RequestFields
  <2>3. ASSUME NEW q \in recvs', q \notin recvs
        PROVE  c # -1 /\ q = Request(p, r, next, next, k)
    BY <1>3, <2>3
  <2> QED
    BY <2>1, <2>2, <2>3 DEF RecvSlotHeld
<1>8. SendsCounted' /\ SendsUnacked'
  BY <1>2 DEF CInv, SendsCounted, SendsUnacked, Held
<1>9. DoneComplete'
  <2>1. /\ pc'[r] # "done"
        /\ \A a \in Ranks : a # r => pc'[a] = pc[a]
    BY <1>1, <1>2 DEF TypeOK
  <2>2. \A a, b \in Ranks : a # r => /\ rdone'[<<a, b>>] = rdone[<<a, b>>]
                                     /\ sdone'[<<a, b>>] = sdone[<<a, b>>]
    BY <1>1, <1>2, <1>4 DEF TypeOK
  <2> QED
    BY <2>1, <2>2, DoneStable
<1>10. UnpackAfterArrival'
  <2>1. CASE UnpackPeer /\ LastChunk(r, p)
    <3>1. unpacked' = unpacked \cup {<<r, p, c0>> : c0 \in 0 .. Count[p][r] - 1}
      BY <1>1, <2>1 DEF AdvanceRecv
    <3>2. \A c0 \in 0 .. Count[p][r] - 1 : Landed(p, r, c0)
      BY <1>1, <2>1, LastChunkLanded
    <3>3. \A u \in unpacked : \E l \in landed : l.dst = u[1] /\ l.src = u[2] /\ l.want = u[3]
      BY DEF CInv, UnpackAfterArrival
    <3>4. \A u \in {<<r, p, c0>> : c0 \in 0 .. Count[p][r] - 1} :
              \E l \in landed : l.dst = u[1] /\ l.src = u[2] /\ l.want = u[3]
      BY <3>2 DEF Landed
    <3> QED
      BY <1>2, <3>1, <3>3, <3>4 DEF UnpackAfterArrival
  <2>2. CASE ~(UnpackPeer /\ LastChunk(r, p))
    <3>1. unpacked' = unpacked
      BY <1>1, <2>2 DEF AdvanceRecv
    <3> QED
      BY <1>2, <3>1, LandedStable
  <2> QED
    BY <2>1, <2>2
<1> QED
  BY <1>6, <1>7, <1>8, <1>9, <1>10 DEF CInv

LEMMA AdvanceSendCounted ==
    ASSUME IInv, CInv, NEW r \in Ranks, NEW p \in Peers(r), NEW k \in Slots,
           TestSend(r, p, k) \/ WaitSend(r, p, k)
    PROVE  CInv'
<1> DEFINE next == snext[<<r, p>>]
<1> DEFINE msg == Request(r, p, next, next, k)
<1>1. TypeOK /\ p \in Ranks /\ p # r /\ next \in Nat /\ AdvanceSend(r, p, k)
  BY DEF IInv, TypeOK, Peers, TestSend, WaitSend
<1>2. /\ UNCHANGED <<rchunk, rnext, rdone, unpacked, recvs, landed>>
      /\ pc[r] \in {"drainSend", "waitSend"}
      /\ pc' = pc \/ pc' = [pc EXCEPT ![r] = "loop"]
  BY DEF TestSend, WaitSend, recvVars
<1>3. PICK c \in Nat \cup {-1} :
          /\ schunk' = [schunk EXCEPT ![<<r, p, k>>] = c]
          /\ c = -1 => UNCHANGED <<snext, sends, unacked>>
          /\ c # -1 => /\ snext' = [snext EXCEPT ![<<r, p>>] = next + 1]
                       /\ sends' = sends \cup {msg}
                       /\ unacked' = IF Buffered THEN unacked ELSE unacked \cup {msg}
  <2>1. CASE More(next, Count[r][p])
    BY <1>1, <2>1 DEF AdvanceSend
  <2>2. CASE ~More(next, Count[r][p])
    BY <1>1, <2>2 DEF AdvanceSend
  <2> QED
    BY <2>1, <2>2
<1>4. sdone' = [sdone EXCEPT ![<<r, p>>] = sdone[<<r, p>>] + 1] /\ sdone[<<r, p>>] \in Nat
  BY <1>1 DEF AdvanceSend, TypeOK
<1>5. schunk \in [Ranks \X Ranks \X Slots -> Nat \cup {-1}] /\ schunk[<<r, p, k>>] # -1
  BY <1>1 DEF TypeOK, AdvanceSend, SendReady
<1>6. SendsCounted'
  <2> SUFFICES ASSUME NEW a \in Ranks, NEW b \in Ranks
               PROVE  sdone'[<<a, b>>] + Cardinality(Held(schunk', a, b)) = snext'[<<a, b>>]
    BY DEF SendsCounted, Held
  <2>1. sdone[<<a, b>>] + Cardinality(Held(schunk, a, b)) = snext[<<a, b>>]
    BY DEF CInv, SendsCounted
  <2>2. /\ c # -1 => Cardinality(Held(schunk', r, p)) = Cardinality(Held(schunk, r, p))
        /\ c = -1 => Cardinality(Held(schunk', r, p)) = Cardinality(Held(schunk, r, p)) - 1
        /\ ~(a = r /\ b = p) => Held(schunk', a, b) = Held(schunk, a, b)
    <3>1. \A i, j \in Ranks, x \in Slots :
              schunk'[<<i, j, x>>] = IF i = r /\ j = p /\ x = k THEN c ELSE schunk[<<i, j, x>>]
      BY <1>1, <1>3, <1>5
    <3>2. c # -1 => Held(schunk', r, p) = Held(schunk, r, p)
      BY <1>1, <1>5, <3>1 DEF Held
    <3>3. c = -1 => Held(schunk', r, p) = Held(schunk, r, p) \ {k}
      BY <1>1, <1>5, <3>1 DEF Held
    <3>4. ~(a = r /\ b = p) => Held(schunk', a, b) = Held(schunk, a, b)
      BY <3>1 DEF Held
    <3>5. k \in Held(schunk, r, p) /\ IsFiniteSet(Held(schunk, r, p))
      BY <1>5, HeldType DEF Held
    <3>6. Cardinality(Held(schunk, r, p) \ {k}) = Cardinality(Held(schunk, r, p)) - 1
      BY <3>5, FS_RemoveElement
    <3> QED
      BY <3>2, <3>3, <3>4, <3>6
  <2>3. /\ sdone'[<<a, b>>] = IF a = r /\ b = p THEN sdone[<<a, b>>] + 1 ELSE sdone[<<a, b>>]
        /\ snext'[<<a, b>>] = IF a = r /\ b = p /\ c # -1 THEN snext[<<a, b>>] + 1 ELSE snext[<<a, b>>]
    BY <1>1, <1>3, <1>4 DEF TypeOK
  <2>4. /\ Cardinality(Held(schunk, a, b)) \in Nat
        /\ sdone[<<a, b>>] \in Nat /\ snext[<<a, b>>] \in Nat
    BY <1>1, HeldType DEF Held, TypeOK
  <2>5. CASE a = r /\ b = p
    BY <2>1, <2>2, <2>3, <2>4, <2>5
  <2>6. CASE ~(a = r /\ b = p)
    BY <2>1, <2>2, <2>3, <2>6
  <2> QED
    BY <2>5, <2>6
<1>7. SendsUnacked'
  BY <1>3 DEF CInv, SendsUnacked
<1>8. RecvsCounted' /\ RecvSlotHeld'
  BY <1>2 DEF CInv, RecvsCounted, RecvSlotHeld, Held
<1>9. DoneComplete'
  <2>1. /\ pc'[r] # "done"
        /\ \A a \in Ranks : a # r => pc'[a] = pc[a]
    BY <1>1, <1>2 DEF TypeOK
  <2>2. \A a, b \in Ranks : a # r => /\ rdone'[<<a, b>>] = rdone[<<a, b>>]
                                     /\ sdone'[<<a, b>>] = sdone[<<a, b>>]
    BY <1>1, <1>2, <1>4 DEF TypeOK
  <2> QED
    BY <2>1, <2>2, DoneStable
<1>10. UnpackAfterArrival'
  BY <1>2, LandedStable
<1> QED
  BY <1>6, <1>7, <1>8, <1>9, <1>10 DEF CInv

LEMMA MpiCounted ==
    ASSUME IInv, CInv, Match \/ Acknowledge
    PROVE  CInv'
<1>1. /\ UNCHANGED <<pc, rchunk, rnext, rdone, unpacked, schunk, snext, sdone>>
      /\ recvs' \subseteq recvs /\ landed \subseteq landed'
  BY DEF Match, Acknowledge, rankVars, recvVars, sendVars
<1>2. SendsUnacked'
  BY DEF CInv, SendsUnacked, Match, Acknowledge
<1>3. RecvSlotHeld'
  BY <1>1 DEF CInv, RecvSlotHeld
<1>4. DoneComplete'
  BY <1>1 DEF CInv, DoneComplete, Pending, RecvPending, SendPending
<1> QED
  BY <1>1, <1>2, <1>3, <1>4, LandedStable DEF CInv, RecvsCounted, SendsCounted, Held

-----------------------------------------------------------------------------

LEMMA CountedInit == Init => CInv
<1> SUFFICES ASSUME Init PROVE CInv
  OBVIOUS
<1>1. \A r, p \in Ranks : Held(rchunk, r, p) = {} /\ Held(schunk, r, p) = {}
  BY DEF Init, Held
<1>2. \A r, p \in Ranks : /\ rdone[<<r, p>>] = 0 /\ rnext[<<r, p>>] = 0
                          /\ sdone[<<r, p>>] = 0 /\ snext[<<r, p>>] = 0
  BY DEF Init
<1>3. RecvsCounted /\ SendsCounted
  BY <1>1, <1>2, FS_EmptySet DEF RecvsCounted, SendsCounted
<1> QED
  BY <1>3 DEF Init, CInv, RecvSlotHeld, SendsUnacked, DoneComplete, UnpackAfterArrival

LEMMA CountedStep == IInv /\ CInv /\ [Next]_vars => CInv'
<1> SUFFICES ASSUME IInv, CInv, [Next]_vars PROVE CInv'
  OBVIOUS
<1>1. ASSUME NEW r \in Ranks, RankStep(r) PROVE CInv'
  BY <1>1, PostRecvsCounted, StartSendsCounted, ControlCounted, AdvanceRecvCounted,
     AdvanceSendCounted DEF RankStep
<1>2. CASE Match \/ Acknowledge
  BY <1>2, MpiCounted
<1>3. CASE UNCHANGED vars
  BY <1>3 DEF vars, rankVars, recvVars, sendVars, mpiVars, CInv, RecvsCounted, SendsCounted, Held,
       RecvSlotHeld, SendsUnacked, DoneComplete, Pending, RecvPending, SendPending, UnpackAfterArrival
<1> QED
  BY <1>1, <1>2, <1>3 DEF Next, Finished

LEMMA CountedInvariant == Spec => [](IInv /\ CInv)
<1>1. Init => IInv /\ CInv
  BY InvInit, CountedInit
<1>2. IInv /\ CInv /\ [Next]_vars => (IInv /\ CInv)'
  BY InvStep, CountedStep
<1> QED
  BY <1>1, <1>2, PTL DEF Spec

\* The backward path unpacks a peer's payload when it counts the peer's last
\* completion: by then every chunk of the peer has landed, in whatever order MPI
\* reported them (run_slab_wz_communication_backward_..._windowed_).
THEOREM UnpackAfterArrivalCorrect == Spec => []UnpackAfterArrival
<1>1. CInv => UnpackAfterArrival
  BY DEF CInv
<1> QED
  BY <1>1, CountedInvariant, PTL

-----------------------------------------------------------------------------
(***************************************************************************)
(* The refinement of Exchange.  A match places a piece, the head of the    *)
(* loop with both windows complete returns, every other step stutters.     *)
(***************************************************************************)

\* The abstract variables, as the instance Delivery reads them.
Placed == {<<<<l.src, l.dst, l.got>>, <<l.src, l.dst, l.want>>>> : l \in landed}
ReturnedRanks == {r \in Ranks : pc[r] = "done"}

\* A chunk that has landed is a piece in its own place.
LEMMA PlacedIfLanded ==
    ASSUME InPlace, NEW s, NEW d, NEW c
    PROVE  <<<<s, d, c>>, <<s, d, c>>>> \in Placed <=> Landed(s, d, c)
  BY DEF InPlace, Placed, Landed

LEMMA OwedChunk ==
    ASSUME NEW piece
    PROVE  piece \in Owed <=>
               \E s, d \in Ranks : /\ s # d
                                   /\ \E c \in 0 .. Count[s][d] - 1 : piece = <<s, d, c>>
<1>1. ASSUME piece \in Owed
      PROVE  \E s, d \in Ranks : s # d /\ \E c \in 0 .. Count[s][d] - 1 : piece = <<s, d, c>>
  <2>1. PICK pair \in Ranks \X Ranks :
            /\ pair[1] # pair[2]
            /\ piece \in {<<pair[1], pair[2], c>> : c \in 0 .. Count[pair[1]][pair[2]] - 1}
    BY <1>1 DEF Owed
  <2> QED
    BY <2>1
<1>2. ASSUME NEW s \in Ranks, NEW d \in Ranks, s # d,
             NEW c \in 0 .. Count[s][d] - 1, piece = <<s, d, c>>
      PROVE  piece \in Owed
  <2> DEFINE pair == <<s, d>>
  <2>1. pair \in {x \in Ranks \X Ranks : x[1] # x[2]}
    BY <1>2
  <2>2. piece \in {<<pair[1], pair[2], i>> : i \in 0 .. Count[pair[1]][pair[2]] - 1}
    BY <1>2
  <2> QED
    BY <2>1, <2>2 DEF Owed
<1> QED
  BY <1>1, <1>2

LEMMA MatchPlaces ==
    ASSUME IInv, CInv, Match
    PROVE  /\ ReturnedRanks' = ReturnedRanks
           /\ \E piece \in Owed : /\ piece[2] \notin ReturnedRanks
                                  /\ <<piece, piece>> \notin Placed
                                  /\ Placed' = Placed \cup {<<piece, piece>>}
<1>1. PICK m \in sends, q \in recvs :
          /\ Matching(m, q, sends, recvs)
          /\ landed' = landed \cup {[src |-> q.src, dst |-> q.dst, want |-> q.chunk, got |-> m.chunk]}
          /\ pc' = pc
  BY DEF Match, rankVars
<1>2. m.chunk = q.chunk
  BY <1>1, MatchedChunk
<1>3. /\ q.src \in Ranks /\ q.dst \in Ranks /\ q.src # q.dst /\ q.chunk \in Nat
      /\ q.chunk < Count[q.src][q.dst]
  <2>1. /\ q.src \in Ranks /\ q.dst \in Ranks /\ q.chunk \in Nat
        /\ rnext[<<q.dst, q.src>>] \in Nat /\ Count[q.src][q.dst] \in Nat
        /\ rnext[<<q.dst, q.src>>] <= Count[q.src][q.dst]
    BY CountType DEF IInv, TypeOK, Requests
  <2>2. q.chunk < rnext[<<q.dst, q.src>>] /\ q.src # q.dst
    BY DEF IInv, RecvsPosted, CInv, RecvSlotHeld
  <2> QED
    BY <2>1, <2>2
<1> DEFINE piece == <<q.src, q.dst, q.chunk>>
<1>4. piece \in Owed
  <2>1. q.chunk \in 0 .. Count[q.src][q.dst] - 1
    BY <1>3, CountType
  <2> QED
    BY <1>3, <2>1, OwedChunk
<1>5. q.dst \notin ReturnedRanks
  <2> SUFFICES ASSUME pc[q.dst] = "done" PROVE FALSE
    BY DEF ReturnedRanks
  <2>1. ~Pending(q.dst) /\ q.src \in Peers(q.dst)
    BY <1>3 DEF CInv, DoneComplete, Peers
  <2> QED
    BY <1>3, <2>1, CompleteWindow
<1>6. <<piece, piece>> \notin Placed
  BY PlacedIfLanded DEF IInv, RecvsFresh
<1>7. Placed' = Placed \cup {<<piece, piece>>}
  <2> DEFINE l0 == [src |-> q.src, dst |-> q.dst, want |-> q.chunk, got |-> m.chunk]
  <2>1. <<<<l0.src, l0.dst, l0.got>>, <<l0.src, l0.dst, l0.want>>>> = <<piece, piece>>
    BY <1>2
  <2>2. landed' = landed \cup {l0}
    BY <1>1
  <2> HIDE DEF l0, piece
  <2> QED
    BY <2>1, <2>2 DEF Placed
<1>8. ReturnedRanks' = ReturnedRanks
  BY <1>1 DEF ReturnedRanks
<1> QED
  BY <1>4, <1>5, <1>6, <1>7, <1>8

LEMMA LoopReturns ==
    ASSUME IInv, CInv, NEW r \in Ranks, Loop(r)
    PROVE  /\ Placed' = Placed
           /\ \/ ReturnedRanks' = ReturnedRanks
              \/ /\ r \notin ReturnedRanks
                 /\ \A piece \in Owed :
                        piece[2] = r \/ (piece[1] = r /\ ~Buffered) => <<piece, piece>> \in Placed
                 /\ ReturnedRanks' = ReturnedRanks \cup {r}
<1>1. /\ landed' = landed /\ pc[r] = "loop" /\ pc \in [Ranks -> Phases]
      /\ pc' = [pc EXCEPT ![r] = IF Pending(r) THEN "drainRecv" ELSE "done"]
  BY DEF Loop, mpiVars, IInv, TypeOK
<1>2. Placed' = Placed
  BY <1>1 DEF Placed
<1>3. CASE Pending(r)
  <2>1. ReturnedRanks' = ReturnedRanks
    BY <1>1, <1>3 DEF ReturnedRanks
  <2> QED
    BY <1>2, <2>1
<1>4. CASE ~Pending(r)
  <2>1. r \notin ReturnedRanks /\ ReturnedRanks' = ReturnedRanks \cup {r}
    BY <1>1, <1>4 DEF ReturnedRanks
  <2>2. ASSUME NEW piece \in Owed, piece[2] = r \/ (piece[1] = r /\ ~Buffered)
        PROVE  <<piece, piece>> \in Placed
    <3>1. PICK s \in Ranks, d \in Ranks :
              s # d /\ \E c \in 0 .. Count[s][d] - 1 : piece = <<s, d, c>>
      BY OwedChunk
    <3>2. PICK c \in 0 .. Count[s][d] - 1 : piece = <<s, d, c>>
      BY <3>1
    <3>3. Landed(s, d, c)
      <4>1. CASE d = r
        BY <1>4, <3>1, <4>1, CompleteWindow DEF Peers
      <4>2. CASE s = r /\ ~Buffered
        BY <1>4, <3>1, <4>2, CompleteWindow DEF Peers
      <4> QED
        BY <2>2, <3>2, <4>1, <4>2
    <3> QED
      BY <3>2, <3>3, PlacedIfLanded DEF IInv
  <2> QED
    BY <1>2, <2>1, <2>2
<1> QED
  BY <1>3, <1>4

LEMMA OtherStutter ==
    ASSUME IInv, NEW r \in Ranks, RankStep(r), ~Loop(r)
    PROVE  Placed' = Placed /\ ReturnedRanks' = ReturnedRanks
<1>1. landed' = landed
  BY DEF RankStep, PostRecvs, StartSends, EndStart, EndDrainRecv, EndDrainSend, TestRecv, TestSend,
       WaitRecv, WaitSend, mpiVars
<1>2. pc[r] # "done" /\ (pc' = pc \/ \E phase : phase # "done" /\ pc' = [pc EXCEPT ![r] = phase])
  <2>1. CASE PostRecvs(r) \/ StartSends(r) \/ EndStart(r)
    BY <2>1 DEF PostRecvs, StartSends, EndStart
  <2>2. CASE EndDrainRecv(r)
    BY <2>2 DEF EndDrainRecv
  <2>3. CASE EndDrainSend(r)
    BY <2>3 DEF EndDrainSend, AfterDrain
  <2>4. CASE \E p \in Peers(r), k \in Slots :
                 TestRecv(r, p, k) \/ TestSend(r, p, k) \/ WaitRecv(r, p, k) \/ WaitSend(r, p, k)
    BY <2>4 DEF TestRecv, TestSend, WaitRecv, WaitSend
  <2> QED
    BY <2>1, <2>2, <2>3, <2>4 DEF RankStep
<1>3. pc \in [Ranks -> Phases]
  BY DEF IInv, TypeOK
<1>4. ReturnedRanks' = ReturnedRanks
  BY <1>2, <1>3 DEF ReturnedRanks
<1> QED
  BY <1>1, <1>4 DEF Placed

LEMMA RefinementStep ==
    ASSUME IInv, CInv, [Next]_vars
    PROVE  [Delivery!Next]_<<Placed, ReturnedRanks>>
<1>1. CASE Match
  BY <1>1, MatchPlaces DEF Delivery!Next, Delivery!Place, Placed, ReturnedRanks
<1>2. ASSUME NEW r \in Ranks, Loop(r) PROVE [Delivery!Next]_<<Placed, ReturnedRanks>>
  BY <1>2, LoopReturns DEF Delivery!Next, Delivery!Return, Placed, ReturnedRanks
<1>3. ASSUME NEW r \in Ranks, RankStep(r), ~Loop(r) PROVE [Delivery!Next]_<<Placed, ReturnedRanks>>
  BY <1>3, OtherStutter
<1>4. CASE Acknowledge \/ UNCHANGED vars
  <2>1. pc' = pc /\ landed' = landed
    BY <1>4 DEF Acknowledge, vars, rankVars, mpiVars
  <2> QED
    BY <2>1 DEF Placed, ReturnedRanks
<1> QED
  BY <1>1, <1>2, <1>3, <1>4 DEF Next, Finished

\* The windowed schedule delivers what Exchange promises: each chunk a rank owes
\* is placed once, in its own place, before its receiver returns, and a rank
\* returns only when its receives, and without buffering its sends, are done.
THEOREM DeliveryCorrect == Spec => DeliverySpec
<1>1. Init => Delivery!Init
  BY DEF Init, Delivery!Init
<1>2. IInv /\ CInv /\ [Next]_vars => [Delivery!Next]_Delivery!vars
  BY RefinementStep DEF Delivery!vars, Placed, ReturnedRanks
<1> QED
  BY <1>1, <1>2, CountedInvariant, PTL DEF Spec, DeliverySpec, Delivery!Spec

=============================================================================
