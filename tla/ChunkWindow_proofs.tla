-------------------------- MODULE ChunkWindow_proofs --------------------------
(***************************************************************************)
(* Proofs about the windowed exchange, for any number of ranks, any window *)
(* and any chunk counts.  The argument for InPlace does not look into the  *)
(* arithmetic of the tags: chunks are posted in order on both sides, every *)
(* posted chunk is either waiting in MPI or landed, and so the oldest send *)
(* and the oldest receive of one tag carry the same chunk.                 *)
(***************************************************************************)
EXTENDS ChunkWindow, TLAPS

-----------------------------------------------------------------------------
(***************************************************************************)
(* The inductive invariant.                                                *)
(***************************************************************************)

\* A request carries its chunk's tag and its place in the order of posting.
Ordered(q) == q.order = q.chunk /\ q.tag = Tag(q.src, q.dst, q.chunk)

\* A chunk that is waiting, or has landed, was posted before.
RecvsPosted == \A q \in recvs : Ordered(q) /\ q.chunk < rnext[<<q.dst, q.src>>]
SendsPosted == \A m \in sends : Ordered(m) /\ m.chunk < snext[<<m.src, m.dst>>]
LandedPosted ==
    \A l \in landed :
        /\ l.want < rnext[<<l.dst, l.src>>]
        /\ l.got < snext[<<l.src, l.dst>>]

\* The chunk has landed in its place.
Landed(s, d, c) == \E l \in landed : l.src = s /\ l.dst = d /\ l.want = c

\* A chunk that was posted is waiting or has landed.
RecvsCovered ==
    \A s, d \in Ranks, c \in Nat : c < rnext[<<d, s>>] =>
        (\E q \in recvs : q.src = s /\ q.dst = d /\ q.chunk = c) \/ Landed(s, d, c)
SendsCovered ==
    \A s, d \in Ranks, c \in Nat : c < snext[<<s, d>>] =>
        (\E m \in sends : m.src = s /\ m.dst = d /\ m.chunk = c) \/ Landed(s, d, c)

\* A chunk waits once.
SameChunk(a, b) == a.src = b.src /\ a.dst = b.dst /\ a.chunk = b.chunk
RecvsOnce == \A a, b \in recvs : SameChunk(a, b) => a = b
SendsOnce == \A a, b \in sends : SameChunk(a, b) => a = b

\* It does not wait any more once it has landed.
RecvsFresh == \A q \in recvs : ~Landed(q.src, q.dst, q.chunk)
SendsFresh == \A m \in sends : ~Landed(m.src, m.dst, m.chunk)

\* What a rank has not started yet has posted nothing.
NotStarted ==
    \A r, p \in Ranks :
        /\ pc[r] = "postRecv" => rnext[<<r, p>>] = 0
        /\ p > cursor[r] => snext[<<r, p>>] = 0
        /\ p = cursor[r] /\ pc[r] \in {"postRecv", "start"} => snext[<<r, p>>] = 0

\* A slot holds a posted chunk, and a send MPI may still read is its slot's.
SlotsPosted == \A r, p \in Ranks, k \in Slots : schunk[<<r, p, k>>] < snext[<<r, p>>]
UnackedPosted == \A m \in unacked : m.chunk < snext[<<m.src, m.dst>>]

IInv ==
    /\ TypeOK
    /\ InPlace
    /\ RecvsPosted /\ SendsPosted /\ LandedPosted
    /\ RecvsCovered /\ SendsCovered
    /\ RecvsOnce /\ SendsOnce
    /\ RecvsFresh /\ SendsFresh
    /\ NotStarted
    /\ SlotsPosted /\ UnackedPosted /\ SendSlotHeld

-----------------------------------------------------------------------------

LEMMA Sizes == P \in Nat /\ W \in Nat /\ W > 0
  BY WindowAssumption

\* The tags of a window are natural numbers.
LEMMA TagType ==
    ASSUME NEW s \in Ranks, NEW d \in Ranks, NEW c \in Nat
    PROVE  Tag(s, d, c) \in Nat
<1>1. c % W \in Nat
  BY WindowAssumption
<1>2. P * (c % W) \in Nat
  BY <1>1, WindowAssumption
<1>3. s \in Nat /\ d \in Nat
  BY WindowAssumption DEF Ranks
<1> QED
  BY <1>2, <1>3 DEF Tag

LEMMA RequestType ==
    ASSUME NEW s \in Ranks, NEW d \in Ranks, NEW o \in Nat, NEW c \in Nat, NEW k \in Slots
    PROVE  Request(s, d, o, c, k) \in Requests
  BY TagType DEF Request, Requests

\* A peer has at most W slots, and no more than chunks.
LEMMA SlotsType ==
    ASSUME NEW n \in Nat
    PROVE  /\ SlotCount(n) \in Nat
           /\ SlotCount(n) <= n
           /\ SlotsFor(n) \subseteq Slots
           /\ \A k \in SlotsFor(n) : k \in Nat /\ k < SlotCount(n)
  BY WindowAssumption DEF SlotCount, SlotsFor, Slots

LEMMA CountType == \A s, d \in Ranks : Count[s][d] \in Nat
  BY WindowAssumption

LEMMA TypeInit == Init => TypeOK
<1> SUFFICES ASSUME Init PROVE TypeOK
  OBVIOUS
<1>1. pc \in [Ranks -> Phases] /\ cursor \in [Ranks -> 0 .. P] /\ progressed \in [Ranks -> BOOLEAN]
  BY WindowAssumption DEF Init, Phases
<1>2. /\ rchunk \in [Ranks \X Ranks \X Slots -> Nat \cup {-1}]
      /\ schunk \in [Ranks \X Ranks \X Slots -> Nat \cup {-1}]
  BY DEF Init
<1>3. /\ rnext \in [Ranks \X Ranks -> Nat]
      /\ snext \in [Ranks \X Ranks -> Nat]
      /\ rdone \in [Ranks \X Ranks -> Nat]
      /\ sdone \in [Ranks \X Ranks -> Nat]
  BY DEF Init
<1>4. \A r, p \in Ranks : rnext[<<r, p>>] <= Count[p][r] /\ snext[<<r, p>>] <= Count[r][p]
  BY CountType DEF Init
<1> QED
  BY <1>1, <1>2, <1>3, <1>4 DEF Init, TypeOK

LEMMA PostRecvsType ==
    ASSUME TypeOK, NEW r \in Ranks, PostRecvs(r)
    PROVE  TypeOK'
<1>1. pc' \in [Ranks -> Phases]
  BY DEF PostRecvs, TypeOK, Phases
<1>2. rchunk' \in [Ranks \X Ranks \X Slots -> Nat \cup {-1}]
  BY WindowAssumption DEF PostRecvs, TypeOK, Slots
<1>3. rnext' \in [Ranks \X Ranks -> Nat]
  BY CountType, SlotsType DEF PostRecvs, TypeOK
<1>4. \A a, p \in Ranks : rnext'[<<a, p>>] <= Count[p][a]
  BY CountType, SlotsType DEF PostRecvs, TypeOK
<1>5. recvs' \subseteq Requests
  <2>1. \A p \in Peers(r) : \A k \in SlotsFor(Count[p][r]) : Request(p, r, k, k, k) \in Requests
    BY CountType, SlotsType, RequestType DEF Peers
  <2> QED
    BY <2>1 DEF PostRecvs, TypeOK
<1> QED
  BY <1>1, <1>2, <1>3, <1>4, <1>5 DEF PostRecvs, TypeOK, sendVars

LEMMA StartSendsType ==
    ASSUME TypeOK, NEW r \in Ranks, StartSends(r)
    PROVE  TypeOK'
<1> DEFINE p == cursor[r]
<1> DEFINE msgs == {Request(r, p, k, k, k) : k \in SlotsFor(Count[r][p])}
<1>1. p \in Ranks
  BY WindowAssumption DEF StartSends, TypeOK, Ranks
<1>2. msgs \subseteq Requests
  BY <1>1, CountType, SlotsType, RequestType
<1>3. pc' \in [Ranks -> Phases] /\ cursor' \in [Ranks -> 0 .. P]
  <2>1. pc \in [Ranks -> Phases] /\ cursor \in [Ranks -> 0 .. P]
    BY DEF TypeOK
  <2>2. pc' = pc \/ pc' = [pc EXCEPT ![r] = "drainRecv"]
    BY DEF StartSends
  <2>3. cursor' = cursor \/ cursor' = [cursor EXCEPT ![r] = p + 1]
    BY DEF StartSends
  <2>4. p + 1 \in 0 .. P
    <3>1. \A i \in Ranks : i + 1 \in 0 .. P
      BY Sizes DEF Ranks
    <3> QED
      BY <1>1, <3>1
  <2>5. pc' \in [Ranks -> Phases]
    BY <2>1, <2>2 DEF Phases
  <2> QED
    BY <2>1, <2>3, <2>4, <2>5
<1>4. schunk' \in [Ranks \X Ranks \X Slots -> Nat \cup {-1}]
  BY <1>1, CountType, SlotsType DEF StartSends, TypeOK, sendVars
<1>5. snext' \in [Ranks \X Ranks -> Nat] /\ sdone' \in [Ranks \X Ranks -> Nat]
  <2>1. /\ snext' = snext \/ snext' = [snext EXCEPT ![<<r, p>>] = SlotCount(Count[r][p])]
        /\ sdone' = sdone
    BY DEF StartSends, sendVars
  <2>2. SlotCount(Count[r][p]) \in Nat
    BY <1>1, CountType, SlotsType
  <2>3. snext \in [Ranks \X Ranks -> Nat] /\ sdone \in [Ranks \X Ranks -> Nat]
    BY DEF TypeOK
  <2> QED
    BY <2>1, <2>2, <2>3
<1>6. \A a, b \in Ranks : snext'[<<a, b>>] <= Count[a][b]
  <2>1. /\ snext \in [Ranks \X Ranks -> Nat]
        /\ \A a, b \in Ranks : snext[<<a, b>>] <= Count[a][b]
    BY DEF TypeOK
  <2>2. snext' = snext \/ snext' = [snext EXCEPT ![<<r, p>>] = SlotCount(Count[r][p])]
    BY DEF StartSends, sendVars
  <2>3. SlotCount(Count[r][p]) <= Count[r][p]
    BY <1>1, CountType, SlotsType
  <2> QED
    BY <1>1, <2>1, <2>2, <2>3
<1>7. sends' \subseteq Requests /\ unacked' \subseteq Requests
  BY <1>2 DEF StartSends, TypeOK
<1> QED
  BY <1>3, <1>4, <1>5, <1>6, <1>7 DEF StartSends, TypeOK, recvVars

\* Steps that only move the rank on.
LEMMA ControlType ==
    ASSUME TypeOK, NEW r \in Ranks,
           EndStart(r) \/ Loop(r) \/ EndDrainRecv(r) \/ EndDrainSend(r)
    PROVE  TypeOK'
<1>1. /\ UNCHANGED <<recvVars, sendVars, mpiVars>>
      /\ pc' \in [Ranks -> Phases]
      /\ progressed' \in [Ranks -> BOOLEAN]
  BY DEF EndStart, Loop, EndDrainRecv, EndDrainSend, AfterDrain, TypeOK, Phases
<1>2. cursor' \in [Ranks -> 0 .. P]
  <2>1. cursor \in [Ranks -> 0 .. P]
    BY DEF TypeOK
  <2>2. cursor' = cursor \/ (cursor[r] < P /\ cursor' = [cursor EXCEPT ![r] = cursor[r] + 1])
    BY DEF EndStart, Loop, EndDrainRecv, EndDrainSend
  <2> QED
    BY <2>1, <2>2, WindowAssumption
<1> QED
  BY <1>1, <1>2 DEF TypeOK, recvVars, sendVars, mpiVars

LEMMA AdvanceRecvType ==
    ASSUME TypeOK, NEW r \in Ranks, NEW p \in Ranks, NEW k \in Slots, AdvanceRecv(r, p, k)
    PROVE  /\ rchunk' \in [Ranks \X Ranks \X Slots -> Nat \cup {-1}]
           /\ rnext' \in [Ranks \X Ranks -> Nat]
           /\ rdone' \in [Ranks \X Ranks -> Nat]
           /\ \A a, b \in Ranks : rnext'[<<a, b>>] <= Count[b][a]
           /\ unpacked' \subseteq (Ranks \X Ranks \X Nat)
           /\ recvs' \subseteq Requests
<1> DEFINE next == rnext[<<r, p>>]
<1>1. next \in Nat /\ Request(p, r, next, next, k) \in Requests
  BY RequestType DEF TypeOK
<1>2. /\ rchunk' \in [Ranks \X Ranks \X Slots -> Nat \cup {-1}]
      /\ rnext' \in [Ranks \X Ranks -> Nat]
      /\ rdone' \in [Ranks \X Ranks -> Nat]
  <2>1. /\ rchunk \in [Ranks \X Ranks \X Slots -> Nat \cup {-1}]
        /\ rnext \in [Ranks \X Ranks -> Nat]
        /\ rdone \in [Ranks \X Ranks -> Nat]
    BY DEF TypeOK
  <2>2. rchunk' = [rchunk EXCEPT ![<<r, p, k>>] = next] \/ rchunk' = [rchunk EXCEPT ![<<r, p, k>>] = -1]
    BY DEF AdvanceRecv
  <2>3. rnext' = rnext \/ rnext' = [rnext EXCEPT ![<<r, p>>] = next + 1]
    BY DEF AdvanceRecv
  <2>4. rdone' = [rdone EXCEPT ![<<r, p>>] = rdone[<<r, p>>] + 1] /\ rdone[<<r, p>>] \in Nat
    BY <2>1 DEF AdvanceRecv
  <2>5. rchunk' \in [Ranks \X Ranks \X Slots -> Nat \cup {-1}]
    BY <1>1, <2>1, <2>2
  <2>6. rnext' \in [Ranks \X Ranks -> Nat]
    BY <1>1, <2>1, <2>3
  <2>7. rdone' \in [Ranks \X Ranks -> Nat]
    BY <2>1, <2>4
  <2> QED
    BY <2>5, <2>6, <2>7
<1>3. \A a, b \in Ranks : rnext'[<<a, b>>] <= Count[b][a]
  <2>1. /\ rnext \in [Ranks \X Ranks -> Nat]
        /\ \A a, b \in Ranks : rnext[<<a, b>>] <= Count[b][a]
    BY DEF TypeOK
  <2>2. \/ rnext' = rnext
        \/ next < Count[p][r] /\ rnext' = [rnext EXCEPT ![<<r, p>>] = next + 1]
    BY DEF AdvanceRecv, More
  <2> SUFFICES ASSUME NEW a \in Ranks, NEW b \in Ranks
               PROVE  rnext'[<<a, b>>] <= Count[b][a]
    OBVIOUS
  <2>3. CASE a = r /\ b = p
    BY <1>1, <2>1, <2>2, <2>3, CountType
  <2>4. CASE ~(a = r /\ b = p)
    <3>1. rnext'[<<a, b>>] = rnext[<<a, b>>]
      BY <2>1, <2>2, <2>4
    <3> QED
      BY <2>1, <3>1
  <2> QED
    BY <2>3, <2>4
<1>4. unpacked' \subseteq (Ranks \X Ranks \X Nat)
  BY CountType DEF AdvanceRecv, TypeOK
<1>5. recvs' \subseteq Requests
  BY <1>1 DEF AdvanceRecv, TypeOK
<1> QED
  BY <1>2, <1>3, <1>4, <1>5

LEMMA AdvanceSendType ==
    ASSUME TypeOK, NEW r \in Ranks, NEW p \in Ranks, NEW k \in Slots, AdvanceSend(r, p, k)
    PROVE  /\ schunk' \in [Ranks \X Ranks \X Slots -> Nat \cup {-1}]
           /\ snext' \in [Ranks \X Ranks -> Nat]
           /\ sdone' \in [Ranks \X Ranks -> Nat]
           /\ \A a, b \in Ranks : snext'[<<a, b>>] <= Count[a][b]
           /\ sends' \subseteq Requests
           /\ unacked' \subseteq Requests
<1> DEFINE next == snext[<<r, p>>]
<1>1. next \in Nat /\ Request(r, p, next, next, k) \in Requests
  BY RequestType DEF TypeOK
<1>2. /\ schunk' \in [Ranks \X Ranks \X Slots -> Nat \cup {-1}]
      /\ snext' \in [Ranks \X Ranks -> Nat]
      /\ sdone' \in [Ranks \X Ranks -> Nat]
  <2>1. /\ schunk \in [Ranks \X Ranks \X Slots -> Nat \cup {-1}]
        /\ snext \in [Ranks \X Ranks -> Nat]
        /\ sdone \in [Ranks \X Ranks -> Nat]
    BY DEF TypeOK
  <2>2. schunk' = [schunk EXCEPT ![<<r, p, k>>] = next] \/ schunk' = [schunk EXCEPT ![<<r, p, k>>] = -1]
    BY DEF AdvanceSend
  <2>3. snext' = snext \/ snext' = [snext EXCEPT ![<<r, p>>] = next + 1]
    BY DEF AdvanceSend
  <2>4. sdone' = [sdone EXCEPT ![<<r, p>>] = sdone[<<r, p>>] + 1] /\ sdone[<<r, p>>] \in Nat
    BY <2>1 DEF AdvanceSend
  <2>5. schunk' \in [Ranks \X Ranks \X Slots -> Nat \cup {-1}]
    BY <1>1, <2>1, <2>2
  <2>6. snext' \in [Ranks \X Ranks -> Nat]
    BY <1>1, <2>1, <2>3
  <2>7. sdone' \in [Ranks \X Ranks -> Nat]
    BY <2>1, <2>4
  <2> QED
    BY <2>5, <2>6, <2>7
<1>3. \A a, b \in Ranks : snext'[<<a, b>>] <= Count[a][b]
  <2>1. /\ snext \in [Ranks \X Ranks -> Nat]
        /\ \A a, b \in Ranks : snext[<<a, b>>] <= Count[a][b]
    BY DEF TypeOK
  <2>2. \/ snext' = snext
        \/ next < Count[r][p] /\ snext' = [snext EXCEPT ![<<r, p>>] = next + 1]
    BY DEF AdvanceSend, More
  <2> SUFFICES ASSUME NEW a \in Ranks, NEW b \in Ranks
               PROVE  snext'[<<a, b>>] <= Count[a][b]
    OBVIOUS
  <2>3. CASE a = r /\ b = p
    BY <1>1, <2>1, <2>2, <2>3, CountType
  <2>4. CASE ~(a = r /\ b = p)
    <3>1. snext'[<<a, b>>] = snext[<<a, b>>]
      BY <2>1, <2>2, <2>4
    <3> QED
      BY <2>1, <3>1
  <2> QED
    BY <2>3, <2>4
<1>4. sends' \subseteq Requests /\ unacked' \subseteq Requests
  BY <1>1 DEF AdvanceSend, TypeOK
<1> QED
  BY <1>2, <1>3, <1>4

LEMMA CompletionType ==
    ASSUME TypeOK, NEW r \in Ranks, NEW p \in Ranks, NEW k \in Slots,
           TestRecv(r, p, k) \/ TestSend(r, p, k) \/ WaitRecv(r, p, k) \/ WaitSend(r, p, k)
    PROVE  TypeOK'
<1>1. CASE TestRecv(r, p, k) \/ WaitRecv(r, p, k)
  <2>1. AdvanceRecv(r, p, k) /\ UNCHANGED <<cursor, sendVars, sends, unacked, landed>>
    BY <1>1 DEF TestRecv, WaitRecv
  <2>2. pc' \in [Ranks -> Phases] /\ progressed' \in [Ranks -> BOOLEAN]
    BY <1>1 DEF TestRecv, WaitRecv, TypeOK, Phases
  <2> QED
    BY <2>1, <2>2, AdvanceRecvType DEF TypeOK, sendVars
<1>2. CASE TestSend(r, p, k) \/ WaitSend(r, p, k)
  <2>1. AdvanceSend(r, p, k) /\ UNCHANGED <<cursor, recvVars, recvs, landed>>
    BY <1>2 DEF TestSend, WaitSend
  <2>2. pc' \in [Ranks -> Phases] /\ progressed' \in [Ranks -> BOOLEAN]
    BY <1>2 DEF TestSend, WaitSend, TypeOK, Phases
  <2> QED
    BY <2>1, <2>2, AdvanceSendType DEF TypeOK, recvVars
<1> QED
  BY <1>1, <1>2

LEMMA MpiType ==
    ASSUME TypeOK, Match \/ Acknowledge
    PROVE  TypeOK'
<1>1. UNCHANGED <<rankVars, recvVars, sendVars>>
  BY DEF Match, Acknowledge
<1>2. /\ recvs' \subseteq recvs /\ sends' \subseteq sends /\ unacked' \subseteq unacked
      /\ landed' \subseteq [src : Ranks, dst : Ranks, want : Nat, got : Nat]
  BY DEF Match, Acknowledge, TypeOK, Requests
<1> QED
  BY <1>1, <1>2 DEF TypeOK, rankVars, recvVars, sendVars

LEMMA TypeStep == TypeOK /\ [Next]_vars => TypeOK'
<1> SUFFICES ASSUME TypeOK, [Next]_vars PROVE TypeOK'
  OBVIOUS
<1>1. ASSUME NEW r \in Ranks, RankStep(r) PROVE TypeOK'
  BY <1>1, PostRecvsType, StartSendsType, ControlType, CompletionType DEF RankStep, Peers
<1>2. CASE Match \/ Acknowledge
  BY <1>2, MpiType
<1>3. CASE UNCHANGED vars
  BY <1>3 DEF TypeOK, vars, rankVars, recvVars, sendVars, mpiVars
<1> QED
  BY <1>1, <1>2, <1>3 DEF Next, Finished

\* The state of every rank and of MPI ranges over what the code can hold, for
\* any number of ranks, any window and any counts; no chunk a peer does not
\* have is ever posted.
THEOREM TypeCorrect == Spec => []TypeOK
<1> QED
  BY TypeInit, TypeStep, PTL DEF Spec

-----------------------------------------------------------------------------

LEMMA RequestFields ==
    ASSUME NEW s, NEW d, NEW o, NEW c, NEW k
    PROVE  LET q == Request(s, d, o, c, k)
           IN  /\ q.src = s /\ q.dst = d /\ q.order = o /\ q.chunk = c /\ q.slot = k
               /\ q.tag = Tag(s, d, c)
  BY DEF Request

\* Posting the next chunks of some channels, in order, preserves what the
\* invariant says of the receives.
LEMMA PostReceives ==
    ASSUME TypeOK, TypeOK', RecvsPosted, LandedPosted, RecvsCovered, RecvsOnce, RecvsFresh,
           NEW A, A \subseteq Requests, recvs' = recvs \cup A, landed' = landed,
           \A s, d \in Ranks : rnext[<<d, s>>] <= rnext'[<<d, s>>],
           \A q \in A : /\ Ordered(q)
                        /\ rnext[<<q.dst, q.src>>] <= q.chunk
                        /\ q.chunk < rnext'[<<q.dst, q.src>>],
           \A a, b \in A : SameChunk(a, b) => a = b,
           \A s, d \in Ranks, c \in Nat :
               rnext[<<d, s>>] <= c /\ c < rnext'[<<d, s>>] =>
                   \E q \in A : q.src = s /\ q.dst = d /\ q.chunk = c
    PROVE  /\ RecvsPosted' /\ RecvsCovered' /\ RecvsOnce' /\ RecvsFresh'
           /\ \A l \in landed' : l.want < rnext'[<<l.dst, l.src>>]
<1>1. /\ \A s, d \in Ranks : rnext[<<d, s>>] \in Nat /\ rnext'[<<d, s>>] \in Nat
      /\ \A q \in recvs \cup A : q.src \in Ranks /\ q.dst \in Ranks /\ q.chunk \in Nat
      /\ \A l \in landed : l.src \in Ranks /\ l.dst \in Ranks /\ l.want \in Nat
  BY DEF TypeOK, Requests
<1>2. RecvsPosted'
  <2> SUFFICES ASSUME NEW q \in recvs \cup A
               PROVE  Ordered(q) /\ q.chunk < rnext'[<<q.dst, q.src>>]
    BY DEF RecvsPosted, Ordered
  <2>1. CASE q \in A
    BY <2>1
  <2>2. CASE q \in recvs
    <3>1. rnext[<<q.dst, q.src>>] \in Nat /\ rnext'[<<q.dst, q.src>>] \in Nat /\ q.chunk \in Nat
      BY <1>1
    <3>2. Ordered(q) /\ q.chunk < rnext[<<q.dst, q.src>>] /\ rnext[<<q.dst, q.src>>] <= rnext'[<<q.dst, q.src>>]
      BY <1>1, <2>2 DEF RecvsPosted
    <3> QED
      BY <3>1, <3>2
  <2> QED
    BY <2>1, <2>2
<1>3. \A l \in landed' : l.want < rnext'[<<l.dst, l.src>>]
  <2> SUFFICES ASSUME NEW l \in landed PROVE l.want < rnext'[<<l.dst, l.src>>]
    OBVIOUS
  <2>1. rnext[<<l.dst, l.src>>] \in Nat /\ rnext'[<<l.dst, l.src>>] \in Nat /\ l.want \in Nat
    BY <1>1
  <2>2. l.want < rnext[<<l.dst, l.src>>] /\ rnext[<<l.dst, l.src>>] <= rnext'[<<l.dst, l.src>>]
    BY <1>1 DEF LandedPosted
  <2> QED
    BY <2>1, <2>2
<1>4. RecvsCovered'
  <2> SUFFICES ASSUME NEW s \in Ranks, NEW d \in Ranks, NEW c \in Nat, c < rnext'[<<d, s>>]
               PROVE  (\E q \in recvs' : q.src = s /\ q.dst = d /\ q.chunk = c) \/ Landed(s, d, c)'
    BY DEF RecvsCovered
  <2>1. CASE c < rnext[<<d, s>>]
    BY <2>1 DEF RecvsCovered, Landed
  <2>2. CASE rnext[<<d, s>>] <= c
    BY <2>2
  <2> QED
    BY <1>1, <2>1, <2>2
<1>5. RecvsOnce'
  <2> SUFFICES ASSUME NEW a \in recvs \cup A, NEW b \in recvs \cup A, SameChunk(a, b)
               PROVE  a = b
    BY DEF RecvsOnce, SameChunk
  <2>1. CASE a \in recvs /\ b \in recvs
    BY <2>1 DEF RecvsOnce
  <2>2. CASE a \in A /\ b \in A
    BY <2>2
  <2>3. ASSUME NEW x \in recvs, NEW y \in A, SameChunk(x, y) PROVE FALSE
    <3> DEFINE bound == rnext[<<y.dst, y.src>>]
    <3>1. bound \in Nat /\ y.chunk \in Nat
      BY <1>1
    <3>2. bound <= y.chunk /\ y.chunk < bound
      BY <2>3 DEF RecvsPosted, SameChunk
    <3> QED
      BY <3>1, <3>2
  <2> QED
    BY <2>1, <2>2, <2>3 DEF SameChunk
<1>6. RecvsFresh'
  <2> SUFFICES ASSUME NEW q \in recvs \cup A, NEW l \in landed,
                      l.src = q.src, l.dst = q.dst, l.want = q.chunk
               PROVE  FALSE
    BY DEF RecvsFresh, Landed
  <2>1. CASE q \in recvs
    BY <2>1 DEF RecvsFresh, Landed
  <2>2. CASE q \in A
    <3> DEFINE bound == rnext[<<q.dst, q.src>>]
    <3>1. bound \in Nat /\ q.chunk \in Nat
      BY <1>1
    <3>2. bound <= q.chunk /\ q.chunk < bound
      BY <2>2 DEF LandedPosted
    <3> QED
      BY <3>1, <3>2
  <2> QED
    BY <2>1, <2>2
<1> QED
  BY <1>2, <1>3, <1>4, <1>5, <1>6

\* The same for the sends.
LEMMA PostSends ==
    ASSUME TypeOK, TypeOK', InPlace, SendsPosted, LandedPosted, SendsCovered, SendsOnce, SendsFresh,
           NEW A, A \subseteq Requests, sends' = sends \cup A, landed' = landed,
           \A s, d \in Ranks : snext[<<s, d>>] <= snext'[<<s, d>>],
           \A m \in A : /\ Ordered(m)
                        /\ snext[<<m.src, m.dst>>] <= m.chunk
                        /\ m.chunk < snext'[<<m.src, m.dst>>],
           \A a, b \in A : SameChunk(a, b) => a = b,
           \A s, d \in Ranks, c \in Nat :
               snext[<<s, d>>] <= c /\ c < snext'[<<s, d>>] =>
                   \E m \in A : m.src = s /\ m.dst = d /\ m.chunk = c
    PROVE  /\ SendsPosted' /\ SendsCovered' /\ SendsOnce' /\ SendsFresh'
           /\ \A l \in landed' : l.got < snext'[<<l.src, l.dst>>]
<1>1. /\ \A s, d \in Ranks : snext[<<s, d>>] \in Nat /\ snext'[<<s, d>>] \in Nat
      /\ \A m \in sends \cup A : m.src \in Ranks /\ m.dst \in Ranks /\ m.chunk \in Nat
      /\ \A l \in landed : l.src \in Ranks /\ l.dst \in Ranks /\ l.got \in Nat
  BY DEF TypeOK, Requests
<1>2. SendsPosted'
  <2> SUFFICES ASSUME NEW m \in sends \cup A
               PROVE  Ordered(m) /\ m.chunk < snext'[<<m.src, m.dst>>]
    BY DEF SendsPosted, Ordered
  <2>1. CASE m \in A
    BY <2>1
  <2>2. CASE m \in sends
    <3>1. snext[<<m.src, m.dst>>] \in Nat /\ snext'[<<m.src, m.dst>>] \in Nat /\ m.chunk \in Nat
      BY <1>1
    <3>2. Ordered(m) /\ m.chunk < snext[<<m.src, m.dst>>] /\ snext[<<m.src, m.dst>>] <= snext'[<<m.src, m.dst>>]
      BY <1>1, <2>2 DEF SendsPosted
    <3> QED
      BY <3>1, <3>2
  <2> QED
    BY <2>1, <2>2
<1>3. \A l \in landed' : l.got < snext'[<<l.src, l.dst>>]
  <2> SUFFICES ASSUME NEW l \in landed PROVE l.got < snext'[<<l.src, l.dst>>]
    OBVIOUS
  <2>1. snext[<<l.src, l.dst>>] \in Nat /\ snext'[<<l.src, l.dst>>] \in Nat /\ l.got \in Nat
    BY <1>1
  <2>2. l.got < snext[<<l.src, l.dst>>] /\ snext[<<l.src, l.dst>>] <= snext'[<<l.src, l.dst>>]
    BY <1>1 DEF LandedPosted
  <2> QED
    BY <2>1, <2>2
<1>4. SendsCovered'
  <2> SUFFICES ASSUME NEW s \in Ranks, NEW d \in Ranks, NEW c \in Nat, c < snext'[<<s, d>>]
               PROVE  (\E m \in sends' : m.src = s /\ m.dst = d /\ m.chunk = c) \/ Landed(s, d, c)'
    BY DEF SendsCovered
  <2>1. CASE c < snext[<<s, d>>]
    BY <2>1 DEF SendsCovered, Landed
  <2>2. CASE snext[<<s, d>>] <= c
    BY <2>2
  <2> QED
    BY <1>1, <2>1, <2>2
<1>5. SendsOnce'
  <2> SUFFICES ASSUME NEW a \in sends \cup A, NEW b \in sends \cup A, SameChunk(a, b)
               PROVE  a = b
    BY DEF SendsOnce, SameChunk
  <2>1. CASE a \in sends /\ b \in sends
    BY <2>1 DEF SendsOnce
  <2>2. CASE a \in A /\ b \in A
    BY <2>2
  <2>3. ASSUME NEW x \in sends, NEW y \in A, SameChunk(x, y) PROVE FALSE
    <3> DEFINE bound == snext[<<y.src, y.dst>>]
    <3>1. bound \in Nat /\ y.chunk \in Nat
      BY <1>1
    <3>2. bound <= y.chunk /\ y.chunk < bound
      BY <2>3 DEF SendsPosted, SameChunk
    <3> QED
      BY <3>1, <3>2
  <2> QED
    BY <2>1, <2>2, <2>3 DEF SameChunk
<1>6. SendsFresh'
  <2> SUFFICES ASSUME NEW m \in sends \cup A, NEW l \in landed,
                      l.src = m.src, l.dst = m.dst, l.want = m.chunk
               PROVE  FALSE
    BY DEF SendsFresh, Landed
  <2>1. CASE m \in sends
    BY <2>1 DEF SendsFresh, Landed
  <2>2. CASE m \in A
    <3> DEFINE bound == snext[<<m.src, m.dst>>]
    <3>1. bound \in Nat /\ m.chunk \in Nat
      BY <1>1
    <3>2. bound <= m.chunk
      BY <2>2
    <3>3. l.got = m.chunk /\ l.got < bound
      BY DEF LandedPosted, InPlace
    <3> QED
      BY <3>1, <3>2, <3>3
  <2> QED
    BY <2>1, <2>2
<1> QED
  BY <1>2, <1>3, <1>4, <1>5, <1>6

-----------------------------------------------------------------------------

\* What the invariant says of each side does not change with the other side.
LEMMA RecvsUntouched ==
    ASSUME IInv, UNCHANGED <<rnext, recvs, landed>>
    PROVE  /\ RecvsPosted' /\ RecvsCovered' /\ RecvsOnce' /\ RecvsFresh'
           /\ \A l \in landed' : l.want < rnext'[<<l.dst, l.src>>]
<1>1. RecvsPosted'
  BY DEF IInv, RecvsPosted, Ordered
<1>2. RecvsCovered'
  BY DEF IInv, RecvsCovered, Landed
<1>3. RecvsOnce'
  BY DEF IInv, RecvsOnce, SameChunk
<1>4. RecvsFresh'
  BY DEF IInv, RecvsFresh, Landed
<1>5. \A l \in landed' : l.want < rnext'[<<l.dst, l.src>>]
  BY DEF IInv, LandedPosted
<1> QED
  BY <1>1, <1>2, <1>3, <1>4, <1>5

LEMMA SendsUntouched ==
    ASSUME IInv, UNCHANGED <<snext, sends, landed>>
    PROVE  /\ SendsPosted' /\ SendsCovered' /\ SendsOnce' /\ SendsFresh'
           /\ \A l \in landed' : l.got < snext'[<<l.src, l.dst>>]
<1>1. SendsPosted'
  BY DEF IInv, SendsPosted, Ordered
<1>2. SendsCovered'
  BY DEF IInv, SendsCovered, Landed
<1>3. SendsOnce'
  BY DEF IInv, SendsOnce, SameChunk
<1>4. SendsFresh'
  BY DEF IInv, SendsFresh, Landed
<1>5. \A l \in landed' : l.got < snext'[<<l.src, l.dst>>]
  BY DEF IInv, LandedPosted
<1> QED
  BY <1>1, <1>2, <1>3, <1>4, <1>5

LEMMA SlotsUntouched ==
    ASSUME IInv, UNCHANGED <<schunk, snext, unacked>>
    PROVE  SlotsPosted' /\ UnackedPosted' /\ SendSlotHeld'
  BY DEF IInv, SlotsPosted, UnackedPosted, SendSlotHeld

LEMMA PostRecvsInv ==
    ASSUME IInv, NEW r \in Ranks, PostRecvs(r)
    PROVE  IInv'
<1> DEFINE A == UNION {{Request(p, r, k, k, k) : k \in SlotsFor(Count[p][r])} : p \in Peers(r)}
<1>1. TypeOK /\ TypeOK'
  BY PostRecvsType DEF IInv
<1>2. /\ recvs' = recvs \cup A
      /\ UNCHANGED <<cursor, sendVars, sends, unacked, landed>>
      /\ pc' = [pc EXCEPT ![r] = "start"]
      /\ \A d, s \in Ranks :
             rnext'[<<d, s>>] = IF d = r /\ s # r THEN SlotCount(Count[s][r]) ELSE rnext[<<d, s>>]
  BY DEF PostRecvs
<1>3. \A s \in Ranks : rnext[<<r, s>>] = 0 /\ SlotCount(Count[s][r]) \in Nat
  BY CountType, SlotsType DEF IInv, NotStarted, PostRecvs
<1>4. \A q \in A : /\ q \in Requests
                   /\ q.dst = r /\ q.src \in Peers(r) /\ q.chunk \in SlotsFor(Count[q.src][r])
                   /\ q = Request(q.src, r, q.chunk, q.chunk, q.chunk)
                   /\ Ordered(q)
  <2> SUFFICES ASSUME NEW p \in Peers(r), NEW k \in SlotsFor(Count[p][r]), NEW q,
                      q = Request(p, r, k, k, k)
               PROVE  /\ q \in Requests
                      /\ q.dst = r /\ q.src \in Peers(r) /\ q.chunk \in SlotsFor(Count[q.src][r])
                      /\ q = Request(q.src, r, q.chunk, q.chunk, q.chunk)
                      /\ Ordered(q)
    OBVIOUS
  <2>1. p \in Ranks /\ k \in Nat /\ k \in Slots
    BY CountType, SlotsType DEF Peers
  <2>2. q \in Requests
    BY <2>1, RequestType
  <2> QED
    BY <2>1, <2>2, RequestFields DEF Ordered
<1>5. \A s, d \in Ranks : rnext[<<d, s>>] <= rnext'[<<d, s>>]
  BY <1>1, <1>2, <1>3 DEF TypeOK
<1>6. \A q \in A : rnext[<<q.dst, q.src>>] <= q.chunk /\ q.chunk < rnext'[<<q.dst, q.src>>]
  BY <1>2, <1>3, <1>4, CountType, SlotsType DEF Peers
<1>7. \A a, b \in A : SameChunk(a, b) => a = b
  BY <1>4 DEF SameChunk
<1>8. \A s, d \in Ranks, c \in Nat :
          rnext[<<d, s>>] <= c /\ c < rnext'[<<d, s>>] =>
              \E q \in A : q.src = s /\ q.dst = d /\ q.chunk = c
  <2> SUFFICES ASSUME NEW s \in Ranks, NEW d \in Ranks, NEW c \in Nat,
                      rnext[<<d, s>>] <= c, c < rnext'[<<d, s>>]
               PROVE  \E q \in A : q.src = s /\ q.dst = d /\ q.chunk = c
    OBVIOUS
  <2>1. d = r /\ s \in Peers(r) /\ c < SlotCount(Count[s][r])
    BY <1>1, <1>2 DEF TypeOK, Peers
  <2>2. c \in SlotsFor(Count[s][r])
    BY <1>3, <2>1 DEF SlotsFor
  <2>3. Request(s, r, c, c, c) \in A
    BY <2>1, <2>2
  <2> QED
    BY <2>1, <2>3, RequestFields
<1>9. /\ RecvsPosted' /\ RecvsCovered' /\ RecvsOnce' /\ RecvsFresh'
      /\ \A l \in landed' : l.want < rnext'[<<l.dst, l.src>>]
  <2>1. A \subseteq Requests /\ landed' = landed /\ recvs' = recvs \cup A
    BY <1>2, <1>4
  <2>2. \A q \in A : Ordered(q) /\ rnext[<<q.dst, q.src>>] <= q.chunk
                                /\ q.chunk < rnext'[<<q.dst, q.src>>]
    BY <1>4, <1>6
  <2> HIDE DEF A
  <2> QED
    BY <1>1, <1>5, <1>7, <1>8, <2>1, <2>2, PostReceives DEF IInv
<1>10. NotStarted'
  <2> SUFFICES ASSUME NEW a \in Ranks, NEW b \in Ranks
               PROVE  /\ pc'[a] = "postRecv" => rnext'[<<a, b>>] = 0
                      /\ b > cursor[a] => snext[<<a, b>>] = 0
                      /\ b = cursor[a] /\ pc'[a] \in {"postRecv", "start"} => snext[<<a, b>>] = 0
    BY <1>2 DEF NotStarted, sendVars
  <2>1. pc[r] = "postRecv"
    BY DEF PostRecvs
  <2>2. pc'[a] = IF a = r THEN "start" ELSE pc[a]
    BY <1>1, <1>2 DEF TypeOK
  <2> QED
    BY <1>2, <2>1, <2>2 DEF IInv, NotStarted
<1> QED
  BY <1>1, <1>2, <1>9, <1>10, SendsUntouched, SlotsUntouched
  DEF IInv, InPlace, LandedPosted, sendVars

LEMMA StartSendsInv ==
    ASSUME IInv, NEW r \in Ranks, StartSends(r)
    PROVE  IInv'
<1> DEFINE p == cursor[r]
<1> DEFINE n == SlotCount(Count[r][p])
<1> DEFINE A == IF p = r THEN {} ELSE {Request(r, p, k, k, k) : k \in SlotsFor(Count[r][p])}
<1>1. TypeOK /\ TypeOK'
  BY StartSendsType DEF IInv
<1>2. p \in Ranks
  BY <1>1, WindowAssumption DEF StartSends, TypeOK, Ranks
<1>3. n \in Nat /\ \A k \in SlotsFor(Count[r][p]) : k \in Slots /\ k \in Nat /\ k < n
  BY <1>2, CountType, SlotsType
<1>4. snext[<<r, p>>] = 0 /\ pc[r] = "start"
  BY <1>2 DEF IInv, NotStarted, StartSends
<1>5. /\ sends' = sends \cup A
      /\ unacked' = unacked \/ unacked' = unacked \cup A
      /\ UNCHANGED <<rnext, recvs, landed>>
  BY DEF StartSends, recvVars, sendVars
<1>6. \A a, b \in Ranks :
          snext'[<<a, b>>] = IF a = r /\ b = p /\ p # r THEN n ELSE snext[<<a, b>>]
  <2>1. snext' = IF p = r THEN snext ELSE [snext EXCEPT ![<<r, p>>] = n]
    BY DEF StartSends, sendVars
  <2>2. snext \in [Ranks \X Ranks -> Nat]
    BY <1>1 DEF TypeOK
  <2> HIDE DEF p, n
  <2> QED
    BY <1>2, <2>1, <2>2
<1>7. \A a, b \in Ranks, k \in Slots :
          schunk'[<<a, b, k>>] = IF a = r /\ b = p /\ p # r /\ k \in SlotsFor(Count[r][p])
                                 THEN k ELSE schunk[<<a, b, k>>]
  BY <1>1, <1>2 DEF StartSends, TypeOK, sendVars
<1>8. \A m \in A : /\ m \in Requests /\ Ordered(m) /\ p # r
                   /\ m.src = r /\ m.dst = p /\ m.chunk \in SlotsFor(Count[r][p])
                   /\ m = Request(r, p, m.chunk, m.chunk, m.chunk) /\ m.slot = m.chunk
  <2> SUFFICES ASSUME p # r, NEW k \in SlotsFor(Count[r][p]), NEW m, m = Request(r, p, k, k, k)
               PROVE  /\ m \in Requests /\ Ordered(m) /\ p # r
                      /\ m.src = r /\ m.dst = p /\ m.chunk \in SlotsFor(Count[r][p])
                      /\ m = Request(r, p, m.chunk, m.chunk, m.chunk) /\ m.slot = m.chunk
    OBVIOUS
  <2>1. m \in Requests
    BY <1>2, <1>3, RequestType
  <2> QED
    BY <2>1, RequestFields DEF Ordered
<1>9. \A m \in A : snext[<<m.src, m.dst>>] <= m.chunk /\ m.chunk < snext'[<<m.src, m.dst>>]
  BY <1>2, <1>3, <1>4, <1>6, <1>8
<1>10. \A a, b \in A : SameChunk(a, b) => a = b
  BY <1>8 DEF SameChunk
<1>11. \A s, d \in Ranks : snext[<<s, d>>] <= snext'[<<s, d>>]
  <2> SUFFICES ASSUME NEW s \in Ranks, NEW d \in Ranks PROVE snext[<<s, d>>] <= snext'[<<s, d>>]
    OBVIOUS
  <2>1. snext[<<s, d>>] \in Nat
    BY <1>1 DEF TypeOK
  <2>2. CASE s = r /\ d = p /\ p # r
    BY <1>3, <1>4, <1>6, <2>2
  <2>3. CASE ~(s = r /\ d = p /\ p # r)
    BY <1>6, <2>1, <2>3
  <2> QED
    BY <2>2, <2>3
<1>12. \A s, d \in Ranks, c \in Nat :
          snext[<<s, d>>] <= c /\ c < snext'[<<s, d>>] =>
              \E m \in A : m.src = s /\ m.dst = d /\ m.chunk = c
  <2> SUFFICES ASSUME NEW s \in Ranks, NEW d \in Ranks, NEW c \in Nat,
                      snext[<<s, d>>] <= c, c < snext'[<<s, d>>]
               PROVE  \E m \in A : m.src = s /\ m.dst = d /\ m.chunk = c
    OBVIOUS
  <2>1. s = r /\ d = p /\ p # r /\ c < n
    BY <1>1, <1>6 DEF TypeOK
  <2>2. c \in SlotsFor(Count[r][p])
    BY <1>3, <2>1 DEF SlotsFor
  <2>3. Request(r, p, c, c, c) \in A
    BY <2>1, <2>2
  <2> QED
    BY <2>1, <2>3, RequestFields
<1> HIDE DEF A
<1>13. /\ SendsPosted' /\ SendsCovered' /\ SendsOnce' /\ SendsFresh'
       /\ \A l \in landed' : l.got < snext'[<<l.src, l.dst>>]
  <2>1. A \subseteq Requests /\ landed' = landed /\ sends' = sends \cup A
    BY <1>5, <1>8
  <2>2. \A m \in A : Ordered(m) /\ snext[<<m.src, m.dst>>] <= m.chunk
                                /\ m.chunk < snext'[<<m.src, m.dst>>]
    BY <1>8, <1>9
  <2>3. InPlace /\ SendsPosted /\ LandedPosted /\ SendsCovered /\ SendsOnce /\ SendsFresh
    BY DEF IInv
  <2> QED
    BY <1>1, <1>10, <1>11, <1>12, <2>1, <2>2, <2>3, PostSends
<1>14. SlotsPosted'
  <2> SUFFICES ASSUME NEW a \in Ranks, NEW b \in Ranks, NEW k \in Slots
               PROVE  schunk'[<<a, b, k>>] < snext'[<<a, b>>]
    BY DEF SlotsPosted
  <2>1. CASE a = r /\ b = p /\ p # r /\ k \in SlotsFor(Count[r][p])
    BY <1>3, <1>6, <1>7, <2>1
  <2>2. CASE ~(a = r /\ b = p /\ p # r /\ k \in SlotsFor(Count[r][p]))
    <3>1. schunk'[<<a, b, k>>] = schunk[<<a, b, k>>] /\ schunk[<<a, b, k>>] < snext[<<a, b>>]
      BY <1>7, <2>2 DEF IInv, SlotsPosted
    <3>2. snext[<<a, b>>] <= snext'[<<a, b>>]
      BY <1>11
    <3>3. /\ schunk[<<a, b, k>>] \in Int /\ snext[<<a, b>>] \in Int /\ snext'[<<a, b>>] \in Int
      BY <1>1 DEF TypeOK
    <3> QED
      BY <3>1, <3>2, <3>3
  <2> QED
    BY <2>1, <2>2
<1>15. UnackedPosted' /\ SendSlotHeld'
  <2> SUFFICES ASSUME NEW m \in unacked \cup A
               PROVE  /\ m.chunk < snext'[<<m.src, m.dst>>]
                      /\ schunk'[<<m.src, m.dst, m.slot>>] = m.chunk
    BY <1>5 DEF UnackedPosted, SendSlotHeld
  <2>1. CASE m \in A
    BY <1>2, <1>3, <1>7, <1>8, <1>9, <2>1
  <2>2. CASE m \in unacked
    <3>1. /\ m.src \in Ranks /\ m.dst \in Ranks /\ m.slot \in Slots /\ m.chunk \in Nat
          /\ m.chunk < snext[<<m.src, m.dst>>] /\ schunk[<<m.src, m.dst, m.slot>>] = m.chunk
      BY <1>1, <2>2 DEF IInv, UnackedPosted, SendSlotHeld, TypeOK, Requests
    <3>2. ~(m.src = r /\ m.dst = p)
      BY <1>4, <3>1
    <3> QED
      BY <1>6, <1>7, <3>1, <3>2
  <2> QED
    BY <2>1, <2>2
<1>16. NotStarted'
  <2> SUFFICES ASSUME NEW a \in Ranks, NEW b \in Ranks
               PROVE  /\ pc'[a] = "postRecv" => rnext[<<a, b>>] = 0
                      /\ b > cursor'[a] => snext'[<<a, b>>] = 0
                      /\ b = cursor'[a] /\ pc'[a] \in {"postRecv", "start"} => snext'[<<a, b>>] = 0
    BY <1>5 DEF NotStarted
  <2>1. CASE a # r
    <3>1. pc'[a] = pc[a] /\ cursor'[a] = cursor[a] /\ snext'[<<a, b>>] = snext[<<a, b>>]
      BY <1>1, <1>6, <2>1 DEF StartSends, TypeOK
    <3> QED
      BY <3>1 DEF IInv, NotStarted
  <2>2. CASE a = r
    <3>1. b > p => snext'[<<r, b>>] = 0
      BY <1>2, <1>6, Sizes DEF IInv, NotStarted, Ranks
    <3>2. pc'[r] # "postRecv" /\ ((cursor'[r] = p /\ pc'[r] = "drainRecv") \/ cursor'[r] = p + 1)
      BY <1>1, <1>4 DEF StartSends, TypeOK
    <3>3. b \in Int /\ p \in Int
      BY <1>2, Sizes DEF Ranks
    <3> HIDE DEF p
    <3> QED
      BY <2>2, <3>1, <3>2, <3>3
  <2> QED
    BY <2>1, <2>2
<1> QED
  BY <1>1, <1>5, <1>13, <1>14, <1>15, <1>16, RecvsUntouched DEF IInv, InPlace, LandedPosted

LEMMA ControlInv ==
    ASSUME IInv, NEW r \in Ranks,
           EndStart(r) \/ Loop(r) \/ EndDrainRecv(r) \/ EndDrainSend(r)
    PROVE  IInv'
<1>1. TypeOK /\ TypeOK' /\ UNCHANGED <<recvVars, sendVars, mpiVars>>
  BY ControlType DEF IInv, EndStart, Loop, EndDrainRecv, EndDrainSend
<1>2. NotStarted'
  <2> SUFFICES ASSUME NEW a \in Ranks, NEW b \in Ranks
               PROVE  /\ pc'[a] = "postRecv" => rnext[<<a, b>>] = 0
                      /\ b > cursor'[a] => snext[<<a, b>>] = 0
                      /\ b = cursor'[a] /\ pc'[a] \in {"postRecv", "start"} => snext[<<a, b>>] = 0
    BY <1>1 DEF NotStarted, recvVars, sendVars
  <2>1. CASE a # r
    <3>1. pc'[a] = pc[a] /\ cursor'[a] = cursor[a]
      BY <1>1, <2>1 DEF EndStart, Loop, EndDrainRecv, EndDrainSend, TypeOK
    <3> QED
      BY <3>1 DEF IInv, NotStarted
  <2>2. CASE a = r
    <3>1. /\ pc'[r] # "postRecv"
          /\ \/ cursor'[r] = cursor[r] /\ pc'[r] # "start"
             \/ cursor'[r] = cursor[r] + 1
      BY <1>1 DEF EndStart, Loop, EndDrainRecv, EndDrainSend, AfterDrain, TypeOK
    <3>2. b \in Int /\ cursor[r] \in Int
      BY <1>1, Sizes DEF Ranks, TypeOK
    <3>3. b > cursor[r] => snext[<<r, b>>] = 0
      BY DEF IInv, NotStarted
    <3> QED
      BY <2>2, <3>1, <3>2, <3>3
  <2> QED
    BY <2>1, <2>2
<1>3. UNCHANGED <<rnext, recvs, landed, snext, sends, schunk, unacked>>
  BY <1>1 DEF recvVars, sendVars, mpiVars
<1> QED
  BY <1>1, <1>2, <1>3, RecvsUntouched, SendsUntouched, SlotsUntouched DEF IInv, InPlace, LandedPosted

LEMMA AdvanceRecvInv ==
    ASSUME IInv, NEW r \in Ranks, NEW p \in Peers(r), NEW k \in Slots,
           TestRecv(r, p, k) \/ WaitRecv(r, p, k)
    PROVE  IInv'
<1> DEFINE next == rnext[<<r, p>>]
<1> DEFINE more == More(next, Count[p][r])
<1> DEFINE q0 == Request(p, r, next, next, k)
<1> DEFINE A == IF more THEN {q0} ELSE {}
<1>1. TypeOK /\ TypeOK' /\ p \in Ranks /\ next \in Nat
  BY CompletionType DEF IInv, TypeOK, Peers
<1>2. /\ recvs' = recvs \cup A
      /\ UNCHANGED <<cursor, sendVars, sends, unacked, landed>>
      /\ pc[r] # "postRecv" /\ pc[r] # "start"
      /\ pc' = pc \/ pc' = [pc EXCEPT ![r] = "loop"]
  BY DEF TestRecv, WaitRecv, AdvanceRecv
<1>3. \A d, s \in Ranks :
          rnext'[<<d, s>>] = IF d = r /\ s = p /\ more THEN next + 1 ELSE rnext[<<d, s>>]
  <2>1. rnext' = IF more THEN [rnext EXCEPT ![<<r, p>>] = next + 1] ELSE rnext
    BY DEF TestRecv, WaitRecv, AdvanceRecv
  <2> HIDE DEF more
  <2> QED
    BY <1>1, <2>1 DEF TypeOK
<1>4. q0 \in Requests /\ Ordered(q0) /\ q0.src = p /\ q0.dst = r /\ q0.chunk = next
  BY <1>1, RequestType, RequestFields DEF Ordered
<1> HIDE DEF more, q0
<1>5. \A s, d \in Ranks : rnext[<<d, s>>] <= rnext'[<<d, s>>]
  <2> SUFFICES ASSUME NEW s \in Ranks, NEW d \in Ranks PROVE rnext[<<d, s>>] <= rnext'[<<d, s>>]
    OBVIOUS
  <2>1. rnext[<<d, s>>] \in Nat
    BY <1>1 DEF TypeOK
  <2>2. CASE d = r /\ s = p
    BY <1>1, <1>3, <2>1, <2>2
  <2>3. CASE ~(d = r /\ s = p)
    BY <1>3, <2>1, <2>3
  <2> QED
    BY <2>2, <2>3
<1>6. \A q \in A : /\ Ordered(q)
                   /\ rnext[<<q.dst, q.src>>] <= q.chunk
                   /\ q.chunk < rnext'[<<q.dst, q.src>>]
  BY <1>1, <1>3, <1>4
<1>7. \A s, d \in Ranks, c \in Nat :
          rnext[<<d, s>>] <= c /\ c < rnext'[<<d, s>>] =>
              \E q \in A : q.src = s /\ q.dst = d /\ q.chunk = c
  <2> SUFFICES ASSUME NEW s \in Ranks, NEW d \in Ranks, NEW c \in Nat,
                      rnext[<<d, s>>] <= c, c < rnext'[<<d, s>>]
               PROVE  \E q \in A : q.src = s /\ q.dst = d /\ q.chunk = c
    OBVIOUS
  <2>1. rnext[<<d, s>>] \in Nat
    BY <1>1 DEF TypeOK
  <2>2. d = r /\ s = p /\ more
    BY <1>3, <2>1
  <2>3. c = next
    BY <1>1, <1>3, <2>2
  <2> QED
    BY <1>4, <2>2, <2>3
<1>8. /\ RecvsPosted' /\ RecvsCovered' /\ RecvsOnce' /\ RecvsFresh'
      /\ \A l \in landed' : l.want < rnext'[<<l.dst, l.src>>]
  <2>1. /\ A \subseteq Requests /\ landed' = landed /\ recvs' = recvs \cup A
        /\ \A a, b \in A : SameChunk(a, b) => a = b
    BY <1>2, <1>4
  <2>2. RecvsPosted /\ LandedPosted /\ RecvsCovered /\ RecvsOnce /\ RecvsFresh
    BY DEF IInv
  <2> HIDE DEF A
  <2>3. TypeOK /\ TypeOK'
    BY <1>1
  <2> QED
    BY <1>5, <1>6, <1>7, <2>1, <2>2, <2>3, PostReceives
<1>9. NotStarted'
  <2> SUFFICES ASSUME NEW a \in Ranks, NEW b \in Ranks
               PROVE  /\ pc'[a] = "postRecv" => rnext'[<<a, b>>] = 0
                      /\ b > cursor[a] => snext[<<a, b>>] = 0
                      /\ b = cursor[a] /\ pc'[a] \in {"postRecv", "start"} => snext[<<a, b>>] = 0
    BY <1>2 DEF NotStarted, sendVars
  <2>1. pc'[a] = pc[a] \/ (a = r /\ pc'[a] = "loop")
    BY <1>1, <1>2 DEF TypeOK
  <2>2. a # r => rnext'[<<a, b>>] = rnext[<<a, b>>]
    BY <1>3
  <2> QED
    BY <1>2, <2>1, <2>2 DEF IInv, NotStarted
<1> QED
  BY <1>1, <1>2, <1>8, <1>9, SendsUntouched, SlotsUntouched DEF IInv, InPlace, LandedPosted, sendVars

LEMMA AdvanceSendInv ==
    ASSUME IInv, NEW r \in Ranks, NEW p \in Peers(r), NEW k \in Slots,
           TestSend(r, p, k) \/ WaitSend(r, p, k)
    PROVE  IInv'
<1> DEFINE next == snext[<<r, p>>]
<1> DEFINE more == More(next, Count[r][p])
<1> DEFINE m0 == Request(r, p, next, next, k)
<1> DEFINE A == IF more THEN {m0} ELSE {}
<1>1. TypeOK /\ TypeOK' /\ p \in Ranks /\ next \in Nat
  BY CompletionType DEF IInv, TypeOK, Peers
<1>2. /\ sends' = sends \cup A
      /\ unacked' = unacked \/ unacked' = unacked \cup A
      /\ UNCHANGED <<cursor, recvVars, recvs, landed>>
      /\ pc[r] # "postRecv" /\ pc[r] # "start"
      /\ pc' = pc \/ pc' = [pc EXCEPT ![r] = "loop"]
      /\ SendReady(r, p, k)
  BY DEF TestSend, WaitSend, AdvanceSend
<1>3. \A s, d \in Ranks :
          snext'[<<s, d>>] = IF s = r /\ d = p /\ more THEN next + 1 ELSE snext[<<s, d>>]
  <2>1. snext' = IF more THEN [snext EXCEPT ![<<r, p>>] = next + 1] ELSE snext
    BY DEF TestSend, WaitSend, AdvanceSend
  <2> HIDE DEF more
  <2> QED
    BY <1>1, <2>1 DEF TypeOK
<1>4. \A a, b \in Ranks, j \in Slots :
          schunk'[<<a, b, j>>] = IF a = r /\ b = p /\ j = k THEN IF more THEN next ELSE -1
                                 ELSE schunk[<<a, b, j>>]
  <2>1. schunk' = [schunk EXCEPT ![<<r, p, k>>] = IF more THEN next ELSE -1]
    BY DEF TestSend, WaitSend, AdvanceSend
  <2> HIDE DEF more
  <2> QED
    BY <1>1, <2>1 DEF TypeOK
<1>5. /\ m0 \in Requests /\ Ordered(m0)
      /\ m0.src = r /\ m0.dst = p /\ m0.chunk = next /\ m0.slot = k
  BY <1>1, RequestType, RequestFields DEF Ordered
<1> HIDE DEF more, m0
<1>6. \A s, d \in Ranks : snext[<<s, d>>] <= snext'[<<s, d>>]
  <2> SUFFICES ASSUME NEW s \in Ranks, NEW d \in Ranks PROVE snext[<<s, d>>] <= snext'[<<s, d>>]
    OBVIOUS
  <2>1. snext[<<s, d>>] \in Nat
    BY <1>1 DEF TypeOK
  <2>2. CASE s = r /\ d = p
    BY <1>1, <1>3, <2>1, <2>2
  <2>3. CASE ~(s = r /\ d = p)
    BY <1>3, <2>1, <2>3
  <2> QED
    BY <2>2, <2>3
<1>7. \A m \in A : /\ Ordered(m)
                   /\ snext[<<m.src, m.dst>>] <= m.chunk
                   /\ m.chunk < snext'[<<m.src, m.dst>>]
  BY <1>1, <1>3, <1>5
<1>8. \A s, d \in Ranks, c \in Nat :
          snext[<<s, d>>] <= c /\ c < snext'[<<s, d>>] =>
              \E m \in A : m.src = s /\ m.dst = d /\ m.chunk = c
  <2> SUFFICES ASSUME NEW s \in Ranks, NEW d \in Ranks, NEW c \in Nat,
                      snext[<<s, d>>] <= c, c < snext'[<<s, d>>]
               PROVE  \E m \in A : m.src = s /\ m.dst = d /\ m.chunk = c
    OBVIOUS
  <2>1. snext[<<s, d>>] \in Nat
    BY <1>1 DEF TypeOK
  <2>2. s = r /\ d = p /\ more
    BY <1>3, <2>1
  <2>3. c = next
    BY <1>1, <1>3, <2>2
  <2> QED
    BY <1>5, <2>2, <2>3
<1>9. /\ SendsPosted' /\ SendsCovered' /\ SendsOnce' /\ SendsFresh'
      /\ \A l \in landed' : l.got < snext'[<<l.src, l.dst>>]
  <2>1. /\ A \subseteq Requests /\ landed' = landed /\ sends' = sends \cup A
        /\ \A a, b \in A : SameChunk(a, b) => a = b
    BY <1>2, <1>5
  <2>2. InPlace /\ SendsPosted /\ LandedPosted /\ SendsCovered /\ SendsOnce /\ SendsFresh
    BY DEF IInv
  <2> HIDE DEF A
  <2>3. TypeOK /\ TypeOK'
    BY <1>1
  <2> QED
    BY <1>6, <1>7, <1>8, <2>1, <2>2, <2>3, PostSends
<1>10. SlotsPosted'
  <2> SUFFICES ASSUME NEW a \in Ranks, NEW b \in Ranks, NEW j \in Slots
               PROVE  schunk'[<<a, b, j>>] < snext'[<<a, b>>]
    BY DEF SlotsPosted
  <2>1. snext[<<a, b>>] \in Nat /\ snext'[<<a, b>>] \in Nat /\ schunk[<<a, b, j>>] \in Int
    BY <1>1 DEF TypeOK
  <2>2. CASE a = r /\ b = p /\ j = k
    BY <1>1, <1>3, <1>4, <2>1, <2>2
  <2>3. CASE ~(a = r /\ b = p /\ j = k)
    <3>1. schunk'[<<a, b, j>>] = schunk[<<a, b, j>>] /\ schunk[<<a, b, j>>] < snext[<<a, b>>]
      BY <1>4, <2>3 DEF IInv, SlotsPosted
    <3>2. snext[<<a, b>>] <= snext'[<<a, b>>]
      BY <1>6
    <3> QED
      BY <2>1, <3>1, <3>2
  <2> QED
    BY <2>2, <2>3
<1>11. UnackedPosted' /\ SendSlotHeld'
  <2> SUFFICES ASSUME NEW m \in unacked \cup A
               PROVE  /\ m.chunk < snext'[<<m.src, m.dst>>]
                      /\ schunk'[<<m.src, m.dst, m.slot>>] = m.chunk
    BY <1>2 DEF UnackedPosted, SendSlotHeld
  <2>1. CASE m \in A
    BY <1>1, <1>4, <1>5, <1>7, <2>1
  <2>2. CASE m \in unacked
    <3>1. /\ m.src \in Ranks /\ m.dst \in Ranks /\ m.slot \in Slots /\ m.chunk \in Nat
          /\ m.chunk < snext[<<m.src, m.dst>>] /\ schunk[<<m.src, m.dst, m.slot>>] = m.chunk
      BY <1>1, <2>2 DEF IInv, UnackedPosted, SendSlotHeld, TypeOK, Requests
    <3>2. ~(m.src = r /\ m.dst = p /\ m.slot = k)
      BY <1>2, <2>2 DEF SendReady
    <3>3. schunk'[<<m.src, m.dst, m.slot>>] = m.chunk
      BY <1>4, <3>1, <3>2
    <3>4. /\ snext[<<m.src, m.dst>>] <= snext'[<<m.src, m.dst>>]
          /\ snext[<<m.src, m.dst>>] \in Nat /\ snext'[<<m.src, m.dst>>] \in Nat
      BY <1>1, <1>6, <3>1 DEF TypeOK
    <3> QED
      BY <3>1, <3>3, <3>4
  <2> QED
    BY <2>1, <2>2
<1>12. NotStarted'
  <2> SUFFICES ASSUME NEW a \in Ranks, NEW b \in Ranks
               PROVE  /\ pc'[a] = "postRecv" => rnext[<<a, b>>] = 0
                      /\ b > cursor[a] => snext'[<<a, b>>] = 0
                      /\ b = cursor[a] /\ pc'[a] \in {"postRecv", "start"} => snext'[<<a, b>>] = 0
    BY <1>2 DEF NotStarted, recvVars
  <2>1. pc'[a] = pc[a] \/ (a = r /\ pc'[a] = "loop")
    BY <1>1, <1>2 DEF TypeOK
  <2>2. ~(p > cursor[r])
    <3>1. schunk[<<r, p, k>>] # -1 /\ schunk[<<r, p, k>>] < next
      BY <1>1, <1>2 DEF IInv, SlotsPosted, SendReady
    <3>2. schunk[<<r, p, k>>] \in Nat \cup {-1}
      BY <1>1 DEF TypeOK
    <3>3. next # 0
      BY <1>1, <3>1, <3>2
    <3> QED
      BY <1>1, <3>3 DEF IInv, NotStarted
  <2>3. ~(a = r /\ b = p) => snext'[<<a, b>>] = snext[<<a, b>>]
    BY <1>3
  <2> QED
    BY <1>2, <2>1, <2>2, <2>3 DEF IInv, NotStarted
<1> QED
  BY <1>1, <1>2, <1>9, <1>10, <1>11, <1>12, RecvsUntouched DEF IInv, InPlace, LandedPosted, recvVars

\* The oldest send and the oldest receive of a tag carry the same chunk: had one
\* of them an earlier chunk than the other, that chunk would be waiting on the
\* other side too, under the same tag and older, or would have landed.
LEMMA MatchedChunk ==
    ASSUME IInv, NEW m \in sends, NEW q \in recvs, Matching(m, q, sends, recvs)
    PROVE  m.chunk = q.chunk
<1>1. /\ m.src \in Ranks /\ m.dst \in Ranks /\ m.chunk \in Nat /\ q.chunk \in Nat
      /\ m.src = q.src /\ m.dst = q.dst /\ m.tag = q.tag
  BY DEF IInv, TypeOK, Requests, Matching, SameClass
<1>2. Ordered(m) /\ m.chunk < snext[<<m.src, m.dst>>]
  BY DEF IInv, SendsPosted
<1>3. Ordered(q) /\ q.chunk < rnext[<<q.dst, q.src>>]
  BY DEF IInv, RecvsPosted
<1>4. /\ rnext[<<m.dst, m.src>>] \in Nat /\ snext[<<m.src, m.dst>>] \in Nat
  BY <1>1 DEF IInv, TypeOK
<1>5. ASSUME m.chunk < q.chunk PROVE FALSE
  <2>1. m.chunk < rnext[<<m.dst, m.src>>]
    BY <1>1, <1>3, <1>4, <1>5
  <2>2. ~Landed(m.src, m.dst, m.chunk)
    BY DEF IInv, SendsFresh
  <2>3. PICK older \in recvs : older.src = m.src /\ older.dst = m.dst /\ older.chunk = m.chunk
    BY <1>1, <2>1, <2>2 DEF IInv, RecvsCovered
  <2>4. Ordered(older)
    BY DEF IInv, RecvsPosted
  <2>5. SameClass(older, q)
    BY <1>1, <1>2, <2>3, <2>4 DEF SameClass, Ordered
  <2>6. q.order <= older.order
    BY <2>5 DEF Matching, Oldest
  <2> QED
    BY <1>1, <1>3, <1>5, <2>3, <2>4, <2>6 DEF Ordered
<1>6. ASSUME q.chunk < m.chunk PROVE FALSE
  <2>1. q.chunk < snext[<<m.src, m.dst>>]
    BY <1>1, <1>2, <1>4, <1>6
  <2>2. ~Landed(m.src, m.dst, q.chunk)
    BY <1>1 DEF IInv, RecvsFresh
  <2>3. PICK older \in sends : older.src = m.src /\ older.dst = m.dst /\ older.chunk = q.chunk
    BY <1>1, <2>1, <2>2 DEF IInv, SendsCovered
  <2>4. Ordered(older)
    BY DEF IInv, SendsPosted
  <2>5. SameClass(older, m)
    BY <1>1, <1>3, <2>3, <2>4 DEF SameClass, Ordered
  <2>6. m.order <= older.order
    BY <2>5 DEF Matching, Oldest
  <2> QED
    BY <1>1, <1>2, <1>6, <2>3, <2>4, <2>6 DEF Ordered
<1> QED
  BY <1>1, <1>5, <1>6

LEMMA MatchInv == IInv /\ Match => IInv'
<1> SUFFICES ASSUME IInv, Match PROVE IInv'
  OBVIOUS
<1>1. TypeOK /\ TypeOK' /\ UNCHANGED <<rankVars, recvVars, sendVars, unacked>>
  BY MpiType DEF IInv, Match
<1>2. PICK m \in sends, q \in recvs :
          /\ Matching(m, q, sends, recvs)
          /\ sends' = sends \ {m}
          /\ recvs' = recvs \ {q}
          /\ landed' = landed \cup {[src |-> q.src, dst |-> q.dst, want |-> q.chunk, got |-> m.chunk]}
  BY DEF Match
<1>3. m.chunk = q.chunk /\ m.src = q.src /\ m.dst = q.dst
  BY <1>2, MatchedChunk DEF Matching, SameClass
<1>4. \A l \in landed' : l \in landed \/ ( /\ l.src = q.src /\ l.dst = q.dst
                                        /\ l.want = q.chunk /\ l.got = q.chunk)
  BY <1>2, <1>3
<1>5. \A s, d, c : Landed(s, d, c)' <=> Landed(s, d, c) \/ (s = q.src /\ d = q.dst /\ c = q.chunk)
  <2> DEFINE l0 == [src |-> q.src, dst |-> q.dst, want |-> q.chunk, got |-> m.chunk]
  <2>1. landed' = landed \cup {l0} /\ l0.src = q.src /\ l0.dst = q.dst /\ l0.want = q.chunk
    BY <1>2
  <2> HIDE DEF l0
  <2> SUFFICES ASSUME NEW s, NEW d, NEW c
               PROVE  (\E l \in landed \cup {l0} : l.src = s /\ l.dst = d /\ l.want = c)
                      <=> (\E l \in landed : l.src = s /\ l.dst = d /\ l.want = c)
                          \/ (s = q.src /\ d = q.dst /\ c = q.chunk)
    BY <2>1 DEF Landed
  <2> QED
    BY <2>1
<1>6. /\ Ordered(m) /\ m.chunk < snext[<<m.src, m.dst>>]
      /\ Ordered(q) /\ q.chunk < rnext[<<q.dst, q.src>>]
  BY DEF IInv, SendsPosted, RecvsPosted
<1>7. InPlace'
  BY <1>4 DEF IInv, InPlace
<1>8. LandedPosted'
  BY <1>1, <1>3, <1>4, <1>6 DEF IInv, LandedPosted, recvVars, sendVars
<1>9. RecvsPosted' /\ SendsPosted'
  BY <1>1, <1>2 DEF IInv, RecvsPosted, SendsPosted, Ordered, recvVars, sendVars
<1>10. RecvsCovered'
  BY <1>1, <1>2, <1>5 DEF IInv, RecvsCovered, recvVars
<1>11. SendsCovered'
  BY <1>1, <1>2, <1>3, <1>5 DEF IInv, SendsCovered, sendVars
<1>12. RecvsOnce' /\ SendsOnce'
  BY <1>2 DEF IInv, RecvsOnce, SendsOnce, SameChunk
<1>13. RecvsFresh'
  BY <1>2, <1>5 DEF IInv, RecvsFresh, RecvsOnce, SameChunk
<1>14. SendsFresh'
  BY <1>2, <1>3, <1>5 DEF IInv, SendsFresh, SendsOnce, SameChunk
<1>15. NotStarted'
  BY <1>1 DEF IInv, NotStarted, rankVars, recvVars, sendVars
<1>16. SlotsPosted' /\ UnackedPosted' /\ SendSlotHeld'
  BY <1>1, SlotsUntouched DEF sendVars
<1> QED
  BY <1>1, <1>7, <1>8, <1>9, <1>10, <1>11, <1>12, <1>13, <1>14, <1>15, <1>16 DEF IInv

LEMMA AcknowledgeInv == IInv /\ Acknowledge => IInv'
<1> SUFFICES ASSUME IInv, Acknowledge PROVE IInv'
  OBVIOUS
<1>1. TypeOK' /\ unacked' \subseteq unacked
  BY MpiType DEF IInv, Acknowledge
<1>2. UNCHANGED <<pc, cursor, rnext, schunk, snext, recvs, sends, landed>>
  BY DEF Acknowledge, rankVars, recvVars, sendVars
<1>3. NotStarted'
  BY <1>2 DEF IInv, NotStarted
<1>4. SlotsPosted' /\ UnackedPosted' /\ SendSlotHeld'
  BY <1>1, <1>2 DEF IInv, SlotsPosted, UnackedPosted, SendSlotHeld
<1> QED
  BY <1>1, <1>2, <1>3, <1>4, RecvsUntouched, SendsUntouched DEF IInv, InPlace, LandedPosted

-----------------------------------------------------------------------------

LEMMA InvInit == Init => IInv
<1> SUFFICES ASSUME Init PROVE IInv
  OBVIOUS
<1>1. TypeOK
  BY TypeInit
<1>2. /\ recvs = {} /\ sends = {} /\ unacked = {} /\ landed = {}
      /\ \A r, p \in Ranks : rnext[<<r, p>>] = 0 /\ snext[<<r, p>>] = 0
      /\ \A r, p \in Ranks, k \in Slots : schunk[<<r, p, k>>] = -1
  BY DEF Init
<1>3. RecvsCovered /\ SendsCovered
  BY <1>2 DEF RecvsCovered, SendsCovered
<1> QED
  BY <1>1, <1>2, <1>3
  DEF IInv, InPlace, RecvsPosted, SendsPosted, LandedPosted, RecvsOnce, SendsOnce, RecvsFresh,
      SendsFresh, NotStarted, SlotsPosted, UnackedPosted, SendSlotHeld

LEMMA InvStep == IInv /\ [Next]_vars => IInv'
<1> SUFFICES ASSUME IInv, [Next]_vars PROVE IInv'
  OBVIOUS
<1>1. ASSUME NEW r \in Ranks, RankStep(r) PROVE IInv'
  BY <1>1, PostRecvsInv, StartSendsInv, ControlInv, AdvanceRecvInv, AdvanceSendInv DEF RankStep
<1>2. CASE Match
  BY <1>2, MatchInv
<1>3. CASE Acknowledge
  BY <1>3, AcknowledgeInv
<1>4. CASE UNCHANGED vars
  <2>1. UNCHANGED <<pc, cursor, rnext, schunk, snext, recvs, sends, unacked, landed>>
    BY <1>4 DEF vars, rankVars, recvVars, sendVars, mpiVars
  <2>2. TypeOK'
    BY <1>4, TypeStep DEF IInv
  <2>3. NotStarted'
    BY <2>1 DEF IInv, NotStarted
  <2> QED
    BY <2>1, <2>2, <2>3, RecvsUntouched, SendsUntouched, SlotsUntouched DEF IInv, InPlace, LandedPosted
<1> QED
  BY <1>1, <1>2, <1>3, <1>4 DEF Next, Finished

LEMMA Invariant == Spec => []IInv
  BY InvInit, InvStep, PTL DEF Spec

\* Every chunk lands in its own place although chunks in flight share tags
\* (native_xzwy_chunk_window_tag_ keeps the chunk modulo the window): for any
\* number of ranks, any window, any chunk counts and any order in which MPI
\* completes the requests.
THEOREM InPlaceCorrect == Spec => []InPlace
<1>1. IInv => InPlace
  BY DEF IInv
<1> QED
  BY <1>1, Invariant, PTL

\* A slot of the send window, and the staging memory that goes with it, is given
\* to another chunk only after MPI is done with the send it holds.
THEOREM SendSlotHeldCorrect == Spec => []SendSlotHeld
<1>1. IInv => SendSlotHeld
  BY DEF IInv
<1> QED
  BY <1>1, Invariant, PTL

=============================================================================
