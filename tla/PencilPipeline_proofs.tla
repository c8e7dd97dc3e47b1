----------------------- MODULE PencilPipeline_proofs -----------------------
(***************************************************************************)
(* Proofs about the native 3D pencil executor, for every grid, every set   *)
(* of setups and any work area large enough for them.  That memory is      *)
(* right needs one more hypothesis, ScratchClear: no scratch space of an   *)
(* FFT covers the send buffer of deferred sends.  The run pp_race shows    *)
(* what happens without it.                                                *)
(*                                                                         *)
(* The argument has three parts.  Both ranks of a pair post their requests *)
(* in the order of stages and chunks, and a chunk that both have posted is *)
(* unmatched on both sides or on neither: hence what MPI matches belongs   *)
(* together.  A rank is done with a redistribution when what it waits for  *)
(* has been asked for, matched and waited for.  And no step writes to a    *)
(* region that is still needed, because the regions differ.                *)
(***************************************************************************)
EXTENDS PencilPipeline, FiniteSetTheorems, SequenceTheorems, TLAPS

-----------------------------------------------------------------------------
(***************************************************************************)
(* Who has posted what.                                                    *)
(***************************************************************************)
Entries(q) == {q[i] : i \in DOMAIN q}

Before(a, b) == a.stage < b.stage \/ (a.stage = b.stage /\ a.chunk < b.chunk)
Ordered(q)   == \A i, j \in DOMAIN q : i < j => Before(q[i], q[j])

\* The last entries of a message's requests, which are what is left of them.
Suffix(q) == \A i \in DOMAIN q : q[i].chunk = setup.chunks - Len(q) + i

Exchanges == {n \in 1 .. LastStage : IsExchange(n)}
Left(r)   == Entries(peers[r])

\* f has posted its sends of stage x to t, t its receives of stage x from f.
Posted(f, t, x) == at[f] > x \/ (at[f] = x /\ pc[f] = "post" /\ t \notin Left(f))
Asked(f, t, x) ==
    at[t] > x \/ (at[t] = x /\ pc[t] = "post" /\ (setup.paired => f \notin Left(t)))

\* A chunk of stage x is among the unmatched sends, or receives.
Sent(f, t, x, k)   == \E m \in Entries(sends[<<f, t>>]) : m.stage = x /\ m.chunk = k
Wanted(f, t, x, k) == \E m \in Entries(recvs[<<f, t>>]) : m.stage = x /\ m.chunk = k

-----------------------------------------------------------------------------
(***************************************************************************)
(* The inductive invariant.                                                *)
(***************************************************************************)
Places ==
    {"idle", "fft", "running", "probe", "drain", "failDrain", "failed", "broken", "exchange",
     "post"}

SendRecords     == [stage : Nat, chunk : Nat, good : BOOLEAN]
RecvRecords     == [stage : Nat, chunk : Nat]
DeferredRecords == [stage : Nat, requests : SUBSET (Ranks \X Chunks), remaining : Int]
Contents        == [what : Int, parts : SUBSET (Ranks \X Chunks)]

Typed ==
    /\ setup \in Setups
    /\ at \in [Ranks -> 0 .. LastStage]
    /\ pc \in [Ranks -> Places]
    /\ peers \in [Ranks -> Seq(Ranks)]
    /\ unwaited \in [Ranks -> [Ranks -> Int]]
    /\ landed \in [Ranks -> SUBSET (Ranks \X Chunks)]
    /\ deferred \in [Ranks -> DeferredRecords]
    /\ computing \in [Ranks -> BOOLEAN]
    /\ sends \in [Ranks \X Ranks -> Seq(SendRecords)]
    /\ recvs \in [Ranks \X Ranks -> Seq(RecvRecords)]
    /\ mem \in [Ranks -> [Regions -> Contents]]

\* The steps of a call at which a rank is in each place.
StepsAt(place) ==
    CASE place = "idle" -> {0, 5}
      [] place \in {"fft", "running", "failed"} -> {1, 3, 5}
      [] place \in {"probe", "drain", "failDrain"} -> {3, 5}
      [] place \in {"exchange", "post"} -> {2, 4}
      [] OTHER -> {}

InPlace == \A r \in Ranks : StepOf(at[r]) \in StepsAt(pc[r])

\* The peers still to be served in a redistribution, each once.
PeersLeft ==
    \A r \in Ranks : pc[r] = "post" =>
        /\ Left(r) \subseteq Peers(r, at[r])
        /\ \A i, j \in DOMAIN peers[r] : i # j => peers[r][i] # peers[r][j]

\* What is deferred is the sends of the redistribution just left.
DeferredOk(r) ==
    /\ deferred[r].remaining = Cardinality(deferred[r].requests)
    /\ IF Active(r)
       THEN /\ setup.deferred
            /\ pc[r] \in {"fft", "running", "probe", "drain", "failDrain"}
            /\ at[r] = deferred[r].stage + 1
            /\ deferred[r].stage \in Exchanges
            /\ deferred[r].requests \subseteq Peers(r, deferred[r].stage) \X Chunks
       ELSE deferred[r].requests = {}

DeferredIs == \A r \in Ranks : DeferredOk(r)

\* An unmatched send belongs to a stage its rank has posted and, if MPI has not
\* copied it, is in; or it is one of the deferred requests.
Deferring(f, t, m) ==
    Active(f) /\ deferred[f].stage = m.stage /\ <<t, m.chunk>> \in deferred[f].requests

SendsAre ==
    \A f, t \in Ranks : \A m \in Entries(sends[<<f, t>>]) :
        /\ m.stage \in Exchanges /\ m.chunk \in Chunks
        /\ t \in Peers(f, m.stage)
        /\ Posted(f, t, m.stage)
        /\ setup.eager \/ (pc[f] = "post" /\ at[f] = m.stage) \/ Deferring(f, t, m)

RecvsAre ==
    \A f, t \in Ranks : \A m \in Entries(recvs[<<f, t>>]) :
        /\ pc[t] = "post" /\ at[t] = m.stage /\ m.chunk \in Chunks
        /\ f \in Peers(t, m.stage)
        /\ Asked(f, t, m.stage)

\* Requests are posted in the order of stages and chunks.
InOrder ==
    \A f, t \in Ranks :
        /\ Ordered(sends[<<f, t>>]) /\ (~setup.eager => Suffix(sends[<<f, t>>]))
        /\ Ordered(recvs[<<f, t>>]) /\ Suffix(recvs[<<f, t>>])

\* A chunk that only one side has posted is unmatched; one that both have is
\* unmatched on both sides or on neither.
Matched ==
    \A f, t \in Ranks : \A x \in Exchanges : \A k \in Chunks :
        t \in Peers(f, x) =>
        /\ Posted(f, t, x) /\ ~Asked(f, t, x) => Sent(f, t, x, k)
        /\ Asked(f, t, x) /\ ~Posted(f, t, x) => Wanted(f, t, x, k)
        /\ Posted(f, t, x) /\ Asked(f, t, x) => (Sent(f, t, x, k) <=> Wanted(f, t, x, k))

\* What has landed came from a peer and was asked for once.
LandedAre ==
    \A t \in Ranks : \A q \in landed[t] :
        /\ pc[t] = "post"
        /\ q[1] \in Peers(t, at[t])
        /\ Asked(q[1], t, at[t])
        /\ ~Wanted(q[1], t, at[t], q[2])

\* The chunks of a peer that are still to be waited for.
Due(f, t) ==
    {k \in Chunks : \/ ~Asked(f, t, at[t])
                    \/ Wanted(f, t, at[t], k)
                    \/ <<f, k>> \in landed[t]}

Counted ==
    \A t, f \in Ranks :
        unwaited[t][f] = IF pc[t] = "post" /\ f \in Peers(t, at[t]) THEN Cardinality(Due(f, t)) ELSE 0

-----------------------------------------------------------------------------
(***************************************************************************)
(* What the memory of a rank holds.                                        *)
(***************************************************************************)
InputWhole(r) ==
    pc[r] \in {"fft", "exchange", "post"} => Whole(r, mem[r][Input(r, at[r])], at[r] - 1)

RunsWhole(r) == pc[r] = "running" => computing[r]

OutputWhole(r) ==
    pc[r] \in {"probe", "drain", "idle"} /\ at[r] > 0 =>
        Whole(r, mem[r][Output(r, at[r])], at[r])

\* What MPI has copied was right, what it will read still is.
SendsGood(r) ==
    \A t \in Ranks : \A m \in Entries(sends[<<r, t>>]) :
        IF setup.eager THEN m.good ELSE Intact(r, t, m.stage)

\* Where a chunk that has arrived is: where it lands or was unpacked to, or in
\* the receive buffer.
PlaceOf(f, t) == IF Lands(at[t]) \/ unwaited[t][f] = 0 THEN Output(t, at[t]) ELSE RecvSlot

Arrived(t) ==
    pc[t] = "post" =>
        \A f \in Peers(t, at[t]) : \A k \in Chunks :
            Asked(f, t, at[t]) /\ ~Wanted(f, t, at[t], k) =>
                /\ mem[t][PlaceOf(f, t)].what = at[t]
                /\ <<f, k>> \in mem[t][PlaceOf(f, t)].parts

Right(r) == InputWhole(r) /\ RunsWhole(r) /\ OutputWhole(r) /\ SendsGood(r) /\ Arrived(r)

DInv == \A r \in Ranks : Right(r)

-----------------------------------------------------------------------------
(***************************************************************************)
(* Where a deferred send is still read while an FFT runs, the scratch      *)
(* space of the FFT does not cover the send buffer.                        *)
(***************************************************************************)
ScratchClear ==
    \A s \in Setups : s.deferred /\ ~s.eager =>
        /\ s.kind = "opt1" /\ s.span > 0 =>
             ~s.stable /\ \A i \in 1 .. Len(s.calls) : s.calls[i] = "forward"
        /\ s.kind = "topology" /\ s.compact # {} => s.span <= 1

-----------------------------------------------------------------------------
(***************************************************************************)
(* Setups, stages and the grid.                                            *)
(***************************************************************************)

SetupRecords ==
    [calls : Seq({"forward", "backward"}), kind : {"opt1", "opt0", "topology"},
     deferred : BOOLEAN, stable : BOOLEAN, landing : BOOLEAN, alias : BOOLEAN,
     paired : BOOLEAN, eager : BOOLEAN, chunks : Nat \ {0}, span : Nat,
     compact : SUBSET Ranks, failing : SUBSET Ranks]

LEMMA SetupFacts ==
    ASSUME setup \in Setups
    PROVE  /\ setup \in SetupRecords
           /\ setup.calls \in Seq({"forward", "backward"}) /\ Len(setup.calls) \in Nat \ {0}
           /\ setup.chunks \in Nat \ {0} /\ setup.span \in Nat
           /\ setup.kind \in {"opt1", "opt0", "topology"}
           /\ setup.kind # "opt1" => setup.span > 0
           /\ setup.kind # "topology" => setup.compact = {}
           /\ setup.paired => setup.chunks = 1
           /\ setup.span + 4 <= Cells
           /\ Cells \in Nat
  BY PipelineAssumption DEF SetupRecords

\* The operators that depend on the setup alone.
LEMMA SetupFixed ==
    ASSUME setup' = setup
    PROVE  /\ LastStage' = LastStage /\ Chunks' = Chunks /\ Exchanges' = Exchanges
           /\ \A n : Way(n)' = Way(n) /\ Packed(n)' = Packed(n) /\ Lands(n)' = Lands(n)
           /\ SendSlot' = SendSlot
           /\ \A r, n : /\ PeerOrder(r, n)' = PeerOrder(r, n)
                        /\ Peers(r, n)' = Peers(r, n)
                        /\ Input(r, n)' = Input(r, n)
                        /\ Output(r, n)' = Output(r, n)
                        /\ Source(r, n)' = Source(r, n)
           /\ \A r, c, n : Whole(r, c, n)' = Whole(r, c, n)
           /\ \A r : WorkCells(r)' = WorkCells(r)
           /\ \A q : Suffix(q)' = Suffix(q)
           /\ \A n : Requests(n)' = Requests(n) /\ Full(n)' = Full(n)
<1>1. LastStage' = LastStage /\ Chunks' = Chunks
  BY DEF LastStage, Chunks
<1>2. Exchanges' = Exchanges
  BY <1>1 DEF Exchanges, IsExchange
<1>3. \A n : Way(n)' = Way(n)
  BY DEF Way
<1>4. \A n : Packed(n)' = Packed(n) /\ Lands(n)' = Lands(n) /\ InRow(n)' = InRow(n)
  BY <1>3 DEF Packed, Lands, InRow
<1>5. SendSlot' = SendSlot
  BY DEF SendSlot
<1>6. \A r, n : PeerOrder(r, n)' = PeerOrder(r, n)
  BY <1>4 DEF PeerOrder
<1>7. \A r, n : Peers(r, n)' = Peers(r, n)
  BY <1>6 DEF Peers
<1>8. \A r : WorkBase(r)' = WorkBase(r)
  BY DEF WorkBase
<1>9. \A r : WorkCells(r)' = WorkCells(r) /\ BackwardY(r)' = BackwardY(r)
  BY <1>8 DEF WorkCells, BackwardY
<1>10. \A r, way : ArraysOf(r, way)' = ArraysOf(r, way)
  BY <1>9 DEF ArraysOf
<1>11. \A r, n : Input(r, n)' = Input(r, n) /\ Output(r, n)' = Output(r, n)
  BY <1>3, <1>10 DEF Input, Output
<1>12. \A r, n : Source(r, n)' = Source(r, n)
  BY <1>4, <1>5, <1>11 DEF Source
<1>13. \A r, c, n : Whole(r, c, n)' = Whole(r, c, n)
  BY <1>1, <1>7 DEF Whole
<1>14. \A q : Suffix(q)' = Suffix(q)
  BY DEF Suffix
<1>15. \A n : Requests(n)' = Requests(n) /\ Full(n)' = Full(n)
  BY <1>1 DEF Requests, Full
<1> QED
  BY <1>1, <1>2, <1>3, <1>4, <1>5, <1>6, <1>7, <1>9, <1>11, <1>12, <1>13, <1>14, <1>15

Stages == 1 .. LastStage

LEMMA StepFacts ==
    ASSUME setup \in Setups
    PROVE  /\ LastStage \in Nat
           /\ StepOf(0) = 0
           /\ \A n \in Stages : /\ n \in Nat /\ StepOf(n) \in 1 .. 5
                                /\ Way(n) \in {"forward", "backward"}
           /\ \A n \in 0 .. LastStage : StepOf(n) \in {0, 5} /\ n < LastStage => StepOf(n + 1) = 1
           /\ \A n \in Stages : StepOf(n) # 5 =>
                /\ n + 1 \in Stages /\ StepOf(n + 1) = StepOf(n) + 1 /\ Way(n + 1) = Way(n)
           /\ Exchanges \subseteq Stages
<1> DEFINE c == Len(setup.calls)
<1>1. c \in Nat \ {0} /\ setup.calls \in [1 .. c -> {"forward", "backward"}] /\ LastStage = 5 * c
  BY SetupFacts DEF LastStage, StepsPerCall
<1> HIDE DEF c
<1>2. ASSUME NEW n \in Stages
      PROVE  /\ n \in Nat /\ (n - 1) % 5 \in 0 .. 4 /\ ((n - 1) \div 5) + 1 \in 1 .. c
             /\ (n - 1) % 5 # 4 => /\ n # LastStage
                                   /\ n % 5 = ((n - 1) % 5) + 1 /\ n \div 5 = (n - 1) \div 5
             /\ (n - 1) % 5 = 4 => n % 5 = 0
  BY <1>1 DEF Stages
<1>3. \A n \in Stages : n # 0 /\ StepOf(n) = ((n - 1) % 5) + 1
  BY <1>2 DEF StepOf, StepsPerCall, Stages
<1>4. LastStage \in Nat /\ StepOf(0) = 0
  BY <1>1 DEF StepOf
<1>5. ASSUME NEW n \in Stages
      PROVE n \in Nat /\ StepOf(n) \in 1 .. 5 /\ Way(n) \in {"forward", "backward"}
  <2>1. setup.calls[((n - 1) \div 5) + 1] \in {"forward", "backward"}
    BY <1>1, <1>2
  <2> QED
    BY <2>1, <1>2, <1>3 DEF Way, StepsPerCall
<1>6. ASSUME NEW n \in 0 .. LastStage, StepOf(n) \in {0, 5}, n < LastStage
      PROVE StepOf(n + 1) = 1
  <2>1. n % 5 = 0
    <3>1. CASE n = 0
      BY <3>1
    <3>2. CASE n # 0
      <4>1. n \in Stages
        BY <3>2, <1>4 DEF Stages
      <4> QED
        BY <4>1, <1>2, <1>3, <1>6
    <3> QED
      BY <3>1, <3>2
  <2>2. n + 1 \in Stages /\ (n + 1) - 1 = n
    BY <1>4, <1>6 DEF Stages
  <2> QED
    BY <2>1, <2>2, <1>3
<1>7. ASSUME NEW n \in Stages, StepOf(n) # 5
      PROVE n + 1 \in Stages /\ StepOf(n + 1) = StepOf(n) + 1 /\ Way(n + 1) = Way(n)
  <2>1. (n - 1) % 5 # 4
    BY <1>2, <1>3, <1>7
  <2>2. n + 1 \in Stages /\ (n + 1) - 1 = n
    BY <2>1, <1>2, <1>4 DEF Stages
  <2>3. n % 5 = ((n - 1) % 5) + 1 /\ n \div 5 = (n - 1) \div 5
    BY <2>1, <1>2
  <2> QED
    BY <2>2, <2>3, <1>2, <1>3 DEF Way, StepsPerCall
<1> QED
  BY <1>4, <1>5, <1>6, <1>7 DEF Exchanges, Stages

-----------------------------------------------------------------------------
(***************************************************************************)
(* The other members of a row or a line of the grid.                       *)
(***************************************************************************)

LEMMA Grid == P1 \in Nat \ {0, 1} /\ P2 \in Nat \ {0, 1}
  BY PipelineAssumption

LEMMA DivMod ==
    ASSUME NEW i \in Nat, NEW c \in Nat \ {0}, NEW j \in 0 .. c - 1
    PROVE  i * c + j \in Nat /\ (i * c + j) \div c = i /\ (i * c + j) % c = j
  OBVIOUS

LEMMA Around ==
    ASSUME NEW c \in Nat \ {0}, NEW j \in 0 .. c - 1
    PROVE  /\ \A k \in 0 .. c - 1 : (j + k) % c = IF j + k < c THEN j + k ELSE j + k - c
           /\ \A k \in 1 .. c - 1 : (j + k) % c \in 0 .. c - 1 /\ (j + k) % c # j
           /\ \A k, l \in 1 .. c - 1 : (j + k) % c = (j + l) % c => k = l
           /\ \A m \in (0 .. c - 1) \ {j} : \E k \in 1 .. c - 1 : (j + k) % c = m
<1>1. ASSUME NEW k \in 0 .. c - 1 PROVE (j + k) % c = IF j + k < c THEN j + k ELSE j + k - c
  <2>1. CASE j + k < c
    BY <2>1
  <2>2. CASE j + k >= c
    BY <2>2
  <2> QED
    BY <2>1, <2>2
<1>2. \A k \in 1 .. c - 1 : k \in 0 .. c - 1
  OBVIOUS
<1>3. \A k \in 1 .. c - 1 : (j + k) % c = IF j + k < c THEN j + k ELSE j + k - c
  BY <1>1, <1>2
<1>4. ASSUME NEW m \in (0 .. c - 1) \ {j} PROVE \E k \in 1 .. c - 1 : (j + k) % c = m
  <2>1. CASE m > j
    <3>1. m - j \in 1 .. c - 1 /\ j + (m - j) = m /\ m < c
      BY <2>1
    <3> QED
      BY <3>1, <1>3
  <2>2. CASE m < j
    <3> DEFINE k == m - j + c
    <3>1. k \in 1 .. c - 1 /\ ~(j + k < c) /\ j + k - c = m
      BY <2>2
    <3> HIDE DEF k
    <3>2. (j + k) % c = m
      BY <3>1, <1>3
    <3> QED
      BY <3>1, <3>2
  <2> QED
    BY <2>1, <2>2

<1>5. \A k \in 1 .. c - 1 : (j + k) % c \in 0 .. c - 1 /\ (j + k) % c # j
  BY <1>3
<1>6. \A k, l \in 1 .. c - 1 : (j + k) % c = (j + l) % c => k = l
  BY <1>3
<1> QED
  BY <1>1, <1>4, <1>5, <1>6

LEMMA Coordinates ==
    /\ \A r \in Ranks : /\ I(r) \in 0 .. P1 - 1 /\ J(r) \in 0 .. P2 - 1
                        /\ r = I(r) * P2 + J(r)
    /\ \A i \in 0 .. P1 - 1, j \in 0 .. P2 - 1 :
         i * P2 + j \in Ranks /\ I(i * P2 + j) = i /\ J(i * P2 + j) = j
<1>1. ASSUME NEW r \in Ranks
      PROVE  I(r) \in 0 .. P1 - 1 /\ J(r) \in 0 .. P2 - 1 /\ r = I(r) * P2 + J(r)
  <2>1. r \in Nat /\ r < P1 * P2
    BY Grid DEF Ranks
  <2>2. I(r) \in Nat /\ J(r) \in 0 .. P2 - 1 /\ r = I(r) * P2 + J(r)
    BY <2>1, Grid DEF I, J
  <2>3. ~(I(r) >= P1)
    <3> SUFFICES ASSUME I(r) >= P1 PROVE FALSE
      OBVIOUS
    <3>1. I(r) * P2 >= P1 * P2
      BY <2>2, Grid
    <3> QED
      BY <2>1, <2>2, <3>1, Grid
  <2> QED
    BY <2>2, <2>3, Grid
<1>2. ASSUME NEW i \in 0 .. P1 - 1, NEW j \in 0 .. P2 - 1
      PROVE  i * P2 + j \in Ranks /\ I(i * P2 + j) = i /\ J(i * P2 + j) = j
  <2>1. i * P2 <= (P1 - 1) * P2
    BY Grid
  <2>2. (P1 - 1) * P2 = P1 * P2 - P2 /\ i * P2 \in Nat /\ P1 * P2 \in Nat
    BY Grid
  <2>3. i * P2 + j \in Ranks
    BY <2>1, <2>2, Grid DEF Ranks
  <2> QED
    BY <2>3, DivMod, Grid DEF I, J
<1> QED
  BY <1>1, <1>2

\* The peers of a rank are the others in its row, or in its line; each is met once.
LEMMA PeerFacts ==
    ASSUME NEW r \in Ranks, NEW n
    PROVE  /\ PeerOrder(r, n) \in Seq(Ranks)
           /\ \A i, j \in DOMAIN PeerOrder(r, n) : i # j => PeerOrder(r, n)[i] # PeerOrder(r, n)[j]
           /\ Peers(r, n) = IF InRow(n) THEN {p \in Ranks \ {r} : I(p) = I(r)}
                                        ELSE {p \in Ranks \ {r} : J(p) = J(r)}
<1>1. I(r) \in 0 .. P1 - 1 /\ J(r) \in 0 .. P2 - 1 /\ r = I(r) * P2 + J(r)
  BY Coordinates
<1>2. CASE InRow(n)
  <2> DEFINE o == [k \in 1 .. P2 - 1 |-> (I(r) * P2) + ((J(r) + k) % P2)]
  <2>1. PeerOrder(r, n) = o
    BY <1>2 DEF PeerOrder
  <2>0. /\ \A k \in 1 .. P2 - 1 : (J(r) + k) % P2 # J(r)
        /\ \A k, l \in 1 .. P2 - 1 : (J(r) + k) % P2 = (J(r) + l) % P2 => k = l
        /\ \A m \in (0 .. P2 - 1) \ {J(r)} : \E k \in 1 .. P2 - 1 : (J(r) + k) % P2 = m
    BY <1>1, Around, Grid
  <2>2. \A k \in 1 .. P2 - 1 : /\ (J(r) + k) % P2 \in 0 .. P2 - 1
                               /\ o[k] \in Ranks /\ I(o[k]) = I(r) /\ J(o[k]) = (J(r) + k) % P2
    BY <1>1, Coordinates, Around, Grid
  <2>3. DOMAIN o = 1 .. P2 - 1 /\ P2 - 1 \in Nat
    BY Grid
  <2> HIDE DEF o
  <2>4. o \in Seq(Ranks)
    <3>1. o \in [1 .. P2 - 1 -> Ranks]
      BY <2>2, <2>3 DEF o
    <3> QED
      BY <3>1, <2>3
  <2>5. \A i, j \in DOMAIN o : o[i] = o[j] => i = j
    BY <2>0, <2>2, <2>3
  <2>6. ASSUME NEW k \in DOMAIN o PROVE o[k] # r
    BY <2>0, <2>2, <2>3
  <2>7. ASSUME NEW p \in Ranks \ {r}, I(p) = I(r) PROVE \E k \in DOMAIN o : p = o[k]
    <3>1. J(p) \in 0 .. P2 - 1 /\ p = I(r) * P2 + J(p)
      BY <2>7, Coordinates
    <3>2. J(p) # J(r)
      BY <3>1, <1>1
    <3>3. PICK k \in 1 .. P2 - 1 : (J(r) + k) % P2 = J(p)
      BY <3>1, <3>2, <2>0
    <3> QED
      BY <3>1, <3>3, <2>3 DEF o
  <2> QED
    BY <1>2, <2>1, <2>2, <2>3, <2>4, <2>5, <2>6, <2>7 DEF Peers
<1>3. CASE ~InRow(n)
  <2> DEFINE o == [k \in 1 .. P1 - 1 |-> (((I(r) + k) % P1) * P2) + J(r)]
  <2>1. PeerOrder(r, n) = o
    BY <1>3 DEF PeerOrder
  <2>0. /\ \A k \in 1 .. P1 - 1 : (I(r) + k) % P1 # I(r)
        /\ \A k, l \in 1 .. P1 - 1 : (I(r) + k) % P1 = (I(r) + l) % P1 => k = l
        /\ \A m \in (0 .. P1 - 1) \ {I(r)} : \E k \in 1 .. P1 - 1 : (I(r) + k) % P1 = m
    BY <1>1, Around, Grid
  <2>2. \A k \in 1 .. P1 - 1 : /\ (I(r) + k) % P1 \in 0 .. P1 - 1
                               /\ o[k] \in Ranks /\ I(o[k]) = (I(r) + k) % P1 /\ J(o[k]) = J(r)
    BY <1>1, Coordinates, Around, Grid
  <2>3. DOMAIN o = 1 .. P1 - 1 /\ P1 - 1 \in Nat
    BY Grid
  <2> HIDE DEF o
  <2>4. o \in Seq(Ranks)
    <3>1. o \in [1 .. P1 - 1 -> Ranks]
      BY <2>2, <2>3 DEF o
    <3> QED
      BY <3>1, <2>3
  <2>5. \A i, j \in DOMAIN o : o[i] = o[j] => i = j
    BY <2>0, <2>2, <2>3
  <2>6. ASSUME NEW k \in DOMAIN o PROVE o[k] # r
    BY <2>0, <2>2, <2>3
  <2>7. ASSUME NEW p \in Ranks \ {r}, J(p) = J(r) PROVE \E k \in DOMAIN o : p = o[k]
    <3>1. I(p) \in 0 .. P1 - 1 /\ p = I(p) * P2 + J(r)
      BY <2>7, Coordinates
    <3>2. I(p) # I(r)
      BY <3>1, <1>1
    <3>3. PICK k \in 1 .. P1 - 1 : (I(r) + k) % P1 = I(p)
      BY <3>1, <3>2, <2>0
    <3> QED
      BY <3>1, <3>3, <2>3 DEF o
  <2> QED
    BY <1>3, <2>1, <2>2, <2>3, <2>4, <2>5, <2>6, <2>7 DEF Peers
<1> QED
  BY <1>2, <1>3

LEMMA Symmetric ==
    ASSUME NEW r \in Ranks, NEW n
    PROVE  /\ Peers(r, n) \subseteq Ranks \ {r}
           /\ \A p \in Ranks : p \in Peers(r, n) <=> r \in Peers(p, n)
  BY PeerFacts

-----------------------------------------------------------------------------
(***************************************************************************)
(* Queues of requests.                                                     *)
(***************************************************************************)

Distinct(q) == \A i, j \in DOMAIN q : i # j => q[i] # q[j]

LEMMA TailQueue ==
    ASSUME NEW S, NEW q \in Seq(S), q # <<>>
    PROVE  /\ Head(q) \in S /\ Tail(q) \in Seq(S)
           /\ Entries(q) = {Head(q)} \cup Entries(Tail(q))
           /\ Distinct(q) => Distinct(Tail(q)) /\ Entries(Tail(q)) = Entries(q) \ {Head(q)}
           /\ Ordered(q) => Ordered(Tail(q)) /\ \A m \in Entries(Tail(q)) : Before(Head(q), m)
           /\ setup.chunks \in Nat /\ Suffix(q) => Suffix(Tail(q))
<1> DEFINE t == Tail(q)
<1>1. Len(q) \in Nat \ {0} /\ DOMAIN q = 1 .. Len(q) /\ Head(q) = q[1]
  BY EmptySeq, LenProperties
<1>2. Head(q) \in S /\ t \in Seq(S) /\ Len(t) = Len(q) - 1
      /\ \A i \in 1 .. Len(t) : t[i] = q[i + 1]
  BY HeadTailProperties
<1>3. DOMAIN t = 1 .. Len(q) - 1
  BY <1>2, LenProperties
<1>4. \A i \in DOMAIN t : t[i] = q[i + 1] /\ i + 1 \in DOMAIN q /\ i + 1 > 1
  BY <1>1, <1>2, <1>3
<1>5. \A i \in DOMAIN q : i # 1 => i - 1 \in DOMAIN t /\ q[i] = t[i - 1]
  BY <1>1, <1>2, <1>3
<1> HIDE DEF t
<1>6. Entries(q) = {Head(q)} \cup Entries(t)
  <2>1. ASSUME NEW m \in Entries(q) PROVE m \in {Head(q)} \cup Entries(t)
    BY <1>1, <1>5 DEF Entries
  <2>2. ASSUME NEW m \in {Head(q)} \cup Entries(t) PROVE m \in Entries(q)
    BY <1>1, <1>4 DEF Entries
  <2> QED
    BY <2>1, <2>2
<1>7. ASSUME Distinct(q) PROVE Distinct(t) /\ Head(q) \notin Entries(t)
  <2>1. ASSUME NEW i \in DOMAIN t, NEW j \in DOMAIN t, i # j PROVE t[i] # t[j]
    BY <1>1, <1>3, <1>4, <1>7, <2>1 DEF Distinct
  <2>2. \A i \in DOMAIN t : t[i] # q[1]
    BY <1>1, <1>3, <1>4, <1>7 DEF Distinct
  <2> QED
    BY <1>1, <2>1, <2>2 DEF Distinct, Entries
<1>8. ASSUME Ordered(q) PROVE Ordered(t) /\ \A m \in Entries(t) : Before(Head(q), m)
  <2>1. ASSUME NEW i \in DOMAIN t, NEW j \in DOMAIN t, i < j PROVE Before(t[i], t[j])
    BY <1>1, <1>3, <1>4, <1>8, <2>1 DEF Ordered
  <2>2. \A i \in DOMAIN t : Before(q[1], t[i])
    BY <1>1, <1>3, <1>4, <1>8 DEF Ordered
  <2> QED
    BY <1>1, <2>1, <2>2 DEF Ordered, Entries
<1>9. ASSUME setup.chunks \in Nat, Suffix(q) PROVE Suffix(t)
  <2> SUFFICES ASSUME NEW i \in DOMAIN t PROVE t[i].chunk = setup.chunks - Len(t) + i
    BY DEF Suffix
  <2>1. t[i] = q[i + 1] /\ i + 1 \in DOMAIN q /\ i \in Int /\ Len(t) = Len(q) - 1
    BY <1>2, <1>3, <1>4
  <2>2. q[i + 1].chunk = setup.chunks - Len(q) + (i + 1)
    BY <2>1, <1>9 DEF Suffix
  <2> QED
    BY <2>1, <2>2, <1>1, <1>9
<1> QED
  BY <1>2, <1>6, <1>7, <1>8, <1>9 DEF t

LEMMA JoinQueue ==
    ASSUME NEW S, NEW q \in Seq(S), NEW t \in Seq(S)
    PROVE  /\ q \o t \in Seq(S)
           /\ Entries(q \o t) = Entries(q) \cup Entries(t)
           /\ Ordered(q) /\ Ordered(t) /\ (\A m \in Entries(q) : \A p \in Entries(t) : Before(m, p))
                => Ordered(q \o t)
           /\ Entries(q) = {} => q \o t = t
<1> DEFINE s == q \o t
<1>1. /\ Len(q) \in Nat /\ DOMAIN q = 1 .. Len(q)
      /\ Len(t) \in Nat /\ DOMAIN t = 1 .. Len(t)
  BY LenProperties
<1>2. /\ s \in Seq(S) /\ Len(s) = Len(q) + Len(t)
      /\ \A i \in 1 .. Len(q) + Len(t) : s[i] = IF i <= Len(q) THEN q[i] ELSE t[i - Len(q)]
  BY ConcatProperties
<1>3. DOMAIN s = 1 .. Len(q) + Len(t)
  BY <1>2, LenProperties
<1> HIDE DEF s
<1>4. \A i \in DOMAIN s : \/ i <= Len(q) /\ i \in DOMAIN q /\ s[i] = q[i]
                          \/ i > Len(q) /\ i - Len(q) \in DOMAIN t /\ s[i] = t[i - Len(q)]
  BY <1>1, <1>2, <1>3
<1>5. /\ \A i \in DOMAIN q : i \in DOMAIN s /\ s[i] = q[i]
      /\ \A i \in DOMAIN t : i + Len(q) \in DOMAIN s /\ s[i + Len(q)] = t[i]
  BY <1>1, <1>2, <1>3
<1>6. Entries(s) = Entries(q) \cup Entries(t)
  <2>1. ASSUME NEW m \in Entries(s) PROVE m \in Entries(q) \cup Entries(t)
    BY <1>4 DEF Entries
  <2>2. ASSUME NEW m \in Entries(q) \cup Entries(t) PROVE m \in Entries(s)
    BY <1>5 DEF Entries
  <2> QED
    BY <2>1, <2>2
<1>7. ASSUME Ordered(q), Ordered(t), \A m \in Entries(q) : \A p \in Entries(t) : Before(m, p),
             NEW i \in DOMAIN s, NEW j \in DOMAIN s, i < j
      PROVE  Before(s[i], s[j])
  <2>1. CASE j <= Len(q)
    BY <1>1, <1>3, <1>4, <1>7, <2>1 DEF Ordered
  <2>2. CASE i > Len(q)
    BY <1>1, <1>3, <1>4, <1>7, <2>2 DEF Ordered
  <2>3. CASE i <= Len(q) /\ j > Len(q)
    BY <1>1, <1>3, <1>4, <1>7, <2>3 DEF Entries
  <2> QED
    BY <1>1, <1>3, <2>1, <2>2, <2>3
<1>8. ASSUME Entries(q) = {} PROVE q \o t = t
  <2>1. Len(q) = 0
    <3>1. \A i \in DOMAIN q : q[i] \in Entries(q)
      BY DEF Entries
    <3>2. DOMAIN q = {}
      BY <3>1, <1>8
    <3> QED
      BY <3>2, <1>1
  <2> QED
    BY <2>1, EmptySeq, ConcatEmptySeq
<1> QED
  BY <1>2, <1>6, <1>7, <1>8 DEF s, Ordered

\* The requests of one peer, receives and sends.
Parcels(n, good) == [k \in Chunks |-> [stage |-> n, chunk |-> k, good |-> good]]

LEMMA NewRequests ==
    ASSUME setup \in Setups, NEW n \in Nat
    PROVE  /\ Requests(n) \in Seq(RecvRecords)
           /\ Entries(Requests(n)) = {[stage |-> n, chunk |-> k] : k \in Chunks}
           /\ Ordered(Requests(n)) /\ Suffix(Requests(n))
<1>1. setup.chunks \in Nat \ {0}
  BY SetupFacts
<1>2. DOMAIN Requests(n) = 1 .. setup.chunks /\ Requests(n) \in [1 .. setup.chunks -> RecvRecords]
  BY <1>1 DEF Requests, Chunks, RecvRecords
<1>3. Requests(n) \in Seq(RecvRecords)
  BY <1>1, <1>2
<1>4. Len(Requests(n)) = setup.chunks
  BY <1>1, <1>2, <1>3, LenProperties
<1>5. \A k \in 1 .. setup.chunks : Requests(n)[k] = [stage |-> n, chunk |-> k]
  BY DEF Requests, Chunks
<1>6. Entries(Requests(n)) = {[stage |-> n, chunk |-> k] : k \in Chunks}
  BY <1>2, <1>5, ZenonT(30) DEF Entries, Chunks
<1>7. ASSUME NEW k \in 1 .. setup.chunks PROVE Requests(n)[k].stage = n /\ Requests(n)[k].chunk = k
  <2>1. Requests(n)[k] = [stage |-> n, chunk |-> k]
    BY <1>5
  <2> QED
    BY <2>1
<1>8. Ordered(Requests(n))
  BY <1>1, <1>2, <1>7 DEF Ordered, Before
<1>9. Suffix(Requests(n))
  BY <1>1, <1>2, <1>4, <1>7 DEF Suffix
<1> QED
  BY <1>3, <1>6, <1>8, <1>9

LEMMA NewParcels ==
    ASSUME setup \in Setups, NEW n \in Nat, NEW good \in BOOLEAN
    PROVE  /\ Parcels(n, good) \in Seq(SendRecords)
           /\ Entries(Parcels(n, good)) = {[stage |-> n, chunk |-> k, good |-> good] : k \in Chunks}
           /\ Ordered(Parcels(n, good)) /\ Suffix(Parcels(n, good))
<1> DEFINE s == Parcels(n, good)
<1>1. setup.chunks \in Nat \ {0}
  BY SetupFacts
<1>2. DOMAIN s = 1 .. setup.chunks /\ s \in [1 .. setup.chunks -> SendRecords]
  BY <1>1 DEF Parcels, Chunks, SendRecords
<1>3. s \in Seq(SendRecords)
  BY <1>1, <1>2
<1>4. Len(s) = setup.chunks
  BY <1>1, <1>2, <1>3, LenProperties
<1>5. \A k \in 1 .. setup.chunks : s[k] = [stage |-> n, chunk |-> k, good |-> good]
  BY DEF Parcels, Chunks
<1>6. Entries(s) = {[stage |-> n, chunk |-> k, good |-> good] : k \in Chunks}
  BY <1>2, <1>5, ZenonT(30) DEF Entries, Chunks
<1>7. ASSUME NEW k \in 1 .. setup.chunks PROVE s[k].stage = n /\ s[k].chunk = k
  <2>1. s[k] = [stage |-> n, chunk |-> k, good |-> good]
    BY <1>5
  <2> QED
    BY <2>1
<1> HIDE DEF s
<1>8. Ordered(s)
  BY <1>1, <1>2, <1>7 DEF Ordered, Before
<1>9. Suffix(s)
  BY <1>1, <1>2, <1>4, <1>7 DEF Suffix
<1> QED
  BY <1>3, <1>6, <1>8, <1>9 DEF s

-----------------------------------------------------------------------------
(***************************************************************************)
(* Regions.                                                                *)
(***************************************************************************)

LEMMA MaxOf ==
    ASSUME NEW a \in Int, NEW b \in Int
    PROVE  Max({a, b}) \in {a, b} /\ Max({a, b}) >= a /\ Max({a, b}) >= b
<1>1. \E x \in {a, b} : \A y \in {a, b} : x >= y
  BY a >= b \/ b >= a
<1> QED
  BY <1>1 DEF Max

\* Where the scratch space is.
LEMMA ScratchFacts ==
    ASSUME setup \in Setups, NEW r \in Ranks
    PROVE  /\ Regions = -6 .. Cells - 1 /\ Cells \in Nat /\ Cells >= 4
           /\ WorkCells(r) \subseteq Regions /\ WorkCells(r) \subseteq Nat
           /\ setup.kind = "opt0" => WorkCells(r) \subseteq 3 .. Cells
           /\ setup.kind = "topology" => /\ WorkCells(r) \subseteq 1 .. Cells
                                         /\ BackwardY(r) \in 3 .. Cells - 1
                                         /\ BackwardY(r) \notin WorkCells(r)
                                         /\ setup.compact = {} \/ setup.span <= 1 => 2 \notin WorkCells(r)
           /\ setup.span = 0 => WorkCells(r) = {}
<1>1. setup.span \in Nat /\ Cells \in Nat /\ setup.span + 4 <= Cells
      /\ setup.kind \in {"opt1", "opt0", "topology"}
      /\ (setup.kind # "topology" => setup.compact = {})
      /\ (setup.kind # "opt1" => setup.span > 0)
  BY SetupFacts
<1>2. /\ WorkBase(r) \in {0, 1, 3}
      /\ setup.kind = "opt0" => WorkBase(r) = 3
      /\ setup.kind # "opt1" /\ setup.compact = {} => WorkBase(r) = 3
      /\ setup.kind # "opt1" => WorkBase(r) \in {1, 3}
  BY <1>1 DEF WorkBase
<1>3. BackwardY(r) \in {WorkBase(r) + setup.span, 3} /\ BackwardY(r) >= WorkBase(r) + setup.span
      /\ BackwardY(r) >= 3
  <2> DEFINE b == WorkBase(r) + setup.span
  <2>1. b \in Int /\ BackwardY(r) = Max({b, 3})
    BY <1>1, <1>2 DEF BackwardY
  <2> HIDE DEF b
  <2>2. Max({b, 3}) \in {b, 3} /\ Max({b, 3}) >= b /\ Max({b, 3}) >= 3
    BY <2>1, MaxOf
  <2> QED
    BY <2>1, <2>2 DEF b
<1>4. Regions = -6 .. Cells - 1
  BY DEF Regions, DefaultZ
<1>5. \A x \in WorkCells(r) : x \in Nat /\ x >= WorkBase(r) /\ x < WorkBase(r) + setup.span
  BY <1>1, <1>2 DEF WorkCells
<1>6. WorkBase(r) + setup.span < Cells
  BY <1>1, <1>2
<1>7. setup.span = 0 => WorkCells(r) = {}
  BY <1>1, <1>2, <1>5
<1>8. setup.kind = "topology" => BackwardY(r) \in 3 .. Cells - 1 /\ BackwardY(r) \notin WorkCells(r)
  BY <1>1, <1>2, <1>3, <1>5, <1>6
<1>9. setup.kind = "topology" /\ (setup.compact = {} \/ setup.span <= 1) => 2 \notin WorkCells(r)
  BY <1>1, <1>2, <1>5
<1> QED
  BY <1>1, <1>2, <1>4, <1>5, <1>6, <1>7, <1>8, <1>9, SMTT(20)

\* The stages of a transform.
LEMMA Arrays ==
    ASSUME setup \in Setups, NEW r \in Ranks, NEW way \in {"forward", "backward"}
    PROVE  LET a == ArraysOf(r, way)
               z(cell) == IF setup.alias THEN cell ELSE -6
           IN  /\ setup.kind = "opt1" /\ way = "forward" => a = <<-1, -3, -2, -4, -3, -2>>
               /\ setup.kind = "opt1" /\ way = "backward" => a = <<-2, -3, -4, -2, -3, -1>>
               /\ setup.kind = "opt0" /\ way = "forward" => a = <<-1, -6, -5, -4, -2, -2>>
               /\ setup.kind = "opt0" /\ way = "backward" => a = <<-2, -3, -4, -5, -6, -1>>
               /\ setup.kind = "topology" /\ way = "forward"
                    => a = <<-1, z(BackwardY(r)), 0, -2, 0, -2>>
               /\ setup.kind = "topology" /\ way = "backward"
                    => a = <<-2, 0, -2, BackwardY(r), z(0), -1>>
  BY DEF ArraysOf, Physical, Spectral, Shared, XFast, Stage1, DefaultZ

\* What a stage may rely on: its input, its output and its buffers are different.
LEMMA RegionFacts ==
    ASSUME setup \in Setups, NEW r \in Ranks, NEW n \in Stages
    PROVE  /\ Input(r, n) \in Regions /\ Output(r, n) \in Regions
           /\ SendSlot \in Regions /\ RecvSlot \in Regions /\ SendSlot # RecvSlot
           /\ StepOf(n) # 5 => Input(r, n + 1) = Output(r, n)
           /\ StepOf(n) \in {2, 4} =>
                /\ Input(r, n) # Output(r, n)
                /\ Input(r, n) # SendSlot /\ Output(r, n) # SendSlot
                /\ Output(r, n + 1) # SendSlot
                /\ ~Lands(n) => Input(r, n) # RecvSlot /\ Output(r, n) # RecvSlot
                /\ ~Packed(n) => Input(r, n) # Output(r, n + 1) /\ Input(r, n) \notin Nat
           /\ StepOf(n) \in {1, 3, 5} =>
                Input(r, n) \notin WorkCells(r) /\ Output(r, n) \notin WorkCells(r)
<1> DEFINE a == ArraysOf(r, Way(n))
           s == StepOf(n)
<1>1. s \in 1 .. 5 /\ Way(n) \in {"forward", "backward"}
      /\ (s # 5 => StepOf(n + 1) = s + 1 /\ Way(n + 1) = Way(n))
  BY StepFacts
<1>2. /\ Input(r, n) = a[s] /\ Output(r, n) = a[s + 1]
      /\ s # 5 => Input(r, n + 1) = a[s + 1] /\ Output(r, n + 1) = a[(s + 1) + 1]
  BY <1>1 DEF Input, Output
<1>3. /\ Regions = -6 .. Cells - 1 /\ Cells \in Nat /\ Cells >= 4
      /\ WorkCells(r) \subseteq Nat
  BY ScratchFacts
<1>4. setup.kind \in {"opt1", "opt0", "topology"}
  BY SetupFacts
<1>5. /\ setup.kind = "topology" => SendSlot = 2
      /\ setup.kind # "topology" => SendSlot = 0
      /\ RecvSlot = 1
  BY DEF SendSlot, RecvSlot
<1>6. /\ setup.kind # "opt1" => ~Lands(n) /\ Packed(n)
      /\ setup.kind = "opt1" /\ Way(n) = "backward" => Packed(n)
  BY DEF Lands, Packed
<1> HIDE DEF a, s
<1>7. CASE setup.kind = "opt1" /\ Way(n) = "forward"
  <2>1. a = <<-1, -3, -2, -4, -3, -2>>
    BY <1>7, Arrays DEF a
  <2>2. CASE s \in {1, 3, 5}
    BY <1>1, <1>2, <1>3, <1>5, <1>7, <2>1, <2>2, SMTT(40) DEF s
  <2>3. CASE s \in {2, 4}
    BY <1>1, <1>2, <1>3, <1>5, <1>6, <1>7, <2>1, <2>3, SMTT(40) DEF s
  <2> QED
    BY <1>1, <2>2, <2>3
<1>8. CASE setup.kind = "opt1" /\ Way(n) = "backward"
  <2>1. a = <<-2, -3, -4, -2, -3, -1>>
    BY <1>8, Arrays DEF a
  <2>2. CASE s \in {1, 3, 5}
    BY <1>1, <1>2, <1>3, <1>5, <1>8, <2>1, <2>2, SMTT(40) DEF s
  <2>3. CASE s \in {2, 4}
    BY <1>1, <1>2, <1>3, <1>5, <1>6, <1>8, <2>1, <2>3, SMTT(40) DEF s
  <2> QED
    BY <1>1, <2>2, <2>3
<1>9. CASE setup.kind = "opt0" /\ Way(n) = "forward"
  <2>1. a = <<-1, -6, -5, -4, -2, -2>>
    BY <1>9, Arrays DEF a
  <2>2. CASE s \in {1, 3, 5}
    BY <1>1, <1>2, <1>3, <1>5, <1>9, <2>1, <2>2, SMTT(40) DEF s
  <2>3. CASE s \in {2, 4}
    BY <1>1, <1>2, <1>3, <1>5, <1>6, <1>9, <2>1, <2>3, SMTT(40) DEF s
  <2> QED
    BY <1>1, <2>2, <2>3
<1>10. CASE setup.kind = "opt0" /\ Way(n) = "backward"
  <2>1. a = <<-2, -3, -4, -5, -6, -1>>
    BY <1>10, Arrays DEF a
  <2>2. CASE s \in {1, 3, 5}
    BY <1>1, <1>2, <1>3, <1>5, <1>10, <2>1, <2>2, SMTT(40) DEF s
  <2>3. CASE s \in {2, 4}
    BY <1>1, <1>2, <1>3, <1>5, <1>6, <1>10, <2>1, <2>3, SMTT(40) DEF s
  <2> QED
    BY <1>1, <2>2, <2>3
<1>11. CASE setup.kind = "topology" /\ Way(n) = "forward"
  <2>1. /\ a[1] = -1 /\ a[3] = 0 /\ a[4] = -2 /\ a[5] = 0 /\ a[6] = -2
        /\ a[2] \in {BackwardY(r), -6}
    BY <1>11, Arrays DEF a
  <2>2. /\ BackwardY(r) \in 3 .. Cells - 1 /\ BackwardY(r) \notin WorkCells(r)
        /\ WorkCells(r) \subseteq 1 .. Cells
    BY <1>11, ScratchFacts
  <2>3. CASE s \in {1, 3, 5}
    BY <1>1, <1>2, <1>3, <1>5, <1>11, <2>1, <2>2, <2>3, SMTT(40) DEF s
  <2>4. CASE s \in {2, 4}
    BY <1>1, <1>2, <1>3, <1>5, <1>6, <1>11, <2>1, <2>2, <2>4, SMTT(40) DEF s
  <2> QED
    BY <1>1, <2>3, <2>4
<1>12. CASE setup.kind = "topology" /\ Way(n) = "backward"
  <2>1. /\ a[1] = -2 /\ a[2] = 0 /\ a[3] = -2 /\ a[4] = BackwardY(r) /\ a[6] = -1
        /\ a[5] \in {0, -6}
    BY <1>12, Arrays DEF a
  <2>2. /\ BackwardY(r) \in 3 .. Cells - 1 /\ BackwardY(r) \notin WorkCells(r)
        /\ WorkCells(r) \subseteq 1 .. Cells
    BY <1>12, ScratchFacts
  <2>3. CASE s \in {1, 3, 5}
    BY <1>1, <1>2, <1>3, <1>5, <1>12, <2>1, <2>2, <2>3, SMTT(40) DEF s
  <2>4. CASE s \in {2, 4}
    BY <1>1, <1>2, <1>3, <1>5, <1>6, <1>12, <2>1, <2>2, <2>4, SMTT(40) DEF s
  <2> QED
    BY <1>1, <2>3, <2>4
<1> QED
  BY <1>1, <1>4, <1>7, <1>8, <1>9, <1>10, <1>11, <1>12

\* No scratch space covers what a deferred send reads.
LEMMA ClearFacts ==
    ASSUME ScratchClear, setup \in Setups, NEW r \in Ranks, NEW n \in Exchanges,
           setup.deferred, ~setup.eager
    PROVE  Source(r, n) \notin WorkCells(r)
<1>1. n \in Stages /\ StepOf(n) \in {2, 4}
  BY StepFacts DEF Exchanges, IsExchange
<1>2. CASE ~Packed(n)
  <2>1. Source(r, n) = Input(r, n) /\ Input(r, n) \notin Nat
    BY <1>1, <1>2, RegionFacts DEF Source
  <2> QED
    BY <2>1, ScratchFacts
<1>3. CASE Packed(n)
  <2>1. Source(r, n) = SendSlot
    BY <1>3 DEF Source
  <2>2. /\ setup.kind = "opt1" /\ setup.span > 0 =>
             ~setup.stable /\ \A i \in 1 .. Len(setup.calls) : setup.calls[i] = "forward"
        /\ setup.kind = "topology" /\ setup.compact # {} => setup.span <= 1
    BY DEF ScratchClear
  <2>3. CASE setup.kind = "opt1"
    <3>1. setup.stable \/ Way(n) = "backward"
      BY <1>3, <2>3 DEF Packed
    <3>2. setup.span = 0
      <4>1. ((n - 1) \div 5) + 1 \in 1 .. Len(setup.calls)
        <5> DEFINE c == Len(setup.calls)
        <5>1. c \in Nat /\ n \in 1 .. 5 * c
          BY <1>1, SetupFacts DEF Stages, LastStage, StepsPerCall
        <5> HIDE DEF c
        <5>2. ((n - 1) \div 5) + 1 \in 1 .. c
          BY <5>1
        <5> QED
          BY <5>2 DEF c
      <4>2. setup.span > 0 => Way(n) = "forward" /\ ~setup.stable
        BY <4>1, <2>2, <2>3 DEF Way, StepsPerCall
      <4> QED
        BY <3>1, <4>2, SetupFacts
    <3> QED
      BY <3>2, ScratchFacts
  <2>4. CASE setup.kind = "opt0"
    <3>1. SendSlot = 0 /\ WorkCells(r) \subseteq 3 .. Cells
      BY <2>4, ScratchFacts DEF SendSlot
    <3> QED
      BY <2>1, <3>1
  <2>5. CASE setup.kind = "topology"
    <3>1. SendSlot = 2 /\ 2 \notin WorkCells(r)
      BY <2>2, <2>5, ScratchFacts DEF SendSlot
    <3> QED
      BY <2>1, <3>1
  <2> QED
    BY <2>3, <2>4, <2>5, SetupFacts
<1> QED
  BY <1>2, <1>3

-----------------------------------------------------------------------------
(***************************************************************************)
(* The invariant of the requests.                                          *)
(***************************************************************************)

CInv ==
    /\ Typed /\ InPlace /\ PeersLeft
    /\ DeferredIs /\ SendsAre /\ RecvsAre /\ InOrder /\ Matched
    /\ LandedAre /\ Counted

LEMMA AddedType ==
    ASSUME setup \in Setups, NEW c \in Contents, NEW n \in Int, NEW parts \in SUBSET (Ranks \X Chunks)
    PROVE  Added(c, n, parts) \in Contents
  BY DEF Added, Contents

LEMMA FullType == \A n \in Int : Full(n) \in Contents /\ Junk \in Contents
  BY DEF Full, Contents, Junk

\* One region of one rank gets a new content.
LEMMA PutType ==
    ASSUME Typed, NEW r \in Ranks, NEW x, NEW c \in Contents, mem' = [mem EXCEPT ![r][x] = c]
    PROVE  mem' \in [Ranks -> [Regions -> Contents]]
  BY DEF Typed

LEMMA GoToType ==
    ASSUME Typed, NEW r \in Ranks, NEW n \in 0 .. LastStage, NEW p \in Places, GoTo(r, n, p)
    PROVE  /\ at' \in [Ranks -> 0 .. LastStage] /\ pc' \in [Ranks -> Places]
           /\ at'[r] = n /\ pc'[r] = p
           /\ \A q \in Ranks \ {r} : at'[q] = at[q] /\ pc'[q] = pc[q]
  BY DEF Typed, GoTo

\* Where a rank is after an FFT.
LEMMA AfterFftFacts ==
    ASSUME Typed, NEW r \in Ranks, StepOf(at[r]) \in {3, 5}, AfterFft(r)
    PROVE  /\ at' \in [Ranks -> 0 .. LastStage] /\ pc' \in [Ranks -> Places]
           /\ \/ at'[r] = at[r] /\ pc'[r] = "idle" /\ StepOf(at[r]) = 5
              \/ /\ at'[r] = at[r] + 1 /\ pc'[r] = "exchange" /\ StepOf(at[r]) = 3
                 /\ StepOf(at[r] + 1) = 4 /\ at[r] + 1 \in Stages
           /\ \A q \in Ranks \ {r} : at'[q] = at[q] /\ pc'[q] = pc[q]
<1>1. at[r] \in 0 .. LastStage /\ setup \in Setups /\ LastStage \in Nat
  BY StepFacts DEF Typed
<1>2. at[r] \in Stages
  BY <1>1, StepFacts DEF Stages
<1>3. CASE StepOf(at[r]) = 5
  <2>1. GoTo(r, at[r], "idle")
    BY <1>3 DEF AfterFft, StepsPerCall
  <2> QED
    BY <1>1, <1>3, <2>1, GoToType DEF Places
<1>4. CASE StepOf(at[r]) = 3
  <2>1. GoTo(r, at[r] + 1, "exchange")
    BY <1>4 DEF AfterFft, StepsPerCall
  <2>2. at[r] + 1 \in Stages /\ StepOf(at[r] + 1) = 4
    BY <1>1, <1>2, <1>4, StepFacts
  <2>3. at[r] + 1 \in 0 .. LastStage
    BY <1>1, <2>2 DEF Stages
  <2> QED
    BY <1>4, <2>1, <2>2, <2>3, GoToType DEF Places
<1> QED
  BY <1>3, <1>4

\* The steps of a rank on its own: the FFTs and what is deferred.
Local(r) ==
    /\ UNCHANGED <<setup, peers, unwaited, landed, sends, recvs>>
    /\ at' \in [Ranks -> 0 .. LastStage] /\ pc' \in [Ranks -> Places]
    /\ deferred' \in [Ranks -> DeferredRecords]
    /\ \A q \in Ranks \ {r} : at'[q] = at[q] /\ pc'[q] = pc[q] /\ deferred'[q] = deferred[q]
    /\ pc[r] # "post" /\ pc'[r] # "post"
    /\ \/ at'[r] = at[r]
       \/ at'[r] = at[r] + 1 /\ at[r] \notin Exchanges
    /\ StepOf(at'[r]) \in StepsAt(pc'[r])

StartOrFft(r) == StartCall(r) \/ FftStart(r) \/ FftEnd(r) \/ FftFails(r)
Finishing(r)  == Probe(r) \/ Drain(r) \/ FailDrain(r)

LEMMA Fields ==
    ASSUME Typed, NEW r \in Ranks
    PROVE  /\ setup \in Setups /\ LastStage \in Nat
           /\ at[r] \in 0 .. LastStage /\ at[r] \in Nat /\ pc[r] \in Places
           /\ peers[r] \in Seq(Ranks) /\ unwaited[r] \in [Ranks -> Int]
           /\ landed[r] \subseteq Ranks \X Chunks
           /\ deferred[r] \in DeferredRecords /\ deferred[r].stage \in Nat
           /\ deferred[r].requests \subseteq Ranks \X Chunks
           /\ mem[r] \in [Regions -> Contents]
           /\ \A x \in Regions : /\ mem[r][x] \in Contents /\ mem[r][x].what \in Int
                                 /\ mem[r][x].parts \subseteq Ranks \X Chunks
           /\ \A t \in Ranks : /\ sends[<<r, t>>] \in Seq(SendRecords)
                               /\ recvs[<<r, t>>] \in Seq(RecvRecords)
<1>1. setup \in Setups /\ LastStage \in Nat
  BY StepFacts DEF Typed
<1>2. at[r] \in 0 .. LastStage /\ at[r] \in Nat /\ pc[r] \in Places
  BY <1>1 DEF Typed
<1>3. deferred[r] \in DeferredRecords
  BY DEF Typed
<1>4. deferred[r].stage \in Nat /\ deferred[r].requests \subseteq Ranks \X Chunks
  BY <1>3 DEF DeferredRecords
<1>5. mem[r] \in [Regions -> Contents]
  BY DEF Typed
<1>6. \A x \in Regions : mem[r][x] \in Contents
  BY <1>5
<1>7. \A x \in Regions : mem[r][x].what \in Int /\ mem[r][x].parts \subseteq Ranks \X Chunks
  BY <1>6 DEF Contents
<1>8. \A t \in Ranks : sends[<<r, t>>] \in Seq(SendRecords) /\ recvs[<<r, t>>] \in Seq(RecvRecords)
  BY DEF Typed
<1>9. peers[r] \in Seq(Ranks) /\ unwaited[r] \in [Ranks -> Int] /\ landed[r] \subseteq Ranks \X Chunks
  BY DEF Typed
<1> QED
  BY <1>1, <1>2, <1>3, <1>4, <1>5, <1>6, <1>7, <1>8, <1>9

LEMMA LocalFft ==
    ASSUME CInv, NEW r \in Ranks, StartOrFft(r)
    PROVE  Local(r) /\ deferred' = deferred /\ Typed'
           /\ (Active(r) => at'[r] = at[r] /\ pc'[r] \in {"running", "probe", "failDrain"})
<1>1. /\ Typed /\ setup \in Setups /\ LastStage \in Nat
      /\ at[r] \in 0 .. LastStage /\ at[r] \in Nat /\ pc[r] \in Places
  BY Fields DEF CInv
<1>2. StepOf(at[r]) \in StepsAt(pc[r])
  BY DEF CInv, InPlace
<1>3. /\ Active(r) => pc[r] \in {"fft", "running", "probe", "drain", "failDrain"}
      /\ Active(r) => at[r] = deferred[r].stage + 1 /\ deferred[r].stage \in Exchanges
  BY DEF CInv, DeferredIs, DeferredOk
<1>4. Active(r) => StepOf(at[r]) # 1
  <2> SUFFICES ASSUME Active(r) PROVE StepOf(at[r]) # 1
    OBVIOUS
  <2> DEFINE d == deferred[r].stage
  <2>1. d \in Stages /\ StepOf(d) \in {2, 4} /\ at[r] = d + 1
    BY <1>1, <1>3, StepFacts DEF Exchanges, IsExchange
  <2>2. StepOf(d + 1) = StepOf(d) + 1
    BY <1>1, <2>1, StepFacts
  <2> QED
    BY <2>1, <2>2
<1>5. UNCHANGED <<setup, peers, unwaited, landed, deferred, sends, recvs>>
  BY DEF StartOrFft, StartCall, FftStart, FftEnd, FftFails
<1>6. CASE StartCall(r)
  <2>1. pc[r] = "idle" /\ at[r] < LastStage /\ GoTo(r, at[r] + 1, "fft")
    BY <1>6 DEF StartCall
  <2>2. at[r] + 1 \in 0 .. LastStage /\ StepOf(at[r] + 1) = 1 /\ StepOf(at[r]) \in {0, 5}
    BY <1>1, <1>2, <2>1, StepFacts DEF StepsAt
  <2>3. /\ at' \in [Ranks -> 0 .. LastStage] /\ pc' \in [Ranks -> Places]
        /\ at'[r] = at[r] + 1 /\ pc'[r] = "fft"
        /\ \A q \in Ranks \ {r} : at'[q] = at[q] /\ pc'[q] = pc[q]
    BY <1>1, <2>1, <2>2, GoToType DEF Places
  <2>4. at[r] \notin Exchanges
    BY <2>2 DEF Exchanges, IsExchange
  <2>5. mem' \in [Ranks -> [Regions -> Contents]] /\ computing' = computing
    <3>1. Full(at[r]) \in Contents
      BY <1>1, FullType
    <3>2. mem' = [mem EXCEPT ![r][Input(r, at[r] + 1)] = Full(at[r])] /\ computing' = computing
      BY <1>6 DEF StartCall
    <3>3. mem' \in [Ranks -> [Regions -> Contents]]
      BY <1>1, <3>1, <3>2, PutType
    <3> QED
      BY <3>2, <3>3
  <2>6. Local(r)
    BY <1>1, <1>5, <2>1, <2>2, <2>3, <2>4 DEF Local, StepsAt, Typed
  <2> QED
    BY <1>1, <1>3, <1>5, <2>1, <2>3, <2>5, <2>6, SetupFixed
       DEF Typed, SendRecords, RecvRecords, DeferredRecords, Contents
<1>7. CASE FftStart(r)
  <2>1. pc[r] = "fft" /\ pc' = [pc EXCEPT ![r] = "running"] /\ at' = at
    BY <1>7 DEF FftStart
  <2>2. mem' \in [Ranks -> [Regions -> Contents]] /\ computing' \in [Ranks -> BOOLEAN]
    BY <1>1, <1>7, FullType DEF FftStart, Typed
  <2>3. Local(r) /\ pc'[r] = "running" /\ pc' \in [Ranks -> Places]
    BY <1>1, <1>2, <1>5, <2>1 DEF Local, StepsAt, Typed, Places
  <2> QED
    <3>1. Typed'
      BY <1>1, <1>5, <2>1, <2>2, <2>3, SetupFixed
         DEF Typed, SendRecords, RecvRecords, DeferredRecords, Contents
    <3> QED
      BY <1>3, <1>5, <2>1, <2>3, <3>1
<1>8. CASE FftEnd(r)
  <2>1. pc[r] = "running" /\ StepOf(at[r]) \in {1, 3, 5}
    BY <1>2, <1>8 DEF FftEnd, StepsAt
  <2>2. mem' \in [Ranks -> [Regions -> Contents]]
    <3>1. CASE computing[r]
      <4>1. Full(at[r]) \in Contents
        BY <1>1, FullType
      <4>2. mem' = [mem EXCEPT ![r][Output(r, at[r])] = Full(at[r])]
        BY <1>8, <3>1 DEF FftEnd
      <4> QED
        BY <1>1, <4>1, <4>2, PutType
    <3>2. CASE ~computing[r]
      BY <1>1, <1>8, <3>2 DEF FftEnd, Typed
    <3> QED
      BY <3>1, <3>2
  <2>3. computing' \in [Ranks -> BOOLEAN]
    BY <1>1, <1>8 DEF FftEnd, Typed
  <2>4. CASE StepOf(at[r]) = 1
    <3>1. GoTo(r, at[r] + 1, "exchange")
      BY <1>8, <2>4 DEF FftEnd
    <3>2. at[r] \in Stages
      BY <1>1, <2>4, StepFacts DEF Stages
    <3>3. at[r] + 1 \in 0 .. LastStage /\ StepOf(at[r] + 1) = 2
      BY <1>1, <2>4, <3>2, StepFacts DEF Stages
    <3>4. /\ at' \in [Ranks -> 0 .. LastStage] /\ pc' \in [Ranks -> Places]
          /\ at'[r] = at[r] + 1 /\ pc'[r] = "exchange"
          /\ \A q \in Ranks \ {r} : at'[q] = at[q] /\ pc'[q] = pc[q]
      BY <1>1, <3>1, <3>3, GoToType DEF Places
    <3>5. at[r] \notin Exchanges
      BY <2>4 DEF Exchanges, IsExchange
    <3>6. Local(r)
      BY <1>1, <1>5, <2>1, <3>3, <3>4, <3>5 DEF Local, StepsAt, Typed
    <3> QED
      BY <1>1, <1>4, <1>5, <2>2, <2>3, <2>4, <3>4, <3>6, SetupFixed
         DEF Typed, SendRecords, RecvRecords, DeferredRecords, Contents
  <2>5. CASE StepOf(at[r]) # 1
    <3>1. GoTo(r, at[r], "probe")
      BY <1>8, <2>5 DEF FftEnd
    <3>2. /\ at' \in [Ranks -> 0 .. LastStage] /\ pc' \in [Ranks -> Places]
          /\ at'[r] = at[r] /\ pc'[r] = "probe"
          /\ \A q \in Ranks \ {r} : at'[q] = at[q] /\ pc'[q] = pc[q]
      BY <1>1, <3>1, GoToType DEF Places
    <3>3. Local(r)
      BY <1>1, <1>5, <2>1, <2>5, <3>2 DEF Local, StepsAt, Typed
    <3> QED
      BY <1>1, <1>5, <2>2, <2>3, <3>2, <3>3, SetupFixed
         DEF Typed, SendRecords, RecvRecords, DeferredRecords, Contents
  <2> QED
    BY <2>4, <2>5
<1>9. CASE FftFails(r)
  <2>1. pc[r] = "running" /\ at' = at /\ mem' = mem /\ StepOf(at[r]) \in {1, 3, 5}
        /\ pc' = [pc EXCEPT ![r] = IF StepOf(at[r]) = 1 THEN "failed" ELSE "failDrain"]
    BY <1>2, <1>9 DEF FftFails, StepsAt
  <2>2. computing' \in [Ranks -> BOOLEAN]
    BY <1>1, <1>9 DEF FftFails, Typed
  <2>3. /\ Local(r) /\ pc'[r] = (IF StepOf(at[r]) = 1 THEN "failed" ELSE "failDrain")
        /\ pc' \in [Ranks -> Places]
    BY <1>1, <1>5, <2>1 DEF Local, StepsAt, Typed, Places
  <2> QED
    <3>1. Typed'
      BY <1>1, <1>5, <2>1, <2>2, <2>3, SetupFixed
         DEF Typed, SendRecords, RecvRecords, DeferredRecords, Contents
    <3> QED
      BY <1>4, <1>5, <2>1, <2>3, <3>1
<1> QED
  BY <1>6, <1>7, <1>8, <1>9 DEF StartOrFft

LEMMA Finite ==
    ASSUME setup \in Setups
    PROVE  /\ IsFiniteSet(Chunks) /\ Cardinality(Chunks) = setup.chunks
           /\ \A S \in SUBSET (Ranks \X Chunks) : IsFiniteSet(S)
<1>1. setup.chunks \in Nat \ {0}
  BY SetupFacts
<1>2. IsFiniteSet(Chunks) /\ Cardinality(Chunks) = setup.chunks
  BY <1>1, FS_Interval DEF Chunks
<1>3. P1 * P2 \in Int
  BY Grid
<1>4. IsFiniteSet(Ranks)
  BY <1>3, FS_Interval DEF Ranks
<1>5. IsFiniteSet(Ranks \X Chunks)
  BY <1>2, <1>4, FS_Product
<1>6. \A S \in SUBSET (Ranks \X Chunks) : IsFiniteSet(S)
  BY <1>5, FS_Subset
<1> QED
  BY <1>2, <1>6

\* A send that is complete is not in the queue any more.
LEMMA CompleteFacts ==
    ASSUME NEW r, NEW n, NEW p, NEW c, Complete(r, n, p, c), ~setup.eager
    PROVE  \A m \in Entries(sends[<<r, p>>]) : ~(m.stage = n /\ m.chunk = c)
  BY DEF Complete, Entries

LEMMA TestedFacts ==
    ASSUME NEW d \in DeferredRecords, NEW q
    PROVE  /\ Tested(d, q) \in DeferredRecords
           /\ Tested(d, q).stage = d.stage
           /\ Tested(d, q).requests = d.requests \ {q}
           /\ Tested(d, q).remaining = d.remaining - 1
<1> DEFINE s == d.requests \ {q}
           n == d.remaining - 1
<1>1. s \in SUBSET (Ranks \X Chunks) /\ n \in Int /\ d.stage \in Nat
  BY DEF DeferredRecords
<1>2. Tested(d, q) = [d EXCEPT !.requests = s, !.remaining = n]
  BY DEF Tested
<1> HIDE DEF s, n
<1>3. Tested(d, q).stage = d.stage /\ Tested(d, q).requests = s /\ Tested(d, q).remaining = n
  BY <1>2 DEF DeferredRecords
<1>4. Tested(d, q) \in DeferredRecords
  BY <1>1, <1>2 DEF DeferredRecords
<1> QED
  BY <1>3, <1>4 DEF s, n

LEMMA Removed ==
    ASSUME NEW S, IsFiniteSet(S), NEW q \in S
    PROVE  Cardinality(S \ {q}) = Cardinality(S) - 1
  BY FS_RemoveElement

\* What remains of the deferred requests when the FFT is over.
LEMMA LocalFinish ==
    ASSUME CInv, NEW r \in Ranks, Finishing(r)
    PROVE  /\ Local(r) /\ Typed' /\ DeferredOk(r)' /\ mem' = mem /\ computing' = computing
           /\ pc[r] \in {"probe", "drain", "failDrain"}
           /\ \A t \in Ranks : \A m \in Entries(sends[<<r, t>>]) :
                ~setup.eager /\ Deferring(r, t, m) => Deferring(r, t, m)'
<1>1. /\ Typed /\ setup \in Setups /\ LastStage \in Nat
      /\ at[r] \in 0 .. LastStage /\ at[r] \in Nat /\ pc[r] \in Places
      /\ deferred[r] \in DeferredRecords /\ deferred[r].requests \subseteq Ranks \X Chunks
  BY Fields DEF CInv
<1>2. DeferredOk(r) /\ StepOf(at[r]) \in StepsAt(pc[r])
  BY DEF CInv, InPlace, DeferredIs
<1>3. UNCHANGED <<setup, peers, unwaited, landed, computing, sends, recvs, mem>>
  BY DEF Finishing, Probe, Drain, FailDrain
<1>4. pc[r] \in {"probe", "drain", "failDrain"} /\ StepOf(at[r]) \in {3, 5}
  BY <1>2 DEF Finishing, Probe, Drain, FailDrain, StepsAt
<1>5. IsFiniteSet(deferred[r].requests)
  BY <1>1, Finite
<1>6. ASSUME deferred' \in [Ranks -> DeferredRecords],
             at' \in [Ranks -> 0 .. LastStage], pc' \in [Ranks -> Places]
      PROVE  Typed'
  BY <1>1, <1>3, <1>6, SetupFixed DEF Typed, SendRecords, RecvRecords, DeferredRecords, Contents
<1>7. NoDeferred \in DeferredRecords /\ NoDeferred.stage = 0 /\ NoDeferred.requests = {}
      /\ NoDeferred.remaining = 0
  BY DEF NoDeferred, DeferredRecords
<1>8. Exchanges' = Exchanges /\ Chunks' = Chunks /\ LastStage' = LastStage
      /\ \A n : Peers(r, n)' = Peers(r, n)
  BY <1>3, SetupFixed
\* The rank goes on, with nothing deferred.
<1>9. ASSUME deferred'[r] = NoDeferred \/ (deferred'[r] = deferred[r] /\ ~Active(r)),
             deferred' \in [Ranks -> DeferredRecords],
             \A q \in Ranks \ {r} : deferred'[q] = deferred[q],
             AfterFft(r)
      PROVE  Local(r) /\ Typed' /\ DeferredOk(r)'
  <2>1. /\ at' \in [Ranks -> 0 .. LastStage] /\ pc' \in [Ranks -> Places]
        /\ \/ at'[r] = at[r] /\ pc'[r] = "idle" /\ StepOf(at[r]) = 5
           \/ /\ at'[r] = at[r] + 1 /\ pc'[r] = "exchange" /\ StepOf(at[r]) = 3
              /\ StepOf(at[r] + 1) = 4 /\ at[r] + 1 \in Stages
        /\ \A q \in Ranks \ {r} : at'[q] = at[q] /\ pc'[q] = pc[q]
    BY <1>1, <1>4, <1>9, AfterFftFacts
  <2>2. StepOf(at'[r]) \in StepsAt(pc'[r]) /\ at[r] \notin Exchanges
    BY <1>4, <2>1 DEF StepsAt, Exchanges, IsExchange
  <2>3. Local(r)
    BY <1>3, <1>4, <1>9, <2>1, <2>2 DEF Local
  <2>4. ~Active(r)' /\ deferred'[r].requests = {} /\ deferred'[r].remaining = 0
    BY <1>2, <1>7, <1>9, FS_EmptySet DEF Active, DeferredOk
  <2>5. DeferredOk(r)'
    BY <2>4, FS_EmptySet DEF DeferredOk
  <2> QED
    BY <1>6, <1>9, <2>1, <2>3, <2>5
<1>10. CASE Probe(r)
  <2> DEFINE d == deferred[r]
             done == {q \in d.requests : Complete(r, d.stage, q[1], q[2])}
  <2>1. CASE ~Active(r)
    <3>1. AfterFft(r) /\ deferred' = deferred
      BY <1>10, <2>1 DEF Probe
    <3>2. Local(r) /\ Typed' /\ DeferredOk(r)'
      BY <1>1, <1>9, <2>1, <3>1 DEF Typed
    <3> QED
      BY <1>3, <1>4, <2>1, <3>2 DEF Deferring
  <2>2. CASE Active(r)
    <3>1. /\ d.stage = at[r] - 1 /\ d.stage \in Exchanges /\ setup.deferred
          /\ d.requests \subseteq Peers(r, d.stage) \X Chunks
          /\ d.remaining = Cardinality(d.requests) /\ at[r] = d.stage + 1
      BY <1>1, <1>2, <2>2, Fields DEF DeferredOk
    <3>2. StageName(d.stage) = StageName(at[r] - 1) /\ pc[r] = "probe"
      BY <1>10, <3>1 DEF Probe
    <3>3. CASE d.remaining > 0 /\ done # {}
      <4>1. PICK q \in done : /\ deferred' = [deferred EXCEPT ![r] = Tested(@, q)]
                              /\ UNCHANGED <<at, pc>>
        BY <1>10, <2>2, <3>2, <3>3 DEF Probe
      <4>2. /\ deferred'[r] = Tested(d, q) /\ \A p \in Ranks \ {r} : deferred'[p] = deferred[p]
        BY <1>1, <4>1 DEF Typed
      <4>3. /\ deferred'[r].stage = d.stage /\ deferred'[r].requests = d.requests \ {q}
            /\ deferred'[r].remaining = d.remaining - 1
            /\ Tested(d, q) \in DeferredRecords
        BY <1>1, <4>2, TestedFacts
      <4>4. deferred' \in [Ranks -> DeferredRecords]
        BY <1>1, <4>1, <4>3 DEF Typed
      <4>5. Cardinality(d.requests \ {q}) = d.remaining - 1
        <5>1. q \in d.requests
          OBVIOUS
        <5>2. Cardinality(deferred[r].requests \ {q}) = Cardinality(deferred[r].requests) - 1
          BY <1>5, <5>1, Removed
        <5> QED
          BY <3>1, <5>2
      <4>6. at' \in [Ranks -> 0 .. LastStage] /\ pc' \in [Ranks -> Places]
        BY <1>1, <4>1 DEF Typed
      <4>7. Local(r)
        BY <1>2, <1>3, <1>4, <4>1, <4>2, <4>4, <4>6 DEF Local
      <4>8. DeferredOk(r)'
        <5>1. /\ pc'[r] = pc[r] /\ at'[r] = at[r] /\ setup' = setup
              /\ deferred'[r].stage # 0
              /\ deferred'[r].requests \subseteq d.requests
          BY <1>3, <2>2, <4>1, <4>3 DEF Active
        <5>2. deferred'[r].remaining = Cardinality(deferred'[r].requests)
          BY <4>3, <4>5
        <5>3. Peers(r, deferred[r].stage)' = Peers(r, deferred[r].stage)
          BY <1>8, <4>3
        <5> QED
          BY <1>4, <1>8, <3>1, <4>3, <5>1, <5>2, <5>3 DEF DeferredOk, Active
      <4>9. ASSUME NEW t \in Ranks, NEW m \in Entries(sends[<<r, t>>]), ~setup.eager,
                   Deferring(r, t, m)
            PROVE  Deferring(r, t, m)'
        <5>1. <<t, m.chunk>> # q
          <6> SUFFICES ASSUME q = <<t, m.chunk>> PROVE FALSE
            OBVIOUS
          <6>1. Complete(r, d.stage, t, m.chunk)
            OBVIOUS
          <6> QED
            BY <4>9, <6>1, CompleteFacts DEF Deferring
        <5> QED
          BY <4>3, <4>9, <5>1 DEF Deferring, Active
      <4> QED
        BY <1>3, <1>4, <1>6, <4>4, <4>6, <4>7, <4>8, <4>9
    <3>4. CASE ~(d.remaining > 0 /\ done # {})
      <4>1. /\ GoTo(r, at[r], "drain")
            /\ deferred' = IF d.requests = {} THEN [deferred EXCEPT ![r].remaining = 0] ELSE deferred
        BY <1>10, <2>2, <3>2, <3>4 DEF Probe
      <4>2. deferred' = deferred
        <5>1. d.requests = {} => d.remaining = 0
          BY <3>1, FS_EmptySet
        <5>2. d.requests = {} => [deferred EXCEPT ![r].remaining = 0] = deferred
          BY <1>1, <5>1 DEF Typed, DeferredRecords
        <5> QED
          BY <4>1, <5>2
      <4>3. /\ at' \in [Ranks -> 0 .. LastStage] /\ pc' \in [Ranks -> Places]
            /\ at'[r] = at[r] /\ pc'[r] = "drain"
            /\ \A q \in Ranks \ {r} : at'[q] = at[q] /\ pc'[q] = pc[q]
        BY <1>1, <4>1, GoToType DEF Places
      <4>4. deferred' \in [Ranks -> DeferredRecords]
        BY <1>1, <4>2 DEF Typed
      <4>5. Local(r)
        BY <1>3, <1>4, <4>2, <4>3, <4>4 DEF Local, StepsAt
      <4>6. DeferredOk(r)'
        BY <1>3, <1>8, <3>1, <4>2, <4>3, <2>2 DEF DeferredOk, Active
      <4>7. \A t, m : Deferring(r, t, m)' = Deferring(r, t, m)
        BY <4>2 DEF Deferring, Active
      <4> QED
        BY <1>3, <1>4, <1>6, <4>3, <4>4, <4>5, <4>6, <4>7
    <3> QED
      BY <3>3, <3>4
  <2> QED
    BY <2>1, <2>2
<1>11. CASE Drain(r)
  <2>1. /\ pc[r] = "drain" /\ deferred' = [deferred EXCEPT ![r] = NoDeferred] /\ AfterFft(r)
        /\ deferred[r].remaining > 0 => AllComplete(r, deferred[r].stage, deferred[r].requests)
    BY <1>11 DEF Drain
  <2>2. /\ deferred'[r] = NoDeferred /\ \A q \in Ranks \ {r} : deferred'[q] = deferred[q]
        /\ deferred' \in [Ranks -> DeferredRecords]
    BY <1>1, <1>7, <2>1 DEF Typed
  <2>3. Local(r) /\ Typed' /\ DeferredOk(r)'
    BY <1>9, <2>1, <2>2
  <2>4. ASSUME NEW t \in Ranks, NEW m \in Entries(sends[<<r, t>>]), ~setup.eager,
               Deferring(r, t, m)
        PROVE  FALSE
    <3>1. <<t, m.chunk>> \in deferred[r].requests /\ deferred[r].stage = m.stage
      BY <2>4 DEF Deferring
    <3>2. deferred[r].remaining > 0
      <4> DEFINE n == Cardinality(deferred[r].requests)
      <4>1. n \in Nat /\ n # 0
        BY <1>5, <3>1, FS_EmptySet, FS_CardinalityType
      <4>2. deferred[r].remaining = n
        BY <1>2 DEF DeferredOk
      <4> QED
        BY <4>1, <4>2
    <3>3. Complete(r, m.stage, t, m.chunk)
      BY <2>1, <3>1, <3>2 DEF AllComplete
    <3> QED
      BY <2>4, <3>3, CompleteFacts
  <2> QED
    BY <1>3, <1>4, <2>3, <2>4
<1>12. CASE FailDrain(r)
  <2>1. /\ pc[r] = "failDrain" /\ deferred' = [deferred EXCEPT ![r] = NoDeferred]
        /\ AllComplete(r, deferred[r].stage, deferred[r].requests) /\ GoTo(r, at[r], "failed")
    BY <1>12 DEF FailDrain
  <2>2. /\ deferred'[r] = NoDeferred /\ \A q \in Ranks \ {r} : deferred'[q] = deferred[q]
        /\ deferred' \in [Ranks -> DeferredRecords]
    BY <1>1, <1>7, <2>1 DEF Typed
  <2>3. /\ at' \in [Ranks -> 0 .. LastStage] /\ pc' \in [Ranks -> Places]
        /\ at'[r] = at[r] /\ pc'[r] = "failed"
        /\ \A q \in Ranks \ {r} : at'[q] = at[q] /\ pc'[q] = pc[q]
    BY <1>1, <2>1, GoToType DEF Places
  <2>4. Local(r)
    BY <1>3, <1>4, <2>2, <2>3 DEF Local, StepsAt
  <2>5. DeferredOk(r)'
    BY <1>7, <2>2, FS_EmptySet DEF DeferredOk, Active
  <2>6. ASSUME NEW t \in Ranks, NEW m \in Entries(sends[<<r, t>>]), ~setup.eager,
               Deferring(r, t, m)
        PROVE  FALSE
    <3>1. Complete(r, m.stage, t, m.chunk)
      BY <2>1, <2>6 DEF AllComplete, Deferring
    <3> QED
      BY <2>6, <3>1, CompleteFacts
  <2> QED
    BY <1>3, <1>4, <1>6, <2>2, <2>3, <2>4, <2>5, <2>6
<1> QED
  BY <1>10, <1>11, <1>12 DEF Finishing

\* A step that touches no queue, and posts nothing.
LEMMA QueuesKept ==
    ASSUME setup' = setup, sends' = sends, recvs' = recvs, InOrder, Matched,
           \A f, t \in Ranks : \A x \in Exchanges : t \in Peers(f, x) =>
             (Posted(f, t, x)' <=> Posted(f, t, x)) /\ (Asked(f, t, x)' <=> Asked(f, t, x))
    PROVE  InOrder' /\ Matched'
<1>1. InOrder'
  BY SetupFixed DEF InOrder
<1>2. \A f, t, x, k : Sent(f, t, x, k)' = Sent(f, t, x, k) /\ Wanted(f, t, x, k)' = Wanted(f, t, x, k)
  BY DEF Sent, Wanted
<1>3. Matched'
  BY <1>2, SetupFixed DEF Matched
<1> QED
  BY <1>1, <1>3

LEMMA LocalPosted ==
    ASSUME CInv, NEW r \in Ranks, Local(r), NEW f \in Ranks, NEW t \in Ranks, NEW x \in Exchanges
    PROVE  (Posted(f, t, x)' <=> Posted(f, t, x)) /\ (Asked(f, t, x)' <=> Asked(f, t, x))
<1>1. setup' = setup /\ peers' = peers /\ pc[r] # "post" /\ pc'[r] # "post"
      /\ \A q \in Ranks \ {r} : at'[q] = at[q] /\ pc'[q] = pc[q]
  BY DEF Local
<1>2. at'[r] > x <=> at[r] > x
  <2>1. at[r] \in Nat /\ x \in Nat
    BY Fields, StepFacts DEF CInv
  <2>2. CASE at'[r] = at[r]
    BY <2>2
  <2>3. CASE at'[r] = at[r] + 1 /\ at[r] # x
    BY <2>1, <2>3
  <2> QED
    BY <2>2, <2>3 DEF Local
<1>3. \A q : Left(q)' = Left(q)
  BY <1>1 DEF Left
<1>4. Posted(f, t, x)' <=> Posted(f, t, x)
  <2>1. CASE f = r
    BY <1>1, <1>2, <2>1 DEF Posted
  <2>2. CASE f # r
    BY <1>1, <1>3, <2>2 DEF Posted
  <2> QED
    BY <2>1, <2>2
<1>5. Asked(f, t, x)' <=> Asked(f, t, x)
  <2>1. CASE t = r
    BY <1>1, <1>2, <2>1 DEF Asked
  <2>2. CASE t # r
    BY <1>1, <1>3, <2>2 DEF Asked
  <2> QED
    BY <2>1, <2>2
<1> QED
  BY <1>4, <1>5

LEMMA LocalInv ==
    ASSUME CInv, NEW r \in Ranks, Local(r), Typed', DeferredOk(r)',
           \A t \in Ranks : \A m \in Entries(sends[<<r, t>>]) :
             ~setup.eager /\ Deferring(r, t, m) => Deferring(r, t, m)'
    PROVE  CInv'
<1>1. /\ UNCHANGED <<setup, peers, unwaited, landed, sends, recvs>>
      /\ pc[r] # "post" /\ pc'[r] # "post"
      /\ \A q \in Ranks \ {r} : at'[q] = at[q] /\ pc'[q] = pc[q] /\ deferred'[q] = deferred[q]
  BY DEF Local
<1>2. /\ LastStage' = LastStage /\ Chunks' = Chunks /\ Exchanges' = Exchanges
      /\ \A q, n : Peers(q, n)' = Peers(q, n)
  BY <1>1, SetupFixed
<1>3. InPlace'
  BY <1>1 DEF InPlace, Local, CInv
<1>4. PeersLeft'
  <2> SUFFICES ASSUME NEW q \in Ranks, pc'[q] = "post"
               PROVE  /\ Left(q)' \subseteq Peers(q, at[q])'
                      /\ \A i, j \in DOMAIN peers'[q] : i # j => peers'[q][i] # peers'[q][j]
    BY DEF PeersLeft
  <2>1. q # r /\ at'[q] = at[q] /\ pc[q] = "post" /\ peers' = peers
    BY <1>1
  <2> QED
    BY <1>2, <2>1 DEF CInv, PeersLeft, Left
<1>5. DeferredIs'
  <2> SUFFICES ASSUME NEW q \in Ranks, q # r PROVE DeferredOk(q)'
    BY DEF DeferredIs
  <2>1. at'[q] = at[q] /\ pc'[q] = pc[q] /\ deferred'[q] = deferred[q] /\ setup' = setup
    BY <1>1
  <2>2. DeferredOk(q)
    BY DEF CInv, DeferredIs
  <2> QED
    BY <1>2, <2>1, <2>2 DEF DeferredOk, Active
<1>6. SendsAre'
  <2> SUFFICES ASSUME NEW f \in Ranks, NEW t \in Ranks, NEW m \in Entries(sends[<<f, t>>])
               PROVE  /\ m.stage \in Exchanges /\ m.chunk \in Chunks
                      /\ t \in Peers(f, m.stage)
                      /\ Posted(f, t, m.stage)'
                      /\ \/ setup.eager \/ (pc'[f] = "post" /\ at'[f] = m.stage)
                         \/ Deferring(f, t, m)'
    BY <1>1, <1>2 DEF SendsAre
  <2>1. /\ m.stage \in Exchanges /\ m.chunk \in Chunks
        /\ t \in Peers(f, m.stage)
        /\ Posted(f, t, m.stage)
        /\ setup.eager \/ (pc[f] = "post" /\ at[f] = m.stage) \/ Deferring(f, t, m)
    BY DEF CInv, SendsAre
  <2>2. Posted(f, t, m.stage)'
    BY <2>1, LocalPosted
  <2>3. CASE f = r
    BY <1>1, <2>1, <2>2, <2>3
  <2>4. CASE f # r
    BY <1>1, <2>1, <2>2, <2>4 DEF Deferring, Active
  <2> QED
    BY <2>3, <2>4
<1>7. RecvsAre'
  <2> SUFFICES ASSUME NEW f \in Ranks, NEW t \in Ranks, NEW m \in Entries(recvs[<<f, t>>])
               PROVE  /\ pc'[t] = "post" /\ at'[t] = m.stage /\ m.chunk \in Chunks
                      /\ f \in Peers(t, m.stage)
                      /\ Asked(f, t, m.stage)'
    BY <1>1, <1>2 DEF RecvsAre
  <2>1. /\ pc[t] = "post" /\ at[t] = m.stage /\ m.chunk \in Chunks
        /\ f \in Peers(t, m.stage)
        /\ Asked(f, t, m.stage)
    BY DEF CInv, RecvsAre
  <2>2. t # r
    BY <1>1, <2>1
  <2>3. Asked(f, t, m.stage)'
    BY <1>1, <2>1, <2>2 DEF Asked, Left
  <2> QED
    BY <1>1, <2>1, <2>2, <2>3
<1>8. InOrder' /\ Matched'
  BY <1>1, LocalPosted, QueuesKept DEF CInv
<1>9. \A f, t, x, k : Wanted(f, t, x, k)' = Wanted(f, t, x, k)
  BY <1>1 DEF Wanted
<1>10. LandedAre'
  <2> SUFFICES ASSUME NEW t \in Ranks, NEW q \in landed[t]
               PROVE  /\ pc'[t] = "post" /\ q[1] \in Peers(t, at[t])'
                      /\ Asked(q[1], t, at[t])' /\ ~Wanted(q[1], t, at[t], q[2])'
    BY <1>1 DEF LandedAre
  <2>1. /\ pc[t] = "post" /\ q[1] \in Peers(t, at[t])
        /\ Asked(q[1], t, at[t]) /\ ~Wanted(q[1], t, at[t], q[2])
    BY DEF CInv, LandedAre
  <2>2. t # r /\ at'[t] = at[t] /\ pc'[t] = pc[t]
    BY <1>1, <2>1
  <2>3. Asked(q[1], t, at[t])'
    BY <1>1, <2>1, <2>2 DEF Asked, Left
  <2> QED
    BY <1>2, <1>9, <2>1, <2>2, <2>3
<1>11. Counted'
  <2> SUFFICES ASSUME NEW t \in Ranks, NEW f \in Ranks
               PROVE  unwaited[t][f] = IF pc'[t] = "post" /\ f \in Peers(t, at[t])'
                                       THEN Cardinality(Due(f, t)') ELSE 0
    BY <1>1 DEF Counted
  <2>1. unwaited[t][f] = IF pc[t] = "post" /\ f \in Peers(t, at[t]) THEN Cardinality(Due(f, t)) ELSE 0
    BY DEF CInv, Counted
  <2>2. CASE t = r
    BY <1>1, <2>1, <2>2
  <2>3. CASE t # r
    <3>1. at'[t] = at[t] /\ pc'[t] = pc[t]
      BY <1>1, <2>3
    <3>2. Asked(f, t, at[t])' <=> Asked(f, t, at[t])
      BY <1>1, <3>1 DEF Asked, Left
    <3>3. Due(f, t)' = Due(f, t)
      BY <1>1, <1>2, <1>9, <3>1, <3>2 DEF Due
    <3> QED
      BY <1>2, <2>1, <3>1, <3>3
  <2> QED
    BY <2>2, <2>3
<1> QED
  BY <1>3, <1>4, <1>5, <1>6, <1>7, <1>8, <1>10, <1>11 DEF CInv

LEMMA CtrlLocal ==
    ASSUME CInv, NEW r \in Ranks, StartOrFft(r) \/ Finishing(r)
    PROVE  CInv'
<1>1. CASE StartOrFft(r)
  <2>1. Local(r) /\ deferred' = deferred /\ Typed' /\ setup' = setup
        /\ (Active(r) => at'[r] = at[r] /\ pc'[r] \in {"running", "probe", "failDrain"})
    BY <1>1, LocalFft DEF Local
  <2>2. DeferredOk(r)
    BY DEF CInv, DeferredIs
  <2>3. Active(r)' = Active(r) /\ Exchanges' = Exchanges /\ Chunks' = Chunks
        /\ \A n : Peers(r, n)' = Peers(r, n)
    BY <2>1, SetupFixed DEF Active
  <2>4. DeferredOk(r)'
    BY <2>1, <2>2, <2>3 DEF DeferredOk
  <2>5. \A t, m : Deferring(r, t, m)' = Deferring(r, t, m)
    BY <2>1 DEF Deferring, Active
  <2> QED
    BY <2>1, <2>4, <2>5, LocalInv
<1>2. CASE Finishing(r)
  BY <1>2, LocalFinish, LocalInv
<1> QED
  BY <1>1, <1>2

-----------------------------------------------------------------------------
(***************************************************************************)
(* A redistribution begins.                                                *)
(***************************************************************************)

\* Outside a redistribution no receive is posted and nothing has landed.
LEMMA QuietFacts ==
    ASSUME CInv, NEW r \in Ranks, pc[r] # "post"
    PROVE  /\ \A f \in Ranks : Entries(recvs[<<f, r>>]) = {}
           /\ landed[r] = {}
  BY DEF CInv, RecvsAre, LandedAre

LEMMA EnterFacts ==
    ASSUME CInv, NEW r \in Ranks, EnterExchange(r)
    PROVE  /\ at[r] \in Exchanges /\ pc[r] = "exchange" /\ ~Active(r)
           /\ UNCHANGED <<setup, at, landed, deferred, computing, sends, mem>>
           /\ pc' = [pc EXCEPT ![r] = "post"]
           /\ peers' = [peers EXCEPT ![r] = PeerOrder(r, at[r])]
           /\ unwaited' = [unwaited EXCEPT ![r] =
                             [p \in Ranks |-> IF p \in Peers(r, at[r]) THEN setup.chunks ELSE 0]]
           /\ recvs' = [c \in Ranks \X Ranks |->
                           IF ~setup.paired /\ c[2] = r /\ c[1] \in Peers(r, at[r])
                           THEN Requests(at[r]) ELSE recvs[c]]
<1>1. /\ Typed /\ setup \in Setups /\ at[r] \in 0 .. LastStage /\ LastStage \in Nat
  BY Fields DEF CInv
<1>2. StepOf(at[r]) \in StepsAt(pc[r]) /\ DeferredOk(r)
  BY DEF CInv, InPlace, DeferredIs
<1>3. pc[r] = "exchange" /\ UNCHANGED <<setup, at, landed, deferred, computing, sends, mem>>
  BY DEF EnterExchange
<1>4. at[r] \in Exchanges
  BY <1>1, <1>2, <1>3, StepFacts DEF StepsAt, Exchanges, IsExchange
<1>5. ~Active(r)
  BY <1>2, <1>3 DEF DeferredOk
<1>6. /\ pc' = [pc EXCEPT ![r] = "post"]
      /\ peers' = [peers EXCEPT ![r] = PeerOrder(r, at[r])]
      /\ unwaited' = [unwaited EXCEPT ![r] =
                        [p \in Ranks |-> IF p \in Peers(r, at[r]) THEN setup.chunks ELSE 0]]
      /\ recvs' = IF setup.paired THEN recvs
                  ELSE [c \in Ranks \X Ranks |->
                          IF c[2] = r /\ c[1] \in Peers(r, at[r])
                          THEN recvs[c] \o Requests(at[r]) ELSE recvs[c]]
  BY <1>5 DEF EnterExchange
<1>7. recvs = [c \in Ranks \X Ranks |-> recvs[c]]
  BY <1>1 DEF Typed
<1>8. ASSUME NEW c \in Ranks \X Ranks, c[2] = r PROVE recvs[c] \o Requests(at[r]) = Requests(at[r])
  <2>1. c = <<c[1], r>> /\ c[1] \in Ranks
    BY <1>8
  <2>2. Entries(recvs[c]) = {}
    BY <1>3, <2>1, QuietFacts
  <2>3. recvs[c] \in Seq(RecvRecords) /\ Requests(at[r]) \in Seq(RecvRecords)
    BY <1>1, NewRequests DEF Typed
  <2> QED
    BY <2>2, <2>3, JoinQueue
<1>9. recvs' = [c \in Ranks \X Ranks |->
                  IF ~setup.paired /\ c[2] = r /\ c[1] \in Peers(r, at[r])
                  THEN Requests(at[r]) ELSE recvs[c]]
  BY <1>6, <1>7, <1>8
<1> QED
  BY <1>3, <1>4, <1>5, <1>6, <1>9

LEMMA EnterTyped ==
    ASSUME CInv, NEW r \in Ranks, EnterExchange(r)
    PROVE  Typed'
<1>1. /\ Typed /\ setup \in Setups /\ setup.chunks \in Nat /\ at[r] \in Nat
  BY Fields, SetupFacts DEF CInv
<1>2. peers' \in [Ranks -> Seq(Ranks)]
  <2>1. PeerOrder(r, at[r]) \in Seq(Ranks) /\ peers \in [Ranks -> Seq(Ranks)]
    BY <1>1, PeerFacts DEF Typed
  <2>2. peers' = [peers EXCEPT ![r] = PeerOrder(r, at[r])]
    BY EnterFacts
  <2> QED
    BY <2>1, <2>2
<1>3. unwaited' \in [Ranks -> [Ranks -> Int]]
  <2> DEFINE u == [p \in Ranks |-> IF p \in Peers(r, at[r]) THEN setup.chunks ELSE 0]
  <2>1. u \in [Ranks -> Int] /\ unwaited' = [unwaited EXCEPT ![r] = u]
    BY <1>1, EnterFacts
  <2> HIDE DEF u
  <2> QED
    BY <1>1, <2>1 DEF Typed
<1>4. recvs' \in [Ranks \X Ranks -> Seq(RecvRecords)]
  <2>1. Requests(at[r]) \in Seq(RecvRecords)
    BY <1>1, NewRequests
  <2> QED
    <3>1. \A c \in Ranks \X Ranks : recvs[c] \in Seq(RecvRecords)
      BY <1>1 DEF Typed
    <3>2. recvs' = [c \in Ranks \X Ranks |->
                      IF ~setup.paired /\ c[2] = r /\ c[1] \in Peers(r, at[r])
                      THEN Requests(at[r]) ELSE recvs[c]]
      BY EnterFacts
    <3> QED
      BY <2>1, <3>1, <3>2
<1>5. UNCHANGED <<setup, at, landed, deferred, computing, sends, mem>>
      /\ pc' \in [Ranks -> Places]
  BY <1>1, EnterFacts DEF Typed, Places
<1> QED
  BY <1>1, <1>2, <1>3, <1>4, <1>5, SetupFixed
     DEF Typed, SendRecords, RecvRecords, DeferredRecords, Contents

LEMMA CtrlEnter ==
    ASSUME CInv, NEW r \in Ranks, EnterExchange(r)
    PROVE  CInv'
<1> DEFINE n == at[r]
           Fresh(f, t) == ~setup.paired /\ t = r /\ f \in Peers(r, n)
<1>1. /\ Typed /\ setup \in Setups /\ setup.chunks \in Nat /\ n \in Nat
  BY Fields, SetupFacts DEF CInv
<1>2. /\ n \in Exchanges /\ pc[r] = "exchange" /\ ~Active(r) /\ setup' = setup
      /\ UNCHANGED <<at, landed, deferred, sends>>
      /\ pc'[r] = "post" /\ \A q \in Ranks \ {r} : pc'[q] = pc[q]
      /\ peers'[r] = PeerOrder(r, n) /\ \A q \in Ranks \ {r} : peers'[q] = peers[q]
  BY <1>1, EnterFacts DEF Typed
<1>3. \A f, t \in Ranks : recvs'[<<f, t>>] = IF Fresh(f, t) THEN Requests(n) ELSE recvs[<<f, t>>]
  BY EnterFacts
<1>4. \A p \in Ranks : /\ unwaited'[r][p] = IF p \in Peers(r, n) THEN setup.chunks ELSE 0
                       /\ \A q \in Ranks \ {r} : unwaited'[q][p] = unwaited[q][p]
  BY <1>1, EnterFacts DEF Typed
<1>5. /\ LastStage' = LastStage /\ Chunks' = Chunks /\ Exchanges' = Exchanges
      /\ \A q, x : Peers(q, x)' = Peers(q, x)
      /\ \A q : Suffix(q)' = Suffix(q)
  BY <1>2, SetupFixed
<1>6. Left(r)' = Peers(r, n) /\ \A q \in Ranks \ {r} : Left(q)' = Left(q)
  BY <1>2 DEF Left, Entries, Peers
<1>7. /\ Entries(Requests(n)) = {[stage |-> n, chunk |-> k] : k \in Chunks}
      /\ Ordered(Requests(n)) /\ Suffix(Requests(n))
  BY <1>1, NewRequests
<1>8. \A f \in Ranks : Entries(recvs[<<f, r>>]) = {}
  BY <1>2, QuietFacts
<1>9. landed[r] = {}
  BY <1>2, QuietFacts
<1>10. \A f, t \in Ranks, x \in Exchanges : t \in Peers(f, x) =>
         (Posted(f, t, x)' <=> Posted(f, t, x))
  <2> SUFFICES ASSUME NEW f \in Ranks, NEW t \in Ranks, NEW x \in Exchanges, t \in Peers(f, x)
               PROVE  Posted(f, t, x)' <=> Posted(f, t, x)
    OBVIOUS
  <2>1. CASE f = r
    BY <1>2, <1>6, <2>1 DEF Posted
  <2>2. CASE f # r
    BY <1>2, <1>6, <2>2 DEF Posted
  <2> QED
    BY <2>1, <2>2
<1>11. \A f, t \in Ranks, x \in Exchanges : t \in Peers(f, x) =>
         (Asked(f, t, x)' <=> Asked(f, t, x) \/ (Fresh(f, t) /\ x = n))
  <2> SUFFICES ASSUME NEW f \in Ranks, NEW t \in Ranks, NEW x \in Exchanges, t \in Peers(f, x)
               PROVE  Asked(f, t, x)' <=> Asked(f, t, x) \/ (Fresh(f, t) /\ x = n)
    OBVIOUS
  <2>1. CASE t = r
    <3>1. f \in Peers(t, x)
      BY Symmetric
    <3> QED
      BY <1>2, <1>6, <2>1, <3>1 DEF Asked
  <2>2. CASE t # r
    BY <1>2, <1>6, <2>2 DEF Asked
  <2> QED
    BY <2>1, <2>2
<1>12. \A f, t \in Ranks : \A x, k :
         /\ Sent(f, t, x, k)' = Sent(f, t, x, k)
         /\ ~Fresh(f, t) => Wanted(f, t, x, k)' = Wanted(f, t, x, k)
         /\ Fresh(f, t) => (Wanted(f, t, x, k)' <=> x = n /\ k \in Chunks)
         /\ t = r => ~Wanted(f, t, x, k)
  <2>1. \A f, t \in Ranks : \A x, k : Sent(f, t, x, k)' = Sent(f, t, x, k)
    BY <1>2 DEF Sent
  <2>2. \A f, t \in Ranks : \A x, k : t = r => ~Wanted(f, t, x, k)
    BY <1>8 DEF Wanted
  <2>3. ASSUME NEW f \in Ranks, NEW t \in Ranks, NEW x, NEW k, Fresh(f, t)
        PROVE  Wanted(f, t, x, k)' <=> x = n /\ k \in Chunks
    <3>1. Entries(recvs[<<f, t>>])' = {[stage |-> n, chunk |-> j] : j \in Chunks}
      BY <1>3, <1>7, <2>3 DEF Entries
    <3>2. ASSUME x = n, k \in Chunks PROVE Wanted(f, t, x, k)'
      <4>1. [stage |-> n, chunk |-> k] \in Entries(recvs[<<f, t>>])'
        BY <3>1, <3>2
      <4> QED
        BY <3>2, <4>1 DEF Wanted
    <3>3. ASSUME Wanted(f, t, x, k)' PROVE x = n /\ k \in Chunks
      <4>1. PICK m \in Entries(recvs[<<f, t>>])' : m.stage = x /\ m.chunk = k
        BY <3>3 DEF Wanted
      <4>2. PICK j \in Chunks : m = [stage |-> n, chunk |-> j]
        BY <3>1
      <4> QED
        BY <4>1, <4>2
    <3> QED
      BY <3>2, <3>3
  <2>4. ASSUME NEW f \in Ranks, NEW t \in Ranks, NEW x, NEW k, ~Fresh(f, t)
        PROVE  Wanted(f, t, x, k)' = Wanted(f, t, x, k)
    BY <1>3, <2>4 DEF Wanted
  <2> QED
    BY <2>1, <2>2, <2>3, <2>4
<1>13. InPlace'
  BY <1>2 DEF CInv, InPlace, StepsAt
<1>14. PeersLeft'
  <2> SUFFICES ASSUME NEW q \in Ranks, pc'[q] = "post"
               PROVE  /\ Left(q)' \subseteq Peers(q, at[q])'
                      /\ \A i, j \in DOMAIN peers'[q] : i # j => peers'[q][i] # peers'[q][j]
    BY DEF PeersLeft
  <2>1. CASE q = r
    BY <1>2, <1>5, <1>6, <2>1, PeerFacts
  <2>2. CASE q # r
    BY <1>2, <1>5, <1>6, <2>2 DEF CInv, PeersLeft
  <2> QED
    BY <2>1, <2>2
<1>15. DeferredIs'
  <2> SUFFICES ASSUME NEW q \in Ranks PROVE DeferredOk(q)'
    BY DEF DeferredIs
  <2>1. DeferredOk(q)
    BY DEF CInv, DeferredIs
  <2> QED
    BY <1>2, <1>5, <2>1 DEF DeferredOk, Active
<1>16. SendsAre'
  <2> SUFFICES ASSUME NEW f \in Ranks, NEW t \in Ranks, NEW m \in Entries(sends[<<f, t>>])
               PROVE  /\ m.stage \in Exchanges /\ m.chunk \in Chunks
                      /\ t \in Peers(f, m.stage)
                      /\ Posted(f, t, m.stage)'
                      /\ \/ setup.eager \/ (pc'[f] = "post" /\ at'[f] = m.stage)
                         \/ Deferring(f, t, m)'
    BY <1>2, <1>5 DEF SendsAre
  <2>1. /\ m.stage \in Exchanges /\ m.chunk \in Chunks
        /\ t \in Peers(f, m.stage)
        /\ Posted(f, t, m.stage)
        /\ setup.eager \/ (pc[f] = "post" /\ at[f] = m.stage) \/ Deferring(f, t, m)
    BY DEF CInv, SendsAre
  <2>2. Posted(f, t, m.stage)'
    BY <2>1, <1>10
  <2>3. Deferring(f, t, m)' = Deferring(f, t, m)
    BY <1>2 DEF Deferring, Active
  <2> QED
    BY <1>2, <2>1, <2>2, <2>3
<1>17. RecvsAre'
  <2> SUFFICES ASSUME NEW f \in Ranks, NEW t \in Ranks, NEW m \in Entries(recvs[<<f, t>>])'
               PROVE  /\ pc'[t] = "post" /\ at'[t] = m.stage /\ m.chunk \in Chunks
                      /\ f \in Peers(t, m.stage)
                      /\ Asked(f, t, m.stage)'
    BY <1>2, <1>5 DEF RecvsAre
  <2>1. CASE Fresh(f, t)
    <3>1. m \in {[stage |-> n, chunk |-> k] : k \in Chunks}
      BY <1>3, <1>7, <2>1 DEF Entries
    <3>2. m.stage = n /\ m.chunk \in Chunks /\ f \in Peers(r, n)
      BY <2>1, <3>1
    <3>3. t \in Peers(f, n)
      BY <2>1, Symmetric
    <3> QED
      BY <1>2, <1>11, <2>1, <3>2, <3>3
  <2>2. CASE ~Fresh(f, t)
    <3>1. m \in Entries(recvs[<<f, t>>])
      BY <1>3, <2>2 DEF Entries
    <3>2. /\ pc[t] = "post" /\ at[t] = m.stage /\ m.chunk \in Chunks
          /\ f \in Peers(t, m.stage)
          /\ Asked(f, t, m.stage)
      BY <3>1 DEF CInv, RecvsAre
    <3>3. t # r
      BY <1>2, <3>2
    <3> QED
      BY <1>2, <1>6, <3>2, <3>3 DEF Asked
  <2> QED
    BY <2>1, <2>2
<1>18. InOrder'
  <2> SUFFICES ASSUME NEW f \in Ranks, NEW t \in Ranks
               PROVE  /\ Ordered(sends'[<<f, t>>]) /\ (~setup.eager => Suffix(sends[<<f, t>>])')
                      /\ Ordered(recvs'[<<f, t>>]) /\ Suffix(recvs[<<f, t>>])'
    BY <1>2 DEF InOrder
  <2>1. /\ Ordered(sends[<<f, t>>]) /\ (~setup.eager => Suffix(sends[<<f, t>>]))
        /\ Ordered(recvs[<<f, t>>]) /\ Suffix(recvs[<<f, t>>])
    BY DEF CInv, InOrder
  <2> QED
    BY <1>2, <1>3, <1>5, <1>7, <2>1
<1>19. Matched'
  <2> SUFFICES ASSUME NEW f \in Ranks, NEW t \in Ranks, NEW x \in Exchanges, NEW k \in Chunks,
                      t \in Peers(f, x)
               PROVE  /\ Posted(f, t, x)' /\ ~Asked(f, t, x)' => Sent(f, t, x, k)'
                      /\ Asked(f, t, x)' /\ ~Posted(f, t, x)' => Wanted(f, t, x, k)'
                      /\ Posted(f, t, x)' /\ Asked(f, t, x)' =>
                           (Sent(f, t, x, k)' <=> Wanted(f, t, x, k)')
    BY <1>5 DEF Matched
  <2>1. /\ Posted(f, t, x) /\ ~Asked(f, t, x) => Sent(f, t, x, k)
        /\ Asked(f, t, x) /\ ~Posted(f, t, x) => Wanted(f, t, x, k)
        /\ Posted(f, t, x) /\ Asked(f, t, x) => (Sent(f, t, x, k) <=> Wanted(f, t, x, k))
    BY DEF CInv, Matched
  <2>2. CASE Fresh(f, t) /\ x = n
    <3>1. ~Asked(f, t, x)
      BY <1>1, <1>2, <2>2 DEF Asked
    <3> QED
      BY <1>10, <1>11, <1>12, <2>1, <2>2, <3>1
  <2>3. CASE ~(Fresh(f, t) /\ x = n)
    <3>1. Wanted(f, t, x, k)' <=> Wanted(f, t, x, k)
      <4>1. CASE Fresh(f, t)
        BY <1>12, <2>3, <4>1
      <4>2. CASE ~Fresh(f, t)
        BY <1>12, <4>2
      <4> QED
        BY <4>1, <4>2
    <3> QED
      BY <1>10, <1>11, <1>12, <2>1, <2>3, <3>1
  <2> QED
    BY <2>2, <2>3
<1>20. LandedAre'
  <2> SUFFICES ASSUME NEW t \in Ranks, NEW q \in landed[t]
               PROVE  /\ pc'[t] = "post" /\ q[1] \in Peers(t, at[t])'
                      /\ Asked(q[1], t, at[t])' /\ ~Wanted(q[1], t, at[t], q[2])'
    BY <1>2 DEF LandedAre
  <2>1. /\ pc[t] = "post" /\ q[1] \in Peers(t, at[t])
        /\ Asked(q[1], t, at[t]) /\ ~Wanted(q[1], t, at[t], q[2])
    BY DEF CInv, LandedAre
  <2>2. t # r /\ q[1] \in Ranks
    BY <1>9, <2>1, Symmetric
  <2>3. Asked(q[1], t, at[t])'
    BY <1>2, <1>6, <2>1, <2>2 DEF Asked
  <2> QED
    BY <1>2, <1>5, <1>12, <2>1, <2>2, <2>3
<1>21. Counted'
  <2> SUFFICES ASSUME NEW t \in Ranks, NEW f \in Ranks
               PROVE  unwaited'[t][f] = IF pc'[t] = "post" /\ f \in Peers(t, at[t])'
                                        THEN Cardinality(Due(f, t)') ELSE 0
    BY DEF Counted
  <2>1. CASE t = r
    <3>1. ASSUME f \in Peers(r, n) PROVE Due(f, t)' = Chunks
      <4>1. t \in Peers(f, n)
        BY <2>1, <3>1, Symmetric
      <4>2. Asked(f, t, n)' => \A k \in Chunks : Wanted(f, t, n, k)'
        <5>1. ~Asked(f, t, n)
          BY <1>1, <1>2, <2>1 DEF Asked
        <5> QED
          BY <1>2, <1>11, <1>12, <4>1, <5>1
      <4> QED
        BY <1>2, <1>5, <2>1, <4>2 DEF Due
    <3> QED
      BY <1>1, <1>2, <1>4, <1>5, <2>1, <3>1, Finite
  <2>2. CASE t # r
    <3>1. unwaited[t][f] = IF pc[t] = "post" /\ f \in Peers(t, at[t]) THEN Cardinality(Due(f, t)) ELSE 0
      BY DEF CInv, Counted
    <3>2. Asked(f, t, at[t])' <=> Asked(f, t, at[t])
      BY <1>2, <1>6, <2>2 DEF Asked
    <3>3. Due(f, t)' = Due(f, t)
      BY <1>2, <1>5, <1>12, <2>2, <3>2 DEF Due
    <3> QED
      BY <1>2, <1>4, <1>5, <2>2, <3>1, <3>3
  <2> QED
    BY <2>1, <2>2
<1> QED
  BY <1>13, <1>14, <1>15, <1>16, <1>17, <1>18, <1>19, <1>20, <1>21, EnterTyped DEF CInv

-----------------------------------------------------------------------------
(***************************************************************************)
(* The requests of a peer are posted.                                      *)
(***************************************************************************)

\* Whether the data of the sends is right when they are posted.
GoodPost(r, p) ==
    IF Packed(at[r]) THEN Whole(r, mem[r][Input(r, at[r])], at[r] - 1) ELSE Intact(r, p, at[r])

LEMMA PostFacts ==
    ASSUME CInv, NEW r \in Ranks, PostPeer(r)
    PROVE  /\ at[r] \in Exchanges /\ pc[r] = "post" /\ ~Active(r)
           /\ peers[r] \in Seq(Ranks) /\ peers[r] # <<>>
           /\ Head(peers[r]) \in Peers(r, at[r]) \cap Left(r)
           /\ Head(peers[r]) \in Ranks \ {r}
           /\ UNCHANGED <<setup, at, pc, unwaited, landed, deferred, computing>>
           /\ peers' = [peers EXCEPT ![r] = Tail(@)]
           /\ Left(r)' = Left(r) \ {Head(peers[r])}
           /\ Distinct(Tail(peers[r])) /\ Tail(peers[r]) \in Seq(Ranks)
           /\ sends' = [sends EXCEPT ![<<r, Head(peers[r])>>] =
                           @ \o Parcels(at[r], GoodPost(r, Head(peers[r])))]
           /\ recvs' = IF setup.paired
                       THEN [recvs EXCEPT ![<<Head(peers[r]), r>>] = @ \o Requests(at[r])]
                       ELSE recvs
           /\ mem' = IF Packed(at[r]) /\ Whole(r, mem[r][Input(r, at[r])], at[r] - 1)
                     THEN [mem EXCEPT ![r][SendSlot] =
                             Added(@, at[r], {Head(peers[r])} \X Chunks)]
                     ELSE mem
<1>1. /\ Typed /\ setup \in Setups /\ at[r] \in 0 .. LastStage /\ LastStage \in Nat
      /\ peers[r] \in Seq(Ranks)
  BY Fields DEF CInv
<1>2. StepOf(at[r]) \in StepsAt(pc[r]) /\ DeferredOk(r)
  BY DEF CInv, InPlace, DeferredIs
<1>3. pc[r] = "post" /\ peers[r] # <<>>
      /\ UNCHANGED <<setup, at, pc, unwaited, landed, deferred, computing>>
      /\ peers' = [peers EXCEPT ![r] = Tail(@)]
  BY DEF PostPeer
<1>4. at[r] \in Exchanges
  BY <1>1, <1>2, <1>3, StepFacts DEF StepsAt, Exchanges, IsExchange
<1>5. ~Active(r)
  BY <1>2, <1>3 DEF DeferredOk
<1>6. Left(r) \subseteq Peers(r, at[r]) /\ Distinct(peers[r])
  BY <1>3 DEF CInv, PeersLeft, Distinct
<1>7. /\ Head(peers[r]) \in Ranks /\ Tail(peers[r]) \in Seq(Ranks)
      /\ Entries(peers[r]) = {Head(peers[r])} \cup Entries(Tail(peers[r]))
      /\ Distinct(Tail(peers[r])) /\ Entries(Tail(peers[r])) = Entries(peers[r]) \ {Head(peers[r])}
  BY <1>1, <1>3, <1>6, TailQueue
<1>8. Head(peers[r]) \in Peers(r, at[r]) \cap Left(r)
  BY <1>6, <1>7 DEF Left
<1>9. Left(r)' = Left(r) \ {Head(peers[r])}
  <2>1. peers'[r] = Tail(peers[r])
    BY <1>1, <1>3 DEF Typed
  <2> QED
    BY <1>7, <2>1 DEF Left, Entries
<1>10. Head(peers[r]) \in Ranks \ {r}
  BY <1>8, Symmetric
<1>11. /\ sends' = [sends EXCEPT ![<<r, Head(peers[r])>>] =
                      @ \o Parcels(at[r], GoodPost(r, Head(peers[r])))]
       /\ recvs' = IF setup.paired
                   THEN [recvs EXCEPT ![<<Head(peers[r]), r>>] = @ \o Requests(at[r])]
                   ELSE recvs
       /\ mem' = IF Packed(at[r]) /\ Whole(r, mem[r][Input(r, at[r])], at[r] - 1)
                 THEN [mem EXCEPT ![r][SendSlot] = Added(@, at[r], {Head(peers[r])} \X Chunks)]
                 ELSE mem
  BY DEF PostPeer, Parcels, GoodPost
<1> QED
  BY <1>1, <1>3, <1>4, <1>5, <1>7, <1>8, <1>9, <1>10, <1>11

LEMMA GoodIsBoolean == \A r, p : GoodPost(r, p) \in BOOLEAN
  BY DEF GoodPost, Whole, Intact

LEMMA PostTyped ==
    ASSUME CInv, NEW r \in Ranks, PostPeer(r)
    PROVE  Typed'
<1> DEFINE p == Head(peers[r])
           n == at[r]
           good == GoodPost(r, p)
<1>1. /\ Typed /\ setup \in Setups /\ n \in Nat
  BY Fields DEF CInv
<1>2. /\ UNCHANGED <<setup, at, pc, unwaited, landed, deferred, computing>>
      /\ p \in Ranks /\ peers' = [peers EXCEPT ![r] = Tail(@)] /\ Tail(peers[r]) \in Seq(Ranks)
  BY PostFacts
<1>3. peers' \in [Ranks -> Seq(Ranks)]
  BY <1>1, <1>2 DEF Typed
<1>4. sends' \in [Ranks \X Ranks -> Seq(SendRecords)]
  <2> DEFINE q == sends[<<r, p>>] \o Parcels(n, good)
  <2>1. Parcels(n, good) \in Seq(SendRecords) /\ sends[<<r, p>>] \in Seq(SendRecords)
    BY <1>1, <1>2, GoodIsBoolean, NewParcels, Fields
  <2>2. q \in Seq(SendRecords)
    BY <2>1, JoinQueue
  <2>3. sends' = [sends EXCEPT ![<<r, p>>] = q]
    BY PostFacts
  <2> HIDE DEF q
  <2> QED
    BY <1>1, <2>2, <2>3 DEF Typed
<1>5. recvs' \in [Ranks \X Ranks -> Seq(RecvRecords)]
  <2> DEFINE q == recvs[<<p, r>>] \o Requests(n)
  <2>1. Requests(n) \in Seq(RecvRecords) /\ recvs[<<p, r>>] \in Seq(RecvRecords)
    BY <1>1, <1>2, NewRequests, Fields
  <2>2. q \in Seq(RecvRecords)
    BY <2>1, JoinQueue
  <2>3. recvs' = IF setup.paired THEN [recvs EXCEPT ![<<p, r>>] = q] ELSE recvs
    BY PostFacts
  <2> HIDE DEF q
  <2> QED
    BY <1>1, <2>2, <2>3 DEF Typed
<1>6. mem' \in [Ranks -> [Regions -> Contents]]
  <2> DEFINE c == Added(mem[r][SendSlot], n, {p} \X Chunks)
  <2>1. mem' = mem \/ mem' = [mem EXCEPT ![r][SendSlot] = c]
    BY PostFacts
  <2>2. SendSlot \in Regions
    BY <1>1, ScratchFacts DEF SendSlot
  <2>3. mem[r][SendSlot] \in Contents
    BY <1>1, <2>2, Fields
  <2>4. c \in Contents
    BY <1>1, <1>2, <2>3, AddedType
  <2> HIDE DEF c
  <2> QED
    BY <1>1, <2>1, <2>4, PutType DEF Typed
<1> QED
  BY <1>1, <1>2, <1>3, <1>4, <1>5, <1>6, SetupFixed
     DEF Typed, SendRecords, RecvRecords, DeferredRecords, Contents

LEMMA CtrlPost ==
    ASSUME CInv, NEW r \in Ranks, PostPeer(r)
    PROVE  CInv'
<1> DEFINE n == at[r]
           p == Head(peers[r])
           good == GoodPost(r, p)
           Sender(f, t) == f = r /\ t = p
           Receiver(f, t) == setup.paired /\ f = p /\ t = r
<1>1. /\ Typed /\ setup \in Setups /\ setup.chunks \in Nat /\ n \in Nat
  BY Fields, SetupFacts DEF CInv
<1>2. /\ n \in Exchanges /\ pc[r] = "post" /\ ~Active(r) /\ setup' = setup
      /\ UNCHANGED <<at, pc, unwaited, landed, deferred>>
      /\ p \in Ranks /\ p # r /\ p \in Peers(r, n) /\ p \in Left(r)
      /\ Left(r)' = Left(r) \ {p}
  BY PostFacts
<1>3. /\ peers'[r] = Tail(peers[r]) /\ Distinct(peers'[r])
      /\ \A q \in Ranks \ {r} : peers'[q] = peers[q]
  <2>1. peers' = [peers EXCEPT ![r] = Tail(peers[r])] /\ peers \in [Ranks -> Seq(Ranks)]
    BY <1>1, PostFacts DEF Typed
  <2>2. Distinct(Tail(peers[r]))
    BY PostFacts
  <2> QED
    BY <2>1, <2>2
<1>4. /\ \A q \in Ranks \ {r} : Left(q)' = Left(q)
      /\ r \in Peers(p, n)
  BY <1>2, <1>3, Symmetric DEF Left
<1>5. /\ LastStage' = LastStage /\ Chunks' = Chunks /\ Exchanges' = Exchanges
      /\ \A q, x : Peers(q, x)' = Peers(q, x)
      /\ \A q : Suffix(q)' = Suffix(q)
  BY <1>2, SetupFixed
<1>6. /\ Parcels(n, good) \in Seq(SendRecords)
      /\ Entries(Parcels(n, good)) = {[stage |-> n, chunk |-> k, good |-> good] : k \in Chunks}
      /\ Ordered(Parcels(n, good)) /\ Suffix(Parcels(n, good))
  BY <1>1, GoodIsBoolean, NewParcels
<1>7. /\ Requests(n) \in Seq(RecvRecords)
      /\ Entries(Requests(n)) = {[stage |-> n, chunk |-> k] : k \in Chunks}
      /\ Ordered(Requests(n)) /\ Suffix(Requests(n))
  BY <1>1, NewRequests
<1>8. /\ ~Posted(r, p, n)
      /\ setup.paired => ~Asked(p, r, n)
  BY <1>1, <1>2 DEF Posted, Asked
\* What was posted to this peer belongs to earlier stages.
<1>9. /\ \A m \in Entries(sends[<<r, p>>]) : m.stage < n
      /\ ~setup.eager => Entries(sends[<<r, p>>]) = {}
  <2> SUFFICES ASSUME NEW m \in Entries(sends[<<r, p>>])
               PROVE  m.stage < n /\ setup.eager
    OBVIOUS
  <2>1. /\ m.stage \in Exchanges /\ Posted(r, p, m.stage)
        /\ setup.eager \/ (pc[r] = "post" /\ at[r] = m.stage) \/ Deferring(r, p, m)
    BY <1>2 DEF CInv, SendsAre
  <2>2. m.stage \in Nat
    BY <1>1, <2>1, StepFacts
  <2> QED
    BY <1>1, <1>2, <1>8, <2>1, <2>2 DEF Posted, Deferring
<1>10. setup.paired => Entries(recvs[<<p, r>>]) = {}
  <2> SUFFICES ASSUME setup.paired, NEW m \in Entries(recvs[<<p, r>>]) PROVE FALSE
    OBVIOUS
  <2>1. at[r] = m.stage /\ Asked(p, r, m.stage)
    BY <1>2 DEF CInv, RecvsAre
  <2> QED
    BY <1>8, <2>1
<1>10a. /\ sends'[<<r, p>>] = sends[<<r, p>>] \o Parcels(n, good)
       /\ \A f, t \in Ranks : ~Sender(f, t) => sends'[<<f, t>>] = sends[<<f, t>>]
  <2> DEFINE q == sends[<<r, p>>] \o Parcels(n, good)
  <2>1. sends' = [sends EXCEPT ![<<r, p>>] = q]
    BY PostFacts
  <2>2. <<r, p>> \in Ranks \X Ranks /\ sends \in [Ranks \X Ranks -> Seq(SendRecords)]
    BY <1>1, <1>2 DEF Typed
  <2> HIDE DEF q
  <2>3. sends'[<<r, p>>] = q
    BY <2>1, <2>2
  <2>4. ASSUME NEW f \in Ranks, NEW t \in Ranks, ~Sender(f, t)
        PROVE  sends'[<<f, t>>] = sends[<<f, t>>]
    <3>1. <<f, t>> # <<r, p>> /\ <<f, t>> \in Ranks \X Ranks
      BY <2>4
    <3> QED
      BY <2>1, <2>2, <3>1
  <2> QED
    BY <2>3, <2>4 DEF q
<1>11. /\ Entries(sends'[<<r, p>>]) = Entries(sends[<<r, p>>]) \cup Entries(Parcels(n, good))
       /\ Ordered(sends'[<<r, p>>]) /\ (~setup.eager => Suffix(sends'[<<r, p>>]))
  <2>1. sends[<<r, p>>] \in Seq(SendRecords)
    BY <1>1, <1>2, Fields
  <2>2. sends'[<<r, p>>] = sends[<<r, p>>] \o Parcels(n, good)
    BY <1>10a
  <2>3. \A m \in Entries(sends[<<r, p>>]) : \A q \in Entries(Parcels(n, good)) : Before(m, q)
    BY <1>6, <1>9 DEF Before
  <2>4. Ordered(sends[<<r, p>>])
    BY <1>2 DEF CInv, InOrder
  <2> HIDE DEF good
  <2>5. /\ Entries(sends'[<<r, p>>]) = Entries(sends[<<r, p>>]) \cup Entries(Parcels(n, good))
        /\ Ordered(sends'[<<r, p>>])
        /\ Entries(sends[<<r, p>>]) = {} => sends'[<<r, p>>] = Parcels(n, good)
    <3> DEFINE a == sends[<<r, p>>]
               b == Parcels(n, good)
    <3>1. a \in Seq(SendRecords) /\ b \in Seq(SendRecords) /\ Ordered(a) /\ Ordered(b)
          /\ \A m \in Entries(a) : \A q \in Entries(b) : Before(m, q)
      BY <1>6, <2>1, <2>3, <2>4
    <3> HIDE DEF a, b
    <3>2. /\ Entries(a \o b) = Entries(a) \cup Entries(b) /\ Ordered(a \o b)
          /\ Entries(a) = {} => a \o b = b
      BY <3>1, JoinQueue
    <3> QED
      BY <2>2, <3>2 DEF a, b
  <2> QED
    BY <1>6, <1>9, <2>5
<1>12. \A f, t \in Ranks : ~Sender(f, t) => sends'[<<f, t>>] = sends[<<f, t>>]
  BY <1>10a
<1>13. \A f, t \in Ranks : recvs'[<<f, t>>] = IF Receiver(f, t) THEN Requests(n) ELSE recvs[<<f, t>>]
  <2>1. setup.paired => recvs[<<p, r>>] \o Requests(n) = Requests(n)
    <3>1. recvs[<<p, r>>] \in Seq(RecvRecords)
      BY <1>1, <1>2, Fields
    <3> QED
      BY <1>7, <1>10, <3>1, JoinQueue
  <2>2. CASE setup.paired
    <3>1. recvs' = [recvs EXCEPT ![<<p, r>>] = Requests(n)]
      BY <2>1, <2>2, PostFacts
    <3> QED
      BY <1>1, <2>2, <3>1 DEF Typed
  <2>3. CASE ~setup.paired
    BY <2>3, PostFacts
  <2> QED
    BY <2>2, <2>3
<1> HIDE DEF good
<1>14. \A f, t \in Ranks, x \in Exchanges : t \in Peers(f, x) =>
         (Posted(f, t, x)' <=> Posted(f, t, x) \/ (Sender(f, t) /\ x = n))
  <2> SUFFICES ASSUME NEW f \in Ranks, NEW t \in Ranks, NEW x \in Exchanges
               PROVE  Posted(f, t, x)' <=> Posted(f, t, x) \/ (Sender(f, t) /\ x = n)
    OBVIOUS
  <2>1. CASE f = r
    BY <1>2, <2>1 DEF Posted
  <2>2. CASE f # r
    BY <1>2, <1>4, <2>2 DEF Posted
  <2> QED
    BY <2>1, <2>2
<1>15. \A f, t \in Ranks, x \in Exchanges :
         Asked(f, t, x)' <=> Asked(f, t, x) \/ (Receiver(f, t) /\ x = n)
  <2> SUFFICES ASSUME NEW f \in Ranks, NEW t \in Ranks, NEW x \in Exchanges
               PROVE  Asked(f, t, x)' <=> Asked(f, t, x) \/ (Receiver(f, t) /\ x = n)
    OBVIOUS
  <2>1. CASE t = r
    BY <1>2, <2>1 DEF Asked
  <2>2. CASE t # r
    BY <1>2, <1>4, <2>2 DEF Asked
  <2> QED
    BY <2>1, <2>2
<1>16. \A f, t \in Ranks : \A x, k :
         Sent(f, t, x, k)' <=> Sent(f, t, x, k) \/ (Sender(f, t) /\ x = n /\ k \in Chunks)
  <2> SUFFICES ASSUME NEW f \in Ranks, NEW t \in Ranks, NEW x, NEW k
               PROVE  Sent(f, t, x, k)' <=> Sent(f, t, x, k) \/ (Sender(f, t) /\ x = n /\ k \in Chunks)
    OBVIOUS
  <2>1. CASE ~Sender(f, t)
    BY <1>12, <2>1 DEF Sent
  <2>2. CASE Sender(f, t)
    <3>1. Entries(sends[<<f, t>>])' =
            Entries(sends[<<f, t>>]) \cup {[stage |-> n, chunk |-> j, good |-> good] : j \in Chunks}
      <4>1. Entries(sends'[<<r, p>>]) =
              Entries(sends[<<r, p>>]) \cup {[stage |-> n, chunk |-> j, good |-> good] : j \in Chunks}
        BY <1>6, <1>11
      <4>2. Entries(sends[<<f, t>>])' = Entries(sends'[<<r, p>>])
        BY <2>2 DEF Entries
      <4> QED
        BY <2>2, <4>1, <4>2
    <3>2. ASSUME Sent(f, t, x, k) PROVE Sent(f, t, x, k)'
      BY <3>1, <3>2 DEF Sent
    <3>3. ASSUME x = n, k \in Chunks PROVE Sent(f, t, x, k)'
      <4>1. [stage |-> n, chunk |-> k, good |-> good] \in Entries(sends[<<f, t>>])'
        BY <3>1, <3>3
      <4> QED
        BY <3>3, <4>1 DEF Sent
    <3>4. ASSUME Sent(f, t, x, k)' PROVE Sent(f, t, x, k) \/ (x = n /\ k \in Chunks)
      <4>1. PICK m \in Entries(sends[<<f, t>>])' : m.stage = x /\ m.chunk = k
        BY <3>4 DEF Sent
      <4>2. CASE m \in Entries(sends[<<f, t>>])
        BY <4>1, <4>2 DEF Sent
      <4>3. CASE m \in {[stage |-> n, chunk |-> j, good |-> good] : j \in Chunks}
        BY <4>1, <4>3
      <4> QED
        BY <3>1, <4>2, <4>3
    <3> QED
      BY <2>2, <3>2, <3>3, <3>4
  <2> QED
    BY <2>1, <2>2
<1>17. \A f, t \in Ranks : \A x, k :
         Wanted(f, t, x, k)' <=> Wanted(f, t, x, k) \/ (Receiver(f, t) /\ x = n /\ k \in Chunks)
  <2> SUFFICES ASSUME NEW f \in Ranks, NEW t \in Ranks, NEW x, NEW k
               PROVE  Wanted(f, t, x, k)' <=>
                        Wanted(f, t, x, k) \/ (Receiver(f, t) /\ x = n /\ k \in Chunks)
    OBVIOUS
  <2>1. CASE ~Receiver(f, t)
    BY <1>13, <2>1 DEF Wanted
  <2>2. CASE Receiver(f, t)
    <3>1. Entries(recvs[<<f, t>>])' = {[stage |-> n, chunk |-> j] : j \in Chunks}
      BY <1>7, <1>13, <2>2 DEF Entries
    <3>2. ~Wanted(f, t, x, k)
      BY <1>10, <2>2 DEF Wanted
    <3>3. ASSUME x = n, k \in Chunks PROVE Wanted(f, t, x, k)'
      <4>1. [stage |-> n, chunk |-> k] \in Entries(recvs[<<f, t>>])'
        BY <3>1, <3>3
      <4> QED
        BY <3>3, <4>1 DEF Wanted
    <3>4. ASSUME Wanted(f, t, x, k)' PROVE x = n /\ k \in Chunks
      <4>1. PICK m \in Entries(recvs[<<f, t>>])' : m.stage = x /\ m.chunk = k
        BY <3>4 DEF Wanted
      <4>2. PICK j \in Chunks : m = [stage |-> n, chunk |-> j]
        BY <3>1
      <4> QED
        BY <4>1, <4>2
    <3> QED
      BY <2>2, <3>2, <3>3, <3>4
  <2> QED
    BY <2>1, <2>2
<1>18. InPlace'
  BY <1>2 DEF CInv, InPlace, StepsAt
<1>19. PeersLeft'
  <2> SUFFICES ASSUME NEW q \in Ranks, pc'[q] = "post"
               PROVE  /\ Left(q)' \subseteq Peers(q, at[q])'
                      /\ \A i, j \in DOMAIN peers'[q] : i # j => peers'[q][i] # peers'[q][j]
    BY DEF PeersLeft
  <2>1. /\ Left(q) \subseteq Peers(q, at[q])
        /\ \A i, j \in DOMAIN peers[q] : i # j => peers[q][i] # peers[q][j]
    BY <1>2 DEF CInv, PeersLeft
  <2>2. CASE q = r
    BY <1>2, <1>3, <1>5, <2>1, <2>2 DEF Distinct
  <2>3. CASE q # r
    BY <1>2, <1>3, <1>4, <1>5, <2>1, <2>3
  <2> QED
    BY <2>2, <2>3
<1>20. DeferredIs'
  <2> SUFFICES ASSUME NEW q \in Ranks PROVE DeferredOk(q)'
    BY DEF DeferredIs
  <2>1. DeferredOk(q)
    BY DEF CInv, DeferredIs
  <2> QED
    BY <1>2, <1>5, <2>1 DEF DeferredOk, Active
<1>21. SendsAre'
  <2> SUFFICES ASSUME NEW f \in Ranks, NEW t \in Ranks, NEW m \in Entries(sends[<<f, t>>])'
               PROVE  /\ m.stage \in Exchanges /\ m.chunk \in Chunks
                      /\ t \in Peers(f, m.stage)
                      /\ Posted(f, t, m.stage)'
                      /\ \/ setup.eager \/ (pc[f] = "post" /\ at[f] = m.stage)
                         \/ Deferring(f, t, m)
    <3>1. \A f, t, m : Deferring(f, t, m)' = Deferring(f, t, m)
      BY <1>2 DEF Deferring, Active
    <3> QED
      BY <1>2, <1>5, <3>1 DEF SendsAre
  <2>1. CASE m \in Entries(sends[<<f, t>>])
    <3>1. /\ m.stage \in Exchanges /\ m.chunk \in Chunks
          /\ t \in Peers(f, m.stage)
          /\ Posted(f, t, m.stage)
          /\ setup.eager \/ (pc[f] = "post" /\ at[f] = m.stage) \/ Deferring(f, t, m)
      BY <2>1 DEF CInv, SendsAre
    <3> QED
      BY <1>14, <3>1
  <2>2. CASE m \notin Entries(sends[<<f, t>>])
    <3>1. Sender(f, t)
      BY <1>12, <2>2 DEF Entries
    <3>2. m \in {[stage |-> n, chunk |-> k, good |-> good] : k \in Chunks}
      BY <1>6, <1>11, <2>2, <3>1, ZenonT(30) DEF Entries
    <3>3. m.stage = n /\ m.chunk \in Chunks
      BY <3>2
    <3> QED
      BY <1>2, <1>14, <3>1, <3>3
  <2> QED
    BY <2>1, <2>2
<1>22. RecvsAre'
  <2> SUFFICES ASSUME NEW f \in Ranks, NEW t \in Ranks, NEW m \in Entries(recvs[<<f, t>>])'
               PROVE  /\ pc[t] = "post" /\ at[t] = m.stage /\ m.chunk \in Chunks
                      /\ f \in Peers(t, m.stage)
                      /\ Asked(f, t, m.stage)'
    BY <1>2, <1>5 DEF RecvsAre
  <2>1. CASE Receiver(f, t)
    <3>1. m \in {[stage |-> n, chunk |-> k] : k \in Chunks}
      BY <1>7, <1>13, <2>1 DEF Entries
    <3>2. m.stage = n /\ m.chunk \in Chunks
      BY <3>1
    <3> QED
      BY <1>2, <1>15, <2>1, <3>2
  <2>2. CASE ~Receiver(f, t)
    <3>1. m \in Entries(recvs[<<f, t>>])
      BY <1>13, <2>2 DEF Entries
    <3>2. /\ pc[t] = "post" /\ at[t] = m.stage /\ m.chunk \in Chunks
          /\ f \in Peers(t, m.stage)
          /\ Asked(f, t, m.stage)
      BY <3>1 DEF CInv, RecvsAre
    <3>3. Asked(f, t, m.stage)'
      <4>1. at[t] \in Exchanges
        <5>1. at[t] \in 0 .. LastStage /\ StepOf(at[t]) \in StepsAt(pc[t])
          BY Fields DEF CInv, InPlace
        <5> QED
          BY <1>1, <3>2, <5>1, StepFacts DEF StepsAt, Exchanges, IsExchange
      <4> QED
        BY <1>15, <3>2, <4>1
    <3> QED
      BY <3>2, <3>3
  <2> QED
    BY <2>1, <2>2
<1>23. InOrder'
  <2> SUFFICES ASSUME NEW f \in Ranks, NEW t \in Ranks
               PROVE  /\ Ordered(sends'[<<f, t>>]) /\ (~setup.eager => Suffix(sends[<<f, t>>])')
                      /\ Ordered(recvs'[<<f, t>>]) /\ Suffix(recvs[<<f, t>>])'
    BY <1>2 DEF InOrder
  <2>1. /\ Ordered(sends[<<f, t>>]) /\ (~setup.eager => Suffix(sends[<<f, t>>]))
        /\ Ordered(recvs[<<f, t>>]) /\ Suffix(recvs[<<f, t>>])
    BY DEF CInv, InOrder
  <2>2. Ordered(sends'[<<f, t>>]) /\ (~setup.eager => Suffix(sends[<<f, t>>])')
    <3>1. CASE Sender(f, t)
      BY <1>2, <1>11, <3>1 DEF Suffix
    <3>2. CASE ~Sender(f, t)
      BY <1>5, <1>12, <2>1, <3>2
    <3> QED
      BY <3>1, <3>2
  <2> QED
    BY <1>5, <1>7, <1>13, <2>1, <2>2
<1>24. Matched'
  <2> SUFFICES ASSUME NEW f \in Ranks, NEW t \in Ranks, NEW x \in Exchanges, NEW k \in Chunks,
                      t \in Peers(f, x)
               PROVE  /\ Posted(f, t, x)' /\ ~Asked(f, t, x)' => Sent(f, t, x, k)'
                      /\ Asked(f, t, x)' /\ ~Posted(f, t, x)' => Wanted(f, t, x, k)'
                      /\ Posted(f, t, x)' /\ Asked(f, t, x)' =>
                           (Sent(f, t, x, k)' <=> Wanted(f, t, x, k)')
    BY <1>5 DEF Matched
  <2>1. /\ Posted(f, t, x) /\ ~Asked(f, t, x) => Sent(f, t, x, k)
        /\ Asked(f, t, x) /\ ~Posted(f, t, x) => Wanted(f, t, x, k)
        /\ Posted(f, t, x) /\ Asked(f, t, x) => (Sent(f, t, x, k) <=> Wanted(f, t, x, k))
    BY DEF CInv, Matched
  <2>2. ~(Sender(f, t) /\ Receiver(f, t))
    BY <1>2
  <2>3. Sender(f, t) /\ x = n => ~Posted(f, t, x)
    BY <1>8
  <2>4. Receiver(f, t) /\ x = n => ~Asked(f, t, x)
    BY <1>8
  <2>5. /\ Posted(f, t, x)' <=> Posted(f, t, x) \/ (Sender(f, t) /\ x = n)
        /\ Asked(f, t, x)' <=> Asked(f, t, x) \/ (Receiver(f, t) /\ x = n)
        /\ Sent(f, t, x, k)' <=> Sent(f, t, x, k) \/ (Sender(f, t) /\ x = n)
        /\ Wanted(f, t, x, k)' <=> Wanted(f, t, x, k) \/ (Receiver(f, t) /\ x = n)
    BY <1>14, <1>15, <1>16, <1>17
  <2> HIDE DEF Sender, Receiver, n
  <2> QED
    BY <2>1, <2>2, <2>3, <2>4, <2>5
<1>25. ASSUME NEW t \in Ranks, pc[t] = "post" PROVE at[t] \in Exchanges
  <2>1. at[t] \in 0 .. LastStage /\ StepOf(at[t]) \in StepsAt(pc[t])
    BY Fields DEF CInv, InPlace
  <2> QED
    BY <1>1, <1>25, <2>1, StepFacts DEF StepsAt, Exchanges, IsExchange
<1>26. LandedAre'
  <2> SUFFICES ASSUME NEW t \in Ranks, NEW q \in landed[t]
               PROVE  /\ pc'[t] = "post" /\ q[1] \in Peers(t, at[t])'
                      /\ Asked(q[1], t, at[t])' /\ ~Wanted(q[1], t, at[t], q[2])'
    BY <1>2 DEF LandedAre
  <2>1. /\ pc[t] = "post" /\ q[1] \in Peers(t, at[t])
        /\ Asked(q[1], t, at[t]) /\ ~Wanted(q[1], t, at[t], q[2])
    BY DEF CInv, LandedAre
  <2>2. q[1] \in Ranks /\ at[t] \in Exchanges
    BY <1>25, <2>1, Symmetric
  <2>3. ~(Receiver(q[1], t))
    BY <1>8, <2>1
  <2>4. Asked(q[1], t, at[t])' /\ ~Wanted(q[1], t, at[t], q[2])'
    BY <1>2, <1>15, <1>17, <2>1, <2>2, <2>3
  <2> QED
    BY <1>2, <1>5, <2>1, <2>4
<1>27. Counted'
  <2> SUFFICES ASSUME NEW t \in Ranks, NEW f \in Ranks
               PROVE  unwaited[t][f] = IF pc[t] = "post" /\ f \in Peers(t, at[t])
                                       THEN Cardinality(Due(f, t)') ELSE 0
    BY <1>2, <1>5 DEF Counted
  <2>1. unwaited[t][f] = IF pc[t] = "post" /\ f \in Peers(t, at[t]) THEN Cardinality(Due(f, t)) ELSE 0
    BY DEF CInv, Counted
  <2>2. ASSUME pc[t] = "post" PROVE Due(f, t)' = Due(f, t)
    <3>1. at[t] \in Exchanges
      BY <1>25, <2>2
    <3>2. Asked(f, t, at[t])' <=> Asked(f, t, at[t]) \/ Receiver(f, t)
      <4>1. Asked(f, t, at[t])' <=> Asked(f, t, at[t]) \/ (Receiver(f, t) /\ at[t] = n)
        BY <1>2, <1>15, <3>1
      <4> QED
        BY <4>1
    <3>3. \A k \in Chunks : Wanted(f, t, at[t], k)' <=> Wanted(f, t, at[t], k) \/ Receiver(f, t)
      <4>1. \A k \in Chunks :
              Wanted(f, t, at[t], k)' <=> Wanted(f, t, at[t], k) \/ (Receiver(f, t) /\ at[t] = n)
        BY <1>2, <1>17
      <4> QED
        BY <4>1
    <3>4. Receiver(f, t) => ~Asked(f, t, at[t])
      BY <1>8
    <3> HIDE DEF Receiver
    <3> QED
      BY <1>2, <1>5, <3>2, <3>3, <3>4 DEF Due
  <2> QED
    BY <2>1, <2>2
<1> QED
  BY <1>18, <1>19, <1>20, <1>21, <1>22, <1>23, <1>24, <1>26, <1>27, PostTyped DEF CInv

-----------------------------------------------------------------------------
(***************************************************************************)
(* What has landed is waited for.                                          *)
(***************************************************************************)

LEMMA PostStage ==
    ASSUME CInv, NEW r \in Ranks, pc[r] \in {"exchange", "post"}
    PROVE  at[r] \in Exchanges /\ at[r] \in Stages /\ StepOf(at[r]) \in {2, 4} /\ ~Active(r)
<1>1. /\ setup \in Setups /\ at[r] \in 0 .. LastStage /\ LastStage \in Nat
      /\ StepOf(at[r]) \in StepsAt(pc[r]) /\ DeferredOk(r)
  BY Fields DEF CInv, InPlace, DeferredIs
<1>2. StepOf(at[r]) \in {2, 4}
  BY <1>1 DEF StepsAt
<1>3. at[r] \in Exchanges
  BY <1>1, <1>2, StepFacts DEF Exchanges, IsExchange
<1>4. ~Active(r)
  BY <1>1 DEF DeferredOk
<1> QED
  BY <1>1, <1>2, <1>3, <1>4, StepFacts

LEMMA UnpackedFacts ==
    ASSUME Typed, NEW r \in Ranks, NEW n \in Stages, NEW from
    PROVE  LET have == IF mem[r][RecvSlot].what = n THEN mem[r][RecvSlot].parts ELSE {}
               c == Added(mem[r][Output(r, n)], n, have \cap (from \X Chunks))
           IN  Unpacked(r, n, from) = [mem EXCEPT ![r][Output(r, n)] = c] /\ c \in Contents
<1> DEFINE have == IF mem[r][RecvSlot].what = n THEN mem[r][RecvSlot].parts ELSE {}
           part == have \cap (from \X Chunks)
           c == Added(mem[r][Output(r, n)], n, part)
<1>1. setup \in Setups /\ n \in Int
  BY Fields, StepFacts
<1>2. Output(r, n) \in Regions /\ RecvSlot \in Regions
  BY <1>1, RegionFacts
<1>3. mem[r][Output(r, n)] \in Contents /\ mem[r][RecvSlot].parts \subseteq Ranks \X Chunks
  BY <1>2, Fields
<1>4. part \in SUBSET (Ranks \X Chunks)
  BY <1>3
<1>5. Unpacked(r, n, from) = [mem EXCEPT ![r][Output(r, n)] = c]
  BY DEF Unpacked
<1> HIDE DEF part
<1>6. c \in Contents
  BY <1>1, <1>3, <1>4, AddedType
<1> QED
  BY <1>5, <1>6 DEF part

\* The steps that only take what has landed.
Taking(r) == WaitAny(r) \/ WaitAll(r)

LEMMA TakingFacts ==
    ASSUME CInv, NEW r \in Ranks, Taking(r)
    PROVE  /\ UNCHANGED <<setup, at, pc, peers, deferred, computing, sends, recvs>>
           /\ pc[r] = "post" /\ peers[r] = <<>> /\ Typed'
           /\ landed'[r] \subseteq landed[r]
           /\ \A q \in Ranks \ {r} : landed'[q] = landed[q] /\ unwaited'[q] = unwaited[q]
<1>1. /\ Typed /\ setup \in Setups /\ setup' = setup
  BY Fields DEF CInv, Taking, WaitAny, WaitAll
<1>2. /\ UNCHANGED <<at, pc, peers, deferred, computing, sends, recvs>>
      /\ pc[r] = "post" /\ peers[r] = <<>>
  BY DEF Taking, WaitAny, WaitAll, Waiting
<1>3. at[r] \in Stages
  BY <1>2, PostStage
<1>4. CASE WaitAny(r)
  <2>1. PICK q \in landed[r] :
          /\ landed' = [landed EXCEPT ![r] = @ \ {q}]
          /\ unwaited' = [unwaited EXCEPT ![r][q[1]] = unwaited[r][q[1]] - 1]
          /\ mem' = mem \/ mem' = Unpacked(r, at[r], {q[1]})
    BY <1>4 DEF WaitAny
  <2>2. landed' \in [Ranks -> SUBSET (Ranks \X Chunks)]
        /\ landed'[r] \subseteq landed[r] /\ \A p \in Ranks \ {r} : landed'[p] = landed[p]
    <3> DEFINE s == landed[r] \ {q}
    <3>1. landed' = [landed EXCEPT ![r] = s] /\ s \subseteq landed[r]
      BY <2>1
    <3>2. s \in SUBSET (Ranks \X Chunks)
      BY <1>1, <3>1, Fields
    <3> HIDE DEF s
    <3> QED
      BY <1>1, <3>1, <3>2 DEF Typed
  <2>3. q[1] \in Ranks /\ unwaited[r][q[1]] - 1 \in Int
    <3>1. q[1] \in Ranks
      BY <1>1, Fields
    <3> QED
      BY <1>1, <3>1, Fields
  <2>4. unwaited' \in [Ranks -> [Ranks -> Int]] /\ \A p \in Ranks \ {r} : unwaited'[p] = unwaited[p]
    BY <1>1, <2>1, <2>3 DEF Typed
  <2>5. mem' \in [Ranks -> [Regions -> Contents]]
    <3> DEFINE have == IF mem[r][RecvSlot].what = at[r] THEN mem[r][RecvSlot].parts ELSE {}
               c == Added(mem[r][Output(r, at[r])], at[r], have \cap ({q[1]} \X Chunks))
    <3>1. Unpacked(r, at[r], {q[1]}) = [mem EXCEPT ![r][Output(r, at[r])] = c] /\ c \in Contents
      BY <1>1, <1>3, UnpackedFacts
    <3> HIDE DEF c
    <3>2. CASE mem' = mem
      BY <1>1, <3>2 DEF Typed
    <3>3. CASE mem' # mem
      <4>1. mem' = [mem EXCEPT ![r][Output(r, at[r])] = c]
        BY <2>1, <3>1, <3>3
      <4> QED
        BY <1>1, <3>1, <4>1, PutType
    <3> QED
      BY <3>2, <3>3
  <2>6. Typed'
    BY <1>1, <1>2, <2>2, <2>4, <2>5, SetupFixed
       DEF Typed, SendRecords, RecvRecords, DeferredRecords, Contents
  <2> QED
    BY <1>1, <1>2, <2>2, <2>4, <2>6
<1>5. CASE WaitAll(r)
  <2>1. /\ landed' = [landed EXCEPT ![r] = {}]
        /\ unwaited' = [unwaited EXCEPT ![r] = [p \in Ranks |-> 0]]
        /\ mem' = mem \/ mem' = Unpacked(r, at[r], Peers(r, at[r]))
    BY <1>5 DEF WaitAll
  <2>2. landed' \in [Ranks -> SUBSET (Ranks \X Chunks)]
        /\ landed'[r] \subseteq landed[r] /\ \A p \in Ranks \ {r} : landed'[p] = landed[p]
    BY <1>1, <2>1 DEF Typed
  <2>4. unwaited' \in [Ranks -> [Ranks -> Int]] /\ \A p \in Ranks \ {r} : unwaited'[p] = unwaited[p]
    BY <1>1, <2>1 DEF Typed
  <2>5. mem' \in [Ranks -> [Regions -> Contents]]
    <3> DEFINE have == IF mem[r][RecvSlot].what = at[r] THEN mem[r][RecvSlot].parts ELSE {}
               c == Added(mem[r][Output(r, at[r])], at[r], have \cap (Peers(r, at[r]) \X Chunks))
    <3>1. Unpacked(r, at[r], Peers(r, at[r])) = [mem EXCEPT ![r][Output(r, at[r])] = c] /\ c \in Contents
      BY <1>1, <1>3, UnpackedFacts
    <3> HIDE DEF c
    <3>2. CASE mem' = mem
      BY <1>1, <3>2 DEF Typed
    <3>3. CASE mem' # mem
      <4>1. mem' = [mem EXCEPT ![r][Output(r, at[r])] = c]
        BY <2>1, <3>1, <3>3
      <4> QED
        BY <1>1, <3>1, <4>1, PutType
    <3> QED
      BY <3>2, <3>3
  <2>6. Typed'
    BY <1>1, <1>2, <2>2, <2>4, <2>5, SetupFixed
       DEF Typed, SendRecords, RecvRecords, DeferredRecords, Contents
  <2> QED
    BY <1>1, <1>2, <2>2, <2>4, <2>6
<1> QED
  BY <1>4, <1>5 DEF Taking

\* A peer of which nothing is due has sent all, and all has been waited for.
LEMMA NoneDue ==
    ASSUME CInv, NEW r \in Ranks, pc[r] = "post", NEW f \in Peers(r, at[r]), unwaited[r][f] = 0
    PROVE  \A k \in Chunks : Asked(f, r, at[r]) /\ ~Wanted(f, r, at[r], k) /\ <<f, k>> \notin landed[r]
<1>1. setup \in Setups /\ f \in Ranks
  BY Fields, Symmetric DEF CInv
<1>2. Cardinality(Due(f, r)) = 0
  BY <1>1 DEF CInv, Counted
<1>3. IsFiniteSet(Due(f, r))
  <2> DEFINE D == Due(f, r)
  <2>1. D \in SUBSET Chunks /\ IsFiniteSet(Chunks)
    BY <1>1, Finite DEF Due
  <2> HIDE DEF D
  <2>2. IsFiniteSet(D)
    BY <2>1, FS_Subset
  <2> QED
    BY <2>2 DEF D
<1>4. Due(f, r) = {}
  BY <1>2, <1>3, FS_EmptySet
<1> QED
  BY <1>4 DEF Due

LEMMA TakingCount ==
    ASSUME CInv, NEW r \in Ranks, Taking(r), NEW f \in Ranks
    PROVE  unwaited'[r][f] = IF f \in Peers(r, at[r]) THEN Cardinality(Due(f, r)') ELSE 0
<1>1. /\ Typed /\ setup \in Setups /\ pc[r] = "post"
      /\ UNCHANGED <<setup, at, pc, peers, recvs>>
  BY Fields, TakingFacts DEF CInv
<1>2. /\ Chunks' = Chunks
      /\ \A p, x, k : Wanted(p, r, x, k)' = Wanted(p, r, x, k)
      /\ \A p, x : Asked(p, r, x)' = Asked(p, r, x)
  BY <1>1, SetupFixed DEF Wanted, Asked, Left
<1>3. /\ unwaited[r][f] = IF f \in Peers(r, at[r]) THEN Cardinality(Due(f, r)) ELSE 0
      /\ unwaited \in [Ranks -> [Ranks -> Int]] /\ landed \in [Ranks -> SUBSET (Ranks \X Chunks)]
  BY <1>1 DEF CInv, Counted, Typed
<1>4. CASE WaitAny(r)
  <2>1. PICK q \in landed[r] :
          /\ landed' = [landed EXCEPT ![r] = @ \ {q}]
          /\ unwaited' = [unwaited EXCEPT ![r][q[1]] = unwaited[r][q[1]] - 1]
    BY <1>4 DEF WaitAny
  <2>2. /\ q[1] \in Peers(r, at[r]) /\ Asked(q[1], r, at[r]) /\ ~Wanted(q[1], r, at[r], q[2])
        /\ q \in Ranks \X Chunks
    BY <1>1, Fields DEF CInv, LandedAre
  <2>3. landed'[r] = landed[r] \ {q}
    BY <1>3, <2>1
  <2>4. CASE f = q[1]
    <3> DEFINE D == Due(f, r)
    <3>1. q = <<f, q[2]>> /\ q[2] \in Chunks
      BY <2>2, <2>4
    <3>2. q[2] \in D
      BY <3>1 DEF Due
    <3>3. \A k \in Chunks : k # q[2] => (<<f, k>> \in landed'[r] <=> <<f, k>> \in landed[r])
      BY <2>3, <3>1
    <3>4. Due(f, r)' = D \ {q[2]}
      <4>1. <<f, q[2]>> \notin landed'[r]
        BY <2>3, <3>1
      <4> QED
        BY <1>1, <1>2, <2>2, <2>4, <3>3, <4>1 DEF Due
    <3>5. D \in SUBSET Chunks /\ IsFiniteSet(Chunks)
      BY <1>1, Finite DEF Due
    <3>6. unwaited'[r][f] = Cardinality(D) - 1
      BY <1>3, <2>1, <2>2, <2>4
    <3> HIDE DEF D
    <3>7. IsFiniteSet(D)
      BY <3>5, FS_Subset
    <3>8. Cardinality(D \ {q[2]}) = Cardinality(D) - 1
      BY <3>2, <3>7, Removed
    <3> QED
      BY <2>2, <2>4, <3>4, <3>6, <3>8
  <2>5. CASE f # q[1]
    <3>1. \A k \in Chunks : <<f, k>> \in landed'[r] <=> <<f, k>> \in landed[r]
      BY <2>2, <2>3, <2>5
    <3>2. Due(f, r)' = Due(f, r)
      BY <1>1, <1>2, <3>1 DEF Due
    <3>3. unwaited'[r][f] = unwaited[r][f]
      BY <1>3, <2>1, <2>5
    <3> QED
      BY <1>3, <3>2, <3>3
  <2> QED
    BY <2>4, <2>5
<1>5. CASE WaitAll(r)
  <2>1. /\ landed' = [landed EXCEPT ![r] = {}] /\ landed[r] = Peers(r, at[r]) \X Chunks
        /\ unwaited' = [unwaited EXCEPT ![r] = [p \in Ranks |-> 0]]
    BY <1>5 DEF WaitAll
  <2>2. unwaited'[r][f] = 0 /\ landed'[r] = {}
    BY <1>3, <2>1
  <2>3. ASSUME f \in Peers(r, at[r]) PROVE Due(f, r)' = {}
    <3>1. ASSUME NEW k \in Chunks PROVE k \notin Due(f, r)'
      <4>1. <<f, k>> \in landed[r]
        BY <2>1, <2>3
      <4>2. Asked(f, r, at[r]) /\ ~Wanted(f, r, at[r], k)
        BY <4>1 DEF CInv, LandedAre
      <4> QED
        BY <1>1, <1>2, <2>2, <4>2 DEF Due
    <3> QED
      BY <1>2, <3>1 DEF Due
  <2> QED
    BY <2>2, <2>3, FS_EmptySet
<1> QED
  BY <1>4, <1>5 DEF Taking

LEMMA CtrlTaking ==
    ASSUME CInv, NEW r \in Ranks, Taking(r)
    PROVE  CInv'
<1>1. /\ Typed /\ setup \in Setups /\ setup' = setup /\ Typed'
      /\ UNCHANGED <<at, pc, peers, deferred, sends, recvs>>
      /\ pc[r] = "post" /\ landed'[r] \subseteq landed[r]
      /\ \A q \in Ranks \ {r} : landed'[q] = landed[q] /\ unwaited'[q] = unwaited[q]
  BY Fields, TakingFacts DEF CInv
<1>2. /\ LastStage' = LastStage /\ Chunks' = Chunks /\ Exchanges' = Exchanges
      /\ \A q, x : Peers(q, x)' = Peers(q, x)
  BY <1>1, SetupFixed
<1>3. /\ \A f, t, x : Posted(f, t, x)' = Posted(f, t, x) /\ Asked(f, t, x)' = Asked(f, t, x)
      /\ \A f, t, x, k : Wanted(f, t, x, k)' = Wanted(f, t, x, k)
      /\ \A f, t, m : Deferring(f, t, m)' = Deferring(f, t, m)
      /\ \A q : Left(q)' = Left(q)
  BY <1>1 DEF Posted, Asked, Wanted, Left, Deferring, Active
<1>4. InPlace'
  BY <1>1 DEF CInv, InPlace
<1>5. PeersLeft'
  BY <1>1, <1>2, <1>3 DEF CInv, PeersLeft
<1>6. DeferredIs'
  BY <1>1, <1>2 DEF CInv, DeferredIs, DeferredOk, Active
<1>7. SendsAre'
  BY <1>1, <1>2, <1>3 DEF CInv, SendsAre
<1>8. RecvsAre'
  BY <1>1, <1>2, <1>3 DEF CInv, RecvsAre
<1>9. InOrder' /\ Matched'
  BY <1>1, <1>3, QueuesKept DEF CInv
<1>10. LandedAre'
  <2> SUFFICES ASSUME NEW t \in Ranks, NEW q \in landed'[t]
               PROVE  /\ pc'[t] = "post" /\ q[1] \in Peers(t, at[t])'
                      /\ Asked(q[1], t, at[t])' /\ ~Wanted(q[1], t, at[t], q[2])'
    BY DEF LandedAre
  <2>1. q \in landed[t]
    BY <1>1
  <2>2. /\ pc[t] = "post" /\ q[1] \in Peers(t, at[t])
        /\ Asked(q[1], t, at[t]) /\ ~Wanted(q[1], t, at[t], q[2])
    BY <2>1 DEF CInv, LandedAre
  <2> QED
    BY <1>1, <1>2, <1>3, <2>2
<1>11. Counted'
  <2> SUFFICES ASSUME NEW t \in Ranks, NEW f \in Ranks
               PROVE  unwaited'[t][f] = IF pc[t] = "post" /\ f \in Peers(t, at[t])
                                        THEN Cardinality(Due(f, t)') ELSE 0
    BY <1>1, <1>2 DEF Counted
  <2>1. CASE t = r
    BY <1>1, <2>1, TakingCount
  <2>2. CASE t # r
    <3>1. unwaited[t][f] = IF pc[t] = "post" /\ f \in Peers(t, at[t]) THEN Cardinality(Due(f, t)) ELSE 0
      BY DEF CInv, Counted
    <3>2. Due(f, t)' = Due(f, t)
      BY <1>1, <1>2, <1>3, <2>2 DEF Due
    <3> QED
      BY <1>1, <2>2, <3>1, <3>2
  <2> QED
    BY <2>1, <2>2
<1> QED
  BY <1>1, <1>4, <1>5, <1>6, <1>7, <1>8, <1>9, <1>10, <1>11 DEF CInv

-----------------------------------------------------------------------------
(***************************************************************************)
(* A redistribution ends.                                                  *)
(***************************************************************************)

LEMMA CloseFacts ==
    ASSUME CInv, NEW r \in Ranks, CloseExchange(r)
    PROVE  /\ pc[r] = "post" /\ Left(r) = {} /\ ~Active(r)
           /\ \A p \in Ranks : unwaited[r][p] = 0
           /\ UNCHANGED <<setup, peers, unwaited, landed, computing, sends, recvs>>
           /\ GoTo(r, at[r] + 1, "fft")
           /\ \/ /\ setup.deferred
                 /\ deferred' = [deferred EXCEPT ![r] =
                                   [stage |-> at[r], requests |-> Peers(r, at[r]) \X Chunks,
                                    remaining |-> Cardinality(Peers(r, at[r]) \X Chunks)]]
              \/ ~setup.deferred /\ deferred' = deferred
                   /\ AllComplete(r, at[r], Peers(r, at[r]) \X Chunks)
           /\ mem' = IF Whole(r, mem[r][Input(r, at[r])], at[r] - 1)
                     THEN [mem EXCEPT ![r][Output(r, at[r])] = Added(@, at[r], {r} \X Chunks)]
                     ELSE mem
<1>1. pc[r] = "post" /\ peers[r] = <<>> /\ \A p \in Ranks : unwaited[r][p] = 0
  BY DEF CloseExchange, Waiting, ReceivesDone
<1>2. ~Active(r)
  BY <1>1, PostStage
<1>3. Left(r) = {}
  BY <1>1 DEF Left, Entries
<1>4. /\ UNCHANGED <<setup, peers, unwaited, landed, computing, sends, recvs>>
      /\ mem' = IF Whole(r, mem[r][Input(r, at[r])], at[r] - 1)
                THEN [mem EXCEPT ![r][Output(r, at[r])] = Added(@, at[r], {r} \X Chunks)]
                ELSE mem
  BY DEF CloseExchange
<1>5. CASE setup.deferred
  <2>1. /\ GoTo(r, at[r] + 1, "fft")
        /\ deferred' = [deferred EXCEPT ![r] =
                          [stage |-> at[r], requests |-> Peers(r, at[r]) \X Chunks,
                           remaining |-> Cardinality(Peers(r, at[r]) \X Chunks)]]
    BY <1>2, <1>5 DEF CloseExchange
  <2> QED
    BY <1>1, <1>2, <1>3, <1>4, <1>5, <2>1
<1>6. CASE ~setup.deferred
  <2>1. /\ GoTo(r, at[r] + 1, "fft") /\ deferred' = deferred
        /\ AllComplete(r, at[r], Peers(r, at[r]) \X Chunks)
    BY <1>6 DEF CloseExchange
  <2> QED
    BY <1>1, <1>2, <1>3, <1>4, <1>6, <2>1
<1> QED
  BY <1>5, <1>6

LEMMA CloseQuiet ==
    ASSUME CInv, NEW r \in Ranks, pc[r] = "post", \A p \in Ranks : unwaited[r][p] = 0
    PROVE  /\ landed[r] = {} /\ \A f \in Ranks : Entries(recvs[<<f, r>>]) = {}
           /\ \A f \in Peers(r, at[r]) : \A k \in Chunks :
                Asked(f, r, at[r]) /\ ~Wanted(f, r, at[r], k)
<1>1. \A f \in Peers(r, at[r]) : \A k \in Chunks :
        Asked(f, r, at[r]) /\ ~Wanted(f, r, at[r], k) /\ <<f, k>> \notin landed[r]
  BY NoneDue, Symmetric
<1>2. landed[r] = {}
  <2> SUFFICES ASSUME NEW q \in landed[r] PROVE FALSE
    OBVIOUS
  <2>1. q \in Ranks \X Chunks /\ q[1] \in Peers(r, at[r])
    BY Fields DEF CInv, LandedAre
  <2>2. q = <<q[1], q[2]>> /\ q[2] \in Chunks
    BY <2>1
  <2> QED
    BY <1>1, <2>1, <2>2
<1>3. ASSUME NEW f \in Ranks, NEW m \in Entries(recvs[<<f, r>>]) PROVE FALSE
  <2>1. at[r] = m.stage /\ m.chunk \in Chunks /\ f \in Peers(r, m.stage)
    BY DEF CInv, RecvsAre
  <2>2. Wanted(f, r, at[r], m.chunk)
    BY <2>1 DEF Wanted
  <2> QED
    BY <1>1, <2>1, <2>2
<1> QED
  BY <1>1, <1>2, <1>3

LEMMA CloseTyped ==
    ASSUME CInv, NEW r \in Ranks, CloseExchange(r)
    PROVE  /\ Typed' /\ at'[r] = at[r] + 1 /\ pc'[r] = "fft"
           /\ \A q \in Ranks \ {r} : at'[q] = at[q] /\ pc'[q] = pc[q] /\ deferred'[q] = deferred[q]
           /\ \/ /\ setup.deferred /\ deferred'[r].stage = at[r]
                 /\ deferred'[r].requests = Peers(r, at[r]) \X Chunks
                 /\ deferred'[r].remaining = Cardinality(Peers(r, at[r]) \X Chunks)
              \/ deferred'[r] = deferred[r] /\ AllComplete(r, at[r], Peers(r, at[r]) \X Chunks)
<1> DEFINE n == at[r]
           s == Peers(r, n) \X Chunks
           d == [stage |-> n, requests |-> s, remaining |-> Cardinality(s)]
<1>1. /\ Typed /\ setup \in Setups /\ n \in Nat /\ LastStage \in Nat
  BY Fields DEF CInv
<1>2. /\ UNCHANGED <<setup, peers, unwaited, landed, computing, sends, recvs>>
      /\ GoTo(r, n + 1, "fft") /\ pc[r] = "post"
      /\ \/ setup.deferred /\ deferred' = [deferred EXCEPT ![r] = d]
         \/ deferred' = deferred /\ AllComplete(r, n, s)
  BY CloseFacts
<1>3. n \in Stages /\ n + 1 \in Stages
  BY <1>1, <1>2, PostStage, StepFacts
<1>4. n + 1 \in 0 .. LastStage
  BY <1>1, <1>3 DEF Stages
<1>5. /\ at' \in [Ranks -> 0 .. LastStage] /\ pc' \in [Ranks -> Places]
      /\ at'[r] = n + 1 /\ pc'[r] = "fft"
      /\ \A q \in Ranks \ {r} : at'[q] = at[q] /\ pc'[q] = pc[q]
  BY <1>1, <1>2, <1>4, GoToType DEF Places
<1>6. d \in DeferredRecords /\ d.stage = n /\ d.requests = s /\ d.remaining = Cardinality(s)
  <2>1. s \in SUBSET (Ranks \X Chunks)
    BY Symmetric
  <2>2. IsFiniteSet(s)
    BY <1>1, <2>1, Finite
  <2>3. Cardinality(s) \in Int
    BY <2>2, FS_CardinalityType
  <2> HIDE DEF s, n
  <2> QED
    BY <1>1, <2>1, <2>3 DEF DeferredRecords
<1> HIDE DEF d
<1>7. /\ deferred' \in [Ranks -> DeferredRecords]
      /\ \A q \in Ranks \ {r} : deferred'[q] = deferred[q]
  <2>1. deferred \in [Ranks -> DeferredRecords]
    BY <1>1 DEF Typed
  <2>2. CASE deferred' = [deferred EXCEPT ![r] = d]
    BY <1>6, <2>1, <2>2
  <2>3. CASE deferred' = deferred
    BY <2>1, <2>3
  <2> QED
    BY <1>2, <2>2, <2>3
<1>8. mem' \in [Ranks -> [Regions -> Contents]]
  <2> DEFINE c == Added(mem[r][Output(r, n)], n, {r} \X Chunks)
  <2>1. mem' = mem \/ mem' = [mem EXCEPT ![r][Output(r, n)] = c]
    BY CloseFacts
  <2>2. Output(r, n) \in Regions
    BY <1>1, <1>3, RegionFacts
  <2>3. mem[r][Output(r, n)] \in Contents
    BY <1>1, <2>2, Fields
  <2>4. c \in Contents
    BY <1>1, <2>3, AddedType
  <2> HIDE DEF c
  <2>5. CASE mem' = mem
    BY <1>1, <2>5 DEF Typed
  <2>6. CASE mem' # mem
    BY <1>1, <2>1, <2>4, <2>6, PutType
  <2> QED
    BY <2>5, <2>6
<1>9. Typed'
  BY <1>1, <1>2, <1>5, <1>7, <1>8, SetupFixed
     DEF Typed, SendRecords, RecvRecords, DeferredRecords, Contents
<1>10. \/ setup.deferred /\ deferred'[r] = d
       \/ deferred'[r] = deferred[r] /\ AllComplete(r, n, s)
  <2>1. CASE setup.deferred /\ deferred' = [deferred EXCEPT ![r] = d]
    BY <1>1, <2>1 DEF Typed
  <2>2. CASE deferred' = deferred /\ AllComplete(r, n, s)
    BY <2>2
  <2> QED
    BY <1>2, <2>1, <2>2 DEF d
<1> QED
  BY <1>5, <1>6, <1>7, <1>9, <1>10

LEMMA CtrlClose ==
    ASSUME CInv, NEW r \in Ranks, CloseExchange(r)
    PROVE  CInv'
<1> DEFINE n == at[r]
           s == Peers(r, n) \X Chunks
<1>1. /\ Typed /\ setup \in Setups /\ n \in Nat /\ LastStage \in Nat
  BY Fields DEF CInv
<1>2. /\ UNCHANGED <<setup, peers, unwaited, landed, sends, recvs>> /\ ~Active(r)
      /\ pc[r] = "post" /\ Left(r) = {} /\ \A p \in Ranks : unwaited[r][p] = 0
  BY CloseFacts
<1>3. /\ Typed' /\ at'[r] = n + 1 /\ pc'[r] = "fft"
      /\ \A q \in Ranks \ {r} : at'[q] = at[q] /\ pc'[q] = pc[q] /\ deferred'[q] = deferred[q]
      /\ \/ /\ setup.deferred /\ deferred'[r].stage = n /\ deferred'[r].requests = s
            /\ deferred'[r].remaining = Cardinality(s)
         \/ deferred'[r] = deferred[r] /\ AllComplete(r, n, s)
  BY CloseTyped
<1>4. /\ LastStage' = LastStage /\ Chunks' = Chunks /\ Exchanges' = Exchanges
      /\ \A q, x : Peers(q, x)' = Peers(q, x)
  BY <1>2, SetupFixed
<1>5. n \in Exchanges /\ n \in Stages /\ StepOf(n) \in {2, 4}
  BY <1>2, PostStage
<1>6. StepOf(n + 1) \in {3, 5}
  BY <1>1, <1>5, StepFacts
<1>7. landed[r] = {} /\ \A f \in Ranks : Entries(recvs[<<f, r>>]) = {}
  BY <1>2, CloseQuiet
<1>8. \A q : Left(q)' = Left(q)
  BY <1>2 DEF Left
<1>9. \A x \in Exchanges : x \in Nat
  BY <1>1, StepFacts
<1>10. \A f, t \in Ranks : \A x \in Exchanges :
         (Posted(f, t, x)' <=> Posted(f, t, x)) /\ (Asked(f, t, x)' <=> Asked(f, t, x))
  <2> SUFFICES ASSUME NEW f \in Ranks, NEW t \in Ranks, NEW x \in Exchanges
               PROVE  (Posted(f, t, x)' <=> Posted(f, t, x)) /\ (Asked(f, t, x)' <=> Asked(f, t, x))
    OBVIOUS
  <2>1. Posted(f, t, x)' <=> Posted(f, t, x)
    <3>1. CASE f = r
      BY <1>1, <1>2, <1>3, <1>9, <3>1 DEF Posted
    <3>2. CASE f # r
      BY <1>3, <1>8, <3>2 DEF Posted
    <3> QED
      BY <3>1, <3>2
  <2>2. Asked(f, t, x)' <=> Asked(f, t, x)
    <3>1. CASE t = r
      BY <1>1, <1>2, <1>3, <1>9, <3>1 DEF Asked
    <3>2. CASE t # r
      BY <1>2, <1>3, <1>8, <3>2 DEF Asked
    <3> QED
      BY <3>1, <3>2
  <2> QED
    BY <2>1, <2>2
<1>11. \A f, t, x, k : Wanted(f, t, x, k)' = Wanted(f, t, x, k)
  BY <1>2 DEF Wanted
<1>12. InPlace'
  BY <1>3, <1>6 DEF CInv, InPlace, StepsAt
<1>13. PeersLeft'
  <2> SUFFICES ASSUME NEW q \in Ranks, pc'[q] = "post"
               PROVE  /\ Left(q)' \subseteq Peers(q, at[q])'
                      /\ \A i, j \in DOMAIN peers'[q] : i # j => peers'[q][i] # peers'[q][j]
    BY DEF PeersLeft
  <2>1. q # r /\ at'[q] = at[q] /\ pc[q] = "post" /\ peers' = peers
    BY <1>2, <1>3
  <2> QED
    BY <1>4, <1>8, <2>1 DEF CInv, PeersLeft
<1>14. DeferredIs'
  <2> SUFFICES ASSUME NEW q \in Ranks PROVE DeferredOk(q)'
    BY DEF DeferredIs
  <2>1. DeferredOk(q)
    BY DEF CInv, DeferredIs
  <2>2. CASE q # r
    BY <1>2, <1>3, <1>4, <2>1, <2>2 DEF DeferredOk, Active
  <2>3. CASE q = r /\ deferred'[r] = deferred[r]
    BY <1>2, <2>1, <2>3 DEF DeferredOk, Active
  <2>4. CASE q = r /\ setup.deferred /\ deferred'[r].stage = n /\ deferred'[r].requests = s
             /\ deferred'[r].remaining = Cardinality(s)
    <3>1. Peers(r, deferred[r].stage)' = Peers(r, n)
      BY <1>4, <2>4
    <3> HIDE DEF n
    <3>2. setup'.deferred /\ pc'[r] = "fft" /\ at'[r] = deferred'[r].stage + 1
      BY <1>2, <1>3, <2>4
    <3>3. deferred'[r].stage \in Exchanges'
      BY <1>4, <1>5, <2>4
    <3>4. deferred'[r].requests \subseteq (Peers(r, deferred[r].stage) \X Chunks)'
      BY <1>4, <2>4, <3>1
    <3>5. Active(r)'
      <4>1. n # 0
        BY <1>5 DEF Stages
      <4> QED
        BY <2>4, <4>1 DEF Active
    <3> QED
      BY <2>4, <3>2, <3>3, <3>4, <3>5 DEF DeferredOk
  <2> QED
    BY <1>3, <2>2, <2>3, <2>4
<1>15. SendsAre'
  <2> SUFFICES ASSUME NEW f \in Ranks, NEW t \in Ranks, NEW m \in Entries(sends[<<f, t>>])
               PROVE  /\ m.stage \in Exchanges /\ m.chunk \in Chunks
                      /\ t \in Peers(f, m.stage)
                      /\ Posted(f, t, m.stage)'
                      /\ \/ setup.eager \/ (pc'[f] = "post" /\ at'[f] = m.stage)
                         \/ Deferring(f, t, m)'
    BY <1>2, <1>4 DEF SendsAre
  <2>1. /\ m.stage \in Exchanges /\ m.chunk \in Chunks
        /\ t \in Peers(f, m.stage)
        /\ Posted(f, t, m.stage)
        /\ setup.eager \/ (pc[f] = "post" /\ at[f] = m.stage) \/ Deferring(f, t, m)
    BY DEF CInv, SendsAre
  <2>2. Posted(f, t, m.stage)'
    BY <1>10, <2>1
  <2>3. CASE f # r
    BY <1>3, <2>1, <2>2, <2>3 DEF Deferring, Active
  <2>4. CASE f = r /\ ~setup.eager
    <3>1. m.stage = n /\ <<t, m.chunk>> \in s
      BY <1>2, <2>1, <2>4 DEF Deferring
    <3>2. ~AllComplete(r, n, s)
      <4> SUFFICES ASSUME AllComplete(r, n, s) PROVE FALSE
        OBVIOUS
      <4>1. Complete(r, n, t, m.chunk)
        BY <3>1 DEF AllComplete
      <4> QED
        BY <2>4, <3>1, <4>1, CompleteFacts
    <3>3. deferred'[r].stage = n /\ deferred'[r].requests = s
      BY <1>3, <3>2
    <3>4. n # 0
      BY <1>5 DEF Stages
    <3>5. Deferring(f, t, m)'
      BY <2>4, <3>1, <3>3, <3>4 DEF Deferring, Active
    <3> QED
      BY <2>1, <2>2, <3>5
  <2> QED
    BY <2>1, <2>2, <2>3, <2>4
<1>16. RecvsAre'
  <2> SUFFICES ASSUME NEW f \in Ranks, NEW t \in Ranks, NEW m \in Entries(recvs[<<f, t>>])
               PROVE  /\ pc'[t] = "post" /\ at'[t] = m.stage /\ m.chunk \in Chunks
                      /\ f \in Peers(t, m.stage)
                      /\ Asked(f, t, m.stage)'
    BY <1>2, <1>4 DEF RecvsAre
  <2>1. /\ pc[t] = "post" /\ at[t] = m.stage /\ m.chunk \in Chunks
        /\ f \in Peers(t, m.stage)
        /\ Asked(f, t, m.stage)
    BY DEF CInv, RecvsAre
  <2>2. t # r
    BY <1>7
  <2>3. Asked(f, t, m.stage)'
    BY <1>2, <1>3, <1>8, <2>1, <2>2 DEF Asked
  <2> QED
    BY <1>3, <2>1, <2>2, <2>3
<1>17. InOrder' /\ Matched'
  BY <1>2, <1>10, QueuesKept DEF CInv
<1>18. LandedAre'
  <2> SUFFICES ASSUME NEW t \in Ranks, NEW q \in landed[t]
               PROVE  /\ pc'[t] = "post" /\ q[1] \in Peers(t, at[t])'
                      /\ Asked(q[1], t, at[t])' /\ ~Wanted(q[1], t, at[t], q[2])'
    BY <1>2 DEF LandedAre
  <2>1. /\ pc[t] = "post" /\ q[1] \in Peers(t, at[t])
        /\ Asked(q[1], t, at[t]) /\ ~Wanted(q[1], t, at[t], q[2])
    BY DEF CInv, LandedAre
  <2>2. t # r
    BY <1>7
  <2>3. Asked(q[1], t, at[t])'
    BY <1>2, <1>3, <1>8, <2>1, <2>2 DEF Asked
  <2> QED
    BY <1>3, <1>4, <1>11, <2>1, <2>2, <2>3
<1>19. Counted'
  <2> SUFFICES ASSUME NEW t \in Ranks, NEW f \in Ranks
               PROVE  unwaited[t][f] = IF pc'[t] = "post" /\ f \in Peers(t, at[t])'
                                       THEN Cardinality(Due(f, t)') ELSE 0
    BY <1>2 DEF Counted
  <2>1. CASE t = r
    BY <1>2, <1>3, <2>1
  <2>2. CASE t # r
    <3>1. unwaited[t][f] = IF pc[t] = "post" /\ f \in Peers(t, at[t]) THEN Cardinality(Due(f, t)) ELSE 0
      BY DEF CInv, Counted
    <3>2. Asked(f, t, at[t])' <=> Asked(f, t, at[t])
      BY <1>2, <1>3, <1>8, <2>2 DEF Asked
    <3>3. Due(f, t)' = Due(f, t)
      BY <1>2, <1>3, <1>4, <1>11, <2>2, <3>2 DEF Due
    <3> QED
      BY <1>3, <1>4, <2>2, <3>1, <3>3
  <2> QED
    BY <2>1, <2>2
<1> QED
  BY <1>3, <1>12, <1>13, <1>14, <1>15, <1>16, <1>17, <1>18, <1>19 DEF CInv

-----------------------------------------------------------------------------
(***************************************************************************)
(* MPI matches a send and a receive.                                       *)
(***************************************************************************)

LEMMA HeadFacts ==
    ASSUME CInv, NEW f \in Ranks, NEW t \in Ranks, Transfer(f, t)
    PROVE  /\ sends[<<f, t>>] \in Seq(SendRecords) /\ sends[<<f, t>>] # <<>>
           /\ recvs[<<f, t>>] \in Seq(RecvRecords) /\ recvs[<<f, t>>] # <<>>
           /\ Head(sends[<<f, t>>]) \in Entries(sends[<<f, t>>])
           /\ Head(recvs[<<f, t>>]) \in Entries(recvs[<<f, t>>])
           /\ \A m \in Entries(Tail(sends[<<f, t>>])) : Before(Head(sends[<<f, t>>]), m)
           /\ \A m \in Entries(Tail(recvs[<<f, t>>])) : Before(Head(recvs[<<f, t>>]), m)
           /\ Entries(sends[<<f, t>>]) = {Head(sends[<<f, t>>])} \cup Entries(Tail(sends[<<f, t>>]))
           /\ Entries(recvs[<<f, t>>]) = {Head(recvs[<<f, t>>])} \cup Entries(Tail(recvs[<<f, t>>]))
           /\ Ordered(Tail(sends[<<f, t>>])) /\ (~setup.eager => Suffix(Tail(sends[<<f, t>>])))
           /\ Ordered(Tail(recvs[<<f, t>>])) /\ Suffix(Tail(recvs[<<f, t>>]))
           /\ Tail(sends[<<f, t>>]) \in Seq(SendRecords) /\ Tail(recvs[<<f, t>>]) \in Seq(RecvRecords)
<1> DEFINE s == sends[<<f, t>>]
           q == recvs[<<f, t>>]
<1>1. s \in Seq(SendRecords) /\ q \in Seq(RecvRecords) /\ setup.chunks \in Nat
  BY Fields, SetupFacts DEF CInv
<1>2. s # <<>> /\ q # <<>>
  BY DEF Transfer
<1>3. Ordered(s) /\ Ordered(q) /\ Suffix(q) /\ (~setup.eager => Suffix(s))
  BY DEF CInv, InOrder
<1> HIDE DEF s, q
<1>4. /\ Entries(s) = {Head(s)} \cup Entries(Tail(s)) /\ Tail(s) \in Seq(SendRecords)
      /\ Ordered(Tail(s)) /\ \A m \in Entries(Tail(s)) : Before(Head(s), m)
      /\ Suffix(s) => Suffix(Tail(s))
  BY <1>1, <1>2, <1>3, TailQueue
<1>5. /\ Entries(q) = {Head(q)} \cup Entries(Tail(q)) /\ Tail(q) \in Seq(RecvRecords)
      /\ Ordered(Tail(q)) /\ \A m \in Entries(Tail(q)) : Before(Head(q), m)
      /\ Suffix(Tail(q))
  BY <1>1, <1>2, <1>3, TailQueue
<1> QED
  BY <1>1, <1>2, <1>3, <1>4, <1>5 DEF s, q

\* What MPI matches belongs together.
LEMMA HeadsMatch ==
    ASSUME CInv, NEW f \in Ranks, NEW t \in Ranks, Transfer(f, t)
    PROVE  LET m == Head(sends[<<f, t>>])
               q == Head(recvs[<<f, t>>])
           IN  /\ m.stage = q.stage /\ m.chunk = q.chunk
               /\ q.stage \in Exchanges /\ q.chunk \in Chunks
               /\ pc[t] = "post" /\ at[t] = q.stage /\ f \in Peers(t, q.stage) /\ f # t
               /\ t \in Peers(f, q.stage)
               /\ Posted(f, t, q.stage) /\ Asked(f, t, q.stage)
<1> DEFINE m == Head(sends[<<f, t>>])
           q == Head(recvs[<<f, t>>])
<1>1. /\ m \in Entries(sends[<<f, t>>]) /\ q \in Entries(recvs[<<f, t>>])
      /\ \A p \in Entries(sends[<<f, t>>]) : p = m \/ Before(m, p)
      /\ \A p \in Entries(recvs[<<f, t>>]) : p = q \/ Before(q, p)
  <2>1. m \in Entries(sends[<<f, t>>]) /\ q \in Entries(recvs[<<f, t>>])
    BY HeadFacts
  <2>2. /\ Entries(sends[<<f, t>>]) = {m} \cup Entries(Tail(sends[<<f, t>>]))
        /\ Entries(recvs[<<f, t>>]) = {q} \cup Entries(Tail(recvs[<<f, t>>]))
    BY HeadFacts
  <2>3. /\ \A p \in Entries(Tail(sends[<<f, t>>])) : Before(m, p)
        /\ \A p \in Entries(Tail(recvs[<<f, t>>])) : Before(q, p)
    BY HeadFacts
  <2> HIDE DEF m, q
  <2> QED
    BY <2>1, <2>2, <2>3
<1>2. /\ m.stage \in Exchanges /\ m.chunk \in Chunks /\ t \in Peers(f, m.stage)
      /\ Posted(f, t, m.stage)
  BY <1>1 DEF CInv, SendsAre
<1>3. /\ pc[t] = "post" /\ at[t] = q.stage /\ q.chunk \in Chunks
      /\ f \in Peers(t, q.stage) /\ Asked(f, t, q.stage)
  BY <1>1 DEF CInv, RecvsAre
<1>4. q.stage \in Exchanges /\ t \in Peers(f, q.stage) /\ f # t
  BY <1>3, PostStage, Symmetric
<1>5. /\ Sent(f, t, m.stage, m.chunk) /\ Wanted(f, t, q.stage, q.chunk)
  BY <1>1 DEF Sent, Wanted
<1>6. /\ setup \in Setups /\ setup.chunks \in Nat
      /\ \A x \in Exchanges : x \in Nat
      /\ \A k \in Chunks : k \in Nat
      /\ at[f] \in Nat /\ at[t] \in Nat
  BY Fields, SetupFacts, StepFacts DEF CInv, Chunks
<1>7. \A x, k : Sent(f, t, x, k) => m.stage < x \/ (m.stage = x /\ m.chunk <= k)
  <2> SUFFICES ASSUME NEW x, NEW k, NEW p \in Entries(sends[<<f, t>>]), p.stage = x, p.chunk = k
               PROVE  m.stage < x \/ (m.stage = x /\ m.chunk <= k)
    BY DEF Sent
  <2>1. p = m \/ Before(m, p)
    BY <1>1
  <2>2. p.chunk \in Chunks
    BY DEF CInv, SendsAre
  <2> HIDE DEF m
  <2> QED
    BY <1>2, <1>6, <2>1, <2>2 DEF Before
<1>8. \A x, k : Wanted(f, t, x, k) => q.stage < x \/ (q.stage = x /\ q.chunk <= k)
  <2> SUFFICES ASSUME NEW x, NEW k, NEW p \in Entries(recvs[<<f, t>>]), p.stage = x, p.chunk = k
               PROVE  q.stage < x \/ (q.stage = x /\ q.chunk <= k)
    BY DEF Wanted
  <2>1. p = q \/ Before(q, p)
    BY <1>1
  <2>2. p.chunk \in Chunks
    BY DEF CInv, RecvsAre
  <2> HIDE DEF q
  <2> QED
    BY <1>3, <1>6, <2>1, <2>2 DEF Before
<1> HIDE DEF m, q
<1>9. \A x \in Exchanges : \A k \in Chunks : t \in Peers(f, x) =>
        (Posted(f, t, x) /\ Asked(f, t, x) => (Sent(f, t, x, k) <=> Wanted(f, t, x, k)))
  BY DEF CInv, Matched
<1>10. ~(m.stage > q.stage)
  <2> SUFFICES ASSUME m.stage > q.stage PROVE FALSE
    OBVIOUS
  <2>1. Posted(f, t, q.stage)
    BY <1>2, <1>4, <1>6 DEF Posted
  <2>2. Sent(f, t, q.stage, q.chunk)
    BY <1>3, <1>4, <1>5, <1>9, <2>1
  <2> QED
    BY <1>2, <1>4, <1>6, <1>7, <2>2
<1>11. Asked(f, t, m.stage)
  <2>1. m.stage = q.stage \/ m.stage < q.stage
    BY <1>2, <1>4, <1>6, <1>10
  <2> QED
    BY <1>3, <1>6, <2>1 DEF Asked
<1>12. Wanted(f, t, m.stage, m.chunk)
  BY <1>2, <1>5, <1>9, <1>11
<1>13. m.stage = q.stage /\ q.chunk <= m.chunk
  BY <1>2, <1>4, <1>6, <1>8, <1>10, <1>12
<1>14. Sent(f, t, q.stage, q.chunk)
  BY <1>2, <1>3, <1>4, <1>5, <1>9, <1>13
<1>15. m.chunk <= q.chunk
  BY <1>3, <1>4, <1>6, <1>7, <1>13, <1>14
<1>16. m.chunk = q.chunk
  BY <1>2, <1>3, <1>6, <1>13, <1>15
<1> QED
  BY <1>2, <1>3, <1>4, <1>13, <1>16 DEF m, q

\* Whether it reads the right data, and where they go.
GoodMatch(f, t) ==
    IF setup.eager THEN Head(sends[<<f, t>>]).good ELSE Intact(f, t, Head(sends[<<f, t>>]).stage)

Target(t) == IF Lands(at[t]) THEN Output(t, at[t]) ELSE RecvSlot

LEMMA TransferFacts ==
    ASSUME CInv, NEW f \in Ranks, NEW t \in Ranks, Transfer(f, t)
    PROVE  LET q == Head(recvs[<<f, t>>])
           IN  /\ UNCHANGED <<setup, at, pc, peers, unwaited, deferred, computing>>
               /\ sends' = [sends EXCEPT ![<<f, t>>] = Tail(sends[<<f, t>>])]
               /\ recvs' = [recvs EXCEPT ![<<f, t>>] = Tail(recvs[<<f, t>>])]
               /\ landed' = [landed EXCEPT ![t] = landed[t] \cup {<<f, q.chunk>>}]
               /\ mem' = [mem EXCEPT ![t][Target(t)] =
                            IF GoodMatch(f, t) THEN Added(mem[t][Target(t)], at[t], {<<f, q.chunk>>})
                                               ELSE Junk]
<1> DEFINE m == Head(sends[<<f, t>>])
           q == Head(recvs[<<f, t>>])
           place == IF Lands(q.stage) THEN Output(t, q.stage) ELSE RecvSlot
           good == /\ IF setup.eager THEN m.good ELSE Intact(f, t, m.stage)
                   /\ m.stage = q.stage /\ m.chunk = q.chunk
<1>1. m.stage = q.stage /\ m.chunk = q.chunk /\ at[t] = q.stage
  BY HeadsMatch
<1>2. Target(t) = place
  BY <1>1 DEF Target
<1>3. good <=> GoodMatch(f, t)
  BY <1>1 DEF GoodMatch
<1>4. /\ mem' = [mem EXCEPT ![t][place] =
                  IF good THEN Added(@, q.stage, {<<f, q.chunk>>}) ELSE Junk]
      /\ landed' = [landed EXCEPT ![t] = @ \cup {<<f, q.chunk>>}]
      /\ sends' = [sends EXCEPT ![<<f, t>>] = Tail(@)]
      /\ recvs' = [recvs EXCEPT ![<<f, t>>] = Tail(@)]
      /\ UNCHANGED <<setup, at, pc, peers, unwaited, deferred, computing>>
  BY DEF Transfer
<1> HIDE DEF good, place
<1>5. mem' = [mem EXCEPT ![t][place] =
                IF good THEN Added(mem[t][place], q.stage, {<<f, q.chunk>>}) ELSE Junk]
  BY <1>4
<1> HIDE DEF q
<1>6. mem' = [mem EXCEPT ![t][Target(t)] =
                IF GoodMatch(f, t) THEN Added(mem[t][Target(t)], at[t], {<<f, q.chunk>>}) ELSE Junk]
  BY <1>1, <1>2, <1>3, <1>5
<1> QED
  BY <1>4, <1>6 DEF q

LEMMA TransferTyped ==
    ASSUME CInv, NEW f \in Ranks, NEW t \in Ranks, Transfer(f, t)
    PROVE  Typed' /\ Target(t) \in Regions
<1> DEFINE q == Head(recvs[<<f, t>>])
           part == {<<f, q.chunk>>}
           s == Tail(sends[<<f, t>>])
           w == Tail(recvs[<<f, t>>])
<1>1. /\ Typed /\ setup \in Setups /\ at[t] \in Stages /\ q.chunk \in Chunks /\ at[t] \in Int
  <2>1. pc[t] = "post"
    BY HeadsMatch
  <2>2. at[t] \in Stages
    BY <2>1, PostStage
  <2> QED
    BY <2>2, HeadsMatch, Fields DEF CInv
<1>2. part \in SUBSET (Ranks \X Chunks)
  BY <1>1
<1>3. s \in Seq(SendRecords) /\ w \in Seq(RecvRecords)
  BY HeadFacts
<1>4. /\ UNCHANGED <<setup, at, pc, peers, unwaited, deferred, computing>>
      /\ sends' = [sends EXCEPT ![<<f, t>>] = s]
      /\ recvs' = [recvs EXCEPT ![<<f, t>>] = w]
      /\ landed' = [landed EXCEPT ![t] = landed[t] \cup part]
  BY TransferFacts
<1> DEFINE c == IF GoodMatch(f, t) THEN Added(mem[t][Target(t)], at[t], part) ELSE Junk
<1>5. mem' = [mem EXCEPT ![t][Target(t)] = c]
  BY TransferFacts
<1>6. Target(t) \in Regions
  BY <1>1, RegionFacts DEF Target
<1> HIDE DEF s, w, part
<1>7. c \in Contents
  <2>1. mem[t][Target(t)] \in Contents
    BY <1>1, <1>6, Fields
  <2> QED
    BY <1>1, <1>2, <2>1, AddedType, FullType
<1> HIDE DEF c
<1>8. mem' \in [Ranks -> [Regions -> Contents]]
  BY <1>1, <1>5, <1>7, PutType
<1>9. sends' \in [Ranks \X Ranks -> Seq(SendRecords)] /\ recvs' \in [Ranks \X Ranks -> Seq(RecvRecords)]
  BY <1>1, <1>3, <1>4 DEF Typed
<1>10. landed' \in [Ranks -> SUBSET (Ranks \X Chunks)]
  <2> DEFINE l == landed[t] \cup part
  <2>1. l \in SUBSET (Ranks \X Chunks) /\ landed' = [landed EXCEPT ![t] = l]
    BY <1>1, <1>2, <1>4, Fields
  <2> HIDE DEF l
  <2> QED
    BY <1>1, <2>1 DEF Typed
<1>11. Typed'
  BY <1>1, <1>4, <1>8, <1>9, <1>10, SetupFixed
     DEF Typed, SendRecords, RecvRecords, DeferredRecords, Contents
<1> QED
  BY <1>6, <1>11

LEMMA CtrlTransfer ==
    ASSUME CInv, NEW f \in Ranks, NEW t \in Ranks, Transfer(f, t)
    PROVE  CInv'
<1> DEFINE m == Head(sends[<<f, t>>])
           q == Head(recvs[<<f, t>>])
           n == at[t]
           k == q.chunk
           Pair(a, b) == a = f /\ b = t
<1>1. /\ Typed /\ setup \in Setups /\ setup' = setup
      /\ UNCHANGED <<at, pc, peers, unwaited, deferred>>
      /\ Typed'
  BY Fields, TransferFacts, TransferTyped DEF CInv
<1>2. /\ m.stage = n /\ m.chunk = k /\ q.stage = n
      /\ n \in Exchanges /\ k \in Chunks
      /\ pc[t] = "post" /\ f \in Peers(t, n) /\ t \in Peers(f, n)
      /\ Posted(f, t, n) /\ Asked(f, t, n)
  BY HeadsMatch
<1>3. /\ LastStage' = LastStage /\ Chunks' = Chunks /\ Exchanges' = Exchanges
      /\ \A p, x : Peers(p, x)' = Peers(p, x)
      /\ \A s : Suffix(s)' = Suffix(s)
  BY <1>1, SetupFixed
<1>4. /\ \A a, b, x : Posted(a, b, x)' = Posted(a, b, x) /\ Asked(a, b, x)' = Asked(a, b, x)
      /\ \A a, b, e : Deferring(a, b, e)' = Deferring(a, b, e)
      /\ \A p : Left(p)' = Left(p)
  BY <1>1 DEF Posted, Asked, Left, Deferring, Active
<1>5. /\ sends'[<<f, t>>] = Tail(sends[<<f, t>>])
      /\ \A a, b \in Ranks : ~Pair(a, b) => sends'[<<a, b>>] = sends[<<a, b>>]
  <2> DEFINE s == Tail(sends[<<f, t>>])
  <2>1. sends' = [sends EXCEPT ![<<f, t>>] = s]
    BY TransferFacts
  <2>2. <<f, t>> \in Ranks \X Ranks /\ sends \in [Ranks \X Ranks -> Seq(SendRecords)]
    BY <1>1 DEF Typed
  <2> HIDE DEF s
  <2>3. sends'[<<f, t>>] = s
    BY <2>1, <2>2
  <2>4. ASSUME NEW a \in Ranks, NEW b \in Ranks, ~Pair(a, b) PROVE sends'[<<a, b>>] = sends[<<a, b>>]
    <3>1. <<a, b>> # <<f, t>> /\ <<a, b>> \in Ranks \X Ranks
      BY <2>4
    <3> QED
      BY <2>1, <2>2, <3>1
  <2> QED
    BY <2>3, <2>4 DEF s
<1>6. /\ recvs'[<<f, t>>] = Tail(recvs[<<f, t>>])
      /\ \A a, b \in Ranks : ~Pair(a, b) => recvs'[<<a, b>>] = recvs[<<a, b>>]
  <2> DEFINE s == Tail(recvs[<<f, t>>])
  <2>1. recvs' = [recvs EXCEPT ![<<f, t>>] = s]
    BY TransferFacts
  <2>2. <<f, t>> \in Ranks \X Ranks /\ recvs \in [Ranks \X Ranks -> Seq(RecvRecords)]
    BY <1>1 DEF Typed
  <2> HIDE DEF s
  <2>3. recvs'[<<f, t>>] = s
    BY <2>1, <2>2
  <2>4. ASSUME NEW a \in Ranks, NEW b \in Ranks, ~Pair(a, b) PROVE recvs'[<<a, b>>] = recvs[<<a, b>>]
    <3>1. <<a, b>> # <<f, t>> /\ <<a, b>> \in Ranks \X Ranks
      BY <2>4
    <3> QED
      BY <2>1, <2>2, <3>1
  <2> QED
    BY <2>3, <2>4 DEF s
<1>7. /\ Entries(sends[<<f, t>>]) = {m} \cup Entries(sends'[<<f, t>>])
      /\ \A e \in Entries(sends'[<<f, t>>]) : Before(m, e)
      /\ Ordered(sends'[<<f, t>>]) /\ (~setup.eager => Suffix(sends'[<<f, t>>]))
  <2> DEFINE s == Tail(sends[<<f, t>>])
  <2>1. /\ Entries(sends[<<f, t>>]) = {m} \cup Entries(s)
        /\ \A e \in Entries(s) : Before(m, e)
        /\ Ordered(s) /\ (~setup.eager => Suffix(s))
    BY HeadFacts
  <2>2. sends'[<<f, t>>] = s
    BY <1>5
  <2> HIDE DEF s, m, q
  <2> QED
    BY <2>1, <2>2
<1>8. /\ Entries(recvs[<<f, t>>]) = {q} \cup Entries(recvs'[<<f, t>>])
      /\ \A e \in Entries(recvs'[<<f, t>>]) : Before(q, e)
      /\ Ordered(recvs'[<<f, t>>]) /\ Suffix(recvs'[<<f, t>>])
  <2> DEFINE s == Tail(recvs[<<f, t>>])
  <2>1. /\ Entries(recvs[<<f, t>>]) = {q} \cup Entries(s)
        /\ \A e \in Entries(s) : Before(q, e)
        /\ Ordered(s) /\ Suffix(s)
    BY HeadFacts
  <2>2. recvs'[<<f, t>>] = s
    BY <1>6
  <2> HIDE DEF s, m, q
  <2> QED
    BY <2>1, <2>2
<1>9. \A a, b \in Ranks : /\ Entries(sends'[<<a, b>>]) \subseteq Entries(sends[<<a, b>>])
                          /\ Entries(recvs'[<<a, b>>]) \subseteq Entries(recvs[<<a, b>>])
  BY <1>5, <1>6, <1>7, <1>8
<1>10. n \in Nat /\ k \in Nat
  <2>1. setup.chunks \in Nat
    BY <1>1, SetupFacts
  <2> QED
    BY <1>1, <1>2, <2>1, StepFacts DEF Chunks
<1> HIDE DEF m, q, k, n
<1>11. \A a, b \in Ranks : \A x, j :
         Sent(a, b, x, j)' <=> Sent(a, b, x, j) /\ ~(Pair(a, b) /\ x = n /\ j = k)
  <2> SUFFICES ASSUME NEW a \in Ranks, NEW b \in Ranks, NEW x, NEW j
               PROVE  Sent(a, b, x, j)' <=> Sent(a, b, x, j) /\ ~(Pair(a, b) /\ x = n /\ j = k)
    OBVIOUS
  <2>1. CASE ~Pair(a, b)
    BY <1>5, <2>1 DEF Sent
  <2>2. CASE Pair(a, b)
    <3>1. ASSUME Sent(a, b, x, j)' PROVE Sent(a, b, x, j) /\ ~(x = n /\ j = k)
      <4>1. PICK e \in Entries(sends'[<<f, t>>]) : e.stage = x /\ e.chunk = j
        BY <2>2, <3>1 DEF Sent, Entries
      <4>2. Before(m, e) /\ e \in Entries(sends[<<f, t>>])
        BY <1>7, <4>1
      <4>3. ~(x = n /\ j = k)
        BY <1>2, <1>10, <4>1, <4>2 DEF Before
      <4> QED
        BY <2>2, <4>1, <4>2, <4>3 DEF Sent
    <3>2. ASSUME Sent(a, b, x, j), ~(x = n /\ j = k) PROVE Sent(a, b, x, j)'
      <4>1. PICK e \in Entries(sends[<<f, t>>]) : e.stage = x /\ e.chunk = j
        BY <2>2, <3>2 DEF Sent
      <4>2. e \in Entries(sends'[<<f, t>>])
        BY <1>2, <1>7, <3>2, <4>1
      <4>3. e \in Entries(sends[<<a, b>>])'
        BY <2>2, <4>2 DEF Entries
      <4> QED
        BY <4>1, <4>3 DEF Sent
    <3> QED
      BY <2>2, <3>1, <3>2
  <2> QED
    BY <2>1, <2>2
<1>12. \A a, b \in Ranks : \A x, j :
         Wanted(a, b, x, j)' <=> Wanted(a, b, x, j) /\ ~(Pair(a, b) /\ x = n /\ j = k)
  <2> SUFFICES ASSUME NEW a \in Ranks, NEW b \in Ranks, NEW x, NEW j
               PROVE  Wanted(a, b, x, j)' <=> Wanted(a, b, x, j) /\ ~(Pair(a, b) /\ x = n /\ j = k)
    OBVIOUS
  <2>1. CASE ~Pair(a, b)
    BY <1>6, <2>1 DEF Wanted
  <2>2. CASE Pair(a, b)
    <3>1. ASSUME Wanted(a, b, x, j)' PROVE Wanted(a, b, x, j) /\ ~(x = n /\ j = k)
      <4>1. PICK e \in Entries(recvs'[<<f, t>>]) : e.stage = x /\ e.chunk = j
        BY <2>2, <3>1 DEF Wanted, Entries
      <4>2. Before(q, e) /\ e \in Entries(recvs[<<f, t>>])
        BY <1>8, <4>1
      <4>3. ~(x = n /\ j = k)
        BY <1>2, <1>10, <4>1, <4>2 DEF Before, k
      <4> QED
        BY <2>2, <4>1, <4>2, <4>3 DEF Wanted
    <3>2. ASSUME Wanted(a, b, x, j), ~(x = n /\ j = k) PROVE Wanted(a, b, x, j)'
      <4>1. PICK e \in Entries(recvs[<<f, t>>]) : e.stage = x /\ e.chunk = j
        BY <2>2, <3>2 DEF Wanted
      <4>2. e \in Entries(recvs'[<<f, t>>])
        BY <1>2, <1>8, <3>2, <4>1 DEF k
      <4>3. e \in Entries(recvs[<<a, b>>])'
        BY <2>2, <4>2 DEF Entries
      <4> QED
        BY <4>1, <4>3 DEF Wanted
    <3> QED
      BY <2>2, <3>1, <3>2
  <2> QED
    BY <2>1, <2>2
<1>13. \A p \in Ranks : \A e : e \in landed'[p] <=> e \in landed[p] \/ (p = t /\ e = <<f, k>>)
  <2> DEFINE l == landed[t] \cup {<<f, k>>}
  <2>1. landed' = [landed EXCEPT ![t] = l]
    BY TransferFacts DEF k, q
  <2> HIDE DEF l
  <2>2. \A p \in Ranks : landed'[p] = IF p = t THEN l ELSE landed[p]
    BY <1>1, <2>1 DEF Typed
  <2> QED
    BY <2>2 DEF l
<1>14. InPlace'
  BY <1>1 DEF CInv, InPlace
<1>15. PeersLeft'
  BY <1>1, <1>3, <1>4 DEF CInv, PeersLeft
<1>16. DeferredIs'
  BY <1>1, <1>3 DEF CInv, DeferredIs, DeferredOk, Active
<1>17. SendsAre'
  <2> SUFFICES ASSUME NEW a \in Ranks, NEW b \in Ranks, NEW e \in Entries(sends[<<a, b>>])'
               PROVE  /\ e.stage \in Exchanges /\ e.chunk \in Chunks
                      /\ b \in Peers(a, e.stage)
                      /\ Posted(a, b, e.stage)
                      /\ setup.eager \/ (pc[a] = "post" /\ at[a] = e.stage) \/ Deferring(a, b, e)
    BY <1>1, <1>3, <1>4 DEF SendsAre
  <2>1. e \in Entries(sends[<<a, b>>])
    BY <1>9 DEF Entries
  <2> QED
    BY <2>1 DEF CInv, SendsAre
<1>18. RecvsAre'
  <2> SUFFICES ASSUME NEW a \in Ranks, NEW b \in Ranks, NEW e \in Entries(recvs[<<a, b>>])'
               PROVE  /\ pc[b] = "post" /\ at[b] = e.stage /\ e.chunk \in Chunks
                      /\ a \in Peers(b, e.stage)
                      /\ Asked(a, b, e.stage)
    BY <1>1, <1>3, <1>4 DEF RecvsAre
  <2>1. e \in Entries(recvs[<<a, b>>])
    BY <1>9 DEF Entries
  <2> QED
    BY <2>1 DEF CInv, RecvsAre
<1>19. InOrder'
  <2> SUFFICES ASSUME NEW a \in Ranks, NEW b \in Ranks
               PROVE  /\ Ordered(sends'[<<a, b>>]) /\ (~setup.eager => Suffix(sends[<<a, b>>])')
                      /\ Ordered(recvs'[<<a, b>>]) /\ Suffix(recvs[<<a, b>>])'
    BY <1>1 DEF InOrder
  <2>1. CASE Pair(a, b)
    BY <1>1, <1>7, <1>8, <2>1 DEF Suffix
  <2>2. CASE ~Pair(a, b)
    <3>1. /\ Ordered(sends[<<a, b>>]) /\ (~setup.eager => Suffix(sends[<<a, b>>]))
          /\ Ordered(recvs[<<a, b>>]) /\ Suffix(recvs[<<a, b>>])
      BY DEF CInv, InOrder
    <3>2. sends'[<<a, b>>] = sends[<<a, b>>] /\ recvs'[<<a, b>>] = recvs[<<a, b>>]
      BY <1>5, <1>6, <2>2
    <3> QED
      BY <1>3, <3>1, <3>2
  <2> QED
    BY <2>1, <2>2
<1>20. Matched'
  <2> SUFFICES ASSUME NEW a \in Ranks, NEW b \in Ranks, NEW x \in Exchanges, NEW j \in Chunks,
                      b \in Peers(a, x)
               PROVE  /\ Posted(a, b, x) /\ ~Asked(a, b, x) => Sent(a, b, x, j)'
                      /\ Asked(a, b, x) /\ ~Posted(a, b, x) => Wanted(a, b, x, j)'
                      /\ Posted(a, b, x) /\ Asked(a, b, x) =>
                           (Sent(a, b, x, j)' <=> Wanted(a, b, x, j)')
    BY <1>3, <1>4 DEF Matched
  <2>1. /\ Posted(a, b, x) /\ ~Asked(a, b, x) => Sent(a, b, x, j)
        /\ Asked(a, b, x) /\ ~Posted(a, b, x) => Wanted(a, b, x, j)
        /\ Posted(a, b, x) /\ Asked(a, b, x) => (Sent(a, b, x, j) <=> Wanted(a, b, x, j))
    BY DEF CInv, Matched
  <2>2. Pair(a, b) /\ x = n => Posted(a, b, x) /\ Asked(a, b, x)
    BY <1>2
  <2>3. /\ Sent(a, b, x, j)' <=> Sent(a, b, x, j) /\ ~(Pair(a, b) /\ x = n /\ j = k)
        /\ Wanted(a, b, x, j)' <=> Wanted(a, b, x, j) /\ ~(Pair(a, b) /\ x = n /\ j = k)
    BY <1>11, <1>12
  <2> HIDE DEF Pair
  <2> QED
    BY <2>1, <2>2, <2>3
<1>21. LandedAre'
  <2> SUFFICES ASSUME NEW b \in Ranks, NEW e \in landed'[b]
               PROVE  /\ pc[b] = "post" /\ e[1] \in Peers(b, at[b])
                      /\ Asked(e[1], b, at[b]) /\ ~Wanted(e[1], b, at[b], e[2])'
    BY <1>1, <1>3, <1>4 DEF LandedAre
  <2>1. CASE e \in landed[b]
    <3>1. /\ pc[b] = "post" /\ e[1] \in Peers(b, at[b])
          /\ Asked(e[1], b, at[b]) /\ ~Wanted(e[1], b, at[b], e[2])
      BY <2>1 DEF CInv, LandedAre
    <3>2. e[1] \in Ranks
      BY <3>1, Symmetric
    <3>3. ~Wanted(e[1], b, at[b], e[2])'
      <4> DEFINE x == at[b]
                 j == e[2]
      <4>1. ~Wanted(e[1], b, x, j)
        BY <3>1
      <4>2. x' = x
        BY <1>1
      <4> HIDE DEF x, j
      <4>3. Wanted(e[1], b, x, j)' => Wanted(e[1], b, x, j)
        BY <1>12, <3>2, <4>2 DEF Wanted
      <4> QED
        BY <4>1, <4>3 DEF x, j
    <3> QED
      BY <3>1, <3>3
  <2>2. CASE b = t /\ e = <<f, k>>
    <3>1. e[1] = f /\ e[2] = k /\ at[b] = n /\ at'[b] = n
      BY <1>1, <2>2 DEF n
    <3>2. ~ \E p \in Entries(recvs'[<<f, t>>]) : p.stage = n /\ p.chunk = k
      BY <1>2, <1>8, <1>10 DEF Before, k
    <3>3. ~Wanted(e[1], b, at[b], e[2])'
      BY <2>2, <3>1, <3>2 DEF Wanted, Entries
    <3> QED
      BY <1>2, <2>2, <3>1, <3>3
  <2> QED
    BY <1>13, <2>1, <2>2
<1>22. Counted'
  <2> SUFFICES ASSUME NEW b \in Ranks, NEW a \in Ranks
               PROVE  unwaited[b][a] = IF pc[b] = "post" /\ a \in Peers(b, at[b])
                                       THEN Cardinality(Due(a, b)') ELSE 0
    BY <1>1, <1>3 DEF Counted
  <2>1. unwaited[b][a] = IF pc[b] = "post" /\ a \in Peers(b, at[b]) THEN Cardinality(Due(a, b)) ELSE 0
    BY DEF CInv, Counted
  <2>2. Due(a, b)' = Due(a, b)
    <3>1. \A j \in Chunks :
            Wanted(a, b, at[b], j)' <=> Wanted(a, b, at[b], j) /\ ~(Pair(a, b) /\ at[b] = n /\ j = k)
      <4>1. at' = at
        BY <1>1
      <4>2. \A j : Wanted(a, b, at[b], j)' <=> \E e \in Entries(recvs[<<a, b>>])' : e.stage = at[b] /\ e.chunk = j
        BY <4>1 DEF Wanted
      <4>3. \A x, j : Wanted(a, b, x, j)' <=> \E e \in Entries(recvs[<<a, b>>])' : e.stage = x /\ e.chunk = j
        BY DEF Wanted
      <4> QED
        BY <1>12, <4>2, <4>3
    <3>2. \A j \in Chunks : <<a, j>> \in landed'[b] <=> <<a, j>> \in landed[b] \/ (Pair(a, b) /\ j = k)
      BY <1>13
    <3>3. Pair(a, b) => at[b] = n
      BY DEF n
    <3>4. Wanted(f, t, n, k)
      BY <1>2, <1>8 DEF Wanted, k
    <3>5. \A j \in Chunks : Pair(a, b) /\ j = k => Wanted(a, b, at[b], j)
      BY <3>3, <3>4
    <3>6. Asked(a, b, at[b])' = Asked(a, b, at[b])
      BY <1>1 DEF Asked, Left
    <3> HIDE DEF Pair
    <3> QED
      BY <1>3, <3>1, <3>2, <3>3, <3>5, <3>6 DEF Due
  <2> QED
    BY <2>1, <2>2
<1> QED
  BY <1>1, <1>14, <1>15, <1>16, <1>17, <1>18, <1>19, <1>20, <1>21, <1>22 DEF CInv

-----------------------------------------------------------------------------
(***************************************************************************)
(* The invariant is inductive.                                             *)
(***************************************************************************)

LEMMA InitCtrl == Init => CInv
<1> SUFFICES ASSUME Init PROVE CInv
  OBVIOUS
<1>1. /\ setup \in Setups /\ setup.chunks \in Nat /\ LastStage \in Nat /\ StepOf(0) = 0
  BY SetupFacts, StepFacts DEF Init
<1>2. \A r \in Ranks : /\ at[r] = 0 /\ pc[r] = "idle" /\ peers[r] = <<>> /\ landed[r] = {}
                       /\ deferred[r] = NoDeferred
                       /\ \A t \in Ranks : /\ unwaited[r][t] = 0
                                           /\ sends[<<r, t>>] = <<>> /\ recvs[<<r, t>>] = <<>>
  BY DEF Init
<1>0. Entries(<<>>) = {} /\ Ordered(<<>>) /\ Suffix(<<>>)
  BY DEF Entries, Ordered, Suffix
<1>3. \A r, t \in Ranks : Entries(sends[<<r, t>>]) = {} /\ Entries(recvs[<<r, t>>]) = {}
  BY <1>0, <1>2
<1>4. NoDeferred \in DeferredRecords /\ NoDeferred.stage = 0 /\ NoDeferred.requests = {}
      /\ NoDeferred.remaining = 0
  BY DEF NoDeferred, DeferredRecords
<1>5. Typed
  BY <1>1, <1>4, FullType DEF Init, Typed, Places
<1>6. InPlace
  BY <1>1, <1>2 DEF InPlace, StepsAt
<1>7. PeersLeft
  BY <1>2 DEF PeersLeft
<1>8. DeferredIs
  BY <1>2, <1>4, FS_EmptySet DEF DeferredIs, DeferredOk, Active
<1>9. SendsAre /\ RecvsAre
  BY <1>3 DEF SendsAre, RecvsAre
<1>10. InOrder
  BY <1>0, <1>2 DEF InOrder
<1>11. Matched
  <2>1. \A r \in Ranks : \A x \in Exchanges : ~(at[r] > x) /\ at[r] # x
    BY <1>1, <1>2, StepFacts DEF Stages
  <2> QED
    BY <2>1 DEF Matched, Posted, Asked
<1>12. LandedAre
  BY <1>2 DEF LandedAre
<1>13. Counted
  BY <1>2 DEF Counted
<1> QED
  BY <1>5, <1>6, <1>7, <1>8, <1>9, <1>10, <1>11, <1>12, <1>13 DEF CInv

LEMMA StutterCtrl ==
    ASSUME CInv, UNCHANGED vars
    PROVE  CInv'
<1>1. /\ UNCHANGED <<setup, at, pc, peers, unwaited, landed, deferred, computing, sends, recvs, mem>>
  BY DEF vars
<1>2. /\ LastStage' = LastStage /\ Chunks' = Chunks /\ Exchanges' = Exchanges
      /\ \A q, x : Peers(q, x)' = Peers(q, x)
      /\ \A q : Suffix(q)' = Suffix(q)
  BY <1>1, SetupFixed
<1>3. /\ \A f, t, x : Posted(f, t, x)' = Posted(f, t, x) /\ Asked(f, t, x)' = Asked(f, t, x)
      /\ \A f, t, x, k : Wanted(f, t, x, k)' = Wanted(f, t, x, k)
      /\ \A f, t, m : Deferring(f, t, m)' = Deferring(f, t, m)
      /\ \A q : Left(q)' = Left(q)
  BY <1>1 DEF Posted, Asked, Wanted, Left, Deferring, Active
<1>4. Typed'
  BY <1>1, <1>2 DEF CInv, Typed, SendRecords, RecvRecords, DeferredRecords, Contents
<1>5. InPlace' /\ PeersLeft'
  BY <1>1, <1>2, <1>3 DEF CInv, InPlace, PeersLeft
<1>6. DeferredIs'
  BY <1>1, <1>2 DEF CInv, DeferredIs, DeferredOk, Active
<1>7. SendsAre' /\ RecvsAre'
  BY <1>1, <1>2, <1>3 DEF CInv, SendsAre, RecvsAre
<1>8. InOrder' /\ Matched'
  BY <1>1, <1>3, QueuesKept DEF CInv
<1>9. LandedAre'
  BY <1>1, <1>2, <1>3 DEF CInv, LandedAre
<1>10. \A f, t : Due(f, t)' = Due(f, t)
  BY <1>1, <1>2, <1>3 DEF Due
<1>11. Counted'
  BY <1>1, <1>2, <1>10 DEF CInv, Counted
<1> QED
  BY <1>4, <1>5, <1>6, <1>7, <1>8, <1>9, <1>11 DEF CInv

LEMMA NextCases ==
    ASSUME Next
    PROVE  \/ \E r \in Ranks : \/ StartOrFft(r) \/ Finishing(r) \/ EnterExchange(r) \/ PostPeer(r)
                               \/ Taking(r) \/ CloseExchange(r)
           \/ \E f, t \in Ranks : Transfer(f, t)
<1>1. CASE Progress
  <2>1. CASE \E r \in Ranks : RankStep(r)
    <3>1. PICK r \in Ranks : RankStep(r)
      BY <2>1
    <3> QED
      BY <3>1 DEF RankStep, StartOrFft, Finishing, Taking
  <2>2. CASE \E f, t \in Ranks : Transfer(f, t)
    BY <2>2
  <2> QED
    BY <1>1, <2>1, <2>2 DEF Progress
<1>2. CASE \E r \in Ranks : FftFails(r)
  BY <1>2 DEF StartOrFft
<1> QED
  BY <1>1, <1>2 DEF Next

LEMMA NextCtrl == CInv /\ [Next]_vars => CInv'
<1> SUFFICES ASSUME CInv, [Next]_vars PROVE CInv'
  OBVIOUS
<1>1. CASE UNCHANGED vars
  BY <1>1, StutterCtrl
<1>2. ASSUME NEW r \in Ranks, StartOrFft(r) \/ Finishing(r) PROVE CInv'
  BY <1>2, CtrlLocal
<1>3. ASSUME NEW r \in Ranks, EnterExchange(r) PROVE CInv'
  BY <1>3, CtrlEnter
<1>4. ASSUME NEW r \in Ranks, PostPeer(r) PROVE CInv'
  BY <1>4, CtrlPost
<1>5. ASSUME NEW r \in Ranks, Taking(r) PROVE CInv'
  BY <1>5, CtrlTaking
<1>6. ASSUME NEW r \in Ranks, CloseExchange(r) PROVE CInv'
  BY <1>6, CtrlClose
<1>7. ASSUME NEW f \in Ranks, NEW t \in Ranks, Transfer(f, t) PROVE CInv'
  BY <1>7, CtrlTransfer
<1>8. CASE Next
  BY <1>2, <1>3, <1>4, <1>5, <1>6, <1>7, <1>8, NextCases
<1> QED
  BY <1>1, <1>8

\* The requests of every reachable state are as the invariant says.
THEOREM RequestsCorrect == Spec => []CInv
<1>1. Init => CInv
  BY InitCtrl
<1>2. CInv /\ [Next]_vars => CInv'
  BY NextCtrl
<1> QED
  BY <1>1, <1>2, PTL DEF Spec

-----------------------------------------------------------------------------
LEMMA TypeFollows == CInv => TypeOK
<1> SUFFICES ASSUME CInv PROVE TypeOK
  OBVIOUS
<1>1. Typed /\ setup \in Setups /\ setup.chunks \in Nat /\ LastStage \in Nat
  BY SetupFacts, StepFacts DEF CInv, Typed
<1>2. ASSUME NEW r \in Ranks, NEW p \in Ranks PROVE unwaited[r][p] \in 0 .. setup.chunks
  <2> DEFINE D == Due(p, r)
  <2>1. unwaited[r][p] = 0 \/ unwaited[r][p] = Cardinality(D)
    BY DEF CInv, Counted
  <2>2. D \in SUBSET Chunks /\ IsFiniteSet(Chunks) /\ Cardinality(Chunks) = setup.chunks
    BY <1>1, Finite DEF Due
  <2> HIDE DEF D
  <2>3. IsFiniteSet(D) /\ Cardinality(D) <= setup.chunks
    BY <2>2, FS_Subset
  <2>4. Cardinality(D) \in Nat
    BY <2>3, FS_CardinalityType
  <2> QED
    BY <1>1, <2>1, <2>3, <2>4
<1>3. ASSUME NEW r \in Ranks
      PROVE  /\ pc[r] \in Places
             /\ landed[r] \subseteq Ranks \X Chunks
             /\ deferred[r].requests \subseteq Ranks \X Chunks
             /\ deferred[r].remaining = Cardinality(deferred[r].requests)
             /\ computing[r] \in BOOLEAN
             /\ at[r] > 0 => Output(r, at[r]) \in Regions
             /\ WorkCells(r) \subseteq Regions
  <2>1. at[r] > 0 => at[r] \in Stages
    BY <1>1, Fields DEF Stages
  <2>2. at[r] > 0 => Output(r, at[r]) \in Regions
    BY <1>1, <2>1, RegionFacts
  <2>3. deferred[r].remaining = Cardinality(deferred[r].requests)
    BY DEF CInv, DeferredIs, DeferredOk
  <2>4. WorkCells(r) \subseteq Regions
    BY <1>1, ScratchFacts
  <2>5. computing[r] \in BOOLEAN /\ pc[r] \in Places
    BY <1>1 DEF Typed
  <2> QED
    BY <1>1, <2>2, <2>3, <2>4, <2>5, Fields
<1>4. at \in [Ranks -> 0 .. LastStage]
  BY <1>1 DEF Typed
<1> QED
  BY <1>1, <1>2, <1>3, <1>4 DEF TypeOK, Places

LEMMA NoEntries ==
    ASSUME NEW S, NEW q \in Seq(S), Entries(q) = {}
    PROVE  q = <<>>
<1>1. \A i \in DOMAIN q : q[i] \in Entries(q)
  BY DEF Entries
<1>2. Len(q) \in Nat /\ DOMAIN q = 1 .. Len(q)
  BY LenProperties
<1>3. Len(q) = 0
  BY <1>1, <1>2
<1> QED
  BY <1>3, EmptySeq

LEMMA NothingFollows == CInv => NothingPending
<1> SUFFICES ASSUME CInv, NEW r \in Ranks
             PROVE  /\ pc[r] # "broken"
                    /\ pc[r] \in {"idle", "failed"} =>
                         /\ ~Active(r)
                         /\ ~setup.eager => \A t \in Ranks : sends[<<r, t>>] = <<>>
  BY DEF NothingPending
<1>1. pc[r] # "broken"
  BY DEF CInv, InPlace, StepsAt
<1>2. ASSUME pc[r] \in {"idle", "failed"} PROVE ~Active(r)
  BY <1>2 DEF CInv, DeferredIs, DeferredOk
<1>3. ASSUME pc[r] \in {"idle", "failed"}, ~setup.eager, NEW t \in Ranks
      PROVE  sends[<<r, t>>] = <<>>
  <2>1. Entries(sends[<<r, t>>]) = {}
    <3> SUFFICES ASSUME NEW m \in Entries(sends[<<r, t>>]) PROVE FALSE
      OBVIOUS
    <3>1. (pc[r] = "post" /\ at[r] = m.stage) \/ Deferring(r, t, m)
      BY <1>3 DEF CInv, SendsAre
    <3> QED
      BY <1>2, <1>3, <3>1 DEF Deferring
  <2> QED
    BY <2>1, NoEntries, Fields DEF CInv
<1> QED
  BY <1>1, <1>2, <1>3

\* A rank that is done with a redistribution has been sent all by its peers,
\* and they had asked for what it sent them.
LEMMA PeersAsked ==
    ASSUME CInv, NEW r \in Ranks, NEW d \in Exchanges, at[r] = d + 1, pc[r] # "post",
           NEW t \in Peers(r, d)
    PROVE  Asked(r, t, d)
<1>1. t \in Ranks /\ r \in Peers(t, d)
  BY Symmetric
<1>2. setup \in Setups /\ d \in Nat /\ setup.chunks \in Nat \ {0}
  BY StepFacts, SetupFacts DEF CInv, Typed
<1>3. 1 \in Chunks
  BY <1>2 DEF Chunks
<1>4. ~Wanted(t, r, d, 1)
  BY <1>1, QuietFacts DEF Wanted
<1>5. Asked(t, r, d)
  BY <1>2 DEF Asked
<1>6. Posted(t, r, d)
  BY <1>1, <1>3, <1>4, <1>5 DEF CInv, Matched
<1> QED
  BY <1>6 DEF Posted, Asked

LEMMA DrainFollows == CInv => DrainReady
<1> SUFFICES ASSUME CInv, NEW r \in Ranks, NEW t \in Ranks, NEW k \in DOMAIN sends[<<r, t>>],
                    Active(r), ~setup.eager
             PROVE  /\ k \in DOMAIN recvs[<<r, t>>]
                    /\ recvs[<<r, t>>][k].stage = sends[<<r, t>>][k].stage
  BY DEF DrainReady
<1> DEFINE s == sends[<<r, t>>]
           q == recvs[<<r, t>>]
           d == deferred[r].stage
           c == setup.chunks
<1>1. /\ pc[r] \in {"fft", "running", "probe", "drain", "failDrain"}
      /\ at[r] = d + 1 /\ d \in Exchanges
  BY DEF CInv, DeferredIs, DeferredOk
<1>2. \A m \in Entries(s) : m.stage = d /\ t \in Peers(r, d) /\ m.chunk \in Chunks
  BY <1>1 DEF CInv, SendsAre, Deferring
<1>3. /\ s \in Seq(SendRecords) /\ q \in Seq(RecvRecords) /\ setup \in Setups /\ c \in Nat
  BY Fields, SetupFacts DEF CInv
<1>4. /\ Len(s) \in Nat /\ DOMAIN s = 1 .. Len(s)
      /\ Len(q) \in Nat /\ DOMAIN q = 1 .. Len(q)
  BY <1>3, LenProperties
<1>5. \A i \in DOMAIN s : s[i] \in Entries(s)
  BY DEF Entries
<1>6. t \in Peers(r, d)
  BY <1>2, <1>5
<1>7. Posted(r, t, d) /\ Asked(r, t, d)
  <2>1. Posted(r, t, d)
    BY <1>2, <1>5 DEF CInv, SendsAre
  <2>2. Asked(r, t, d)
    BY <1>1, <1>6, PeersAsked
  <2> QED
    BY <2>1, <2>2
<1>8. \A m \in Entries(s) : Wanted(r, t, d, m.chunk)
  <2> SUFFICES ASSUME NEW m \in Entries(s) PROVE Wanted(r, t, d, m.chunk)
    OBVIOUS
  <2>1. Sent(r, t, d, m.chunk) /\ m.chunk \in Chunks
    BY <1>2 DEF Sent
  <2> QED
    BY <1>1, <1>6, <1>7, <2>1 DEF CInv, Matched
<1>9. at[t] = d
  <2>1. Wanted(r, t, d, s[k].chunk)
    BY <1>5, <1>8
  <2> QED
    BY <2>1 DEF CInv, RecvsAre, Wanted
<1>10. \A m \in Entries(q) : m.stage = d
  BY <1>9 DEF CInv, RecvsAre
<1>11. /\ \A i \in DOMAIN s : s[i].chunk = c - Len(s) + i
       /\ \A i \in DOMAIN q : q[i].chunk = c - Len(q) + i
  BY DEF CInv, InOrder, Suffix
<1>12. Len(s) <= Len(q)
  <2>1. 1 \in DOMAIN s
    BY <1>4
  <2>2. Wanted(r, t, d, s[1].chunk)
    BY <1>5, <1>8, <2>1
  <2>3. PICK j \in DOMAIN q : q[j].chunk = s[1].chunk
    BY <2>2 DEF Wanted, Entries
  <2>4. c - Len(q) + j = c - Len(s) + 1 /\ j >= 1
    BY <1>4, <1>11, <2>1, <2>3
  <2> HIDE DEF s, q, c
  <2> QED
    BY <1>3, <1>4, <2>4
<1>13. k \in DOMAIN q
  BY <1>4, <1>12
<1>14. q[k] \in Entries(q)
  BY <1>13 DEF Entries
<1> QED
  BY <1>2, <1>5, <1>10, <1>13, <1>14

\* Stages, requests, deferred sends and regions keep their types, for every grid,
\* every setup and any number of calls.
THEOREM TypeCorrect == Spec => []TypeOK
<1>1. CInv => TypeOK
  BY TypeFollows
<1> QED
  BY <1>1, RequestsCorrect, PTL

\* Outside a call, returned or left by an exception, no send is deferred and none
\* of the rank's memory is read by MPI; no check of the deferred sends throws.
THEOREM NothingPendingCorrect == Spec => []NothingPending
<1>1. CInv => NothingPending
  BY NothingFollows
<1> QED
  BY <1>1, RequestsCorrect, PTL

\* A deferred send that is still unmatched faces the receive it belongs to, so
\* that the drain after the FFT waits for MPI only.
THEOREM DrainReadyCorrect == Spec => []DrainReady
<1>1. CInv => DrainReady
  BY DrainFollows
<1> QED
  BY <1>1, RequestsCorrect, PTL

-----------------------------------------------------------------------------
(***************************************************************************)
(* Memory.                                                                 *)
(***************************************************************************)

\* Rank r writes c into a region x of its memory.
Put(r, x, c) == mem' = [mem EXCEPT ![r][x] = c]

LEMMA PutFacts ==
    ASSUME Typed, NEW r \in Ranks, NEW x \in Regions, NEW c \in Contents, Put(r, x, c)
    PROVE  /\ mem'[r][x] = c
           /\ \A y \in Regions \ {x} : mem'[r][y] = mem[r][y]
           /\ \A q \in Ranks \ {r} : mem'[q] = mem[q]
<1>1. mem[r] \in [Regions -> Contents] /\ mem \in [Ranks -> [Regions -> Contents]]
  BY DEF Typed
<1>2. mem'[r] = [mem[r] EXCEPT ![x] = c] /\ \A q \in Ranks \ {r} : mem'[q] = mem[q]
  BY <1>1 DEF Put
<1> QED
  BY <1>1, <1>2

LEMMA AddedFacts ==
    ASSUME NEW c \in Contents, NEW n, NEW parts
    PROVE  /\ Added(c, n, parts).what = n /\ parts \subseteq Added(c, n, parts).parts
           /\ c.what = n => c.parts \subseteq Added(c, n, parts).parts
  BY DEF Added, Contents

LEMMA FullWhole ==
    ASSUME NEW r \in Ranks, NEW n
    PROVE  Whole(r, Full(n), n)
  BY Symmetric DEF Whole, Full

\* Where the pending sends of a rank are read.
LEMMA SourceFacts ==
    ASSUME setup \in Setups, NEW r \in Ranks, NEW n \in Exchanges
    PROVE  /\ Source(r, n) \in Regions
           /\ Source(r, n) # Output(r, n) /\ Source(r, n) # Output(r, n + 1)
           /\ ~Lands(n) => Source(r, n) # RecvSlot
<1>1. n \in Stages /\ StepOf(n) \in {2, 4}
  BY StepFacts DEF Exchanges, IsExchange
<1> QED
  BY <1>1, RegionFacts DEF Source

LEMMA SendStages ==
    ASSUME CInv, NEW r \in Ranks, NEW t \in Ranks, NEW m \in Entries(sends[<<r, t>>]), ~setup.eager
    PROVE  /\ m.stage \in Exchanges /\ t \in Peers(r, m.stage)
           /\ \/ pc[r] = "post" /\ at[r] = m.stage
              \/ /\ pc[r] \in {"fft", "running", "probe", "drain", "failDrain"}
                 /\ at[r] = m.stage + 1 /\ setup.deferred
<1>1. /\ m.stage \in Exchanges /\ t \in Peers(r, m.stage)
      /\ (pc[r] = "post" /\ at[r] = m.stage) \/ Deferring(r, t, m)
  BY DEF CInv, SendsAre
<1>2. DeferredOk(r)
  BY DEF CInv, DeferredIs
<1>3. CASE Deferring(r, t, m)
  BY <1>1, <1>2, <1>3 DEF Deferring, DeferredOk
<1> QED
  BY <1>1, <1>3

\* A write elsewhere.
LEMMA IntactKept ==
    ASSUME setup' = setup, NEW r, NEW p, NEW n, mem'[r][Source(r, n)] = mem[r][Source(r, n)]
    PROVE  Intact(r, p, n)' <=> Intact(r, p, n)
<1>1. Source(r, n)' = Source(r, n) /\ Packed(n)' = Packed(n) /\ Chunks' = Chunks
      /\ \A c : Whole(r, c, n - 1)' = Whole(r, c, n - 1)
  BY SetupFixed
<1>2. mem[r][Source(r, n)]' = mem[r][Source(r, n)]
  BY <1>1
<1> QED
  BY <1>1, <1>2 DEF Intact

\* A step of another rank.
LEMMA OtherRank ==
    ASSUME NEW r \in Ranks, Right(r), setup' = setup, at'[r] = at[r], pc'[r] = pc[r],
           peers'[r] = peers[r], unwaited'[r] = unwaited[r], computing'[r] = computing[r],
           mem'[r] = mem[r],
           \A t \in Ranks : Entries(sends'[<<r, t>>]) \subseteq Entries(sends[<<r, t>>]),
           \A f \in Ranks : recvs'[<<f, r>>] = recvs[<<f, r>>]
    PROVE  Right(r)'
<1>1. /\ Chunks' = Chunks /\ \A n : /\ Input(r, n)' = Input(r, n) /\ Output(r, n)' = Output(r, n)
                                    /\ Peers(r, n)' = Peers(r, n) /\ Lands(n)' = Lands(n)
      /\ \A c, n : Whole(r, c, n)' = Whole(r, c, n)
  BY SetupFixed
<1>2. InputWhole(r)' /\ RunsWhole(r)' /\ OutputWhole(r)'
  BY <1>1 DEF Right, InputWhole, RunsWhole, OutputWhole
<1>3. SendsGood(r)'
  <2> SUFFICES ASSUME NEW t \in Ranks, NEW m \in Entries(sends[<<r, t>>])'
               PROVE  IF setup.eager THEN m.good ELSE Intact(r, t, m.stage)'
    BY DEF SendsGood
  <2>1. m \in Entries(sends[<<r, t>>])
    BY DEF Entries
  <2>2. Intact(r, t, m.stage)' <=> Intact(r, t, m.stage)
    BY IntactKept
  <2> QED
    BY <2>1, <2>2 DEF Right, SendsGood
<1>4. Arrived(r)'
  <2>1. \A f : Asked(f, r, at[r])' = Asked(f, r, at[r])
    BY DEF Asked, Left
  <2>2. \A f \in Ranks : \A k : Wanted(f, r, at[r], k)' = Wanted(f, r, at[r], k)
    BY DEF Wanted
  <2>3. \A f : PlaceOf(f, r)' = PlaceOf(f, r)
    BY <1>1 DEF PlaceOf, RecvSlot
  <2>4. Peers(r, at[r]) \subseteq Ranks
    BY Symmetric
  <2> QED
    BY <1>1, <2>1, <2>2, <2>3, <2>4 DEF Right, Arrived
<1> QED
  BY <1>2, <1>3, <1>4 DEF Right

\* The FFTs: outside a redistribution only stages are written.
LEMMA NotPosting ==
    ASSUME NEW r \in Ranks, pc'[r] # "post"
    PROVE  Arrived(r)'
  BY DEF Arrived

LEMMA DataLocal ==
    ASSUME ScratchClear, CInv, DInv, NEW r \in Ranks, StartOrFft(r)
    PROVE  Right(r)'
<1> DEFINE n == at[r]
<1>1. /\ Typed /\ setup \in Setups /\ setup' = setup /\ sends' = sends
      /\ n \in 0 .. LastStage /\ n \in Nat /\ LastStage \in Nat /\ StepOf(n) \in StepsAt(pc[r])
      /\ pc[r] # "post" /\ pc'[r] # "post" /\ Right(r)
  BY Fields, LocalFft DEF CInv, InPlace, Local, DInv
<1>2. /\ \A x : /\ Input(r, x)' = Input(r, x) /\ Output(r, x)' = Output(r, x)
      /\ \A c, x : Whole(r, c, x)' = Whole(r, c, x)
  BY <1>1, SetupFixed
<1>3. Arrived(r)'
  BY <1>1, NotPosting
\* The pending sends are those of the redistribution before this FFT.
<1>4. ASSUME \A d \in Exchanges : n = d + 1 /\ setup.deferred /\ ~setup.eager
                /\ pc[r] \in {"fft", "running"} => mem'[r][Source(r, d)] = mem[r][Source(r, d)]
      PROVE  SendsGood(r)'
  <2> SUFFICES ASSUME NEW t \in Ranks, NEW m \in Entries(sends[<<r, t>>])
               PROVE  IF setup.eager THEN m.good ELSE Intact(r, t, m.stage)'
    BY <1>1 DEF SendsGood
  <2>1. IF setup.eager THEN m.good ELSE Intact(r, t, m.stage)
    BY <1>1 DEF Right, SendsGood
  <2>2. ASSUME ~setup.eager PROVE Intact(r, t, m.stage)' <=> Intact(r, t, m.stage)
    <3>1. m.stage \in Exchanges /\ n = m.stage + 1 /\ setup.deferred
          /\ pc[r] \in {"fft", "running", "probe", "drain", "failDrain"}
      BY <1>1, <2>2, SendStages
    <3>2. pc[r] \in {"fft", "running"}
      BY <3>1 DEF StartOrFft, StartCall, FftStart, FftEnd, FftFails
    <3>3. mem'[r][Source(r, m.stage)] = mem[r][Source(r, m.stage)]
      BY <1>4, <2>2, <3>1, <3>2
    <3> QED
      BY <1>1, <3>3, IntactKept
  <2> QED
    BY <2>1, <2>2
<1>5. \A d \in Exchanges : n = d + 1 =>
        /\ Source(r, d) \in Regions /\ Source(r, d) # Output(r, n)
        /\ setup.deferred /\ ~setup.eager => Source(r, d) \notin WorkCells(r)
  BY <1>1, SourceFacts, ClearFacts
<1>6. CASE StartCall(r)
  <2>1. /\ pc[r] = "idle" /\ n < LastStage /\ GoTo(r, n + 1, "fft")
        /\ mem' = [mem EXCEPT ![r][Input(r, n + 1)] = Full(n)]
    BY <1>6 DEF StartCall
  <2>2. n + 1 \in Stages /\ at'[r] = n + 1 /\ pc'[r] = "fft"
    BY <1>1, <2>1 DEF GoTo, Typed, Stages
  <2>3. Input(r, n + 1) \in Regions
    BY <1>1, <2>2, RegionFacts
  <2>4. mem'[r][Input(r, n + 1)] = Full(n)
    <3> DEFINE x == Input(r, n + 1)
               c == Full(n)
    <3>1. x \in Regions /\ Put(r, x, c) /\ c \in Contents
      BY <1>1, <2>1, <2>3, FullType DEF Put
    <3> HIDE DEF x, c
    <3>2. mem'[r][x] = c
      <4>1. Typed
        BY <1>1
      <4> QED
        BY <3>1, <4>1, PutFacts
    <3> QED
      BY <3>2 DEF x, c
  <2>5. Whole(r, Full(n), n) /\ (n + 1) - 1 = n
    BY <1>1, FullWhole
  <2>6. InputWhole(r)'
    <3>1. Input(r, at[r])' = Input(r, n + 1)
      BY <1>2, <2>2
    <3>2. mem'[r][Input(r, at[r])'] = Full(n)
      BY <2>4, <3>1
    <3> HIDE DEF n
    <3>3. Whole(r, mem[r][Input(r, at[r])], at[r] - 1)' <=> Whole(r, Full(n), n)
      BY <1>2, <2>2, <2>5, <3>2
    <3> QED
      BY <2>5, <3>3 DEF InputWhole
  <2> QED
    BY <1>3, <1>4, <2>1, <2>2, <2>6 DEF Right, RunsWhole, OutputWhole
<1>7. ASSUME pc[r] \in {"fft", "running"} PROVE n \in Stages /\ StepOf(n) \in {1, 3, 5}
  <2>1. StepOf(n) \in {1, 3, 5}
    BY <1>1, <1>7 DEF StepsAt
  <2> QED
    BY <1>1, <2>1, StepFacts DEF Stages
<1>8. CASE FftStart(r)
  <2>1. /\ pc[r] = "fft" /\ at' = at /\ pc' = [pc EXCEPT ![r] = "running"]
        /\ computing' = [computing EXCEPT ![r] =
                           /\ Whole(r, mem[r][Input(r, n)], n - 1)
                           /\ {Input(r, n), Output(r, n)} \cap WorkCells(r) = {}]
        /\ mem' = [mem EXCEPT ![r] = [x \in Regions |->
                     IF x = Output(r, n) \/ x \in WorkCells(r) THEN Junk ELSE mem[r][x]]]
    BY <1>8 DEF FftStart
  <2>2. Input(r, n) \notin WorkCells(r) /\ Output(r, n) \notin WorkCells(r)
    BY <1>1, <1>7, <2>1, RegionFacts
  <2>3. Whole(r, mem[r][Input(r, n)], n - 1)
    BY <1>1, <2>1 DEF Right, InputWhole
  <2>4. computing'[r]
    BY <1>1, <2>1, <2>2, <2>3 DEF Typed
  <2>5. pc'[r] = "running"
    BY <1>1, <2>1 DEF Typed
  <2>6. \A x \in Regions : x # Output(r, n) /\ x \notin WorkCells(r) => mem'[r][x] = mem[r][x]
    BY <1>1, <2>1 DEF Typed
  <2>7. SendsGood(r)'
    BY <1>4, <1>5, <2>6
  <2> QED
    BY <1>3, <2>4, <2>5, <2>7 DEF Right, InputWhole, RunsWhole, OutputWhole
<1>9. CASE FftEnd(r)
  <2>1. /\ pc[r] = "running" /\ computing[r]
        /\ mem' = [mem EXCEPT ![r][Output(r, n)] = Full(n)]
        /\ IF StepOf(n) = 1 THEN GoTo(r, n + 1, "exchange") ELSE GoTo(r, n, "probe")
    BY <1>1, <1>9 DEF FftEnd, Right, RunsWhole
  <2>2. Output(r, n) \in Regions
    BY <1>1, <1>7, <2>1, RegionFacts
  <2>3. mem'[r][Output(r, n)] = Full(n) /\ \A x \in Regions \ {Output(r, n)} : mem'[r][x] = mem[r][x]
    <3> DEFINE x == Output(r, n)
               c == Full(n)
    <3>1. x \in Regions /\ Put(r, x, c) /\ c \in Contents
      BY <1>1, <2>1, <2>2, FullType DEF Put
    <3> HIDE DEF x, c
    <3>2. mem'[r][x] = c /\ \A y \in Regions \ {x} : mem'[r][y] = mem[r][y]
      <4>1. Typed
        BY <1>1
      <4> QED
        BY <3>1, <4>1, PutFacts
    <3> QED
      BY <3>2 DEF x, c
  <2>4. SendsGood(r)'
    BY <1>4, <1>5, <2>3
  <2>5. Whole(r, Full(n), n)
    BY FullWhole
  <2>6. CASE StepOf(n) = 1
    <3>1. at'[r] = n + 1 /\ pc'[r] = "exchange" /\ (n + 1) - 1 = n
      BY <1>1, <2>1, <2>6 DEF GoTo, Typed
    <3>2. Input(r, n + 1) = Output(r, n)
      BY <1>1, <1>7, <2>1, <2>6, RegionFacts
    <3>3. InputWhole(r)'
      <4>1. Input(r, at[r])' = Output(r, n)
        BY <1>2, <3>1, <3>2
      <4>2. mem'[r][Input(r, at[r])'] = Full(n)
        BY <2>3, <4>1
      <4> HIDE DEF n
      <4>3. Whole(r, mem[r][Input(r, at[r])], at[r] - 1)' <=> Whole(r, Full(n), n)
        BY <1>2, <3>1, <4>2
      <4> QED
        BY <2>5, <4>3 DEF InputWhole
    <3> QED
      BY <1>3, <2>4, <3>1, <3>3 DEF Right, RunsWhole, OutputWhole
  <2>7. CASE StepOf(n) # 1
    <3>1. at'[r] = n /\ pc'[r] = "probe"
      BY <1>1, <2>1, <2>7 DEF GoTo, Typed
    <3>2. OutputWhole(r)'
      <4>1. Output(r, at[r])' = Output(r, n)
        BY <1>2, <3>1
      <4>2. mem'[r][Output(r, at[r])'] = Full(n)
        BY <2>3, <4>1
      <4> HIDE DEF n
      <4>3. Whole(r, mem[r][Output(r, at[r])], at[r])' <=> Whole(r, Full(n), n)
        BY <1>2, <3>1, <4>2
      <4> QED
        BY <2>5, <4>3 DEF OutputWhole
    <3> QED
      BY <1>3, <2>4, <3>1, <3>2 DEF Right, RunsWhole, InputWhole
  <2> QED
    BY <2>6, <2>7
<1>10. CASE FftFails(r)
  <2>1. mem' = mem /\ pc'[r] \in {"failed", "failDrain"}
    BY <1>1, <1>10 DEF FftFails, Typed
  <2> QED
    BY <1>3, <1>4, <2>1 DEF Right, InputWhole, RunsWhole, OutputWhole
<1> QED
  BY <1>6, <1>8, <1>9, <1>10 DEF StartOrFft

LEMMA DataFinish ==
    ASSUME CInv, DInv, NEW r \in Ranks, Finishing(r)
    PROVE  Right(r)'
<1> DEFINE n == at[r]
<1>1. /\ Typed /\ setup \in Setups /\ setup' = setup /\ sends' = sends /\ mem' = mem
      /\ n \in 0 .. LastStage /\ n \in Nat /\ StepOf(n) \in StepsAt(pc[r])
      /\ pc[r] \in {"probe", "drain", "failDrain"} /\ pc'[r] # "post" /\ Right(r)
      /\ InPlace /\ DeferredOk(r)
  BY Fields, LocalFinish DEF CInv, InPlace, Local, DInv, DeferredIs
<1>2. /\ \A x : /\ Input(r, x)' = Input(r, x) /\ Output(r, x)' = Output(r, x)
      /\ \A c, x : Whole(r, c, x)' = Whole(r, c, x)
  BY <1>1, SetupFixed
<1>3. Arrived(r)'
  BY <1>1, NotPosting
<1>4. SendsGood(r)'
  <2> SUFFICES ASSUME NEW t \in Ranks, NEW m \in Entries(sends[<<r, t>>])
               PROVE  IF setup.eager THEN m.good ELSE Intact(r, t, m.stage)'
    BY <1>1 DEF SendsGood
  <2>1. Intact(r, t, m.stage)' <=> Intact(r, t, m.stage)
    BY <1>1, IntactKept
  <2> QED
    BY <1>1, <2>1 DEF Right, SendsGood
<1>5. n \in Stages /\ StepOf(n) \in {3, 5}
  <2>1. StepOf(n) \in {3, 5}
    BY <1>1 DEF StepsAt
  <2> QED
    BY <1>1, <2>1, StepFacts DEF Stages
<1>6. CASE pc[r] \in {"probe", "drain"}
  <2>1. Whole(r, mem[r][Output(r, n)], n)
    BY <1>1, <1>5, <1>6 DEF Right, OutputWhole, Stages
  <2>2. \/ at'[r] = n /\ pc'[r] \in {"probe", "drain", "idle", "broken"}
        \/ at'[r] = n + 1 /\ pc'[r] = "exchange" /\ StepOf(n) = 3
    <3>1. CASE AfterFft(r)
      BY <1>1, <1>5, <3>1, AfterFftFacts
    <3>2. CASE ~AfterFft(r)
      <4>1. Probe(r)
        BY <1>6, <3>2 DEF Finishing, Drain, FailDrain
      <4>2. GoTo(r, n, "broken") \/ GoTo(r, n, "drain") \/ (at' = at /\ pc' = pc)
        BY <3>2, <4>1 DEF Probe
      <4> QED
        BY <1>1, <1>6, <4>2 DEF GoTo, Typed
    <3> QED
      BY <3>1, <3>2
  <2>3. CASE at'[r] = n /\ pc'[r] \in {"probe", "drain", "idle", "broken"}
    <3>1. OutputWhole(r)'
      BY <1>1, <1>2, <2>1, <2>3 DEF OutputWhole
    <3> QED
      BY <1>3, <1>4, <2>3, <3>1 DEF Right, InputWhole, RunsWhole
  <2>4. CASE at'[r] = n + 1 /\ pc'[r] = "exchange" /\ StepOf(n) = 3
    <3>1. Input(r, n + 1) = Output(r, n) /\ (n + 1) - 1 = n
      BY <1>1, <1>5, <2>4, RegionFacts
    <3>2. InputWhole(r)'
      BY <1>1, <1>2, <2>1, <2>4, <3>1 DEF InputWhole
    <3> QED
      BY <1>3, <1>4, <2>4, <3>2 DEF Right, OutputWhole, RunsWhole
  <2> QED
    BY <2>2, <2>3, <2>4
<1>7. CASE pc[r] = "failDrain"
  <2>1. pc'[r] = "failed"
    BY <1>1, <1>7 DEF Finishing, Probe, Drain, FailDrain, GoTo, Typed
  <2> QED
    BY <1>3, <1>4, <2>1 DEF Right, InputWhole, OutputWhole, RunsWhole
<1> QED
  BY <1>1, <1>6, <1>7

LEMMA DataEnter ==
    ASSUME CInv, DInv, NEW r \in Ranks, EnterExchange(r)
    PROVE  Right(r)'
<1> DEFINE n == at[r]
<1>1. /\ Typed /\ setup \in Setups /\ n \in Nat /\ Right(r)
  BY Fields DEF CInv, DInv
<1>2. /\ n \in Exchanges /\ pc[r] = "exchange" /\ setup' = setup
      /\ UNCHANGED <<at, sends, mem>> /\ pc'[r] = "post"
      /\ peers'[r] = PeerOrder(r, n)
      /\ \A f \in Peers(r, n) : f \in Ranks /\ (~setup.paired => recvs'[<<f, r>>] = Requests(n))
  <2>1. Peers(r, n) \subseteq Ranks
    BY Symmetric
  <2>2. /\ n \in Exchanges /\ pc[r] = "exchange"
        /\ UNCHANGED <<setup, at, landed, deferred, computing, sends, mem>>
    BY EnterFacts
  <2>3. pc'[r] = "post" /\ peers'[r] = PeerOrder(r, n)
    <3>1. pc' = [pc EXCEPT ![r] = "post"] /\ peers' = [peers EXCEPT ![r] = PeerOrder(r, n)]
      BY EnterFacts
    <3> QED
      BY <1>1, <3>1 DEF Typed
  <2>4. recvs' = [c \in Ranks \X Ranks |->
                    IF ~setup.paired /\ c[2] = r /\ c[1] \in Peers(r, n)
                    THEN Requests(n) ELSE recvs[c]]
    BY EnterFacts
  <2>5. \A f \in Peers(r, n) : f \in Ranks /\ (~setup.paired => recvs'[<<f, r>>] = Requests(n))
    BY <2>1, <2>4
  <2> QED
    BY <2>2, <2>3, <2>5
<1>3. /\ \A x : /\ Input(r, x)' = Input(r, x) /\ Output(r, x)' = Output(r, x)
                /\ Peers(r, x)' = Peers(r, x)
      /\ \A c, x : Whole(r, c, x)' = Whole(r, c, x)
      /\ Chunks' = Chunks
  BY <1>2, SetupFixed
<1>4. InputWhole(r)'
  BY <1>1, <1>2, <1>3 DEF Right, InputWhole
<1>5. SendsGood(r)'
  <2> SUFFICES ASSUME NEW t \in Ranks, NEW m \in Entries(sends[<<r, t>>])
               PROVE  IF setup.eager THEN m.good ELSE Intact(r, t, m.stage)'
    BY <1>2 DEF SendsGood
  <2>1. Intact(r, t, m.stage)' <=> Intact(r, t, m.stage)
    BY <1>2, IntactKept
  <2> QED
    BY <1>1, <2>1 DEF Right, SendsGood
<1>6. Arrived(r)'
  <2> SUFFICES ASSUME NEW f \in Peers(r, n), NEW k \in Chunks, Asked(f, r, at[r])'
               PROVE  Wanted(f, r, at[r], k)'
    BY <1>2, <1>3 DEF Arrived
  <2>1. f \in Left(r)'
    BY <1>2 DEF Left, Entries, Peers
  <2>2. ~setup.paired
    BY <1>1, <1>2, <2>1 DEF Asked
  <2>3. Entries(recvs'[<<f, r>>]) = {[stage |-> n, chunk |-> j] : j \in Chunks}
    BY <1>1, <1>2, <2>2, NewRequests
  <2>4. [stage |-> n, chunk |-> k] \in Entries(recvs'[<<f, r>>])
    BY <2>3
  <2> QED
    BY <1>2, <2>4 DEF Wanted, Entries
<1> QED
  BY <1>2, <1>4, <1>5, <1>6 DEF Right, RunsWhole, OutputWhole

LEMMA DataPost ==
    ASSUME CInv, DInv, NEW r \in Ranks, PostPeer(r)
    PROVE  Right(r)'
<1> DEFINE n == at[r]
           p == Head(peers[r])
           good == GoodPost(r, p)
           c == Added(mem[r][SendSlot], n, {p} \X Chunks)
<1>1. /\ Typed /\ setup \in Setups /\ n \in Nat /\ Right(r)
  BY Fields DEF CInv, DInv
<1>2. /\ n \in Exchanges /\ pc[r] = "post" /\ setup' = setup
      /\ UNCHANGED <<at, pc, unwaited, computing>>
      /\ p \in Ranks /\ p # r /\ p \in Peers(r, n)
      /\ Left(r)' = Left(r) \ {p}
      /\ mem' = IF Packed(n) /\ Whole(r, mem[r][Input(r, n)], n - 1)
                THEN [mem EXCEPT ![r][SendSlot] = c] ELSE mem
  BY PostFacts
<1>3. n \in Stages /\ StepOf(n) \in {2, 4}
  BY <1>2, PostStage
<1>4. /\ \A x : /\ Input(r, x)' = Input(r, x) /\ Output(r, x)' = Output(r, x)
                /\ Peers(r, x)' = Peers(r, x) /\ Lands(x)' = Lands(x)
      /\ \A a, x : Whole(r, a, x)' = Whole(r, a, x)
      /\ Chunks' = Chunks
  BY <1>2, SetupFixed
<1>5. Whole(r, mem[r][Input(r, n)], n - 1)
  BY <1>1, <1>2 DEF Right, InputWhole
<1>6. /\ SendSlot \in Regions /\ Input(r, n) # SendSlot /\ Output(r, n) # SendSlot
      /\ RecvSlot # SendSlot /\ Input(r, n) \in Regions /\ Output(r, n) \in Regions
      /\ RecvSlot \in Regions
  BY <1>1, <1>3, RegionFacts
<1>7. c \in Contents /\ c.what = n /\ {p} \X Chunks \subseteq c.parts
      /\ (mem[r][SendSlot].what = n => mem[r][SendSlot].parts \subseteq c.parts)
  <2> DEFINE a == mem[r][SendSlot]
             s == {p} \X Chunks
  <2>1. a \in Contents /\ s \in SUBSET (Ranks \X Chunks)
    BY <1>1, <1>2, <1>6, Fields
  <2> HIDE DEF a, s
  <2>2. Added(a, n, s) \in Contents
    BY <1>1, <2>1, AddedType
  <2>3. /\ Added(a, n, s).what = n /\ s \subseteq Added(a, n, s).parts
        /\ a.what = n => a.parts \subseteq Added(a, n, s).parts
    BY <2>1, AddedFacts
  <2> QED
    BY <2>2, <2>3 DEF a, s
<1> HIDE DEF c
<1>8. /\ \A x \in Regions \ {SendSlot} : mem'[r][x] = mem[r][x]
      /\ Packed(n) => mem'[r][SendSlot] = c
      /\ ~Packed(n) => mem' = mem
  <2>1. CASE Packed(n)
    <3>1. mem' = [mem EXCEPT ![r][SendSlot] = c]
      BY <1>2, <1>5, <2>1
    <3>2. Typed /\ SendSlot \in Regions /\ c \in Contents
      BY <1>1, <1>6, <1>7
    <3> DEFINE x == SendSlot
    <3>3. x \in Regions /\ Put(r, x, c)
      BY <3>1, <3>2 DEF Put
    <3> HIDE DEF x
    <3>4. mem'[r][x] = c /\ \A y \in Regions \ {x} : mem'[r][y] = mem[r][y]
      BY <3>2, <3>3, PutFacts
    <3> QED
      BY <2>1, <3>4 DEF x
  <2>2. CASE ~Packed(n)
    BY <1>2, <2>2
  <2> QED
    BY <2>1, <2>2
<1>9. InputWhole(r)'
  <2>1. mem'[r][Input(r, n)] = mem[r][Input(r, n)]
    BY <1>6, <1>8
  <2> QED
    BY <1>2, <1>4, <1>5, <2>1 DEF InputWhole
<1>10. good
  <2>1. CASE Packed(n)
    BY <1>5, <2>1 DEF GoodPost
  <2>2. CASE ~Packed(n)
    BY <1>5, <2>2 DEF GoodPost, Intact, Source
  <2> QED
    BY <2>1, <2>2
<1> HIDE DEF good
<1>11. /\ \A t \in Ranks \ {p} : sends'[<<r, t>>] = sends[<<r, t>>]
       /\ Entries(sends'[<<r, p>>]) =
            Entries(sends[<<r, p>>]) \cup {[stage |-> n, chunk |-> k, good |-> good] : k \in Chunks}
  <2> DEFINE a == sends[<<r, p>>]
             b == Parcels(n, good)
  <2>1. a \in Seq(SendRecords) /\ b \in Seq(SendRecords)
        /\ Entries(b) = {[stage |-> n, chunk |-> k, good |-> good] : k \in Chunks}
    BY <1>1, <1>2, Fields, NewParcels, GoodIsBoolean DEF good
  <2>2. sends' = [sends EXCEPT ![<<r, p>>] = a \o b]
    BY PostFacts DEF good
  <2> HIDE DEF a, b
  <2>3. Entries(a \o b) = Entries(a) \cup Entries(b)
    BY <2>1, JoinQueue
  <2>4. sends \in [Ranks \X Ranks -> Seq(SendRecords)]
    BY <1>1 DEF Typed
  <2>5. sends'[<<r, p>>] = a \o b /\ \A t \in Ranks \ {p} : sends'[<<r, t>>] = sends[<<r, t>>]
    BY <1>2, <2>2, <2>4
  <2> QED
    BY <2>1, <2>3, <2>5 DEF a
<1>12. ASSUME NEW t \in Ranks, NEW m \in Entries(sends'[<<r, t>>])
       PROVE  \/ m \in Entries(sends[<<r, t>>])
              \/ t = p /\ m.stage = n /\ m.good
  <2>1. CASE m \in Entries(sends[<<r, t>>])
    BY <2>1
  <2>2. CASE m \notin Entries(sends[<<r, t>>])
    <3>1. t = p /\ m \in {[stage |-> n, chunk |-> k, good |-> good] : k \in Chunks}
      BY <1>11, <2>2
    <3>2. m.stage = n /\ m.good = good
      BY <3>1
    <3> QED
      BY <1>10, <3>1, <3>2
  <2> QED
    BY <2>1, <2>2
\* What is sent to a peer is intact when it was, or when it has just been posted.
<1>13. ASSUME NEW t \in Ranks, NEW x, x = n, t = p \/ Intact(r, t, x)
       PROVE  Intact(r, t, x)'
  <2>1. Source(r, x)' = Source(r, x) /\ Packed(x)' = Packed(x) /\ Chunks' = Chunks
        /\ \A a : Whole(r, a, x - 1)' = Whole(r, a, x - 1)
    BY <1>2, SetupFixed
  <2>2. CASE Packed(x)
    <3>1. Source(r, x) = SendSlot /\ mem'[r][SendSlot] = c
      BY <1>8, <1>13, <2>2 DEF Source
    <3>2. {t} \X Chunks \subseteq c.parts /\ c.what = x
      <4>1. CASE t = p
        BY <1>7, <1>13, <4>1
      <4>2. CASE Intact(r, t, x)
        BY <1>7, <1>13, <2>2, <3>1, <4>2 DEF Intact
      <4> QED
        BY <1>13, <4>1, <4>2
    <3>3. mem[r][Source(r, x)]' = c
      BY <2>1, <3>1
    <3> QED
      BY <2>1, <2>2, <3>2, <3>3 DEF Intact
  <2>3. CASE ~Packed(x)
    <3>1. Source(r, x) = Input(r, x) /\ mem' = mem
      BY <1>8, <1>13, <2>3 DEF Source
    <3>2. mem[r][Source(r, x)]' = mem[r][Input(r, x)]
      BY <2>1, <3>1
    <3>3. Whole(r, mem[r][Input(r, x)], x - 1)
      BY <1>5, <1>13
    <3> QED
      BY <2>1, <2>3, <3>2, <3>3 DEF Intact
  <2> QED
    BY <2>2, <2>3
<1>14. SendsGood(r)'
  <2> SUFFICES ASSUME NEW t \in Ranks, NEW m \in Entries(sends[<<r, t>>])'
               PROVE  IF setup.eager THEN m.good ELSE Intact(r, t, m.stage)'
    BY <1>2 DEF SendsGood
  <2>1. m \in Entries(sends'[<<r, t>>])
    BY DEF Entries
  <2>2. m \in Entries(sends[<<r, t>>]) => IF setup.eager THEN m.good ELSE Intact(r, t, m.stage)
    BY <1>1 DEF Right, SendsGood
  <2>3. CASE setup.eager
    BY <1>12, <2>1, <2>2, <2>3
  <2>4. CASE ~setup.eager
    <3>1. m.stage = n
      BY <1>2, <1>12, <2>1, <2>4, SendStages
    <3>2. t = p \/ Intact(r, t, m.stage)
      BY <1>12, <2>1, <2>2, <2>4
    <3>3. Intact(r, t, m.stage)'
      BY <1>13, <3>1, <3>2
    <3> QED
      BY <2>4, <3>3
  <2> QED
    BY <2>3, <2>4
<1>15. Arrived(r)'
  <2> SUFFICES ASSUME NEW f \in Peers(r, n), NEW k \in Chunks,
                      Asked(f, r, at[r])', ~Wanted(f, r, at[r], k)'
               PROVE  /\ mem'[r][PlaceOf(f, r)].what = n
                      /\ <<f, k>> \in mem'[r][PlaceOf(f, r)].parts
    <3>1. \A f : PlaceOf(f, r)' = PlaceOf(f, r)
      BY <1>2, <1>4 DEF PlaceOf, RecvSlot
    <3> QED
      BY <1>2, <1>4, <3>1 DEF Arrived
  <2>1. f \in Ranks
    BY Symmetric
  <2>2. setup.paired /\ f = p => Wanted(f, r, at[r], k)'
    <3> SUFFICES ASSUME setup.paired, f = p PROVE Wanted(f, r, at[r], k)'
      OBVIOUS
    <3> DEFINE a == recvs[<<p, r>>]
               b == Requests(n)
    <3>1. a \in Seq(RecvRecords) /\ b \in Seq(RecvRecords)
          /\ Entries(b) = {[stage |-> n, chunk |-> j] : j \in Chunks}
      BY <1>1, <1>2, Fields, NewRequests
    <3>2. recvs' = [recvs EXCEPT ![<<p, r>>] = a \o b]
      BY PostFacts
    <3> HIDE DEF a, b
    <3>3. Entries(a \o b) = Entries(a) \cup Entries(b)
      BY <3>1, JoinQueue
    <3>4. recvs'[<<p, r>>] = a \o b
      BY <1>1, <1>2, <3>2 DEF Typed
    <3>5. [stage |-> n, chunk |-> k] \in Entries(recvs'[<<f, r>>])
      BY <3>1, <3>3, <3>4
    <3> QED
      BY <1>2, <3>5 DEF Wanted, Entries
  <2>3. ~(setup.paired /\ f = p)
    BY <2>2
  <2>4. recvs'[<<f, r>>] = recvs[<<f, r>>]
    <3>1. CASE ~setup.paired
      BY <3>1, PostFacts
    <3>2. CASE setup.paired /\ f # p
      <4> DEFINE w == recvs[<<p, r>>] \o Requests(n)
      <4>1. recvs' = [recvs EXCEPT ![<<p, r>>] = w]
        BY <3>2, PostFacts
      <4> HIDE DEF w
      <4>2. <<f, r>> # <<p, r>> /\ <<f, r>> \in Ranks \X Ranks
        BY <2>1, <3>2
      <4> QED
        BY <1>1, <4>1, <4>2 DEF Typed
    <3> QED
      BY <2>3, <3>1, <3>2
  <2>5. Asked(f, r, n) /\ ~Wanted(f, r, n, k)
    BY <1>2, <2>3, <2>4 DEF Asked, Wanted
  <2>6. mem[r][PlaceOf(f, r)].what = n /\ <<f, k>> \in mem[r][PlaceOf(f, r)].parts
    BY <1>1, <1>2, <2>5 DEF Right, Arrived
  <2>7. PlaceOf(f, r) \in Regions \ {SendSlot}
    BY <1>6 DEF PlaceOf
  <2> QED
    BY <1>8, <2>6, <2>7
<1> QED
  BY <1>2, <1>9, <1>14, <1>15 DEF Right, RunsWhole, OutputWhole

\* What arrived is waited for and, unless it landed in place, copied to the stage.
LEMMA DataTaking ==
    ASSUME CInv, DInv, NEW r \in Ranks, Taking(r)
    PROVE  Right(r)'
<1> DEFINE n == at[r]
           out == Output(r, n)
           old == mem[r][out]
           buf == mem[r][RecvSlot]
           have == IF buf.what = n THEN buf.parts ELSE {}
           part(from) == have \cap (from \X Chunks)
           c(from) == Added(old, n, part(from))
<1>1. /\ Typed /\ setup \in Setups /\ Right(r) /\ setup' = setup
      /\ UNCHANGED <<at, pc, peers, computing, sends, recvs>> /\ pc[r] = "post"
  BY Fields, TakingFacts DEF CInv, DInv
<1>2. n \in Exchanges /\ n \in Stages /\ StepOf(n) \in {2, 4} /\ n \in Int
  BY <1>1, PostStage, Fields
<1>3. /\ \A x : /\ Input(r, x)' = Input(r, x) /\ Output(r, x)' = Output(r, x)
                /\ Peers(r, x)' = Peers(r, x) /\ Lands(x)' = Lands(x)
      /\ \A a, x : Whole(r, a, x)' = Whole(r, a, x)
      /\ Chunks' = Chunks
  BY <1>1, SetupFixed
<1>4. /\ out \in Regions /\ RecvSlot \in Regions /\ Input(r, n) \in Regions
      /\ Input(r, n) # out
      /\ ~Lands(n) => out # RecvSlot
      /\ Source(r, n) \in Regions /\ Source(r, n) # out
  BY <1>1, <1>2, RegionFacts, SourceFacts
<1>5. old \in Contents
  BY <1>1, <1>4, Fields
\* Whose chunks are copied, and who is waited for in full.
<1>6. \E from \in SUBSET Peers(r, n) :
        /\ mem' = mem \/ mem' = Unpacked(r, n, from)
        /\ ~Lands(n) => \A f \in from : unwaited[r][f] # 0
        /\ ~Lands(n) /\ from # {} => mem' = Unpacked(r, n, from)
        /\ \A f \in Peers(r, n) :
             IF f \in from THEN unwaited'[r][f] = 0
             ELSE unwaited'[r][f] = 0 <=> unwaited[r][f] = 0
        /\ Lands(n) => mem' = mem
  <2>1. unwaited \in [Ranks -> [Ranks -> Int]] /\ Peers(r, n) \subseteq Ranks
    BY <1>1, Symmetric DEF Typed
  <2>2. ASSUME NEW q \in landed[r] PROVE q[1] \in Peers(r, n) /\ unwaited[r][q[1]] # 0
    <3>1. q[1] \in Peers(r, n) /\ q \in Ranks \X Chunks
      BY <1>1, Fields DEF CInv, LandedAre
    <3>2. q = <<q[1], q[2]>> /\ q[2] \in Chunks
      BY <3>1
    <3>3. unwaited[r][q[1]] # 0
      BY <1>1, <3>1, <3>2, NoneDue
    <3> QED
      BY <3>1, <3>3
  <2>3. CASE WaitAny(r)
    <3>1. PICK q \in landed[r] :
            /\ unwaited' = [unwaited EXCEPT ![r][q[1]] = unwaited[r][q[1]] - 1]
            /\ mem' = IF unwaited[r][q[1]] - 1 = 0 /\ ~Lands(n) THEN Unpacked(r, n, {q[1]}) ELSE mem
      BY <2>3 DEF WaitAny, UnpackNow
    <3> DEFINE p == q[1]
               left == unwaited[r][p] - 1
    <3>2. p \in Peers(r, n) /\ p \in Ranks /\ unwaited[r][p] # 0
      BY <2>1, <2>2
    <3>3. unwaited'[r][p] = left /\ \A f \in Ranks \ {p} : unwaited'[r][f] = unwaited[r][f]
      BY <2>1, <3>1, <3>2
    <3> HIDE DEF left
    <3>4. CASE left = 0
      <4> DEFINE from == {p}
      <4>1. from \in SUBSET Peers(r, n)
        BY <3>2
      <4>2. mem' = mem \/ mem' = Unpacked(r, n, from)
        BY <3>1
      <4>3. ~Lands(n) => mem' = Unpacked(r, n, from)
        BY <3>1, <3>4 DEF left
      <4>4. Lands(n) => mem' = mem
        BY <3>1
      <4>5. \A f \in from : unwaited[r][f] # 0
        BY <3>2
      <4>6. \A f \in Peers(r, n) :
              IF f \in from THEN unwaited'[r][f] = 0
              ELSE unwaited'[r][f] = 0 <=> unwaited[r][f] = 0
        BY <2>1, <3>3, <3>4
      <4> HIDE DEF from
      <4> QED
        BY <4>1, <4>2, <4>3, <4>4, <4>5, <4>6
    <3>5. CASE left # 0
      <4> WITNESS {} \in SUBSET Peers(r, n)
      <4>1. mem' = mem
        BY <3>1, <3>5 DEF left
      <4>2. \A f \in Peers(r, n) : unwaited'[r][f] = 0 <=> unwaited[r][f] = 0
        BY <2>1, <3>2, <3>3, <3>5
      <4> QED
        BY <4>1, <4>2
    <3> QED
      BY <3>4, <3>5
  <2>4. CASE WaitAll(r)
    <3>1. /\ unwaited' = [unwaited EXCEPT ![r] = [p \in Ranks |-> 0]]
          /\ landed[r] = Peers(r, n) \X Chunks
          /\ mem' = IF Lands(n) THEN mem ELSE Unpacked(r, n, Peers(r, n))
      BY <2>4 DEF WaitAll
    <3>2. 1 \in Chunks
      BY <1>1, SetupFacts DEF Chunks
    <3>3. \A f \in Peers(r, n) : unwaited[r][f] # 0
      <4> SUFFICES ASSUME NEW f \in Peers(r, n) PROVE unwaited[r][f] # 0
        OBVIOUS
      <4>1. <<f, 1>> \in landed[r]
        BY <3>1, <3>2
      <4> QED
        BY <2>2, <4>1
    <3>4. \A f \in Peers(r, n) : unwaited'[r][f] = 0
      BY <2>1, <3>1
    <3> WITNESS Peers(r, n) \in SUBSET Peers(r, n)
    <3> QED
      BY <3>1, <3>3, <3>4
  <2> QED
    BY <2>3, <2>4 DEF Taking
<1>7. PICK from \in SUBSET Peers(r, n) :
        /\ mem' = mem \/ mem' = Unpacked(r, n, from)
        /\ ~Lands(n) => \A f \in from : unwaited[r][f] # 0
        /\ ~Lands(n) /\ from # {} => mem' = Unpacked(r, n, from)
        /\ \A f \in Peers(r, n) :
             IF f \in from THEN unwaited'[r][f] = 0
             ELSE unwaited'[r][f] = 0 <=> unwaited[r][f] = 0
        /\ Lands(n) => mem' = mem
  BY <1>6
<1>8. Unpacked(r, n, from) = [mem EXCEPT ![r][out] = c(from)] /\ c(from) \in Contents
  BY <1>1, <1>2, UnpackedFacts
<1>9. /\ c(from).what = n /\ part(from) \subseteq c(from).parts
      /\ old.what = n => old.parts \subseteq c(from).parts
  <2> DEFINE a == old
             s == part(from)
  <2>1. a \in Contents
    BY <1>5
  <2> HIDE DEF a, s
  <2>2. /\ Added(a, n, s).what = n /\ s \subseteq Added(a, n, s).parts
        /\ a.what = n => a.parts \subseteq Added(a, n, s).parts
    BY <2>1, AddedFacts
  <2> QED
    BY <2>2 DEF a, s
<1> HIDE DEF c
<1>10. /\ \A x \in Regions \ {out} : mem'[r][x] = mem[r][x]
       /\ mem'[r][out] = old \/ mem'[r][out] = c(from)
       /\ ~Lands(n) /\ from # {} => mem'[r][out] = c(from)
       /\ Lands(n) => mem'[r] = mem[r]
  <2> DEFINE x == out
             v == c(from)
  <2>1. CASE mem' = Unpacked(r, n, from)
    <3>1. Typed /\ x \in Regions /\ v \in Contents /\ Put(r, x, v)
      BY <1>1, <1>4, <1>8, <2>1 DEF Put
    <3> HIDE DEF x, v
    <3>2. mem'[r][x] = v /\ \A y \in Regions \ {x} : mem'[r][y] = mem[r][y]
      BY <3>1, PutFacts
    <3>3. Lands(n) => mem'[r] = mem[r]
      BY <1>7
    <3> QED
      BY <3>2, <3>3 DEF x, v
  <2>2. CASE mem' = mem /\ ~(~Lands(n) /\ from # {})
    BY <2>2
  <2> QED
    BY <1>7, <2>1, <2>2
<1>11. InputWhole(r)'
  <2>1. mem'[r][Input(r, n)] = mem[r][Input(r, n)]
    BY <1>4, <1>10
  <2> QED
    BY <1>1, <1>3, <2>1 DEF Right, InputWhole
<1>12. SendsGood(r)'
  <2> SUFFICES ASSUME NEW t \in Ranks, NEW m \in Entries(sends[<<r, t>>])
               PROVE  IF setup.eager THEN m.good ELSE Intact(r, t, m.stage)'
    BY <1>1 DEF SendsGood
  <2>1. IF setup.eager THEN m.good ELSE Intact(r, t, m.stage)
    BY <1>1 DEF Right, SendsGood
  <2>2. ASSUME ~setup.eager PROVE Intact(r, t, m.stage)' <=> Intact(r, t, m.stage)
    <3>1. m.stage = n
      BY <1>1, <2>2, SendStages
    <3>2. mem'[r][Source(r, m.stage)] = mem[r][Source(r, m.stage)]
      BY <1>4, <1>10, <3>1
    <3> QED
      BY <1>1, <3>2, IntactKept
  <2> QED
    BY <2>1, <2>2
<1>13. Arrived(r)'
  <2> SUFFICES ASSUME NEW f \in Peers(r, n), NEW k \in Chunks,
                      Asked(f, r, n), ~Wanted(f, r, n, k)
               PROVE  /\ mem'[r][PlaceOf(f, r)'].what = n
                      /\ <<f, k>> \in mem'[r][PlaceOf(f, r)'].parts
    <3>1. \A f : Asked(f, r, at[r])' = Asked(f, r, n) /\ \A k : Wanted(f, r, at[r], k)' = Wanted(f, r, n, k)
      BY <1>1 DEF Asked, Wanted, Left
    <3> QED
      BY <1>1, <1>3, <3>1 DEF Arrived
  <2>1. f \in Ranks
    BY Symmetric
  <2>2. mem[r][PlaceOf(f, r)].what = n /\ <<f, k>> \in mem[r][PlaceOf(f, r)].parts
    BY <1>1 DEF Right, Arrived
  <2>3. PlaceOf(f, r) = IF Lands(n) \/ unwaited[r][f] = 0 THEN out ELSE RecvSlot
    BY DEF PlaceOf
  <2>4. PlaceOf(f, r)' = IF Lands(n) \/ unwaited'[r][f] = 0 THEN out ELSE RecvSlot
    BY <1>1, <1>3 DEF PlaceOf, RecvSlot
  <2>5. CASE Lands(n)
    BY <1>10, <2>2, <2>3, <2>4, <2>5
  <2>6. CASE ~Lands(n) /\ f \in from
    <3>1. mem'[r][PlaceOf(f, r)'] = c(from) /\ buf.what = n /\ <<f, k>> \in buf.parts
      BY <1>7, <1>10, <2>2, <2>3, <2>4, <2>6
    <3>2. <<f, k>> \in part(from)
      BY <2>6, <3>1
    <3> QED
      BY <1>9, <3>1, <3>2
  <2>7. CASE ~Lands(n) /\ f \notin from
    <3>1. PlaceOf(f, r)' = PlaceOf(f, r)
      BY <1>7, <2>3, <2>4, <2>7
    <3>2. CASE PlaceOf(f, r) = out
      BY <1>9, <1>10, <2>2, <3>1, <3>2
    <3>3. CASE PlaceOf(f, r) = RecvSlot
      BY <1>4, <1>10, <2>2, <2>7, <3>1, <3>3
    <3> QED
      BY <2>3, <3>2, <3>3
  <2> QED
    BY <2>5, <2>6, <2>7
<1> QED
  BY <1>1, <1>11, <1>12, <1>13 DEF Right, RunsWhole, OutputWhole

LEMMA DataClose ==
    ASSUME CInv, DInv, NEW r \in Ranks, CloseExchange(r)
    PROVE  Right(r)'
<1> DEFINE n == at[r]
           out == Output(r, n)
           old == mem[r][out]
           c == Added(old, n, {r} \X Chunks)
<1>1. /\ Typed /\ setup \in Setups /\ Right(r) /\ n \in Int
      /\ UNCHANGED <<setup, sends>> /\ pc[r] = "post" /\ \A p \in Ranks : unwaited[r][p] = 0
      /\ mem' = IF Whole(r, mem[r][Input(r, n)], n - 1) THEN [mem EXCEPT ![r][out] = c] ELSE mem
  <2>1. Typed /\ Right(r)
    BY DEF CInv, DInv
  <2>2. setup \in Setups /\ n \in Int
    BY <2>1, Fields
  <2>3. UNCHANGED <<setup, sends>>
    BY DEF CloseExchange
  <2>4. /\ pc[r] = "post" /\ \A p \in Ranks : unwaited[r][p] = 0
    BY DEF CloseExchange, Waiting, ReceivesDone
  <2>5. mem' = IF Whole(r, mem[r][Input(r, n)], n - 1) THEN [mem EXCEPT ![r][out] = c] ELSE mem
    BY CloseFacts
  <2> QED
    BY <2>1, <2>2, <2>3, <2>4, <2>5
<1>2. n \in Exchanges /\ n \in Stages /\ StepOf(n) \in {2, 4}
  BY <1>1, PostStage
<1>3. at'[r] = n + 1 /\ pc'[r] = "fft"
  BY CloseTyped
<1>4. /\ \A x : Input(r, x)' = Input(r, x) /\ Output(r, x)' = Output(r, x)
      /\ \A a, x : Whole(r, a, x)' = Whole(r, a, x)
  BY <1>1, SetupFixed
<1>5. /\ out \in Regions /\ Input(r, n + 1) = out
      /\ Source(r, n) \in Regions /\ Source(r, n) # out
  BY <1>1, <1>2, RegionFacts, SourceFacts
<1>6. c \in Contents /\ c.what = n /\ {r} \X Chunks \subseteq c.parts
      /\ (old.what = n => old.parts \subseteq c.parts)
  <2> DEFINE a == old
             s == {r} \X Chunks
  <2>1. a \in Contents /\ s \in SUBSET (Ranks \X Chunks)
    BY <1>1, <1>5, Fields
  <2> HIDE DEF a, s
  <2>2. Added(a, n, s) \in Contents
    BY <1>1, <2>1, AddedType
  <2>3. /\ Added(a, n, s).what = n /\ s \subseteq Added(a, n, s).parts
        /\ a.what = n => a.parts \subseteq Added(a, n, s).parts
    BY <2>1, AddedFacts
  <2> QED
    BY <2>2, <2>3 DEF a, s
<1> HIDE DEF c
<1>7. mem'[r][out] = c /\ \A x \in Regions \ {out} : mem'[r][x] = mem[r][x]
  <2>1. Whole(r, mem[r][Input(r, n)], n - 1)
    BY <1>1 DEF Right, InputWhole
  <2> DEFINE x == out
  <2>2. Typed /\ x \in Regions /\ c \in Contents /\ Put(r, x, c)
    BY <1>1, <1>5, <1>6, <2>1 DEF Put
  <2> HIDE DEF x
  <2>3. mem'[r][x] = c /\ \A y \in Regions \ {x} : mem'[r][y] = mem[r][y]
    BY <2>2, PutFacts
  <2> QED
    BY <2>3 DEF x
<1>8. ASSUME NEW f \in Peers(r, n), NEW k \in Chunks PROVE <<f, k>> \in c.parts
  <2>1. Asked(f, r, n) /\ ~Wanted(f, r, n, k) /\ f \in Ranks
    BY <1>1, CloseQuiet, Symmetric
  <2>2. PlaceOf(f, r) = out
    BY <1>1, <2>1 DEF PlaceOf
  <2>3. old.what = n /\ <<f, k>> \in old.parts
    BY <1>1, <2>1, <2>2 DEF Right, Arrived
  <2> QED
    BY <1>6, <2>3
<1>9. Whole(r, c, n)
  <2>1. IsExchange(n)
    BY <1>2 DEF IsExchange
  <2> QED
    BY <1>6, <1>8, <2>1 DEF Whole
<1>10. InputWhole(r)'
  <2>1. mem'[r][Input(r, at[r])'] = c /\ at'[r] - 1 = n
    BY <1>1, <1>3, <1>4, <1>5, <1>7
  <2> HIDE DEF n
  <2>2. Whole(r, mem[r][Input(r, at[r])], at[r] - 1)' <=> Whole(r, c, n)
    BY <1>4, <2>1
  <2> QED
    BY <1>9, <2>2 DEF InputWhole
<1>11. SendsGood(r)'
  <2> SUFFICES ASSUME NEW t \in Ranks, NEW m \in Entries(sends[<<r, t>>])
               PROVE  IF setup.eager THEN m.good ELSE Intact(r, t, m.stage)'
    BY <1>1 DEF SendsGood
  <2>1. IF setup.eager THEN m.good ELSE Intact(r, t, m.stage)
    BY <1>1 DEF Right, SendsGood
  <2>2. ASSUME ~setup.eager PROVE Intact(r, t, m.stage)' <=> Intact(r, t, m.stage)
    <3>1. m.stage = n
      BY <1>1, <2>2, SendStages
    <3>2. mem'[r][Source(r, m.stage)] = mem[r][Source(r, m.stage)]
      BY <1>5, <1>7, <3>1
    <3> QED
      BY <1>1, <3>2, IntactKept
  <2> QED
    BY <2>1, <2>2
<1>12. Arrived(r)'
  BY <1>3, NotPosting
<1> QED
  BY <1>3, <1>10, <1>11, <1>12 DEF Right, RunsWhole, OutputWhole

\* A chunk that MPI brings is the right one, and nothing else is written over.
LEMMA DataTransfer ==
    ASSUME CInv, DInv, NEW f \in Ranks, NEW t \in Ranks, Transfer(f, t)
    PROVE  Right(t)'
<1> DEFINE n == at[t]
           k == Head(recvs[<<f, t>>]).chunk
           place == Target(t)
           old == mem[t][place]
           c == Added(old, n, {<<f, k>>})
<1>1. /\ Typed /\ setup \in Setups /\ Right(t) /\ Right(f)
      /\ setup' = setup /\ UNCHANGED <<at, pc, peers, unwaited, computing>>
  <2>1. Typed /\ Right(t) /\ Right(f)
    BY DEF CInv, DInv
  <2>2. setup \in Setups
    BY <2>1, Fields
  <2>3. UNCHANGED <<setup, at, pc, peers, unwaited, deferred, computing>>
    BY TransferFacts
  <2> QED
    BY <2>1, <2>2, <2>3
<1>2. /\ pc[t] = "post" /\ n \in Exchanges /\ n \in Stages /\ StepOf(n) \in {2, 4}
      /\ k \in Chunks /\ f \in Peers(t, n) /\ f # t
  <2>1. pc[t] = "post" /\ k \in Chunks /\ f \in Peers(t, n) /\ f # t
    BY HeadsMatch
  <2> QED
    BY <2>1, PostStage
<1>3. /\ \A x : /\ Input(t, x)' = Input(t, x) /\ Output(t, x)' = Output(t, x)
                /\ Peers(t, x)' = Peers(t, x) /\ Lands(x)' = Lands(x)
      /\ \A a, x : Whole(t, a, x)' = Whole(t, a, x)
      /\ Chunks' = Chunks
  BY <1>1, SetupFixed
<1>4. /\ place \in Regions /\ place = IF Lands(n) THEN Output(t, n) ELSE RecvSlot
      /\ Input(t, n) \in Regions /\ Input(t, n) # place
      /\ Source(t, n) \in Regions /\ Source(t, n) # place
      /\ Output(t, n) \in Regions /\ RecvSlot \in Regions
      /\ ~Lands(n) => Output(t, n) # place
  <2>1. place = IF Lands(n) THEN Output(t, n) ELSE RecvSlot
    BY DEF Target
  <2>2. /\ Input(t, n) \in Regions /\ Output(t, n) \in Regions /\ RecvSlot \in Regions
        /\ Input(t, n) # Output(t, n)
        /\ ~Lands(n) => Input(t, n) # RecvSlot /\ Output(t, n) # RecvSlot
    BY <1>1, <1>2, RegionFacts
  <2>3. /\ Source(t, n) \in Regions /\ Source(t, n) # Output(t, n)
        /\ ~Lands(n) => Source(t, n) # RecvSlot
    BY <1>1, <1>2, SourceFacts
  <2> HIDE DEF place, n
  <2> QED
    BY <2>1, <2>2, <2>3
\* The send was good when it was copied, or its source still is.
<1>5. GoodMatch(f, t)
  <2>1. Head(sends[<<f, t>>]) \in Entries(sends[<<f, t>>])
    BY HeadFacts
  <2> QED
    BY <1>1, <2>1 DEF Right, SendsGood, GoodMatch
<1>6. c \in Contents /\ c.what = n /\ <<f, k>> \in c.parts
      /\ (old.what = n => old.parts \subseteq c.parts)
  <2> DEFINE a == old
             s == {<<f, k>>}
  <2>1. a \in Contents /\ s \in SUBSET (Ranks \X Chunks) /\ n \in Int
    BY <1>1, <1>2, <1>4, Fields
  <2> HIDE DEF a, s
  <2>2. Added(a, n, s) \in Contents
    BY <1>1, <2>1, AddedType
  <2>3. /\ Added(a, n, s).what = n /\ s \subseteq Added(a, n, s).parts
        /\ a.what = n => a.parts \subseteq Added(a, n, s).parts
    BY <2>1, AddedFacts
  <2> QED
    BY <2>2, <2>3 DEF a, s
<1>7. mem'[t][place] = c /\ \A x \in Regions \ {place} : mem'[t][x] = mem[t][x]
  <2> DEFINE x == place
             v == c
  <2>1. Put(t, x, v)
    <3>1. mem' = [mem EXCEPT ![t][Target(t)] =
                    IF GoodMatch(f, t)
                    THEN Added(mem[t][Target(t)], at[t], {<<f, Head(recvs[<<f, t>>]).chunk>>})
                    ELSE Junk]
      BY TransferFacts
    <3> QED
      BY <1>5, <3>1 DEF Put
  <2>2. x \in Regions /\ v \in Contents
    BY <1>4, <1>6
  <2>3. Typed
    BY <1>1
  <2> HIDE DEF x, v, n, k, place
  <2>4. mem'[t][x] = v /\ \A z \in Regions \ {x} : mem'[t][z] = mem[t][z]
    BY <2>1, <2>2, <2>3, PutFacts
  <2> QED
    BY <2>4 DEF x, v
<1>8. InputWhole(t)'
  <2>1. mem'[t][Input(t, n)] = mem[t][Input(t, n)]
    BY <1>4, <1>7
  <2> QED
    BY <1>1, <1>3, <2>1 DEF Right, InputWhole
<1>9. \A b \in Ranks : sends'[<<t, b>>] = sends[<<t, b>>]
  <2> DEFINE s == Tail(sends[<<f, t>>])
  <2>1. sends' = [sends EXCEPT ![<<f, t>>] = s]
    BY TransferFacts
  <2> HIDE DEF s
  <2> QED
    BY <1>1, <1>2, <2>1 DEF Typed
<1>10. SendsGood(t)'
  <2> SUFFICES ASSUME NEW b \in Ranks, NEW m \in Entries(sends[<<t, b>>])
               PROVE  IF setup.eager THEN m.good ELSE Intact(t, b, m.stage)'
    BY <1>1, <1>9 DEF SendsGood, Entries
  <2>1. IF setup.eager THEN m.good ELSE Intact(t, b, m.stage)
    BY <1>1 DEF Right, SendsGood
  <2>2. ASSUME ~setup.eager PROVE Intact(t, b, m.stage)' <=> Intact(t, b, m.stage)
    <3>1. m.stage = n
      BY <1>2, <2>2, SendStages
    <3>2. mem'[t][Source(t, m.stage)] = mem[t][Source(t, m.stage)]
      BY <1>4, <1>7, <3>1
    <3> QED
      BY <1>1, <3>2, IntactKept
  <2> QED
    BY <2>1, <2>2
<1>11. Arrived(t)'
  <2> HIDE DEF n, k, place, c
  <2>1. \A a \in Ranks : PlaceOf(a, t)' = PlaceOf(a, t)
    BY <1>1, <1>3 DEF PlaceOf, RecvSlot
  <2>2. \A a : PlaceOf(a, t) = IF Lands(n) \/ unwaited[t][a] = 0 THEN Output(t, n) ELSE RecvSlot
    BY DEF PlaceOf, n
  <2>3. ASSUME NEW a \in Peers(t, n), NEW j \in Chunks, Asked(a, t, n),
               ~ \E e \in Entries(recvs'[<<a, t>>]) : e.stage = n /\ e.chunk = j
        PROVE  /\ mem'[t][PlaceOf(a, t)].what = n
               /\ <<a, j>> \in mem'[t][PlaceOf(a, t)].parts
    <3>1. a \in Ranks
      BY Symmetric
    <3>2. CASE Wanted(a, t, n, j)
      \* It is the chunk that was received.
      <4>1. PICK e \in Entries(recvs[<<a, t>>]) : e.stage = n /\ e.chunk = j
        BY <3>2 DEF Wanted
      <4>2. a = f
        <5>1. a # f => recvs'[<<a, t>>] = recvs[<<a, t>>]
          <6> DEFINE w == Tail(recvs[<<f, t>>])
          <6>1. recvs' = [recvs EXCEPT ![<<f, t>>] = w]
            BY TransferFacts
          <6> HIDE DEF w
          <6> QED
            BY <1>1, <3>1, <6>1 DEF Typed
        <5> QED
          BY <2>3, <4>1, <5>1
      <4>3. j = k
        <5>1. recvs'[<<f, t>>] = Tail(recvs[<<f, t>>])
          <6> DEFINE w == Tail(recvs[<<f, t>>])
          <6>1. recvs' = [recvs EXCEPT ![<<f, t>>] = w]
            BY TransferFacts
          <6> HIDE DEF w
          <6> QED
            BY <1>1, <6>1 DEF Typed, w
        <5>2. Entries(recvs[<<f, t>>]) = {Head(recvs[<<f, t>>])} \cup Entries(Tail(recvs[<<f, t>>]))
          BY HeadFacts
        <5>3. e = Head(recvs[<<f, t>>])
          BY <2>3, <4>1, <4>2, <5>1, <5>2
        <5> QED
          BY <4>1, <5>3 DEF k
      <4>4. PlaceOf(a, t) = place
        <5>1. CASE Lands(n)
          BY <1>4, <2>2, <5>1
        <5>2. CASE ~Lands(n)
          <6>1. unwaited[t][a] # 0
            BY <1>2, <3>2, NoneDue DEF n
          <6> QED
            BY <1>4, <2>2, <5>2, <6>1
        <5> QED
          BY <5>1, <5>2
      <4> QED
        BY <1>6, <1>7, <4>2, <4>3, <4>4
    <3>3. CASE ~Wanted(a, t, n, j)
      <4>1. mem[t][PlaceOf(a, t)].what = n /\ <<a, j>> \in mem[t][PlaceOf(a, t)].parts
        BY <1>1, <1>2, <2>3, <3>3 DEF Right, Arrived, n
      <4>2. PlaceOf(a, t) \in Regions
        BY <1>4, <2>2
      <4> QED
        BY <1>6, <1>7, <4>1, <4>2
    <3> QED
      BY <3>2, <3>3
  <2>4. \A a : Asked(a, t, at[t])' = Asked(a, t, n)
    BY <1>1 DEF Asked, Left, n
  <2>5. \A a, j : Wanted(a, t, at[t], j)' <=>
                    \E e \in Entries(recvs'[<<a, t>>]) : e.stage = n /\ e.chunk = j
    BY <1>1 DEF Wanted, Entries, n
  <2>6. at'[t] = n /\ Peers(t, at[t])' = Peers(t, n) /\ Peers(t, n) \subseteq Ranks
    BY <1>1, <1>3, Symmetric DEF n
  <2>7. ASSUME NEW a \in Peers(t, n), NEW j \in Chunks, Asked(a, t, at[t])', ~Wanted(a, t, at[t], j)'
        PROVE  /\ mem'[t][PlaceOf(a, t)'].what = n
               /\ <<a, j>> \in mem'[t][PlaceOf(a, t)'].parts
    <3>1. Asked(a, t, n) /\ PlaceOf(a, t)' = PlaceOf(a, t)
      BY <2>1, <2>4, <2>6, <2>7
    <3>2. ~ \E e \in Entries(recvs'[<<a, t>>]) : e.stage = n /\ e.chunk = j
      BY <2>5, <2>7
    <3> QED
      BY <2>3, <3>1, <3>2
  <2> QED
    BY <1>3, <2>6, <2>7 DEF Arrived
<1> QED
  BY <1>1, <1>2, <1>8, <1>10, <1>11 DEF Right, RunsWhole, OutputWhole

-----------------------------------------------------------------------------
(***************************************************************************)
(* The memory of the other ranks.                                          *)
(***************************************************************************)

\* A step of a rank writes its own memory and starts its own FFTs.
LEMMA OwnMemory ==
    ASSUME Typed, NEW r \in Ranks, NEW q \in Ranks \ {r},
           StartOrFft(r) \/ PostPeer(r) \/ Taking(r) \/ CloseExchange(r)
    PROVE  mem'[q] = mem[q] /\ computing'[q] = computing[q]
<1>1. mem \in [Ranks -> [Regions -> Contents]] /\ computing \in [Ranks -> BOOLEAN]
  BY DEF Typed
<1>2. ASSUME NEW v, NEW x, mem' = mem \/ mem' = [mem EXCEPT ![r] = v] \/ mem' = [mem EXCEPT ![r][x] = v]
      PROVE  mem'[q] = mem[q]
  BY <1>1, <1>2
<1>3. ASSUME NEW v, computing' = computing \/ computing' = [computing EXCEPT ![r] = v]
      PROVE  computing'[q] = computing[q]
  BY <1>1, <1>3
<1>4. CASE StartCall(r)
  BY <1>2, <1>4 DEF StartCall
<1>5. CASE FftStart(r)
  <2> DEFINE m == [x \in Regions |-> IF x = Output(r, at[r]) \/ x \in WorkCells(r) THEN Junk ELSE mem[r][x]]
             b == Whole(r, mem[r][Input(r, at[r])], at[r] - 1)
                    /\ {Input(r, at[r]), Output(r, at[r])} \cap WorkCells(r) = {}
  <2>1. mem' = [mem EXCEPT ![r] = m] /\ computing' = [computing EXCEPT ![r] = b]
    BY <1>5 DEF FftStart
  <2> HIDE DEF m, b
  <2> QED
    BY <1>1, <2>1
<1>6. CASE FftEnd(r)
  BY <1>2, <1>3, <1>6 DEF FftEnd
<1>7. CASE FftFails(r)
  BY <1>2, <1>3, <1>7 DEF FftFails
<1>8. CASE PostPeer(r)
  <2> DEFINE v == Added(mem[r][SendSlot], at[r], {Head(peers[r])} \X Chunks)
  <2>1. computing' = computing
    BY <1>8 DEF PostPeer
  <2>2. mem' = mem \/ mem' = [mem EXCEPT ![r][SendSlot] = v]
    BY <1>8 DEF PostPeer
  <2> HIDE DEF v
  <2> QED
    BY <1>2, <2>1, <2>2
<1>9. CASE Taking(r)
  <2>1. computing' = computing /\ (mem' = mem \/ \E from : mem' = Unpacked(r, at[r], from))
    BY <1>9 DEF Taking, WaitAny, WaitAll
  <2>2. ASSUME NEW from, mem' = Unpacked(r, at[r], from)
        PROVE  mem'[q] = mem[q]
    <3> DEFINE have == IF mem[r][RecvSlot].what = at[r] THEN mem[r][RecvSlot].parts ELSE {}
               v == Added(mem[r][Output(r, at[r])], at[r], have \cap (from \X Chunks))
    <3>1. mem' = [mem EXCEPT ![r][Output(r, at[r])] = v]
      BY <2>2 DEF Unpacked
    <3> HIDE DEF v
    <3> QED
      BY <1>2, <3>1
  <2> QED
    BY <2>1, <2>2
<1>10. CASE CloseExchange(r)
  <2> DEFINE v == Added(mem[r][Output(r, at[r])], at[r], {r} \X Chunks)
  <2>1. computing' = computing
    BY <1>10 DEF CloseExchange
  <2>2. mem' = mem \/ mem' = [mem EXCEPT ![r][Output(r, at[r])] = v]
    BY <1>10 DEF CloseExchange
  <2> HIDE DEF v
  <2> QED
    BY <1>2, <2>1, <2>2
<1> QED
  BY <1>4, <1>5, <1>6, <1>7, <1>8, <1>9, <1>10 DEF StartOrFft

\* So what is right for another rank stays so.
LEMMA DataOthers ==
    ASSUME CInv, DInv, NEW r \in Ranks, NEW q \in Ranks \ {r},
           StartOrFft(r) \/ Finishing(r) \/ EnterExchange(r) \/ PostPeer(r) \/ Taking(r)
             \/ CloseExchange(r)
    PROVE  Right(q)'
<1>1. Typed /\ Right(q)
  BY DEF CInv, DInv
<1>2. mem'[q] = mem[q] /\ computing'[q] = computing[q]
  <2>1. CASE Finishing(r)
    BY <2>1, LocalFinish
  <2>2. CASE EnterExchange(r)
    BY <2>2 DEF EnterExchange
  <2> QED
    BY <1>1, <2>1, <2>2, OwnMemory
<1>3. CASE StartOrFft(r) \/ Finishing(r)
  <2>1. Local(r)
    BY <1>3, LocalFft, LocalFinish
  <2> QED
    BY <1>1, <1>2, <2>1, OtherRank DEF Local
<1>4. CASE EnterExchange(r)
  <2>1. UNCHANGED <<setup, at, sends>>
    BY <1>4, EnterFacts
  <2>2. pc'[q] = pc[q] /\ peers'[q] = peers[q] /\ unwaited'[q] = unwaited[q]
    <3> DEFINE p == PeerOrder(r, at[r])
               u == [t \in Ranks |-> IF t \in Peers(r, at[r]) THEN setup.chunks ELSE 0]
    <3>1. /\ pc' = [pc EXCEPT ![r] = "post"] /\ peers' = [peers EXCEPT ![r] = p]
          /\ unwaited' = [unwaited EXCEPT ![r] = u]
      BY <1>4, EnterFacts
    <3> HIDE DEF p, u
    <3> QED
      BY <1>1, <3>1 DEF Typed
  <2>3. \A f \in Ranks : recvs'[<<f, q>>] = recvs[<<f, q>>]
    BY <1>4, EnterFacts
  <2> QED
    BY <1>1, <1>2, <2>1, <2>2, <2>3, OtherRank
<1>5. CASE PostPeer(r)
  <2> DEFINE p == Head(peers[r])
             l == Tail(peers[r])
             s == sends[<<r, p>>] \o Parcels(at[r], GoodPost(r, p))
             w == recvs[<<p, r>>] \o Requests(at[r])
  <2>1. UNCHANGED <<setup, at, pc, unwaited>> /\ p \in Ranks
    BY <1>5, PostFacts
  <2>2. /\ peers' = [peers EXCEPT ![r] = l] /\ sends' = [sends EXCEPT ![<<r, p>>] = s]
        /\ recvs' = recvs \/ recvs' = [recvs EXCEPT ![<<p, r>>] = w]
    BY <1>5, PostFacts
  <2> HIDE DEF p, l, s, w
  <2>3. peers'[q] = peers[q]
    BY <1>1, <2>2 DEF Typed
  <2>4. \A t \in Ranks : sends'[<<q, t>>] = sends[<<q, t>>] /\ recvs'[<<t, q>>] = recvs[<<t, q>>]
    BY <1>1, <2>1, <2>2 DEF Typed
  <2> QED
    BY <1>1, <1>2, <2>1, <2>3, <2>4, OtherRank
<1>6. CASE Taking(r)
  <2>1. UNCHANGED <<setup, at, pc, peers, sends, recvs>> /\ unwaited'[q] = unwaited[q]
    BY <1>6, TakingFacts
  <2> QED
    BY <1>1, <1>2, <2>1, OtherRank
<1>7. CASE CloseExchange(r)
  <2>1. UNCHANGED <<setup, peers, unwaited, sends, recvs>>
    BY <1>7, CloseFacts
  <2>2. at'[q] = at[q] /\ pc'[q] = pc[q]
    BY <1>7, CloseTyped
  <2> QED
    BY <1>1, <1>2, <2>1, <2>2, OtherRank
<1> QED
  BY <1>3, <1>4, <1>5, <1>6, <1>7

\* A rank whose send is matched reads it no more.
LEMMA DataTransferOthers ==
    ASSUME CInv, DInv, NEW f \in Ranks, NEW t \in Ranks, Transfer(f, t), NEW q \in Ranks \ {t}
    PROVE  Right(q)'
<1> DEFINE s == Tail(sends[<<f, t>>])
           w == Tail(recvs[<<f, t>>])
           v == IF GoodMatch(f, t)
                THEN Added(mem[t][Target(t)], at[t], {<<f, Head(recvs[<<f, t>>]).chunk>>}) ELSE Junk
<1>1. Typed /\ Right(q)
  BY DEF CInv, DInv
<1>2. /\ UNCHANGED <<setup, at, pc, peers, unwaited, deferred, computing>>
      /\ sends' = [sends EXCEPT ![<<f, t>>] = s] /\ recvs' = [recvs EXCEPT ![<<f, t>>] = w]
      /\ mem' = [mem EXCEPT ![t][Target(t)] = v]
  BY TransferFacts
<1>3. Entries(s) \subseteq Entries(sends[<<f, t>>])
  <2>1. Entries(sends[<<f, t>>]) = {Head(sends[<<f, t>>])} \cup Entries(Tail(sends[<<f, t>>]))
    BY HeadFacts
  <2> QED
    BY <2>1
<1> HIDE DEF s, w, v
<1>4. mem'[q] = mem[q]
  BY <1>1, <1>2 DEF Typed
<1>5. \A b \in Ranks : recvs'[<<b, q>>] = recvs[<<b, q>>]
  BY <1>1, <1>2 DEF Typed
<1>6. \A b \in Ranks : Entries(sends'[<<q, b>>]) \subseteq Entries(sends[<<q, b>>])
  <2> TAKE b \in Ranks
  <2>1. sends'[<<q, b>>] = IF q = f /\ b = t THEN s ELSE sends[<<q, b>>]
    BY <1>1, <1>2 DEF Typed
  <2> QED
    BY <1>3, <2>1
<1> QED
  BY <1>1, <1>2, <1>4, <1>5, <1>6, OtherRank

-----------------------------------------------------------------------------
(***************************************************************************)
(* The data are right.                                                     *)
(***************************************************************************)

LEMMA InitData == Init => DInv
<1> SUFFICES ASSUME Init, NEW r \in Ranks PROVE Right(r)
  BY DEF DInv
<1>1. at[r] = 0 /\ pc[r] = "idle" /\ \A t \in Ranks : sends[<<r, t>>] = <<>>
  BY DEF Init
<1>2. SendsGood(r)
  BY <1>1 DEF SendsGood, Entries
<1> QED
  BY <1>1, <1>2 DEF Right, InputWhole, RunsWhole, OutputWhole, Arrived

LEMMA NextData == ScratchClear /\ CInv /\ DInv /\ [Next]_vars => DInv'
<1> SUFFICES ASSUME ScratchClear, CInv, DInv, [Next]_vars, NEW q \in Ranks PROVE Right(q)'
  BY DEF DInv
<1>1. CASE UNCHANGED vars
  BY <1>1, OtherRank DEF vars, DInv
<1>2. ASSUME NEW r \in Ranks,
             StartOrFft(r) \/ Finishing(r) \/ EnterExchange(r) \/ PostPeer(r) \/ Taking(r)
               \/ CloseExchange(r)
      PROVE  Right(q)'
  <2>1. CASE q # r
    BY <1>2, <2>1, DataOthers
  <2>2. CASE q = r
    BY <1>2, <2>2, DataLocal, DataFinish, DataEnter, DataPost, DataTaking, DataClose
  <2> QED
    BY <2>1, <2>2
<1>3. ASSUME NEW f \in Ranks, NEW t \in Ranks, Transfer(f, t) PROVE Right(q)'
  BY <1>3, DataTransfer, DataTransferOthers
<1>4. CASE Next
  BY <1>2, <1>3, <1>4, NextCases
<1> QED
  BY <1>1, <1>4

LEMMA DataAlways ==
    ASSUME ScratchClear
    PROVE  Spec => [](CInv /\ DInv)
<1>1. Init => CInv /\ DInv
  BY InitCtrl, InitData
<1>2. CInv /\ DInv /\ [Next]_vars => (CInv /\ DInv)'
  BY NextCtrl, NextData
<1> QED
  BY <1>1, <1>2, PTL DEF Spec

LEMMA SourceFollows == DInv => SourceHeld
<1> SUFFICES ASSUME DInv, ~setup.eager, NEW f \in Ranks, NEW t \in Ranks,
                    NEW k \in DOMAIN sends[<<f, t>>]
             PROVE  Intact(f, t, sends[<<f, t>>][k].stage)
  BY DEF SourceHeld
<1>1. sends[<<f, t>>][k] \in Entries(sends[<<f, t>>])
  BY DEF Entries
<1> QED
  BY <1>1 DEF DInv, Right, SendsGood

\* Where the scratch space is clear of them, what a pending send reads is
\* never overwritten: not by a stage, not by the packing of another peer, not
\* by the FFT that runs over the deferred sends.
THEOREM SourceHeldCorrect ==
    ASSUME ScratchClear
    PROVE  Spec => []SourceHeld
<1>1. Spec => [](CInv /\ DInv)
  BY DataAlways
<1> QED
  BY <1>1, SourceFollows, PTL

LEMMA ResultFollows == DInv => ResultRight
  BY DEF DInv, Right, OutputWhole, ResultRight

\* So every call returns the result of its last stage, computed from whole
\* inputs only, on every grid and in every order of the messages.
THEOREM ResultRightCorrect ==
    ASSUME ScratchClear
    PROVE  Spec => []ResultRight
<1>1. Spec => [](CInv /\ DInv)
  BY DataAlways
<1> QED
  BY <1>1, ResultFollows, PTL
=============================================================================
