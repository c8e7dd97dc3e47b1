------------------------ MODULE PlanePipeline_proofs ------------------------
(***************************************************************************)
(* Proofs about the plane pipelines, for any number of ranks, planes,      *)
(* credits, lanes and window slots, and any choice of eager channels.      *)
(*                                                                         *)
(* A backward call is the scheduler of PlaneCredit_proofs.  A forward call *)
(* rests on two facts.  The lanes hold the planes from the next one to     *)
(* send up to the next one to launch, each once, so that sending a prefix  *)
(* of them and launching as many more keeps the lanes full.  And a plane   *)
(* below the counter of its sender, or of its receiver, is posted or has   *)
(* landed, so that the send and the receive that MPI matches are for the   *)
(* same plane, whatever planes share their tag.                            *)
(***************************************************************************)
EXTENDS PlanePipeline, PlaneCredit_proofs

-----------------------------------------------------------------------------
(***************************************************************************)
(* The inductive invariant of a forward call.                              *)
(***************************************************************************)

PipePhases == {"activate", "head", "testRecv", "testSend", "recycle", "waitRecv", "waitSend",
               "noProgress", "launch", "drain", "failDrain", "done", "failed"}
PlaneRequests == [src : Ranks, dst : Ranks, tag : Int, order : Nat, plane : Nat]

LanesTyped ==
    /\ holds \in [Ranks -> [PlanLaneIds -> Nat \cup {-1}]]
    /\ polled \in [Ranks -> SUBSET PlanLaneIds]
    /\ launched \in [Ranks -> Nat]
    /\ posted \in [Ranks -> Nat]
    /\ running \subseteq Ranks \X (PlanLaneIds \cup {0})
    /\ computed \in [Ranks -> SUBSET Int]
WindowTyped ==
    /\ receiving \in [Ranks -> SUBSET (Ranks \X Nat)]
    /\ rnext \in [Ranks -> [Ranks -> Nat]]
    /\ sending \in [Ranks -> SUBSET (Ranks \X Nat)]
TransfersTyped ==
    /\ recvs \subseteq PlaneRequests
    /\ sends \subseteq PlaneRequests
    /\ unacked \subseteq PlaneRequests
    /\ landed \subseteq Arrivals
PhasesTyped == pc \in [Ranks -> PipePhases]

\* The lanes hold the planes from posted up to launched, each once, and no lane
\* is idle while there are planes to launch.
LanesHold ==
    \A r \in Ranks :
        /\ \A l \in PlanLaneIds : holds[r][l] # -1 =>
              l \in LanesOf(r) /\ posted[r] <= holds[r][l] /\ holds[r][l] < launched[r]
        /\ \A k, l \in PlanLaneIds : holds[r][k] # -1 /\ holds[r][k] = holds[r][l] => k = l
        /\ \A n \in posted[r] .. launched[r] - 1 : \E l \in PlanLaneIds : holds[r][l] = n
        /\ posted[r] <= launched[r] /\ launched[r] <= Planes[r]
        /\ pc[r] = "activate" => launched[r] = 0
        /\ pc[r] # "activate" /\ launched[r] < Planes[r] => \A l \in LanesOf(r) : holds[r][l] # -1

\* A plane that is not being transformed has been, and the sent ones have been.
LanesRun ==
    /\ \A x \in running : x[2] # 0 => holds[x[1]][x[2]] # -1
    /\ \A r \in Ranks : Overlapped(r) \in running => pc[r] = "drain"
    /\ \A r \in Ranks, l \in PlanLaneIds :
          holds[r][l] # -1 /\ <<r, l>> \notin running => holds[r][l] \in computed[r]
    /\ \A r \in Ranks : 0 .. posted[r] - 1 \subseteq computed[r]

\* The window waits for a plane of a peer as long as not all of them are posted.
WindowInv ==
    \A r \in Ranks :
        /\ \A x \in receiving[r] : x[1] \in Peers(r) /\ x[2] < rnext[r][x[1]]
        /\ \A p \in Peers(r) :
              /\ rnext[r][p] <= Planes[p]
              /\ pc[r] = "activate" => rnext[r][p] = 0
              /\ pc[r] # "activate" /\ rnext[r][p] < Planes[p] => \E x \in receiving[r] : x[1] = p

\* A receive that is posted is one its rank waits for; so is a send MPI may read.
PlaneRecvsAre ==
    \A q \in recvs :
        /\ q = PlaneRequest(q.src, q.dst, q.plane) /\ q.src # q.dst
        /\ <<q.src, q.plane>> \in receiving[q.dst]
        /\ Arrival(q.src, q.dst, q.plane) \notin landed
PlaneSendsAre ==
    \A m \in sends :
        /\ m = PlaneRequest(m.src, m.dst, m.plane) /\ m.src # m.dst
        /\ m.plane < posted[m.src]
        /\ Arrival(m.src, m.dst, m.plane) \notin landed
        /\ <<m.src, m.dst>> \in Eager \/ m \in unacked
PlaneUnackedAre ==
    \A m \in unacked :
        /\ m = PlaneRequest(m.src, m.dst, m.plane) /\ m.src # m.dst
        /\ m.plane < posted[m.src]
        /\ <<m.dst, m.plane>> \in sending[m.src]
PlaneLandedAre ==
    \A a \in landed : a.want < posted[a.src] /\ a.want < rnext[a.dst][a.src]

\* What was posted is posted still or has landed.
PlaneRecvsCover ==
    \A r \in Ranks : \A p \in Peers(r) : \A n \in Nat :
        n < rnext[r][p] => PlaneRequest(p, r, n) \in recvs \/ Arrival(p, r, n) \in landed
PlaneSendsCover ==
    \A r \in Ranks : \A p \in Peers(r) : \A n \in Nat :
        n < posted[r] => PlaneRequest(r, p, n) \in sends \/ Arrival(r, p, n) \in landed

\* What the phases of the loop, and the end of the call, rest on.
Leaving == {"launch", "drain", "failDrain", "done", "failed"}
PhasesInv ==
    \A r \in Ranks :
        /\ pc[r] \in {"testRecv", "testSend", "recycle"} /\ posted[r] < Planes[r] =>
              \E l \in LanesOf(r) \ polled[r] : holds[r][l] # -1
        /\ pc[r] = "waitRecv" => receiving[r] # {} /\ posted[r] = Planes[r]
        /\ pc[r] = "waitSend" => sending[r] # {} /\ InputsReady(r)
        /\ pc[r] \in Leaving => InputsReady(r)
        /\ Ended(r) => sending[r] = {}
        /\ pc[r] # "noProgress"

PlaneTransfers == PlaneRecvsAre /\ PlaneSendsAre /\ PlaneUnackedAre /\ PlaneLandedAre
                  /\ PlaneRecvsCover /\ PlaneSendsCover

\* The queues of the backward scheduler are not in use.
CreditIdle == \A r \in Ranks : ready[r] = <<>> /\ transformed[r] = {} /\ \A l \in LaneIds : lane[r][l] = -1

FInv ==
    /\ LanesTyped /\ WindowTyped /\ TransfersTyped /\ PhasesTyped
    /\ LanesHold /\ LanesRun
    /\ WindowInv /\ PlaneTransfers
    /\ PhasesInv

PInv ==
    /\ way \in {"backward", "forward", "overlap"}
    /\ way = "backward" => KInv
    /\ way # "backward" => FInv /\ CreditIdle


-----------------------------------------------------------------------------
(***************************************************************************)
(* The sets and records of the model.                                      *)
(***************************************************************************)

LEMMA PipeSizes ==
    /\ Window \in Nat \ {0} /\ PlanLanes \in Nat \ {0}
    /\ \A r \in Ranks : Planes[r] \in Nat \ {0}
  BY PipelineAssumption, PlanesType

LEMMA PipeLanes ==
    ASSUME NEW r \in Ranks
    PROVE  /\ PlanLaneIds \subseteq Nat \ {0}
           /\ LanesOf(r) \subseteq PlanLaneIds /\ 1 \in LanesOf(r)
           /\ \A l \in PlanLaneIds : l \in LanesOf(r) <=> l <= Planes[r]
  BY PipeSizes DEF PlanLaneIds, LanesOf

LEMMA PeersAre == ASSUME NEW r \in Ranks, NEW p PROVE p \in Peers(r) <=> p \in Ranks /\ p # r
  BY DEF Peers

LEMMA RequestIs ==
    ASSUME NEW s \in Ranks, NEW d \in Ranks, NEW n \in Nat
    PROVE  /\ PlaneRequest(s, d, n) \in PlaneRequests
           /\ PlaneRequest(s, d, n).src = s /\ PlaneRequest(s, d, n).dst = d
           /\ PlaneRequest(s, d, n).plane = n /\ PlaneRequest(s, d, n).order = n
<1>1. s + P * (n % Window) \in Int
  <2>1. n % Window \in Nat
    BY PipeSizes, DivMod
  <2>2. P * (n % Window) \in Nat
    BY <2>1, Sizes
  <2> QED
    BY <2>2, PlanesType
<1> QED
  BY <1>1 DEF PlaneRequest, PlaneRequests

LEMMA FilledIs ==
    ASSUME NEW n \in Nat \ {0}
    PROVE  Filled(n) \in Nat \ {0} /\ Filled(n) <= n
  BY PipeSizes DEF Filled

-----------------------------------------------------------------------------
(***************************************************************************)
(* MPI: the requests that match are for the same plane.                    *)
(***************************************************************************)

LEMMA PipeMatched ==
    ASSUME TransfersTyped, LanesTyped, WindowTyped, WindowInv, PlaneTransfers,
           NEW m \in sends, NEW q \in recvs, Matching(m, q, sends, recvs)
    PROVE  m = q
<1> DEFINE s == m.src
           d == m.dst
           a == m.plane
           b == q.plane
<1>1. q.src = s /\ q.dst = d /\ SameClass(m, q) /\ SameClass(q, m)
  BY DEF Matching, SameClass
<1>2. s \in Ranks /\ d \in Ranks /\ a \in Nat /\ b \in Nat /\ s # d
  BY DEF TransfersTyped, PlaneRequests, PlaneTransfers, PlaneSendsAre
<1>3. /\ m = PlaneRequest(s, d, a) /\ q = PlaneRequest(s, d, b)
      /\ a < posted[s] /\ <<s, b>> \in receiving[d]
      /\ Arrival(s, d, a) \notin landed /\ Arrival(s, d, b) \notin landed
  BY <1>1 DEF PlaneTransfers, PlaneSendsAre, PlaneRecvsAre
<1> HIDE DEF s, d, a, b
<1>4. s \in Peers(d) /\ d \in Peers(s)
  BY <1>2, PeersAre
<1>5. b < rnext[d][s]
  BY <1>2, <1>3 DEF WindowInv
<1>6. m.order = a /\ q.order = b
  BY <1>2, <1>3, RequestIs
<1>7. ~(a < b)
  <2> SUFFICES ASSUME a < b PROVE FALSE
    OBVIOUS
  <2>1. rnext[d][s] \in Nat
    BY <1>2 DEF WindowTyped
  <2>2. a < rnext[d][s]
    BY <1>2, <1>5, <2>1
  <2>3. m \in recvs
    BY <1>2, <1>3, <1>4, <2>2 DEF PlaneTransfers, PlaneRecvsCover
  <2>4. b <= a
    BY <1>1, <1>6, <2>3 DEF Matching, Oldest
  <2> QED
    BY <1>2, <2>4
<1>8. ~(b < a)
  <2> SUFFICES ASSUME b < a PROVE FALSE
    OBVIOUS
  <2>1. posted[s] \in Nat
    BY <1>2 DEF LanesTyped
  <2>2. b < posted[s]
    BY <1>2, <1>3, <2>1
  <2>3. q \in sends
    BY <1>2, <1>3, <1>4, <2>2 DEF PlaneTransfers, PlaneSendsCover
  <2>4. a <= b
    BY <1>1, <1>6, <2>3 DEF Matching, Oldest
  <2> QED
    BY <1>2, <2>4
<1> QED
  BY <1>2, <1>3, <1>7, <1>8

LEMMA PipeMatchInv ==
    ASSUME TransfersTyped, LanesTyped, WindowTyped, WindowInv, PlaneTransfers, Match,
           UNCHANGED <<posted, receiving, sending, rnext>>
    PROVE  TransfersTyped' /\ PlaneTransfers'
<1>1. PICK m \in sends, q \in recvs :
        /\ Matching(m, q, sends, recvs)
        /\ sends' = sends \ {m} /\ recvs' = recvs \ {q} /\ unacked' = unacked
        /\ landed' = landed \cup {[src |-> q.src, dst |-> q.dst, want |-> q.plane, got |-> m.plane]}
  BY DEF Match
<1>2. m = q
  BY <1>1, PipeMatched
<1> DEFINE s == m.src
           d == m.dst
           a == m.plane
<1>3. s \in Ranks /\ d \in Ranks /\ a \in Nat /\ s # d
  BY DEF TransfersTyped, PlaneRequests, PlaneTransfers, PlaneSendsAre
<1>4. /\ m = PlaneRequest(s, d, a)
      /\ a < posted[s] /\ <<s, a>> \in receiving[d]
  BY <1>2 DEF PlaneTransfers, PlaneSendsAre, PlaneRecvsAre
<1>5. landed' = landed \cup {Arrival(s, d, a)}
  BY <1>1, <1>2 DEF Arrival
<1> HIDE DEF s, d, a
<1>6. sends' = sends \ {m} /\ recvs' = recvs \ {m} /\ unacked' = unacked
  BY <1>1, <1>2
<1>7. a < rnext[d][s] /\ s \in Peers(d)
  BY <1>3, <1>4, PeersAre DEF WindowInv
<1>8. Arrival(s, d, a) \in Arrivals
  BY <1>3 DEF Arrival, Arrivals
<1>9. TransfersTyped'
  BY <1>5, <1>6, <1>8 DEF TransfersTyped
<1>10. ASSUME NEW x \in Ranks, NEW y \in Ranks, NEW n \in Nat, Arrival(x, y, n) = Arrival(s, d, a)
       PROVE  PlaneRequest(x, y, n) = m
  BY <1>4, <1>10 DEF Arrival
<1>11. PlaneRecvsAre'
  <2> SUFFICES ASSUME NEW q2 \in recvs'
               PROVE  /\ q2 = PlaneRequest(q2.src, q2.dst, q2.plane) /\ q2.src # q2.dst
                      /\ <<q2.src, q2.plane>> \in receiving'[q2.dst]
                      /\ Arrival(q2.src, q2.dst, q2.plane) \notin landed'
    BY DEF PlaneRecvsAre
  <2> DEFINE x == q2.src
             y == q2.dst
             n == q2.plane
  <2>1. q2 \in recvs /\ q2 # m
    BY <1>6
  <2>2. x \in Ranks /\ y \in Ranks /\ n \in Nat
    BY <2>1 DEF TransfersTyped, PlaneRequests
  <2>3. q2 = PlaneRequest(x, y, n) /\ x # y /\ <<x, n>> \in receiving[y] /\ Arrival(x, y, n) \notin landed
    BY <2>1 DEF PlaneTransfers, PlaneRecvsAre
  <2> HIDE DEF x, y, n
  <2>4. Arrival(x, y, n) # Arrival(s, d, a)
    BY <1>10, <2>1, <2>2, <2>3
  <2>5. Arrival(x, y, n) \notin landed'
    BY <1>5, <2>3, <2>4
  <2>6. receiving' = receiving
    OBVIOUS
  <2> QED
    BY <2>3, <2>5, <2>6 DEF x, y, n
<1>12. PlaneSendsAre'
  <2> SUFFICES ASSUME NEW m2 \in sends'
               PROVE  /\ m2 = PlaneRequest(m2.src, m2.dst, m2.plane) /\ m2.src # m2.dst
                      /\ m2.plane < posted'[m2.src]
                      /\ Arrival(m2.src, m2.dst, m2.plane) \notin landed'
                      /\ <<m2.src, m2.dst>> \in Eager \/ m2 \in unacked'
    BY DEF PlaneSendsAre
  <2> DEFINE x == m2.src
             y == m2.dst
             n == m2.plane
  <2>1. m2 \in sends /\ m2 # m
    BY <1>6
  <2>2. x \in Ranks /\ y \in Ranks /\ n \in Nat
    BY <2>1 DEF TransfersTyped, PlaneRequests
  <2>3. /\ m2 = PlaneRequest(x, y, n) /\ x # y /\ n < posted[x] /\ Arrival(x, y, n) \notin landed
        /\ <<x, y>> \in Eager \/ m2 \in unacked
    BY <2>1 DEF PlaneTransfers, PlaneSendsAre
  <2> HIDE DEF x, y, n
  <2>4. Arrival(x, y, n) # Arrival(s, d, a)
    BY <1>10, <2>1, <2>2, <2>3
  <2>5. Arrival(x, y, n) \notin landed'
    BY <1>5, <2>3, <2>4
  <2>6. posted' = posted /\ unacked' = unacked
    BY <1>6
  <2> QED
    BY <2>3, <2>5, <2>6 DEF x, y, n
<1>13. PlaneUnackedAre'
  BY <1>6 DEF PlaneTransfers, PlaneUnackedAre
<1>14. PlaneLandedAre'
  <2>1. Arrival(s, d, a).want = a /\ Arrival(s, d, a).src = s /\ Arrival(s, d, a).dst = d
    BY DEF Arrival
  <2> QED
    BY <1>4, <1>5, <1>7, <2>1 DEF PlaneTransfers, PlaneLandedAre
<1>15. PlaneRecvsCover'
  BY <1>4, <1>5, <1>6 DEF PlaneTransfers, PlaneRecvsCover, PlaneRequest, Arrival
<1>16. PlaneSendsCover'
  BY <1>4, <1>5, <1>6 DEF PlaneTransfers, PlaneSendsCover, PlaneRequest, Arrival
<1> QED
  BY <1>9, <1>11, <1>12, <1>13, <1>14, <1>15, <1>16 DEF PlaneTransfers

LEMMA PipeAcknowledgeInv ==
    ASSUME TransfersTyped, PlaneTransfers, Acknowledge,
           UNCHANGED <<posted, receiving, sending, rnext>>
    PROVE  TransfersTyped' /\ PlaneTransfers'
<1>1. PICK m \in unacked :
        m \notin sends /\ unacked' = unacked \ {m} /\ recvs' = recvs /\ sends' = sends /\ landed' = landed
  BY DEF Acknowledge
<1>2. TransfersTyped'
  BY <1>1 DEF TransfersTyped
<1>3. PlaneRecvsAre' /\ PlaneUnackedAre' /\ PlaneLandedAre' /\ PlaneRecvsCover' /\ PlaneSendsCover'
  BY <1>1 DEF PlaneTransfers, PlaneRecvsAre, PlaneUnackedAre, PlaneLandedAre, PlaneRecvsCover, PlaneSendsCover
<1>4. PlaneSendsAre'
  BY <1>1 DEF PlaneTransfers, PlaneSendsAre
<1> QED
  BY <1>2, <1>3, <1>4 DEF PlaneTransfers


-----------------------------------------------------------------------------
(***************************************************************************)
(* Completed requests.                                                     *)
(***************************************************************************)

\* What the slot of a peer does with a plane that has arrived.
LEMMA AdvanceRecvIs ==
    ASSUME NEW r \in Ranks, NEW p \in Ranks, NEW n \in Nat, AdvanceRecv(r, p, n),
           WindowTyped, WindowInv, p \in Peers(r)
    PROVE  \/ /\ rnext[r][p] < Planes[p]
              /\ receiving' = [receiving EXCEPT ![r] = (@ \ {<<p, n>>}) \cup {<<p, rnext[r][p]>>}]
              /\ recvs' = recvs \cup {PlaneRequest(p, r, rnext[r][p])}
              /\ rnext' = [rnext EXCEPT ![r][p] = @ + 1]
           \/ /\ rnext[r][p] = Planes[p]
              /\ receiving' = [receiving EXCEPT ![r] = @ \ {<<p, n>>}]
              /\ recvs' = recvs /\ rnext' = rnext
<1> DEFINE k == rnext[r][p]
           more == {m \in {k} : m < Planes[p]}
<1>1. k \in Nat /\ k <= Planes[p] /\ Planes[p] \in Nat
  BY PlanesType DEF WindowTyped, WindowInv
<1>2. /\ receiving' = [receiving EXCEPT ![r] = (@ \ {<<p, n>>}) \cup ({p} \X more)]
      /\ recvs' = recvs \cup {PlaneRequest(p, r, m) : m \in more}
      /\ rnext' = [rnext EXCEPT ![r][p] = @ + Cardinality(more)]
  BY DEF AdvanceRecv
<1>3. CASE k < Planes[p]
  <2>1. more = {k}
    BY <1>3
  <2>2. Cardinality(more) = 1
    BY <2>1, FS_Singleton
  <2> HIDE DEF more
  <2>3. {p} \X more = {<<p, k>>} /\ {PlaneRequest(p, r, m) : m \in more} = {PlaneRequest(p, r, k)}
    BY <2>1
  <2> QED
    BY <1>2, <1>3, <2>2, <2>3
<1>4. CASE ~(k < Planes[p])
  <2>1. more = {} /\ k = Planes[p]
    BY <1>1, <1>4
  <2>2. Cardinality(more) = 0
    BY <2>1, FS_EmptySet
  <2> HIDE DEF more
  <2>3. {p} \X more = {} /\ {PlaneRequest(p, r, m) : m \in more} = {}
    BY <2>1
  <2>4. rnext \in [Ranks -> [Ranks -> Nat]]
    BY DEF WindowTyped
  <2>5. rnext' = [rnext EXCEPT ![r][p] = @ + 0]
    BY <1>2, <2>2
  <2>6. rnext' = rnext
    BY <1>1, <2>4, <2>5
  <2>7. receiving \in [Ranks -> SUBSET (Ranks \X Nat)]
    BY DEF WindowTyped
  <2>8. receiving' = [receiving EXCEPT ![r] = @ \ {<<p, n>>}]
    BY <1>2, <2>3, <2>7
  <2>9. recvs' = recvs
    BY <1>2, <2>3
  <2> QED
    BY <2>1, <2>6, <2>8, <2>9
<1> QED
  BY <1>3, <1>4

LEMMA AdvanceRecvInv ==
    ASSUME TransfersTyped, LanesTyped, WindowTyped, WindowInv, PlaneTransfers,
           NEW r \in Ranks, NEW x \in receiving[r], AdvanceRecv(r, x[1], x[2]),
           pc[r] # "activate", \A q \in Ranks : pc'[q] = "activate" <=> pc[q] = "activate"
    PROVE  TransfersTyped' /\ WindowTyped' /\ WindowInv' /\ PlaneTransfers'
<1> DEFINE p == x[1]
           n == x[2]
           k == rnext[r][p]
<1>1. p \in Ranks /\ n \in Nat /\ x = <<p, n>> /\ p \in Peers(r) /\ n < k
  BY DEF WindowTyped, WindowInv
<1>2. p # r /\ k \in Nat /\ k <= Planes[p]
  BY <1>1, PeersAre DEF WindowTyped, WindowInv
<1>3. /\ posted' = posted /\ sending' = sending /\ sends' = sends
      /\ unacked' = unacked /\ landed' = landed
  BY DEF AdvanceRecv
<1>4. <<p, n>> \in receiving[r] /\ PlaneRequest(p, r, n) \notin recvs
  BY <1>1 DEF AdvanceRecv, PlaneArrived
<1>5. \/ /\ k < Planes[p]
         /\ receiving' = [receiving EXCEPT ![r] = (@ \ {<<p, n>>}) \cup {<<p, k>>}]
         /\ recvs' = recvs \cup {PlaneRequest(p, r, k)}
         /\ rnext' = [rnext EXCEPT ![r][p] = @ + 1]
      \/ /\ k = Planes[p]
         /\ receiving' = [receiving EXCEPT ![r] = @ \ {<<p, n>>}]
         /\ recvs' = recvs /\ rnext' = rnext
  BY <1>1, AdvanceRecvIs
<1> HIDE DEF p, n
\* Pointwise: what the other windows and peers keep.
<1>6. /\ \A q \in Ranks : q # r => receiving'[q] = receiving[q]
      /\ \A y \in receiving[r] : y # <<p, n>> => y \in receiving'[r]
      /\ \A y \in receiving'[r] : y \in receiving[r] \/ (y = <<p, k>> /\ k < Planes[p])
      /\ k < Planes[p] => <<p, k>> \in receiving'[r]
  <2>1. receiving \in [Ranks -> SUBSET (Ranks \X Nat)]
    BY DEF WindowTyped
  <2> DEFINE now == IF k < Planes[p] THEN (receiving[r] \ {<<p, n>>}) \cup {<<p, k>>}
                    ELSE receiving[r] \ {<<p, n>>}
  <2>2. receiving' = [receiving EXCEPT ![r] = now]
    BY <1>2, <1>5, <2>1, PlanesType
  <2> HIDE DEF now
  <2>3. receiving'[r] = now /\ \A q \in Ranks : q # r => receiving'[q] = receiving[q]
    BY <2>1, <2>2
  <2> QED
    BY <2>3 DEF now
<1>7. /\ \A q, s \in Ranks : ~(q = r /\ s = p) => rnext'[q][s] = rnext[q][s]
      /\ rnext'[r][p] = IF k < Planes[p] THEN k + 1 ELSE k
  BY <1>1, <1>2, <1>5, PlanesType DEF WindowTyped
<1>8. WindowTyped'
  <2>1. /\ receiving \in [Ranks -> SUBSET (Ranks \X Nat)] /\ rnext \in [Ranks -> [Ranks -> Nat]]
        /\ sending \in [Ranks -> SUBSET (Ranks \X Nat)]
    BY DEF WindowTyped
  <2>2. <<p, k>> \in Ranks \X Nat
    BY <1>1, <1>2
  <2>3. receiving' \in [Ranks -> SUBSET (Ranks \X Nat)]
    <3>1. receiving'[r] \in SUBSET (Ranks \X Nat)
      BY <1>6, <2>1, <2>2
    <3>2. receiving' = [receiving EXCEPT ![r] = receiving'[r]]
      BY <1>5, <2>1
    <3> QED
      BY <2>1, <3>1, <3>2
  <2>4. rnext' \in [Ranks -> [Ranks -> Nat]]
    BY <1>1, <1>2, <1>5, <2>1
  <2> QED
    BY <1>3, <2>1, <2>3, <2>4 DEF WindowTyped
<1>9. \A q \in recvs' : q \in recvs \/ (q = PlaneRequest(p, r, k) /\ k < Planes[p])
  <2> DEFINE new == PlaneRequest(p, r, k)
             below == k < Planes[p]
  <2>1. (below /\ recvs' = recvs \cup {new}) \/ recvs' = recvs
    BY <1>5
  <2> HIDE DEF new, below
  <2>2. \A q \in recvs' : q \in recvs \/ (q = new /\ below)
    BY <2>1
  <2> QED
    BY <2>2 DEF new, below
<1>10. TransfersTyped'
  <2>1. PlaneRequest(p, r, k) \in PlaneRequests
    BY <1>1, <1>2, RequestIs
  <2> QED
    BY <1>3, <1>9, <2>1 DEF TransfersTyped
<1>11. \A q, s \in Ranks : rnext[q][s] \in Nat /\ rnext'[q][s] \in Nat /\ rnext[q][s] <= rnext'[q][s]
  BY <1>2, <1>7 DEF WindowTyped
<1>12. WindowInv'
  <2> SUFFICES ASSUME NEW q \in Ranks
               PROVE  /\ \A y \in receiving'[q] : y[1] \in Peers(q) /\ y[2] < rnext'[q][y[1]]
                      /\ \A s \in Peers(q) :
                            /\ rnext'[q][s] <= Planes[s]
                            /\ pc'[q] = "activate" => rnext'[q][s] = 0
                            /\ pc'[q] # "activate" /\ rnext'[q][s] < Planes[s] =>
                                  \E y \in receiving'[q] : y[1] = s
    BY DEF WindowInv
  <2>1. ASSUME NEW y \in receiving'[q] PROVE y[1] \in Peers(q) /\ y[2] < rnext'[q][y[1]]
    <3>1. CASE y \in receiving[q]
      <4>1. y \in Ranks \X Nat /\ y[1] \in Peers(q) /\ y[2] < rnext[q][y[1]]
        BY <3>1 DEF WindowTyped, WindowInv
      <4>2. y[1] \in Ranks /\ y[2] \in Nat
        BY <4>1
      <4> QED
        BY <4>1, <4>2, <1>11
    <3>2. CASE y \notin receiving[q]
      <4>1. q = r /\ y = <<p, k>> /\ k < Planes[p]
        BY <1>6, <3>2
      <4>2. y[1] = p /\ y[2] = k /\ rnext'[r][p] = k + 1
        BY <4>1, <1>7
      <4> QED
        BY <4>1, <4>2, <1>1, <1>2
    <3> QED
      BY <3>1, <3>2
  <2>2. ASSUME NEW s \in Peers(q)
        PROVE  /\ rnext'[q][s] <= Planes[s]
               /\ pc'[q] = "activate" => rnext'[q][s] = 0
               /\ pc'[q] # "activate" /\ rnext'[q][s] < Planes[s] => \E y \in receiving'[q] : y[1] = s
    <3>0. s \in Ranks /\ Planes[s] \in Nat
      BY PeersAre, PlanesType
    <3>1. CASE q = r /\ s = p
      <4>1. rnext'[q][s] <= Planes[s]
        BY <3>0, <3>1, <1>2, <1>7
      <4>2. rnext'[q][s] < Planes[s] => <<p, k>> \in receiving'[r]
        BY <3>0, <3>1, <1>2, <1>6, <1>7
      <4> QED
        BY <3>1, <4>1, <4>2
    <3>2. CASE ~(q = r /\ s = p)
      <4>1. /\ rnext[q][s] <= Planes[s]
            /\ pc[q] = "activate" => rnext[q][s] = 0
            /\ pc[q] # "activate" /\ rnext[q][s] < Planes[s] => \E y \in receiving[q] : y[1] = s
        BY DEF WindowInv
      <4>2. rnext'[q][s] = rnext[q][s]
        BY <3>0, <3>2, <1>7
      <4>3. ASSUME NEW y \in receiving[q], y[1] = s PROVE y \in receiving'[q]
        <5>1. q = r => y # <<p, n>>
          BY <3>2, <4>3
        <5> QED
          BY <5>1, <1>6
      <4> QED
        BY <4>1, <4>2, <4>3
    <3> QED
      BY <3>1, <3>2
  <2> QED
    BY <2>1, <2>2
<1>13. Arrival(p, r, k) \notin landed
  <2> SUFFICES ASSUME Arrival(p, r, k) \in landed PROVE FALSE
    OBVIOUS
  <2>1. Arrival(p, r, k).want = k /\ Arrival(p, r, k).src = p /\ Arrival(p, r, k).dst = r
    BY DEF Arrival
  <2>2. k < rnext[r][p]
    BY <2>1 DEF PlaneTransfers, PlaneLandedAre
  <2> QED
    BY <1>2, <2>2
<1> HIDE DEF k
<1>14. PlaneRecvsAre'
  <2> SUFFICES ASSUME NEW q \in recvs'
               PROVE  /\ q = PlaneRequest(q.src, q.dst, q.plane) /\ q.src # q.dst
                      /\ <<q.src, q.plane>> \in receiving'[q.dst]
                      /\ Arrival(q.src, q.dst, q.plane) \notin landed'
    BY DEF PlaneRecvsAre
  <2>1. CASE q \in recvs
    <3> DEFINE s == q.src
               d == q.dst
               b == q.plane
    <3>1. s \in Ranks /\ d \in Ranks /\ b \in Nat
      BY <2>1 DEF TransfersTyped, PlaneRequests
    <3>2. q = PlaneRequest(s, d, b) /\ s # d /\ <<s, b>> \in receiving[d] /\ Arrival(s, d, b) \notin landed
      BY <2>1 DEF PlaneTransfers, PlaneRecvsAre
    <3> HIDE DEF s, d, b
    <3>3. d = r => <<s, b>> # <<p, n>>
      BY <1>4, <2>1, <3>2
    <3>4. <<s, b>> \in receiving'[d]
      BY <1>6, <3>1, <3>2, <3>3
    <3> QED
      BY <1>3, <3>2, <3>4 DEF s, d, b
  <2>2. CASE q \notin recvs
    <3>1. q = PlaneRequest(p, r, k) /\ k < Planes[p]
      BY <1>9, <2>2
    <3>2. q.src = p /\ q.dst = r /\ q.plane = k
      BY <1>1, <1>2, <3>1, RequestIs
    <3>3. <<p, k>> \in receiving'[r]
      BY <1>6, <3>1
    <3> QED
      BY <1>2, <1>3, <1>13, <3>1, <3>2, <3>3
  <2> QED
    BY <2>1, <2>2
<1>15. PlaneSendsAre' /\ PlaneUnackedAre' /\ PlaneSendsCover'
  BY <1>3 DEF PlaneTransfers, PlaneSendsAre, PlaneUnackedAre, PlaneSendsCover
<1>16. PlaneLandedAre'
  <2> SUFFICES ASSUME NEW a \in landed PROVE a.want < posted[a.src] /\ a.want < rnext'[a.dst][a.src]
    BY <1>3 DEF PlaneLandedAre
  <2>1. a.want < posted[a.src] /\ a.want < rnext[a.dst][a.src]
    BY DEF PlaneTransfers, PlaneLandedAre
  <2>2. a.src \in Ranks /\ a.dst \in Ranks /\ a.want \in Nat
    BY DEF TransfersTyped, Arrivals
  <2>3. rnext[a.dst][a.src] \in Nat /\ rnext'[a.dst][a.src] \in Nat /\ rnext[a.dst][a.src] <= rnext'[a.dst][a.src]
    BY <1>11, <2>2
  <2> QED
    BY <2>1, <2>2, <2>3
<1>17. PlaneRecvsCover'
  <2> SUFFICES ASSUME NEW q \in Ranks, NEW s \in Peers(q), NEW b \in Nat, b < rnext'[q][s]
               PROVE  PlaneRequest(s, q, b) \in recvs' \/ Arrival(s, q, b) \in landed'
    BY DEF PlaneRecvsCover
  <2>0. s \in Ranks
    BY PeersAre
  <2>1. recvs \subseteq recvs'
    BY <1>5
  <2>2. CASE b < rnext[q][s]
    BY <1>3, <2>1, <2>2 DEF PlaneTransfers, PlaneRecvsCover
  <2>3. CASE ~(b < rnext[q][s])
    <3>1. q = r /\ s = p
      BY <1>7, <2>0, <2>3
    <3>2. k = rnext[r][p]
      BY DEF k
    <3>3. k < Planes[p] /\ b = k
      BY <1>2, <1>7, <2>3, <3>1, <3>2
    <3> QED
      BY <1>5, <3>1, <3>3
  <2> QED
    BY <2>2, <2>3
<1> QED
  BY <1>8, <1>10, <1>12, <1>14, <1>15, <1>16, <1>17 DEF PlaneTransfers

LEMMA AdvanceSendInv ==
    ASSUME TransfersTyped, WindowTyped, PlaneTransfers,
           NEW r \in Ranks, NEW x \in sending[r], AdvanceSend(r, x[1], x[2])
    PROVE  TransfersTyped' /\ WindowTyped' /\ PlaneTransfers'
<1> DEFINE p == x[1]
           n == x[2]
<1>1. p \in Ranks /\ n \in Nat /\ x = <<p, n>>
  BY DEF WindowTyped
<1>2. /\ posted' = posted /\ receiving' = receiving /\ rnext' = rnext
      /\ recvs' = recvs /\ sends' = sends /\ unacked' = unacked /\ landed' = landed
      /\ sending' = [sending EXCEPT ![r] = @ \ {<<p, n>>}]
      /\ PlaneRequest(r, p, n) \notin unacked
  BY DEF AdvanceSend, PlaneSent, mpiVars
<1> HIDE DEF p, n
<1>3. WindowTyped'
  BY <1>2 DEF WindowTyped
<1>4. /\ TransfersTyped' /\ PlaneRecvsAre' /\ PlaneSendsAre' /\ PlaneLandedAre'
      /\ PlaneRecvsCover' /\ PlaneSendsCover'
  BY <1>2 DEF TransfersTyped, PlaneTransfers, PlaneRecvsAre, PlaneSendsAre, PlaneLandedAre,
              PlaneRecvsCover, PlaneSendsCover
<1>5. PlaneUnackedAre'
  <2> SUFFICES ASSUME NEW m \in unacked
               PROVE  /\ m = PlaneRequest(m.src, m.dst, m.plane) /\ m.src # m.dst
                      /\ m.plane < posted[m.src]
                      /\ <<m.dst, m.plane>> \in sending'[m.src]
    BY <1>2 DEF PlaneUnackedAre
  <2> DEFINE s == m.src
             d == m.dst
             a == m.plane
  <2>1. s \in Ranks /\ d \in Ranks /\ a \in Nat
    BY DEF TransfersTyped, PlaneRequests
  <2>2. m = PlaneRequest(s, d, a) /\ s # d /\ a < posted[s] /\ <<d, a>> \in sending[s]
    BY DEF PlaneTransfers, PlaneUnackedAre
  <2> HIDE DEF s, d, a
  <2>3. s = r => <<d, a>> # <<p, n>>
    BY <1>2, <2>2
  <2>4. <<d, a>> \in sending'[s]
    BY <1>2, <2>1, <2>2, <2>3 DEF WindowTyped
  <2> QED
    BY <2>2, <2>4 DEF s, d, a
<1> QED
  BY <1>3, <1>4, <1>5 DEF PlaneTransfers


-----------------------------------------------------------------------------
(***************************************************************************)
(* The lanes: the planes that are sent, and those that take their place.   *)
(***************************************************************************)

LEMMA IntervalCount ==
    ASSUME NEW a \in Nat, NEW b \in Nat, a <= b
    PROVE  IsFiniteSet(a .. b - 1) /\ Cardinality(a .. b - 1) = b - a
<1> DEFINE top == b - 1
<1>1. top \in Int /\ a \in Int /\ (IF a > top THEN 0 ELSE top - a + 1) = b - a
  OBVIOUS
<1> HIDE DEF top
<1>2. IsFiniteSet(a .. top) /\ Cardinality(a .. top) = b - a
  BY <1>1, FS_Interval
<1> QED
  BY <1>2 DEF top

\* Lanes that hold the planes of an interval, each once, are as many.
LEMMA HoldCount ==
    ASSUME NEW L, NEW h, NEW a \in Nat, NEW b \in Nat, a <= b,
           \A l \in L : h[l] \in a .. b - 1,
           \A k, l \in L : h[k] = h[l] => k = l,
           \A n \in a .. b - 1 : \E l \in L : h[l] = n
    PROVE  Cardinality(L) = b - a
<1> DEFINE f == [l \in L |-> h[l]]
           T == a .. b - 1
<1>1. f \in Injection(L, T)
  BY DEF Injection, IsInjective
<1>2. f \in Surjection(L, T)
  BY DEF Surjection
<1>3. IsFiniteSet(T) /\ Cardinality(T) = b - a
  BY IntervalCount
<1> HIDE DEF f, T
<1>4. Cardinality(L) = Cardinality(T)
  BY <1>1, <1>2, <1>3, FS_Injection
<1> QED
  BY <1>3, <1>4

\* What can be sent is the longest run of planes from posted on that are done.
LEMMA SendableIs ==
    ASSUME LanesTyped, LanesHold, NEW r \in Ranks, NEW done \in SUBSET PlanLaneIds
    PROVE  \E k \in Nat :
              /\ posted[r] <= k /\ k <= launched[r]
              /\ Sendable(r, done) = posted[r] .. k - 1
              /\ \A l \in done : holds[r][l] # k
<1> DEFINE a == posted[r]
           N == Planes[r]
           h == holds[r]
           out == Sendable(r, done)
           T == {n \in Nat : a <= n /\ n \notin out}
<1>1. /\ a \in Nat /\ N \in Nat /\ launched[r] \in Nat /\ h \in [PlanLaneIds -> Nat \cup {-1}]
      /\ a <= launched[r] /\ launched[r] <= N
      /\ \A l \in PlanLaneIds : h[l] # -1 => a <= h[l] /\ h[l] < launched[r]
  BY PlanesType DEF LanesTyped, LanesHold
<1>2. out = {n \in a .. N - 1 : \A m \in a .. n : \E l \in done : h[l] = m}
  BY DEF Sendable
<1> HIDE DEF a, N, h, out
<1>3. N \in T
  BY <1>1, <1>2
<1>4. PICK k \in T : \A n \in T : k <= n
  <2>1. T \subseteq Nat /\ T # {}
    BY <1>3
  <2> HIDE DEF T
  <2> QED
    BY <2>1, LeastNat
<1>5. k \in Nat /\ a <= k /\ k \notin out
  BY <1>4
<1>6. \A n \in a .. k - 1 : n \in out
  <2> SUFFICES ASSUME NEW n \in a .. k - 1, n \notin out PROVE FALSE
    OBVIOUS
  <2>1. n \in Nat /\ a <= n /\ n < k
    BY <1>1, <1>5
  <2>2. n \in T
    BY <2>1
  <2>3. k <= n
    BY <1>4, <2>2
  <2> QED
    BY <1>5, <2>1, <2>3
<1> HIDE DEF T
<1>7. \A l \in done : h[l] # k
  <2> SUFFICES ASSUME NEW l \in done, h[l] = k PROVE FALSE
    OBVIOUS
  <2>1. k < launched[r] /\ k < N
    BY <1>1, <1>5
  <2>2. \A m \in a .. k : \E j \in done : h[j] = m
    <3> SUFFICES ASSUME NEW m \in a .. k PROVE \E j \in done : h[j] = m
      OBVIOUS
    <3>1. m = k \/ m \in a .. k - 1
      BY <1>1, <1>5
    <3>2. CASE m = k
      BY <3>2
    <3>3. CASE m \in a .. k - 1
      <4>1. m \in out
        BY <1>6, <3>3
      <4>2. m \in a .. m
        BY <1>1, <1>5, <3>3
      <4> QED
        BY <1>2, <4>1, <4>2
    <3> QED
      BY <3>1, <3>2, <3>3
  <2>3. k \in a .. N - 1
    BY <1>1, <1>5, <2>1
  <2> QED
    BY <1>2, <1>5, <2>2, <2>3
<1>8. \A n \in out : n \in a .. k - 1
  <2> SUFFICES ASSUME NEW n \in out PROVE n \in a .. k - 1
    OBVIOUS
  <2>1. n \in a .. N - 1 /\ \A m \in a .. n : \E l \in done : h[l] = m
    BY <1>2
  <2>2. ~(k <= n)
    BY <1>1, <1>5, <1>7, <2>1
  <2> QED
    BY <1>1, <1>5, <2>1, <2>2
<1>9. k <= launched[r]
  <2> SUFFICES ASSUME ~(k <= launched[r]) PROVE FALSE
    OBVIOUS
  <2>1. launched[r] \in a .. k - 1
    BY <1>1, <1>5
  <2>2. launched[r] \in out
    BY <1>6, <2>1
  <2>3. launched[r] \in a .. launched[r]
    BY <1>1
  <2>4. \E l \in done : h[l] = launched[r]
    BY <1>2, <2>2, <2>3
  <2> QED
    BY <1>1, <2>4
<1>10. out = a .. k - 1
  BY <1>6, <1>8
<1> QED
  BY <1>5, <1>7, <1>9, <1>10 DEF a, h, out

\* A lane that is free launches the plane that follows the last one launched by
\* as much as its old plane follows the next one to send.
Following(r, n) == launched[r] + n - posted[r]

LEMMA PollIs ==
    ASSUME LanesTyped, LanesHold, NEW r \in Ranks, PollAndPost(r)
    PROVE  \E k \in Nat, top \in Nat :
              /\ posted[r] <= k /\ k <= launched[r]
              /\ top = IF Following(r, k) < Planes[r] THEN Following(r, k) ELSE Planes[r]
              /\ posted' = [posted EXCEPT ![r] = k]
              /\ launched' = [launched EXCEPT ![r] = top]
              /\ holds' = [holds EXCEPT ![r] = [l \in PlanLaneIds |->
                     IF holds[r][l] # -1 /\ holds[r][l] < k
                     THEN IF Following(r, holds[r][l]) < Planes[r] THEN Following(r, holds[r][l]) ELSE -1
                     ELSE holds[r][l]]]
              /\ \A x \in running : x \in running'
              /\ \A x \in running' : x \in running \/ \E l \in PlanLaneIds :
                     /\ x = <<r, l>> /\ holds[r][l] # -1 /\ holds[r][l] < k
                     /\ Following(r, holds[r][l]) < Planes[r]
              /\ \A l \in PlanLaneIds :
                     holds[r][l] # -1 /\ holds[r][l] < k =>
                         /\ <<r, l>> \notin running
                         /\ Following(r, holds[r][l]) < Planes[r] => <<r, l>> \in running'
              /\ polled' \in [Ranks -> SUBSET PlanLaneIds]
              /\ \A l \in polled'[r] : holds[r][l] # -1 /\ k < holds[r][l]
              /\ \A q \in Ranks : q # r => polled'[q] = polled[q]
              /\ sends' = sends \cup {PlaneRequest(r, x[1], x[2]) : x \in Peers(r) \X (posted[r] .. k - 1)}
              /\ unacked' = unacked \cup
                     {m \in {PlaneRequest(r, x[1], x[2]) : x \in Peers(r) \X (posted[r] .. k - 1)} :
                         <<r, m.dst>> \notin Eager}
              /\ sending' = [sending EXCEPT ![r] = @ \cup (Peers(r) \X (posted[r] .. k - 1))]
<1> DEFINE a == posted[r]
           b == launched[r]
           N == Planes[r]
           h == holds[r]
           done == {l \in LanesOf(r) : LaneDone(r, l)}
           out == Sendable(r, done)
           freed == {l \in done : h[l] \in out}
           next(l) == LET n == b + h[l] - a IN IF n < N THEN n ELSE -1
           busy == {l \in freed : next(l) # -1}
           new == {PlaneRequest(r, x[1], x[2]) : x \in Peers(r) \X out}
<1>1. /\ polled' = [polled EXCEPT ![r] = done \ freed]
      /\ sends' = sends \cup new
      /\ unacked' = unacked \cup {m \in new : <<r, m.dst>> \notin Eager}
      /\ sending' = [sending EXCEPT ![r] = @ \cup (Peers(r) \X out)]
      /\ posted' = [posted EXCEPT ![r] = @ + Cardinality(out)]
      /\ holds' = [holds EXCEPT ![r] = [l \in PlanLaneIds |-> IF l \in freed THEN next(l) ELSE @[l]]]
      /\ running' = running \cup {<<r, l>> : l \in busy}
      /\ launched' = [launched EXCEPT ![r] = @ + Cardinality(busy)]
  BY DEF PollAndPost
<1>2. /\ a \in Nat /\ b \in Nat /\ N \in Nat /\ h \in [PlanLaneIds -> Nat \cup {-1}]
      /\ a <= b /\ b <= N
      /\ \A l \in PlanLaneIds : h[l] # -1 => l \in LanesOf(r) /\ a <= h[l] /\ h[l] < b
      /\ \A k, l \in PlanLaneIds : h[k] # -1 /\ h[k] = h[l] => k = l
      /\ \A n \in a .. b - 1 : \E l \in PlanLaneIds : h[l] = n
  BY PlanesType DEF LanesTyped, LanesHold
<1>3. done \in SUBSET PlanLaneIds /\ \A l \in done : h[l] # -1 /\ <<r, l>> \notin running
  BY PipeLanes DEF LaneDone
<1>4. PICK k \in Nat : a <= k /\ k <= b /\ out = a .. k - 1 /\ \A l \in done : h[l] # k
  BY <1>3, SendableIs
<1>5. \A n \in out : \E l \in done : h[l] = n
  BY <1>2 DEF Sendable
<1> HIDE DEF done, out
<1>6. \A l \in PlanLaneIds : l \in freed <=> h[l] # -1 /\ h[l] < k
  <2> SUFFICES ASSUME NEW l \in PlanLaneIds PROVE l \in freed <=> h[l] # -1 /\ h[l] < k
    OBVIOUS
  <2>1. l \in freed => h[l] # -1 /\ h[l] < k
    BY <1>2, <1>3, <1>4
  <2>2. ASSUME h[l] # -1, h[l] < k PROVE l \in freed
    <3>1. h[l] \in out
      BY <1>2, <1>4, <2>2
    <3>2. PICK j \in done : h[j] = h[l]
      BY <1>5, <3>1
    <3>3. j = l
      BY <1>2, <1>3, <2>2, <3>2
    <3> QED
      BY <3>1, <3>2, <3>3
  <2> QED
    BY <2>1, <2>2
<1>7. freed \subseteq PlanLaneIds /\ freed \subseteq done
  BY <1>3
<1>8. Cardinality(out) = k - a
  BY <1>2, <1>4, IntervalCount
<1> DEFINE top == IF b + k - a < N THEN b + k - a ELSE N
           bound == a + (top - b)
<1>9. top \in Nat /\ b <= top /\ bound \in Nat /\ a <= bound /\ bound <= k
  <2>1. a \in Nat /\ b \in Nat /\ N \in Nat /\ k \in Nat /\ a <= b /\ b <= N /\ a <= k
    BY <1>2, <1>4
  <2>2. top = (IF b + k - a < N THEN b + k - a ELSE N) /\ bound = a + (top - b)
    OBVIOUS
  <2> HIDE DEF a, b, N, h, bound, top
  <2>3. top \in Nat /\ b <= top /\ top <= b + k - a
    BY <2>1, <2>2
  <2> QED
    BY <2>1, <2>2, <2>3
<1>10. \A l \in PlanLaneIds : l \in busy <=> h[l] # -1 /\ h[l] < bound
  <2> SUFFICES ASSUME NEW l \in PlanLaneIds PROVE l \in busy <=> h[l] # -1 /\ h[l] < bound
    OBVIOUS
  <2>1. h[l] \in Nat \cup {-1} /\ (h[l] # -1 => a <= h[l])
    BY <1>2
  <2>2. l \in busy <=> l \in freed /\ next(l) # -1
    OBVIOUS
  <2>3. l \in freed <=> h[l] # -1 /\ h[l] < k
    BY <1>6
  <2> HIDE DEF freed, busy
  <2>4. h[l] # -1 => (next(l) # -1 <=> b + h[l] - a < N)
    BY <1>2, <2>1
  <2>5. h[l] # -1 => (b + h[l] - a < N /\ h[l] < k <=> h[l] < bound)
    <3>1. /\ a \in Nat /\ b \in Nat /\ N \in Nat /\ k \in Nat /\ (h[l] # -1 => h[l] \in Nat)
          /\ bound = a + (top - b)
      BY <1>2, <1>4, <2>1
    <3>2. top = IF b + k - a < N THEN b + k - a ELSE N
      OBVIOUS
    <3> HIDE DEF a, b, N, h, bound, top
    <3> QED
      BY <3>1, <3>2
  <2> QED
    BY <2>2, <2>3, <2>4, <2>5
<1>11. Cardinality(busy) = top - b
  <2>1. busy \subseteq PlanLaneIds
    BY <1>7
  <2> HIDE DEF busy, bound, h
  <2>2. \A l \in busy : h[l] \in a .. bound - 1
    BY <1>2, <1>9, <1>10, <2>1
  <2>3. \A i, l \in busy : h[i] = h[l] => i = l
    BY <1>2, <1>10, <2>1
  <2>4. bound <= b
    BY <1>2, <1>4, <1>9
  <2>5. \A n \in a .. bound - 1 : \E l \in busy : h[l] = n
    <3> SUFFICES ASSUME NEW n \in a .. bound - 1 PROVE \E l \in busy : h[l] = n
      OBVIOUS
    <3>1. n \in a .. b - 1 /\ n # -1 /\ n < bound
      BY <1>2, <1>9, <2>4
    <3>2. PICK l \in PlanLaneIds : h[l] = n
      BY <1>2, <3>1
    <3> QED
      BY <1>10, <3>1, <3>2
  <2>6. Cardinality(busy) = bound - a
    <3>1. a \in Nat /\ bound \in Nat /\ a <= bound
      BY <1>2, <1>9
    <3> HIDE DEF a
    <3> QED
      BY <3>1, <2>2, <2>3, <2>5, HoldCount
  <2>7. bound - a = top - b
    BY <1>2, <1>9 DEF bound
  <2> QED
    BY <2>6, <2>7
<1>12. posted \in [Ranks -> Nat] /\ launched \in [Ranks -> Nat] /\ polled \in [Ranks -> SUBSET PlanLaneIds]
  BY DEF LanesTyped
<1> HIDE DEF freed, busy, top
<1>13. posted' = [posted EXCEPT ![r] = k]
  <2>1. posted' = [posted EXCEPT ![r] = a + Cardinality(out)]
    BY <1>1, <1>12
  <2>2. a + Cardinality(out) = k
    BY <1>2, <1>4, <1>8
  <2> QED
    BY <2>1, <2>2
<1>14. launched' = [launched EXCEPT ![r] = top]
  <2>1. launched' = [launched EXCEPT ![r] = b + Cardinality(busy)]
    BY <1>1, <1>12
  <2>2. b + Cardinality(busy) = top
    BY <1>2, <1>9, <1>11
  <2> QED
    BY <2>1, <2>2
<1> DEFINE now == [l \in PlanLaneIds |->
                     IF h[l] # -1 /\ h[l] < k
                     THEN IF Following(r, h[l]) < N THEN Following(r, h[l]) ELSE -1
                     ELSE h[l]]
<1>15. holds' = [holds EXCEPT ![r] = now]
  <2>1. holds \in [Ranks -> [PlanLaneIds -> Nat \cup {-1}]]
    BY DEF LanesTyped
  <2>2. [l \in PlanLaneIds |-> IF l \in freed THEN next(l) ELSE h[l]] = now
    <3>1. \A l \in PlanLaneIds : (IF l \in freed THEN next(l) ELSE h[l]) = now[l]
      BY <1>6 DEF Following
    <3> QED
      BY <3>1
  <2>3. holds' = [holds EXCEPT ![r] = [l \in PlanLaneIds |-> IF l \in freed THEN next(l) ELSE h[l]]]
    BY <1>1, <2>1
  <2> QED
    BY <2>2, <2>3
<1>16. \A l \in PlanLaneIds : l \in busy <=> h[l] # -1 /\ h[l] < k /\ Following(r, h[l]) < N
  <2> SUFFICES ASSUME NEW l \in PlanLaneIds
               PROVE  l \in busy <=> h[l] # -1 /\ h[l] < k /\ Following(r, h[l]) < N
    OBVIOUS
  <2>1. l \in busy <=> l \in freed /\ next(l) # -1
    BY DEF busy
  <2>2. h[l] \in Nat \cup {-1}
    BY <1>2
  <2>3. h[l] # -1 /\ h[l] < k => (next(l) # -1 <=> Following(r, h[l]) < N)
    BY <1>2, <2>2 DEF Following
  <2> HIDE DEF next
  <2> QED
    BY <1>6, <2>1, <2>3
<1>17. /\ \A x \in running : x \in running'
       /\ \A x \in running' : x \in running \/ \E l \in PlanLaneIds :
              x = <<r, l>> /\ h[l] # -1 /\ h[l] < k /\ Following(r, h[l]) < N
  <2>1. \A l \in busy : l \in PlanLaneIds
    BY <1>7 DEF busy
  <2> QED
    BY <1>1, <1>16, <2>1
<1>18. \A l \in PlanLaneIds : h[l] # -1 /\ h[l] < k =>
          <<r, l>> \notin running /\ (Following(r, h[l]) < N => <<r, l>> \in running')
  BY <1>1, <1>3, <1>6, <1>7, <1>16
<1>19. /\ polled' \in [Ranks -> SUBSET PlanLaneIds] /\ \A l \in polled'[r] : h[l] # -1 /\ k < h[l]
       /\ \A q \in Ranks : q # r => polled'[q] = polled[q]
  <2>1. polled' \in [Ranks -> SUBSET PlanLaneIds] /\ \A q \in Ranks : q # r => polled'[q] = polled[q]
    BY <1>1, <1>3, <1>12
  <2>2. \A l \in polled'[r] : l \in done /\ l \notin freed /\ l \in PlanLaneIds
    BY <1>1, <1>3, <1>12
  <2>3. ASSUME NEW l \in done, l \notin freed PROVE h[l] # -1 /\ k < h[l]
    <3>1. l \in PlanLaneIds /\ h[l] # -1 /\ h[l] # k
      BY <1>3, <1>4
    <3>2. h[l] \in Nat /\ ~(h[l] < k)
      BY <1>2, <1>6, <2>3, <3>1
    <3> HIDE DEF h
    <3> QED
      BY <3>1, <3>2
  <2> QED
    BY <2>1, <2>2, <2>3
<1>20. top = IF Following(r, k) < N THEN Following(r, k) ELSE N
  BY DEF top, Following
<1> QED
  BY <1>1, <1>4, <1>9, <1>13, <1>14, <1>15, <1>17, <1>18, <1>19, <1>20


LEMMA PollLanesInv ==
    ASSUME LanesTyped, LanesHold, LanesRun, PhasesTyped, PhasesInv,
           NEW r \in Ranks, PollAndPost(r), computed' = computed
    PROVE  /\ LanesTyped' /\ LanesHold' /\ LanesRun'
           /\ posted'[r] < Planes[r] => \E l \in LanesOf(r) \ polled'[r] : holds'[r][l] # -1
<1>1. PICK k \in Nat, top \in Nat :
        /\ posted[r] <= k /\ k <= launched[r]
        /\ top = IF Following(r, k) < Planes[r] THEN Following(r, k) ELSE Planes[r]
        /\ posted' = [posted EXCEPT ![r] = k]
        /\ launched' = [launched EXCEPT ![r] = top]
        /\ holds' = [holds EXCEPT ![r] = [l \in PlanLaneIds |->
               IF holds[r][l] # -1 /\ holds[r][l] < k
               THEN IF Following(r, holds[r][l]) < Planes[r] THEN Following(r, holds[r][l]) ELSE -1
               ELSE holds[r][l]]]
        /\ \A x \in running : x \in running'
        /\ \A x \in running' : x \in running \/ \E l \in PlanLaneIds :
               /\ x = <<r, l>> /\ holds[r][l] # -1 /\ holds[r][l] < k
               /\ Following(r, holds[r][l]) < Planes[r]
        /\ \A l \in PlanLaneIds :
               holds[r][l] # -1 /\ holds[r][l] < k =>
                   /\ <<r, l>> \notin running
                   /\ Following(r, holds[r][l]) < Planes[r] => <<r, l>> \in running'
        /\ polled' \in [Ranks -> SUBSET PlanLaneIds]
        /\ \A l \in polled'[r] : holds[r][l] # -1 /\ k < holds[r][l]
  BY PollIs
<1> DEFINE a == posted[r]
           b == launched[r]
           N == Planes[r]
           h == holds[r]
           g == holds'[r]
<1>2. /\ a \in Nat /\ b \in Nat /\ N \in Nat \ {0} /\ h \in [PlanLaneIds -> Nat \cup {-1}]
      /\ a <= b /\ b <= N
      /\ \A l \in PlanLaneIds : h[l] # -1 => l \in LanesOf(r) /\ a <= h[l] /\ h[l] < b
      /\ \A i, l \in PlanLaneIds : h[i] # -1 /\ h[i] = h[l] => i = l
      /\ \A n \in a .. b - 1 : \E l \in PlanLaneIds : h[l] = n
  BY PipeSizes DEF LanesTyped, LanesHold
<1>3. pc[r] = "head" /\ pc' = [pc EXCEPT ![r] = "testRecv"] /\ pc \in [Ranks -> PipePhases]
  BY DEF PollAndPost, PhasesTyped
<1>4. b < N => \A l \in LanesOf(r) : h[l] # -1
  BY <1>3 DEF LanesHold
<1>5. /\ holds \in [Ranks -> [PlanLaneIds -> Nat \cup {-1}]]
      /\ posted \in [Ranks -> Nat] /\ launched \in [Ranks -> Nat]
      /\ running \subseteq Ranks \X (PlanLaneIds \cup {0})
      /\ computed \in [Ranks -> SUBSET Int]
  BY DEF LanesTyped
<1>6. /\ posted'[r] = k /\ launched'[r] = top
      /\ a <= k /\ k <= b
      /\ top = IF b + k - a < N THEN b + k - a ELSE N
      /\ \A l \in PlanLaneIds :
           g[l] = IF h[l] # -1 /\ h[l] < k THEN IF b + h[l] - a < N THEN b + h[l] - a ELSE -1 ELSE h[l]
  BY <1>1, <1>5 DEF Following
<1>7. \A q \in Ranks : q # r =>
        posted'[q] = posted[q] /\ launched'[q] = launched[q] /\ holds'[q] = holds[q] /\ pc'[q] = pc[q]
  BY <1>1, <1>3, <1>5
<1>8. \A l \in PlanLaneIds : h[l] # -1 /\ h[l] < k =>
        <<r, l>> \notin running /\ (b + h[l] - a < N => <<r, l>> \in running')
  BY <1>1 DEF Following
<1>9. \A x \in running' : x \in running \/ \E l \in PlanLaneIds :
        x = <<r, l>> /\ h[l] # -1 /\ h[l] < k /\ b + h[l] - a < N
  BY <1>1 DEF Following
<1>10. \A l \in polled'[r] : h[l] # -1 /\ k < h[l] /\ l \in PlanLaneIds
  BY <1>1
<1>11. pc'[r] = "testRecv"
  BY <1>3
<1> HIDE DEF a, b, N, h, g
<1>12. g \in [PlanLaneIds -> Nat \cup {-1}]
  <2> DEFINE now == [l \in PlanLaneIds |->
               IF holds[r][l] # -1 /\ holds[r][l] < k
               THEN IF Following(r, holds[r][l]) < Planes[r] THEN Following(r, holds[r][l]) ELSE -1
               ELSE holds[r][l]]
  <2>1. g = now
    BY <1>1, <1>5 DEF g
  <2>2. \A l \in PlanLaneIds : now[l] = g[l]
    BY <2>1
  <2>3. \A l \in PlanLaneIds : g[l] \in Nat \cup {-1}
    BY <1>2, <1>6
  <2>4. now \in [PlanLaneIds -> Nat \cup {-1}]
    <3>1. now = [l \in PlanLaneIds |-> now[l]]
      OBVIOUS
    <3> HIDE DEF now
    <3> QED
      BY <2>2, <2>3, <3>1
  <2> QED
    BY <2>1, <2>4
<1>13. LanesTyped'
  <2>1. holds' \in [Ranks -> [PlanLaneIds -> Nat \cup {-1}]]
    <3>1. holds' = [holds EXCEPT ![r] = g]
      BY <1>1, <1>5 DEF g
    <3> QED
      BY <1>5, <1>12, <3>1
  <2>2. running' \subseteq Ranks \X (PlanLaneIds \cup {0})
    BY <1>5, <1>9
  <2>3. posted' \in [Ranks -> Nat] /\ launched' \in [Ranks -> Nat]
    BY <1>1, <1>5
  <2> QED
    BY <1>1, <1>5, <2>1, <2>2, <2>3 DEF LanesTyped
\* The planes of the lanes, before and after.
<1>14. \A l \in PlanLaneIds : g[l] # -1 => l \in LanesOf(r) /\ k <= g[l] /\ g[l] < top
  BY <1>2, <1>6
<1>15. \A i, l \in PlanLaneIds : g[i] # -1 /\ g[i] = g[l] => i = l
  <2> SUFFICES ASSUME NEW i \in PlanLaneIds, NEW l \in PlanLaneIds, g[i] # -1, g[i] = g[l] PROVE i = l
    OBVIOUS
  <2>1. h[i] # -1 /\ h[l] # -1 /\ h[i] \in Nat /\ h[l] \in Nat
    BY <1>2, <1>6
  <2>2. h[i] < b /\ h[l] < b /\ a <= h[i] /\ a <= h[l]
    BY <1>2, <2>1
  <2>3. h[i] = h[l]
    BY <1>2, <1>6, <2>1, <2>2
  <2> QED
    BY <1>2, <2>1, <2>3
<1>16. \A n \in k .. top - 1 : \E l \in PlanLaneIds : g[l] = n
  <2> SUFFICES ASSUME NEW n \in k .. top - 1 PROVE \E l \in PlanLaneIds : g[l] = n
    OBVIOUS
  <2>1. CASE n < b
    <3>1. n \in a .. b - 1
      BY <1>2, <1>6, <2>1
    <3>2. PICK l \in PlanLaneIds : h[l] = n
      BY <1>2, <3>1
    <3>3. g[l] = n
      BY <1>6, <3>2
    <3> QED
      BY <3>3
  <2>2. CASE ~(n < b)
    <3> DEFINE o == n - b + a
    <3>1. o \in a .. b - 1 /\ o < k /\ o # -1 /\ b + o - a = n /\ n < N
      BY <1>2, <1>6, <2>2
    <3> HIDE DEF o
    <3>2. PICK l \in PlanLaneIds : h[l] = o
      BY <1>2, <3>1
    <3>3. g[l] = n
      BY <1>6, <3>1, <3>2
    <3> QED
      BY <3>3
  <2> QED
    BY <2>1, <2>2
<1>17. k <= top /\ top <= N
  BY <1>2, <1>6
<1>18. top < N => \A l \in LanesOf(r) : g[l] # -1
  <2> SUFFICES ASSUME top < N, NEW l \in LanesOf(r) PROVE g[l] # -1
    OBVIOUS
  <2>1. l \in PlanLaneIds
    BY PipeLanes
  <2>2. b < N
    BY <1>2, <1>6
  <2>3. h[l] # -1 /\ h[l] \in Nat /\ a <= h[l]
    BY <1>2, <1>4, <2>1, <2>2
  <2> QED
    BY <1>2, <1>6, <2>1, <2>3
<1>19. LanesHold'
  <2> SUFFICES ASSUME NEW q \in Ranks
               PROVE  /\ \A l \in PlanLaneIds : holds'[q][l] # -1 =>
                           l \in LanesOf(q) /\ posted'[q] <= holds'[q][l] /\ holds'[q][l] < launched'[q]
                      /\ \A i, l \in PlanLaneIds :
                            holds'[q][i] # -1 /\ holds'[q][i] = holds'[q][l] => i = l
                      /\ \A n \in posted'[q] .. launched'[q] - 1 : \E l \in PlanLaneIds : holds'[q][l] = n
                      /\ posted'[q] <= launched'[q] /\ launched'[q] <= Planes[q]
                      /\ pc'[q] = "activate" => launched'[q] = 0
                      /\ pc'[q] # "activate" /\ launched'[q] < Planes[q] =>
                            \A l \in LanesOf(q) : holds'[q][l] # -1
    BY DEF LanesHold, LanesOf
  <2>1. CASE q = r
    BY <1>6, <1>11, <1>14, <1>15, <1>16, <1>17, <1>18, <2>1 DEF g, N
  <2>2. CASE q # r
    BY <1>7, <2>2 DEF LanesHold
  <2> QED
    BY <2>1, <2>2
<1>20. LanesRun'
  <2>1. \A x \in running' : x[2] # 0 => holds'[x[1]][x[2]] # -1
    <3> SUFFICES ASSUME NEW x \in running', x[2] # 0 PROVE holds'[x[1]][x[2]] # -1
      OBVIOUS
    <3>1. CASE x \in running
      <4>1. x[1] \in Ranks /\ x[2] \in PlanLaneIds /\ x = <<x[1], x[2]>> /\ holds[x[1]][x[2]] # -1
        BY <1>5, <3>1 DEF LanesRun
      <4>2. CASE x[1] = r
        <5>1. h[x[2]] # -1 /\ ~(h[x[2]] < k)
          BY <1>8, <3>1, <4>1, <4>2 DEF h
        <5>2. g[x[2]] # -1
          BY <1>6, <4>1, <5>1
        <5> QED
          BY <4>2, <5>2 DEF g
      <4>3. CASE x[1] # r
        BY <1>7, <4>1, <4>3
      <4> QED
        BY <4>2, <4>3
    <3>2. CASE x \notin running
      <4>1. PICK l \in PlanLaneIds : x = <<r, l>> /\ h[l] # -1 /\ h[l] < k /\ b + h[l] - a < N
        BY <1>9, <3>2
      <4>2. g[l] # -1
        BY <1>2, <1>6, <4>1
      <4> QED
        BY <4>1, <4>2 DEF g
    <3> QED
      BY <3>1, <3>2
  <2>2. ASSUME NEW q \in Ranks, Overlapped(q) \in running' PROVE pc'[q] = "drain"
    <3>1. Overlapped(q) \in running
      <4>1. \A l \in PlanLaneIds : Overlapped(q) # <<r, l>>
        BY PipeLanes DEF Overlapped
      <4> QED
        BY <1>9, <2>2, <4>1
    <3>2. pc[q] = "drain"
      BY <3>1 DEF LanesRun
    <3> QED
      BY <1>3, <1>7, <3>2
  <2>3. ASSUME NEW q \in Ranks, NEW l \in PlanLaneIds, holds'[q][l] # -1, <<q, l>> \notin running'
        PROVE  holds'[q][l] \in computed[q]
    <3>1. <<q, l>> \notin running
      BY <1>1, <2>3
    <3>2. CASE q = r
      <4>1. ~(h[l] # -1 /\ h[l] < k)
        BY <1>6, <1>8, <2>3, <3>2 DEF g
      <4>2. g[l] = h[l] /\ h[l] # -1
        BY <1>6, <2>3, <3>2, <4>1 DEF g
      <4> QED
        BY <3>1, <3>2, <4>2 DEF LanesRun, g, h
    <3>3. CASE q # r
      BY <1>7, <2>3, <3>1, <3>3 DEF LanesRun
    <3> QED
      BY <3>2, <3>3
  <2>4. ASSUME NEW q \in Ranks, NEW n \in 0 .. posted'[q] - 1 PROVE n \in computed[q]
    <3>1. CASE q = r
      <4>1. n \in 0 .. a - 1 \/ n \in a .. k - 1
        BY <1>2, <1>6, <2>4, <3>1
      <4>2. CASE n \in 0 .. a - 1
        BY <3>1, <4>2 DEF LanesRun, a
      <4>3. CASE n \in a .. k - 1
        <5>1. n \in a .. b - 1 /\ n # -1 /\ n < k
          BY <1>2, <1>6, <4>3
        <5>2. PICK l \in PlanLaneIds : h[l] = n
          BY <1>2, <5>1
        <5>3. <<r, l>> \notin running
          BY <1>8, <5>1, <5>2
        <5> QED
          BY <3>1, <5>1, <5>2, <5>3 DEF LanesRun, h
      <4> QED
        BY <4>1, <4>2, <4>3
    <3>2. CASE q # r
      BY <1>7, <3>2 DEF LanesRun
    <3> QED
      BY <3>1, <3>2
  <2> QED
    BY <2>1, <2>2, <2>3, <2>4 DEF LanesRun, Overlapped
<1>21. k < N => \E l \in LanesOf(r) \ polled'[r] : g[l] # -1
  <2> SUFFICES ASSUME k < N PROVE \E l \in LanesOf(r) \ polled'[r] : g[l] # -1
    OBVIOUS
  <2>1. k < top
    <3> SUFFICES ASSUME ~(k < top) PROVE FALSE
      OBVIOUS
    <3>1. top < N
      BY <1>2, <1>6
    <3>2. 1 \in LanesOf(r) /\ 1 \in PlanLaneIds
      BY PipeLanes
    <3>3. g[1] # -1
      BY <1>18, <3>1, <3>2
    <3>4. k <= g[1] /\ g[1] < top /\ g[1] \in Nat
      BY <1>12, <1>14, <3>2, <3>3
    <3> QED
      BY <3>4
  <2>2. k \in k .. top - 1
    BY <2>1
  <2>3. PICK l \in PlanLaneIds : g[l] = k
    BY <1>16, <2>2
  <2>4. g[l] # -1 /\ l \in LanesOf(r)
    BY <1>14, <2>3
  <2>5. l \notin polled'[r]
    <3> SUFFICES ASSUME l \in polled'[r] PROVE FALSE
      OBVIOUS
    <3>1. h[l] # -1 /\ k < h[l] /\ h[l] \in Nat
      BY <1>2, <1>10
    <3>2. g[l] = h[l]
      BY <1>6, <3>1
    <3> QED
      BY <2>3, <3>1, <3>2
  <2> QED
    BY <2>4, <2>5
<1> QED
  BY <1>6, <1>13, <1>19, <1>20, <1>21 DEF g, N


LEMMA PollTransfersInv ==
    ASSUME TransfersTyped, LanesTyped, WindowTyped, LanesHold, PlaneTransfers,
           NEW r \in Ranks, PollAndPost(r)
    PROVE  TransfersTyped' /\ WindowTyped' /\ PlaneTransfers'
<1>1. PICK k \in Nat :
        /\ posted[r] <= k
        /\ posted' = [posted EXCEPT ![r] = k]
        /\ sends' = sends \cup {PlaneRequest(r, x[1], x[2]) : x \in Peers(r) \X (posted[r] .. k - 1)}
        /\ unacked' = unacked \cup
               {m \in {PlaneRequest(r, x[1], x[2]) : x \in Peers(r) \X (posted[r] .. k - 1)} :
                   <<r, m.dst>> \notin Eager}
        /\ sending' = [sending EXCEPT ![r] = @ \cup (Peers(r) \X (posted[r] .. k - 1))]
  BY PollIs
<1>2. recvs' = recvs /\ landed' = landed /\ receiving' = receiving /\ rnext' = rnext
  BY DEF PollAndPost
<1> DEFINE a == posted[r]
           pairs == Peers(r) \X (a .. k - 1)
           new == {PlaneRequest(r, x[1], x[2]) : x \in pairs}
<1>3. a \in Nat /\ a <= k
  BY <1>1 DEF LanesTyped
<1>4. \A m \in new : \E p \in Peers(r), n \in a .. k - 1 : m = PlaneRequest(r, p, n)
  OBVIOUS
<1>5. \A p \in Peers(r), n \in a .. k - 1 : PlaneRequest(r, p, n) \in new
  <2> SUFFICES ASSUME NEW p \in Peers(r), NEW n \in a .. k - 1 PROVE PlaneRequest(r, p, n) \in new
    OBVIOUS
  <2> DEFINE x == <<p, n>>
  <2>1. x \in pairs /\ x[1] = p /\ x[2] = n
    OBVIOUS
  <2> HIDE DEF x, pairs
  <2> QED
    BY <2>1
<1>6. sends' = sends \cup new /\ unacked' = unacked \cup {m \in new : <<r, m.dst>> \notin Eager}
  BY <1>1
<1>7. /\ \A q \in Ranks : q # r => posted'[q] = posted[q] /\ sending'[q] = sending[q]
      /\ posted'[r] = k
      /\ sending'[r] = sending[r] \cup pairs
  BY <1>1 DEF LanesTyped, WindowTyped
<1>8. /\ \A q \in Ranks : posted[q] \in Nat /\ posted'[q] \in Nat /\ posted[q] <= posted'[q]
      /\ \A q \in Ranks : \A x \in sending[q] : x \in sending'[q]
  BY <1>3, <1>7 DEF LanesTyped
<1>9. \A n \in a .. k - 1 : n \in Nat /\ n < k
  BY <1>3
<1>10. pairs \subseteq Ranks \X Nat
  BY <1>9, PeersAre
<1>11. WindowTyped'
  <2>1. sending \in [Ranks -> SUBSET (Ranks \X Nat)]
    BY DEF WindowTyped
  <2>2. sending' = [sending EXCEPT ![r] = sending[r] \cup pairs]
    BY <1>1, <2>1
  <2> HIDE DEF pairs
  <2>3. sending' \in [Ranks -> SUBSET (Ranks \X Nat)]
    BY <1>10, <2>1, <2>2
  <2> QED
    BY <1>2, <2>3 DEF WindowTyped
<1>12. \A p \in Peers(r), n \in a .. k - 1 : <<p, n>> \in sending'[r]
  BY <1>7
<1> HIDE DEF a, new, pairs
\* A new send: whom it is for, and that its plane has not landed.
<1>13. ASSUME NEW m \in new
       PROVE  /\ m \in PlaneRequests
              /\ m = PlaneRequest(m.src, m.dst, m.plane) /\ m.src # m.dst
              /\ m.plane < posted'[m.src]
              /\ Arrival(m.src, m.dst, m.plane) \notin landed
              /\ <<m.dst, m.plane>> \in sending'[m.src]
              /\ <<m.src, m.dst>> \in Eager \/ m \in unacked'
  <2>1. PICK p \in Peers(r), n \in a .. k - 1 : m = PlaneRequest(r, p, n)
    BY <1>4, <1>13
  <2>2. p \in Ranks /\ p # r /\ n \in Nat /\ n < k /\ a <= n
    BY <1>3, <1>9, PeersAre
  <2>3. m.src = r /\ m.dst = p /\ m.plane = n /\ m \in PlaneRequests
    BY <2>1, <2>2, RequestIs
  <2>4. Arrival(r, p, n) \notin landed
    <3> SUFFICES ASSUME Arrival(r, p, n) \in landed PROVE FALSE
      OBVIOUS
    <3>1. Arrival(r, p, n).want = n /\ Arrival(r, p, n).src = r
      BY DEF Arrival
    <3>2. n < posted[r]
      BY <3>1 DEF PlaneTransfers, PlaneLandedAre
    <3> QED
      BY <1>3, <2>2, <3>2 DEF a
  <2>5. <<r, p>> \in Eager \/ m \in unacked'
    BY <1>6, <1>13, <2>3
  <2> QED
    BY <1>7, <1>12, <2>1, <2>2, <2>3, <2>4, <2>5
<1>14. TransfersTyped'
  BY <1>2, <1>6, <1>13 DEF TransfersTyped
<1>15. PlaneRecvsAre' /\ PlaneRecvsCover'
  BY <1>2 DEF PlaneTransfers, PlaneRecvsAre, PlaneRecvsCover
<1>16. PlaneSendsAre'
  <2> SUFFICES ASSUME NEW m \in sends'
               PROVE  /\ m = PlaneRequest(m.src, m.dst, m.plane) /\ m.src # m.dst
                      /\ m.plane < posted'[m.src]
                      /\ Arrival(m.src, m.dst, m.plane) \notin landed'
                      /\ <<m.src, m.dst>> \in Eager \/ m \in unacked'
    BY DEF PlaneSendsAre
  <2>1. CASE m \in sends
    <3>1. /\ m = PlaneRequest(m.src, m.dst, m.plane) /\ m.src # m.dst
          /\ m.plane < posted[m.src]
          /\ Arrival(m.src, m.dst, m.plane) \notin landed
          /\ <<m.src, m.dst>> \in Eager \/ m \in unacked
      BY <2>1 DEF PlaneTransfers, PlaneSendsAre
    <3>2. m.src \in Ranks /\ m.plane \in Nat
      BY <2>1 DEF TransfersTyped, PlaneRequests
    <3>3. m.plane < posted'[m.src]
      <4> DEFINE s == m.src
                 n == m.plane
      <4>1. n < posted[s] /\ s \in Ranks /\ n \in Nat
        BY <3>1, <3>2
      <4> HIDE DEF s, n
      <4>2. n < posted'[s]
        BY <1>8, <4>1
      <4> QED
        BY <4>2 DEF s, n
    <3>4. m \in unacked => m \in unacked'
      BY <1>6
    <3> QED
      BY <1>2, <3>1, <3>3, <3>4
  <2>2. CASE m \in new
    BY <1>2, <1>13, <2>2
  <2> QED
    BY <1>6, <2>1, <2>2
<1>17. PlaneUnackedAre'
  <2> SUFFICES ASSUME NEW m \in unacked'
               PROVE  /\ m = PlaneRequest(m.src, m.dst, m.plane) /\ m.src # m.dst
                      /\ m.plane < posted'[m.src]
                      /\ <<m.dst, m.plane>> \in sending'[m.src]
    BY DEF PlaneUnackedAre
  <2>1. CASE m \in unacked
    <3>1. /\ m = PlaneRequest(m.src, m.dst, m.plane) /\ m.src # m.dst
          /\ m.plane < posted[m.src]
          /\ <<m.dst, m.plane>> \in sending[m.src]
      BY <2>1 DEF PlaneTransfers, PlaneUnackedAre
    <3>2. m.src \in Ranks /\ m.plane \in Nat
      BY <2>1 DEF TransfersTyped, PlaneRequests
    <3>3. m.plane < posted'[m.src] /\ <<m.dst, m.plane>> \in sending'[m.src]
      <4> DEFINE s == m.src
                 n == m.plane
                 x == <<m.dst, m.plane>>
      <4>1. n < posted[s] /\ s \in Ranks /\ n \in Nat /\ x \in sending[s]
        BY <3>1, <3>2
      <4> HIDE DEF s, n, x
      <4>2. n < posted'[s] /\ x \in sending'[s]
        BY <1>8, <4>1
      <4> QED
        BY <4>2 DEF s, n, x
    <3> QED
      BY <3>1, <3>3
  <2>2. CASE m \in new
    BY <1>13, <2>2
  <2> QED
    BY <1>6, <2>1, <2>2
<1>18. PlaneLandedAre'
  <2> SUFFICES ASSUME NEW x \in landed PROVE x.want < posted'[x.src] /\ x.want < rnext[x.dst][x.src]
    BY <1>2 DEF PlaneLandedAre
  <2> DEFINE s == x.src
             n == x.want
  <2>1. n < posted[s] /\ n < rnext[x.dst][s] /\ s \in Ranks /\ n \in Nat
    BY DEF PlaneTransfers, PlaneLandedAre, TransfersTyped, Arrivals
  <2> HIDE DEF s, n
  <2>2. n < posted'[s]
    BY <1>8, <2>1
  <2> QED
    BY <2>1, <2>2 DEF s, n
<1>19. PlaneSendsCover'
  <2> SUFFICES ASSUME NEW q \in Ranks, NEW p \in Peers(q), NEW n \in Nat, n < posted'[q]
               PROVE  PlaneRequest(q, p, n) \in sends' \/ Arrival(q, p, n) \in landed'
    BY DEF PlaneSendsCover
  <2>1. CASE n < posted[q]
    BY <1>2, <1>6, <2>1 DEF PlaneTransfers, PlaneSendsCover
  <2>2. CASE ~(n < posted[q])
    <3>1. q = r /\ n \in a .. k - 1
      BY <1>3, <1>7, <2>2 DEF a
    <3> QED
      BY <1>5, <1>6, <3>1
  <2> QED
    BY <2>1, <2>2
<1> QED
  BY <1>11, <1>14, <1>15, <1>16, <1>17, <1>18, <1>19 DEF PlaneTransfers

-----------------------------------------------------------------------------
(***************************************************************************)
(* The start of a call.                                                    *)
(***************************************************************************)

LEMMA LanesCount ==
    ASSUME NEW r \in Ranks
    PROVE  Cardinality(LanesOf(r)) = IF PlanLanes < Planes[r] THEN PlanLanes ELSE Planes[r]
<1> DEFINE m == IF PlanLanes < Planes[r] THEN PlanLanes ELSE Planes[r]
           L == LanesOf(r)
           h == [l \in L |-> l - 1]
<1>1. m \in Nat /\ \A l : l \in L <=> l \in 1 .. m
  BY PipeSizes DEF LanesOf, PlanLaneIds
<1> HIDE DEF m, L
<1>2. \A l \in L : h[l] = l - 1 /\ l \in Nat /\ h[l] \in 0 .. m - 1
  BY <1>1
<1>3. \A n \in 0 .. m - 1 : n + 1 \in L /\ h[n + 1] = n
  BY <1>1
<1> HIDE DEF h
<1>4. Cardinality(L) = m - 0
  <2>1. \A k, l \in L : h[k] = h[l] => k = l
    BY <1>2
  <2>2. \A n \in 0 .. m - 1 : \E l \in L : h[l] = n
    BY <1>3
  <2> QED
    BY <1>1, <1>2, <2>1, <2>2, HoldCount
<1> QED
  BY <1>1, <1>4 DEF m, L

LEMMA BeginLanesInv ==
    ASSUME LanesTyped, LanesHold, LanesRun, PhasesTyped,
           NEW r \in Ranks, Begin(r), computed' = computed
    PROVE  LanesTyped' /\ LanesHold' /\ LanesRun'
<1> DEFINE N == Planes[r]
           m == IF PlanLanes < N THEN PlanLanes ELSE N
           g == holds'[r]
           now == [l \in PlanLaneIds |-> IF l \in LanesOf(r) THEN l - 1 ELSE holds[r][l]]
<1>1. /\ holds \in [Ranks -> [PlanLaneIds -> Nat \cup {-1}]]
      /\ posted \in [Ranks -> Nat] /\ launched \in [Ranks -> Nat]
      /\ polled \in [Ranks -> SUBSET PlanLaneIds]
      /\ running \subseteq Ranks \X (PlanLaneIds \cup {0})
      /\ computed \in [Ranks -> SUBSET Int]
  BY DEF LanesTyped
<1>2. pc[r] = "activate" /\ pc' = [pc EXCEPT ![r] = "head"] /\ pc \in [Ranks -> PipePhases]
  BY DEF Begin, PhasesTyped
<1>3. /\ holds' = [holds EXCEPT ![r] = now]
      /\ running' = running \cup {<<r, l>> : l \in LanesOf(r)}
      /\ launched' = [launched EXCEPT ![r] = Cardinality(LanesOf(r))]
      /\ posted' = posted /\ polled' = polled
  BY <1>1 DEF Begin
<1>4. N \in Nat \ {0} /\ m \in Nat /\ m <= N /\ Cardinality(LanesOf(r)) = m
  BY PipeSizes, LanesCount
<1>5. \A l \in PlanLaneIds : /\ l \in Nat \ {0} /\ l <= PlanLanes
                             /\ l \in LanesOf(r) <=> l <= m
  BY PipeSizes, PipeLanes DEF PlanLaneIds
<1>6. launched[r] = 0 /\ posted[r] = 0 /\ \A l \in PlanLaneIds : holds[r][l] = -1
  <2>1. launched[r] = 0
    BY <1>2 DEF LanesHold
  <2>2. posted[r] = 0
    BY <1>1, <2>1 DEF LanesHold
  <2>3. ASSUME NEW l \in PlanLaneIds PROVE holds[r][l] = -1
    <3>1. holds[r][l] \in Nat \cup {-1} /\ (holds[r][l] # -1 => holds[r][l] < launched[r])
      BY <1>1 DEF LanesHold
    <3> QED
      BY <2>1, <3>1
  <2> QED
    BY <2>1, <2>2, <2>3
<1>7. \A l \in PlanLaneIds : g[l] = IF l \in LanesOf(r) THEN l - 1 ELSE -1
  <2>1. g = now
    BY <1>1, <1>3
  <2> QED
    BY <1>6, <2>1
<1>8. /\ launched'[r] = m /\ posted'[r] = 0 /\ pc'[r] = "head"
      /\ \A q \in Ranks : q # r =>
           launched'[q] = launched[q] /\ posted'[q] = posted[q] /\ holds'[q] = holds[q] /\ pc'[q] = pc[q]
  BY <1>1, <1>2, <1>3, <1>4, <1>6
<1>9. LanesTyped'
  <2>1. now \in [PlanLaneIds -> Nat \cup {-1}]
    BY <1>5, <1>6
  <2> HIDE DEF now, m
  <2>2. holds' \in [Ranks -> [PlanLaneIds -> Nat \cup {-1}]]
    BY <1>1, <1>3, <2>1
  <2>3. running' \subseteq Ranks \X (PlanLaneIds \cup {0})
    BY <1>1, <1>3, PipeLanes
  <2>4. launched' \in [Ranks -> Nat]
    BY <1>1, <1>3, <1>4
  <2> QED
    BY <1>1, <1>3, <2>2, <2>3, <2>4 DEF LanesTyped
<1> HIDE DEF now, m, g, N
<1>10. /\ \A l \in PlanLaneIds : g[l] # -1 => l \in LanesOf(r) /\ 0 <= g[l] /\ g[l] < m
       /\ \A k, l \in PlanLaneIds : g[k] # -1 /\ g[k] = g[l] => k = l
       /\ \A l \in LanesOf(r) : g[l] # -1
  <2>1. \A l \in PlanLaneIds : g[l] # -1 => l \in LanesOf(r) /\ g[l] = l - 1
    BY <1>7
  <2>2. \A l \in LanesOf(r) : l \in PlanLaneIds /\ g[l] = l - 1
    BY <1>7, PipeLanes
  <2> QED
    BY <1>4, <1>5, <2>1, <2>2
<1>11. \A n \in 0 .. m - 1 : \E l \in PlanLaneIds : g[l] = n
  <2> SUFFICES ASSUME NEW n \in 0 .. m - 1 PROVE \E l \in PlanLaneIds : g[l] = n
    OBVIOUS
  <2> DEFINE l == n + 1
  <2>1. l \in PlanLaneIds
    BY <1>4, PipeSizes DEF PlanLaneIds, m
  <2>2. l \in LanesOf(r) /\ l - 1 = n
    BY <1>4, <1>5, <2>1
  <2> HIDE DEF l
  <2>3. g[l] = n
    BY <1>7, <2>1, <2>2
  <2> QED
    BY <2>1, <2>3
<1>12. LanesHold'
  <2> SUFFICES ASSUME NEW q \in Ranks
               PROVE  /\ \A l \in PlanLaneIds : holds'[q][l] # -1 =>
                           l \in LanesOf(q) /\ posted'[q] <= holds'[q][l] /\ holds'[q][l] < launched'[q]
                      /\ \A i, l \in PlanLaneIds :
                            holds'[q][i] # -1 /\ holds'[q][i] = holds'[q][l] => i = l
                      /\ \A n \in posted'[q] .. launched'[q] - 1 : \E l \in PlanLaneIds : holds'[q][l] = n
                      /\ posted'[q] <= launched'[q] /\ launched'[q] <= Planes[q]
                      /\ pc'[q] = "activate" => launched'[q] = 0
                      /\ pc'[q] # "activate" /\ launched'[q] < Planes[q] =>
                            \A l \in LanesOf(q) : holds'[q][l] # -1
    BY DEF LanesHold, LanesOf
  <2>1. CASE q = r
    BY <1>4, <1>8, <1>10, <1>11, <2>1 DEF g, N
  <2>2. CASE q # r
    BY <1>8, <2>2 DEF LanesHold
  <2> QED
    BY <2>1, <2>2
<1>13. LanesRun'
  <2>1. \A x \in running' : x \in running \/ \E l \in LanesOf(r) : x = <<r, l>>
    BY <1>3
  <2>2. \A x \in running' : x[2] # 0 => holds'[x[1]][x[2]] # -1
    <3> SUFFICES ASSUME NEW x \in running', x[2] # 0 PROVE holds'[x[1]][x[2]] # -1
      OBVIOUS
    <3>1. CASE x \in running
      <4>1. x[1] \in Ranks /\ x[2] \in PlanLaneIds /\ holds[x[1]][x[2]] # -1
        BY <1>1, <3>1 DEF LanesRun
      <4>2. x[1] # r
        BY <1>6, <4>1
      <4> QED
        BY <1>8, <4>1, <4>2
    <3>2. CASE x \notin running
      <4>1. PICK l \in LanesOf(r) : x = <<r, l>>
        BY <2>1, <3>2
      <4> QED
        BY <1>10, <4>1 DEF g
    <3> QED
      BY <3>1, <3>2
  <2>3. ASSUME NEW q \in Ranks, Overlapped(q) \in running' PROVE pc'[q] = "drain"
    <3>1. Overlapped(q) \in running
      <4>1. \A l \in LanesOf(r) : Overlapped(q) # <<r, l>>
        BY PipeLanes DEF Overlapped
      <4> QED
        BY <2>1, <2>3, <4>1
    <3>2. pc[q] = "drain"
      BY <3>1 DEF LanesRun
    <3> QED
      BY <1>2, <1>8, <3>2
  <2>4. ASSUME NEW q \in Ranks, NEW l \in PlanLaneIds, holds'[q][l] # -1, <<q, l>> \notin running'
        PROVE  holds'[q][l] \in computed[q]
    <3>1. q # r
      <4> SUFFICES ASSUME q = r PROVE FALSE
        OBVIOUS
      <4>1. l \in LanesOf(r)
        BY <1>10, <2>4 DEF g
      <4> QED
        BY <1>3, <2>4, <4>1
    <3>2. <<q, l>> \notin running
      BY <1>3, <2>4
    <3> QED
      BY <1>8, <2>4, <3>1, <3>2 DEF LanesRun
  <2>5. \A q \in Ranks : 0 .. posted'[q] - 1 \subseteq computed[q]
    BY <1>3 DEF LanesRun
  <2> QED
    BY <2>2, <2>3, <2>4, <2>5 DEF LanesRun, Overlapped
<1> QED
  BY <1>9, <1>12, <1>13


LEMMA BeginTransfersInv ==
    ASSUME TransfersTyped, LanesTyped, WindowTyped, WindowInv, PlaneTransfers, PhasesTyped,
           NEW r \in Ranks, Begin(r)
    PROVE  TransfersTyped' /\ WindowTyped' /\ WindowInv' /\ PlaneTransfers'
<1> DEFINE first == UNION {{<<p, n>> : n \in 0 .. Filled(Planes[p]) - 1} : p \in Peers(r)}
           new == {PlaneRequest(x[1], r, x[2]) : x \in first}
<1>1. /\ receiving' = [receiving EXCEPT ![r] = first]
      /\ recvs' = recvs \cup new
      /\ rnext' = [rnext EXCEPT ![r] = [p \in Ranks |-> IF p # r THEN Filled(Planes[p]) ELSE @[p]]]
      /\ pc[r] = "activate" /\ pc' = [pc EXCEPT ![r] = "head"]
      /\ posted' = posted /\ sending' = sending /\ sends' = sends /\ unacked' = unacked /\ landed' = landed
  BY DEF Begin
<1>2. \A p \in Peers(r) : /\ p \in Ranks /\ p # r /\ Planes[p] \in Nat \ {0}
                          /\ Filled(Planes[p]) \in Nat \ {0} /\ Filled(Planes[p]) <= Planes[p]
  BY PeersAre, PipeSizes, FilledIs
<1>3. /\ \A x \in first : \E p \in Peers(r) : \E n \in 0 .. Filled(Planes[p]) - 1 : x = <<p, n>>
      /\ \A p \in Peers(r) : \A n \in 0 .. Filled(Planes[p]) - 1 : <<p, n>> \in first
  OBVIOUS
<1>4. \A x \in first : /\ x[1] \in Peers(r) /\ x[2] \in Nat /\ x[2] < Filled(Planes[x[1]])
                       /\ x = <<x[1], x[2]>>
  <2> HIDE DEF first
  <2> SUFFICES ASSUME NEW x \in first
               PROVE  /\ x[1] \in Peers(r) /\ x[2] \in Nat /\ x[2] < Filled(Planes[x[1]])
                      /\ x = <<x[1], x[2]>>
    OBVIOUS
  <2>1. PICK p \in Peers(r) : \E n \in 0 .. Filled(Planes[p]) - 1 : x = <<p, n>>
    BY <1>3
  <2>2. PICK n \in 0 .. Filled(Planes[p]) - 1 : x = <<p, n>>
    BY <2>1
  <2>3. n \in Nat /\ n < Filled(Planes[p])
    BY <1>2
  <2> QED
    BY <2>2, <2>3
<1> HIDE DEF first
<1>5. \A m \in new : \E x \in first : m = PlaneRequest(x[1], r, x[2])
  OBVIOUS
<1>6. \A p \in Peers(r) : \A n \in 0 .. Filled(Planes[p]) - 1 : PlaneRequest(p, r, n) \in new
  <2> SUFFICES ASSUME NEW p \in Peers(r), NEW n \in 0 .. Filled(Planes[p]) - 1
               PROVE  PlaneRequest(p, r, n) \in new
    OBVIOUS
  <2> DEFINE x == <<p, n>>
  <2>1. x \in first /\ x[1] = p /\ x[2] = n
    BY <1>3
  <2> HIDE DEF x
  <2> QED
    BY <2>1
<1> HIDE DEF new
<1>7. first \subseteq Ranks \X Nat
  <2> SUFFICES ASSUME NEW x \in first PROVE x \in Ranks \X Nat
    OBVIOUS
  <2>1. x[1] \in Ranks /\ x[2] \in Nat /\ x = <<x[1], x[2]>>
    BY <1>2, <1>4
  <2> QED
    BY <2>1
<1>8. /\ \A q \in Ranks : q # r => receiving'[q] = receiving[q] /\ rnext'[q] = rnext[q] /\ pc'[q] = pc[q]
      /\ receiving'[r] = first /\ pc'[r] = "head"
      /\ \A p \in Peers(r) : rnext'[r][p] = Filled(Planes[p])
      /\ rnext'[r][r] = rnext[r][r]
  BY <1>1, <1>2 DEF WindowTyped, PhasesTyped
<1>9. receiving[r] = {} /\ \A p \in Peers(r) : rnext[r][p] = 0
  <2>1. \A p \in Peers(r) : rnext[r][p] = 0
    BY <1>1 DEF WindowInv
  <2>2. ASSUME NEW x \in receiving[r] PROVE FALSE
    <3>1. x[1] \in Peers(r) /\ x[2] < rnext[r][x[1]] /\ x[2] \in Nat
      BY DEF WindowTyped, WindowInv
    <3> QED
      BY <2>1, <3>1
  <2> QED
    BY <2>1, <2>2
<1>10. WindowTyped'
  <2>1. /\ receiving \in [Ranks -> SUBSET (Ranks \X Nat)] /\ rnext \in [Ranks -> [Ranks -> Nat]]
        /\ sending \in [Ranks -> SUBSET (Ranks \X Nat)]
    BY DEF WindowTyped
  <2> DEFINE now == [p \in Ranks |-> IF p # r THEN Filled(Planes[p]) ELSE rnext[r][p]]
  <2>2. now \in [Ranks -> Nat]
    BY <1>2, <2>1, PeersAre
  <2>3. rnext' = [rnext EXCEPT ![r] = now]
    BY <1>1, <2>1
  <2> HIDE DEF now
  <2>4. rnext' \in [Ranks -> [Ranks -> Nat]]
    BY <2>1, <2>2, <2>3
  <2>5. receiving' \in [Ranks -> SUBSET (Ranks \X Nat)]
    BY <1>1, <1>7, <2>1
  <2> QED
    BY <1>1, <2>1, <2>4, <2>5 DEF WindowTyped
<1>11. WindowInv'
  <2> SUFFICES ASSUME NEW q \in Ranks
               PROVE  /\ \A y \in receiving'[q] : y[1] \in Peers(q) /\ y[2] < rnext'[q][y[1]]
                      /\ \A s \in Peers(q) :
                            /\ rnext'[q][s] <= Planes[s]
                            /\ pc'[q] = "activate" => rnext'[q][s] = 0
                            /\ pc'[q] # "activate" /\ rnext'[q][s] < Planes[s] =>
                                  \E y \in receiving'[q] : y[1] = s
    BY DEF WindowInv
  <2>1. CASE q = r
    <3>1. \A y \in first : y[1] \in Peers(r) /\ y[2] < rnext'[r][y[1]]
      BY <1>4, <1>8
    <3>2. ASSUME NEW s \in Peers(r) PROVE rnext'[r][s] <= Planes[s] /\ \E y \in first : y[1] = s
      <4>1. 0 \in 0 .. Filled(Planes[s]) - 1
        BY <1>2
      <4>2. <<s, 0>> \in first
        BY <1>3, <4>1
      <4> QED
        BY <1>2, <1>8, <4>2
    <3> QED
      BY <1>8, <2>1, <3>1, <3>2
  <2>2. CASE q # r
    BY <1>8, <2>2 DEF WindowInv
  <2> QED
    BY <2>1, <2>2
<1>12. \A q, s \in Ranks : rnext[q][s] \in Nat /\ rnext'[q][s] \in Nat /\ rnext[q][s] <= rnext'[q][s]
  <2> SUFFICES ASSUME NEW q \in Ranks, NEW s \in Ranks
               PROVE  rnext[q][s] \in Nat /\ rnext'[q][s] \in Nat /\ rnext[q][s] <= rnext'[q][s]
    OBVIOUS
  <2>1. rnext[q][s] \in Nat /\ rnext'[q][s] \in Nat
    BY <1>10 DEF WindowTyped
  <2>2. rnext'[q][s] = rnext[q][s] \/ rnext[q][s] = 0
    BY <1>8, <1>9, PeersAre
  <2> QED
    BY <2>1, <2>2
\* A new receive: it is one of the window, and its plane has not landed.
<1>13. ASSUME NEW m \in new
       PROVE  /\ m \in PlaneRequests
              /\ m = PlaneRequest(m.src, m.dst, m.plane) /\ m.src # m.dst
              /\ <<m.src, m.plane>> \in receiving'[m.dst]
              /\ Arrival(m.src, m.dst, m.plane) \notin landed
  <2>1. PICK x \in first : m = PlaneRequest(x[1], r, x[2])
    BY <1>5, <1>13
  <2> DEFINE p == x[1]
             n == x[2]
  <2>2. p \in Ranks /\ p \in Peers(r) /\ p # r /\ n \in Nat /\ <<p, n>> \in first /\ m = PlaneRequest(p, r, n)
    BY <1>2, <1>4, <2>1
  <2> HIDE DEF p, n
  <2>3. m.src = p /\ m.dst = r /\ m.plane = n /\ m \in PlaneRequests
    BY <2>2, RequestIs
  <2>4. Arrival(p, r, n) \notin landed
    <3> SUFFICES ASSUME Arrival(p, r, n) \in landed PROVE FALSE
      OBVIOUS
    <3>1. Arrival(p, r, n).want = n /\ Arrival(p, r, n).src = p /\ Arrival(p, r, n).dst = r
      BY DEF Arrival
    <3>2. n < rnext[r][p]
      BY <3>1 DEF PlaneTransfers, PlaneLandedAre
    <3> QED
      BY <1>9, <2>2, <3>2
  <2> QED
    BY <1>8, <2>2, <2>3, <2>4
<1>14. TransfersTyped'
  BY <1>1, <1>13 DEF TransfersTyped
<1>15. PlaneRecvsAre'
  <2> SUFFICES ASSUME NEW q \in recvs'
               PROVE  /\ q = PlaneRequest(q.src, q.dst, q.plane) /\ q.src # q.dst
                      /\ <<q.src, q.plane>> \in receiving'[q.dst]
                      /\ Arrival(q.src, q.dst, q.plane) \notin landed'
    BY DEF PlaneRecvsAre
  <2>1. CASE q \in recvs
    <3> DEFINE d == q.dst
               x == <<q.src, q.plane>>
    <3>1. /\ q = PlaneRequest(q.src, q.dst, q.plane) /\ q.src # q.dst
          /\ x \in receiving[d]
          /\ Arrival(q.src, q.dst, q.plane) \notin landed
      BY <2>1 DEF PlaneTransfers, PlaneRecvsAre
    <3>2. d \in Ranks
      BY <2>1 DEF TransfersTyped, PlaneRequests
    <3>3. x \in receiving'[d]
      <4> HIDE DEF d, x
      <4>1. d # r
        BY <1>9, <3>1
      <4> QED
        BY <1>8, <3>1, <3>2, <4>1
    <3> QED
      BY <1>1, <3>1, <3>3
  <2>2. CASE q \in new
    BY <1>1, <1>13, <2>2
  <2> QED
    BY <1>1, <2>1, <2>2
<1>16. PlaneSendsAre' /\ PlaneUnackedAre' /\ PlaneSendsCover'
  BY <1>1 DEF PlaneTransfers, PlaneSendsAre, PlaneUnackedAre, PlaneSendsCover
<1>17. PlaneLandedAre'
  <2> SUFFICES ASSUME NEW x \in landed PROVE x.want < posted[x.src] /\ x.want < rnext'[x.dst][x.src]
    BY <1>1 DEF PlaneLandedAre
  <2> DEFINE s == x.src
             d == x.dst
             n == x.want
  <2>1. n < posted[s] /\ n < rnext[d][s] /\ s \in Ranks /\ d \in Ranks /\ n \in Nat
    BY DEF PlaneTransfers, PlaneLandedAre, TransfersTyped, Arrivals
  <2> HIDE DEF s, d, n
  <2>2. n < rnext'[d][s]
    BY <1>12, <2>1
  <2> QED
    BY <2>1, <2>2 DEF s, d, n
<1>18. PlaneRecvsCover'
  <2> SUFFICES ASSUME NEW q \in Ranks, NEW p \in Peers(q), NEW n \in Nat, n < rnext'[q][p]
               PROVE  PlaneRequest(p, q, n) \in recvs' \/ Arrival(p, q, n) \in landed'
    BY DEF PlaneRecvsCover
  <2>1. CASE q = r
    <3>1. n \in 0 .. Filled(Planes[p]) - 1
      BY <1>2, <1>8, <2>1
    <3> QED
      BY <1>1, <1>6, <2>1, <3>1
  <2>2. CASE q # r
    BY <1>1, <1>8, <2>2 DEF PlaneTransfers, PlaneRecvsCover
  <2> QED
    BY <2>1, <2>2
<1> QED
  BY <1>10, <1>11, <1>14, <1>15, <1>16, <1>17, <1>18 DEF PlaneTransfers

-----------------------------------------------------------------------------
(***************************************************************************)
(* Steps that leave the lanes, or the transfers, as they are.              *)
(***************************************************************************)

\* No rank starts in the step, and an overlapped FFT is still one to drain.
SamePhases ==
    /\ \A q \in Ranks : pc'[q] = "activate" <=> pc[q] = "activate"
    /\ \A q \in Ranks : Overlapped(q) \in running => pc'[q] = "drain"

LEMMA LanesSame ==
    ASSUME LanesTyped, LanesHold, LanesRun, SamePhases,
           UNCHANGED <<holds, polled, launched, posted, running, computed>>
    PROVE  LanesTyped' /\ LanesHold' /\ LanesRun'
<1>1. LanesTyped'
  BY DEF LanesTyped
<1>2. LanesHold'
  BY DEF LanesHold, SamePhases
<1>3. LanesRun'
  BY DEF LanesRun, SamePhases, Overlapped
<1> QED
  BY <1>1, <1>2, <1>3

LEMMA TransfersSame ==
    ASSUME TransfersTyped, WindowTyped, WindowInv, PlaneTransfers,
           \A q \in Ranks : pc'[q] = "activate" <=> pc[q] = "activate",
           UNCHANGED <<posted, receiving, rnext, sending, mpiVars>>
    PROVE  TransfersTyped' /\ WindowTyped' /\ WindowInv' /\ PlaneTransfers'
<1>1. TransfersTyped' /\ WindowTyped'
  BY DEF TransfersTyped, WindowTyped, mpiVars
<1>2. WindowInv'
  BY DEF WindowInv
<1>3. PlaneTransfers'
  BY DEF PlaneTransfers, PlaneRecvsAre, PlaneSendsAre, PlaneUnackedAre, PlaneLandedAre,
         PlaneRecvsCover, PlaneSendsCover, mpiVars
<1> QED
  BY <1>1, <1>2, <1>3

\* What a rank rests on is its own: only its steps can disturb it.
LEMMA PhasesOwn ==
    ASSUME PhasesTyped, PhasesInv, NEW r \in Ranks, PhasesTyped',
           \A q \in Ranks : q # r =>
               /\ pc'[q] = pc[q] /\ posted'[q] = posted[q] /\ polled'[q] = polled[q]
               /\ holds'[q] = holds[q] /\ receiving'[q] = receiving[q] /\ rnext'[q] = rnext[q]
               /\ sending'[q] = sending[q],
           pc'[r] \in {"testRecv", "testSend", "recycle"} /\ posted'[r] < Planes[r] =>
              \E l \in LanesOf(r) \ polled'[r] : holds'[r][l] # -1,
           pc'[r] = "waitRecv" => receiving'[r] # {} /\ posted'[r] = Planes[r],
           pc'[r] = "waitSend" => sending'[r] # {} /\ InputsReady(r)',
           pc'[r] \in Leaving => InputsReady(r)',
           pc'[r] \in {"done", "failed"} => sending'[r] = {},
           pc'[r] # "noProgress"
    PROVE  PhasesInv'
<1> SUFFICES ASSUME NEW q \in Ranks
             PROVE  /\ pc'[q] \in {"testRecv", "testSend", "recycle"} /\ posted'[q] < Planes[q] =>
                          \E l \in LanesOf(q) \ polled'[q] : holds'[q][l] # -1
                    /\ pc'[q] = "waitRecv" => receiving'[q] # {} /\ posted'[q] = Planes[q]
                    /\ pc'[q] = "waitSend" => sending'[q] # {} /\ InputsReady(q)'
                    /\ pc'[q] \in Leaving => InputsReady(q)'
                    /\ pc'[q] \in {"done", "failed"} => sending'[q] = {}
                    /\ pc'[q] # "noProgress"
  BY DEF PhasesInv, Ended, Leaving, LanesOf, InputsReady, Received
<1>1. CASE q = r
  BY <1>1
<1>2. CASE q # r
  BY <1>2 DEF PhasesInv, Ended, Leaving, InputsReady, Received, Peers
<1> QED
  BY <1>1, <1>2


-----------------------------------------------------------------------------
(***************************************************************************)
(* Every step of a forward call preserves the invariant.                   *)
(***************************************************************************)

LEMMA ForwardInit == Init /\ IdlePipe => FInv /\ CreditIdle
<1> SUFFICES ASSUME Init, IdlePipe PROVE FInv /\ CreditIdle
  OBVIOUS
<1>1. /\ \A r \in Ranks : /\ pc[r] = "activate" /\ posted[r] = 0 /\ launched[r] = 0
                          /\ receiving[r] = {} /\ sending[r] = {}
                          /\ \A p \in Ranks : rnext[r][p] = 0
                          /\ \A l \in PlanLaneIds : holds[r][l] = -1
      /\ running = {} /\ recvs = {} /\ sends = {} /\ unacked = {} /\ landed = {}
  BY DEF Init, IdlePipe
<1>2. LanesTyped /\ WindowTyped /\ TransfersTyped /\ PhasesTyped
  <2>1. LanesTyped
    BY <1>1 DEF IdlePipe, LanesTyped
  <2>2. WindowTyped
    BY DEF IdlePipe, WindowTyped
  <2>3. TransfersTyped /\ PhasesTyped
    BY <1>1 DEF Init, TransfersTyped, PhasesTyped, PipePhases
  <2> QED
    BY <2>1, <2>2, <2>3
<1>3. LanesHold
  <2>1. \A r \in Ranks : 0 <= Planes[r]
    BY PipeSizes
  <2> QED
    BY <1>1, <2>1 DEF LanesHold
<1>4. LanesRun
  <2>1. \A r \in Ranks : 0 .. posted[r] - 1 = {}
    BY <1>1
  <2> QED
    BY <1>1, <2>1 DEF LanesRun
<1>5. WindowInv
  <2>1. \A r \in Ranks : \A p \in Peers(r) : rnext[r][p] = 0 /\ 0 <= Planes[p]
    BY <1>1, PeersAre, PipeSizes
  <2> QED
    BY <1>1, <2>1 DEF WindowInv
<1>6. PlaneTransfers
  <2>1. \A r \in Ranks : \A p \in Peers(r) : \A n \in Nat : ~(n < rnext[r][p]) /\ ~(n < posted[r])
    BY <1>1, PeersAre
  <2> QED
    BY <1>1, <2>1 DEF PlaneTransfers, PlaneRecvsAre, PlaneSendsAre, PlaneUnackedAre, PlaneLandedAre,
                      PlaneRecvsCover, PlaneSendsCover
<1>7. PhasesInv
  BY <1>1 DEF PhasesInv, Leaving, Ended
<1>8. CreditIdle
  BY DEF Init, CreditIdle
<1> QED
  BY <1>2, <1>3, <1>4, <1>5, <1>6, <1>7, <1>8 DEF FInv

LEMMA BeginInv ==
    ASSUME FInv, NEW r \in Ranks, Begin(r), computed' = computed
    PROVE  FInv'
<1>1. LanesTyped' /\ LanesHold' /\ LanesRun'
  BY BeginLanesInv DEF FInv
<1>2. TransfersTyped' /\ WindowTyped' /\ WindowInv' /\ PlaneTransfers'
  BY BeginTransfersInv DEF FInv
<1>3. PhasesTyped' /\ pc' = [pc EXCEPT ![r] = "head"] /\ pc'[r] = "head"
  BY DEF FInv, PhasesTyped, PipePhases, Begin
<1>4. \A q \in Ranks : q # r =>
        /\ pc'[q] = pc[q] /\ posted'[q] = posted[q] /\ polled'[q] = polled[q]
        /\ holds'[q] = holds[q] /\ receiving'[q] = receiving[q] /\ rnext'[q] = rnext[q]
        /\ sending'[q] = sending[q]
  <2>1. posted' = posted /\ polled' = polled /\ sending' = sending
    BY DEF Begin
  <2>2. \A q \in Ranks : q # r => pc'[q] = pc[q]
    BY <1>3 DEF FInv, PhasesTyped
  <2>3. \A q \in Ranks : q # r => holds'[q] = holds[q]
    BY DEF Begin, FInv, LanesTyped
  <2>4. \A q \in Ranks : q # r => receiving'[q] = receiving[q] /\ rnext'[q] = rnext[q]
    BY DEF Begin, FInv, WindowTyped
  <2> QED
    BY <2>1, <2>2, <2>3, <2>4
<1>5. PhasesInv'
  BY <1>3, <1>4, PhasesOwn DEF FInv, Leaving
<1> QED
  BY <1>1, <1>2, <1>3, <1>5 DEF FInv

LEMMA PollAndPostInv ==
    ASSUME FInv, NEW r \in Ranks, PollAndPost(r), computed' = computed
    PROVE  FInv'
<1>1. /\ LanesTyped' /\ LanesHold' /\ LanesRun'
      /\ posted'[r] < Planes[r] => \E l \in LanesOf(r) \ polled'[r] : holds'[r][l] # -1
  BY PollLanesInv DEF FInv
<1>2. TransfersTyped' /\ WindowTyped' /\ PlaneTransfers'
  BY PollTransfersInv DEF FInv
<1>3. /\ PhasesTyped' /\ pc' = [pc EXCEPT ![r] = "testRecv"] /\ pc'[r] = "testRecv" /\ pc[r] = "head"
      /\ \A q \in Ranks : q # r => pc'[q] = pc[q]
      /\ receiving' = receiving /\ rnext' = rnext
  BY DEF FInv, PhasesTyped, PipePhases, PollAndPost
<1>4. WindowInv'
  <2>1. \A q \in Ranks : pc'[q] = "activate" <=> pc[q] = "activate"
    BY <1>3
  <2> QED
    BY <1>3, <2>1 DEF FInv, WindowInv
<1>5. \A q \in Ranks : q # r =>
        /\ pc'[q] = pc[q] /\ posted'[q] = posted[q] /\ polled'[q] = polled[q]
        /\ holds'[q] = holds[q] /\ receiving'[q] = receiving[q] /\ rnext'[q] = rnext[q]
        /\ sending'[q] = sending[q]
  <2>1. \A q \in Ranks : q # r => posted'[q] = posted[q] /\ polled'[q] = polled[q] /\ holds'[q] = holds[q]
    BY DEF PollAndPost, FInv, LanesTyped
  <2>2. \A q \in Ranks : q # r => sending'[q] = sending[q]
    BY DEF PollAndPost, FInv, WindowTyped
  <2> QED
    BY <1>3, <2>1, <2>2
<1>6. PhasesInv'
  BY <1>1, <1>3, <1>5, PhasesOwn DEF FInv, Leaving
<1> QED
  BY <1>1, <1>2, <1>3, <1>4, <1>6 DEF FInv

\* A step of the loop that only goes on to another phase.
LEMMA PhaseStep ==
    ASSUME FInv, NEW r \in Ranks, NEW v \in PipePhases, pc' = [pc EXCEPT ![r] = v],
           UNCHANGED <<pipeVars, running, mpiVars, computed>>,
           pc[r] # "activate", v \notin {"activate", "noProgress"},
           Overlapped(r) \in running => v = "drain",
           v \in {"testRecv", "testSend", "recycle"} => pc[r] \in {"testRecv", "testSend", "recycle"},
           v = "waitRecv" => receiving[r] # {} /\ posted[r] = Planes[r],
           v = "waitSend" => sending[r] # {} /\ InputsReady(r),
           v \in Leaving => InputsReady(r),
           v \in {"done", "failed"} => sending[r] = {}
    PROVE  FInv'
<1>1. /\ PhasesTyped' /\ pc'[r] = v /\ \A q \in Ranks : q # r => pc'[q] = pc[q]
  BY DEF FInv, PhasesTyped
<1>2. SamePhases
  BY <1>1 DEF SamePhases, FInv, LanesRun
<1>3. LanesTyped' /\ LanesHold' /\ LanesRun'
  BY <1>2, LanesSame DEF FInv, pipeVars
<1>4. TransfersTyped' /\ WindowTyped' /\ WindowInv' /\ PlaneTransfers'
  BY <1>2, TransfersSame DEF FInv, pipeVars, SamePhases
<1>5. PhasesInv'
  <2>1. InputsReady(r) => InputsReady(r)'
    BY DEF InputsReady, Received, pipeVars
  <2>2. pc'[r] \in {"testRecv", "testSend", "recycle"} /\ posted'[r] < Planes[r] =>
              \E l \in LanesOf(r) \ polled'[r] : holds'[r][l] # -1
    BY <1>1 DEF FInv, PhasesInv, pipeVars
  <2> QED
    BY <1>1, <2>1, <2>2, PhasesOwn DEF FInv, pipeVars
<1> QED
  BY <1>1, <1>3, <1>4, <1>5 DEF FInv

\* A step of the loop that takes a completed receive.
LEMMA RecvStep ==
    ASSUME FInv, NEW r \in Ranks, NEW x \in receiving[r], AdvanceRecv(r, x[1], x[2]), computed' = computed,
           \/ pc[r] = "testRecv" /\ pc' = pc
           \/ pc[r] = "waitRecv" /\ pc' = [pc EXCEPT ![r] = "head"]
    PROVE  FInv'
<1>1. /\ PhasesTyped' /\ pc'[r] \in {"testRecv", "head"} /\ pc[r] \notin {"activate", "drain"}
      /\ \A q \in Ranks : q # r => pc'[q] = pc[q]
      /\ pc'[r] = "testRecv" => pc[r] = "testRecv"
  BY DEF FInv, PhasesTyped, PipePhases
<1>2. SamePhases
  BY <1>1 DEF SamePhases, FInv, LanesRun
<1>3. /\ polled' = polled /\ launched' = launched /\ posted' = posted /\ sending' = sending
      /\ holds' = holds /\ running' = running
  BY DEF AdvanceRecv
<1>4. LanesTyped' /\ LanesHold' /\ LanesRun'
  BY <1>2, <1>3, LanesSame DEF FInv
<1>5. TransfersTyped' /\ WindowTyped' /\ WindowInv' /\ PlaneTransfers'
  BY <1>1, <1>2, AdvanceRecvInv DEF FInv, SamePhases
<1>6. \A q \in Ranks : q # r => receiving'[q] = receiving[q] /\ rnext'[q] = rnext[q]
  BY DEF AdvanceRecv, FInv, WindowTyped
<1>7. PhasesInv'
  <2>1. pc'[r] \in {"testRecv", "testSend", "recycle"} /\ posted'[r] < Planes[r] =>
              \E l \in LanesOf(r) \ polled'[r] : holds'[r][l] # -1
    BY <1>1, <1>3 DEF FInv, PhasesInv
  <2> QED
    BY <1>1, <1>3, <1>6, <2>1, PhasesOwn DEF FInv, Leaving
<1> QED
  BY <1>1, <1>4, <1>5, <1>7 DEF FInv

\* A step of the loop, or of the drain, that takes a completed send.
LEMMA SendStep ==
    ASSUME FInv, NEW r \in Ranks, NEW x \in sending[r], AdvanceSend(r, x[1], x[2]), computed' = computed,
           \/ pc[r] \in {"testSend", "drain", "failDrain"} /\ pc' = pc
           \/ pc[r] = "waitSend" /\ pc' = [pc EXCEPT ![r] = "head"]
    PROVE  FInv'
<1>1. /\ PhasesTyped' /\ pc'[r] \in {"testSend", "drain", "failDrain", "head"} /\ pc[r] # "activate"
      /\ \A q \in Ranks : q # r => pc'[q] = pc[q]
      /\ pc'[r] # "head" => pc'[r] = pc[r]
      /\ pc[r] = "drain" => pc'[r] = "drain"
  BY DEF FInv, PhasesTyped, PipePhases
<1>2. SamePhases
  BY <1>1 DEF SamePhases, FInv, LanesRun
<1>3. /\ polled' = polled /\ launched' = launched /\ posted' = posted /\ receiving' = receiving
      /\ rnext' = rnext /\ holds' = holds /\ running' = running
  BY DEF AdvanceSend
<1>4. LanesTyped' /\ LanesHold' /\ LanesRun'
  BY <1>2, <1>3, LanesSame DEF FInv
<1>5. TransfersTyped' /\ WindowTyped' /\ PlaneTransfers'
  BY AdvanceSendInv DEF FInv
<1>6. WindowInv'
  BY <1>2, <1>3 DEF FInv, WindowInv, SamePhases
<1>7. \A q \in Ranks : q # r => sending'[q] = sending[q]
  BY DEF AdvanceSend, FInv, WindowTyped
<1>8. PhasesInv'
  <2>1. pc'[r] \in {"testRecv", "testSend", "recycle"} /\ posted'[r] < Planes[r] =>
              \E l \in LanesOf(r) \ polled'[r] : holds'[r][l] # -1
    BY <1>1, <1>3 DEF FInv, PhasesInv
  <2>2. pc'[r] \in Leaving => InputsReady(r)'
    BY <1>1, <1>3 DEF FInv, PhasesInv, Leaving, InputsReady, Received
  <2> QED
    BY <1>1, <1>3, <1>7, <2>1, <2>2, PhasesOwn DEF FInv
<1> QED
  BY <1>1, <1>4, <1>5, <1>6, <1>8 DEF FInv

LEMMA PipeEndRoundInv ==
    ASSUME FInv, NEW r \in Ranks, PipeEndRound(r), computed' = computed
    PROVE  FInv'
<1> DEFINE v == IF progressed[r] \/ \E l \in LanesOf(r) \ polled[r] : holds[r][l] # -1 THEN "head"
                ELSE IF posted[r] < Planes[r] THEN "noProgress"
                ELSE IF ~Received(r) THEN "waitRecv"
                ELSE IF way = "forward" /\ sending[r] # {} THEN "waitSend"
                ELSE "head"
<1>1. pc[r] = "recycle" /\ pc' = [pc EXCEPT ![r] = v] /\ UNCHANGED <<pipeVars, running, mpiVars>>
  BY DEF PipeEndRound
<1>2. v \in {"head", "waitRecv", "waitSend"}
  <2>1. posted[r] < Planes[r] => \E l \in LanesOf(r) \ polled[r] : holds[r][l] # -1
    BY <1>1 DEF FInv, PhasesInv
  <2> QED
    BY <2>1
<1>3. ~Received(r) => receiving[r] # {}
  <2> SUFFICES ASSUME ~Received(r) PROVE receiving[r] # {}
    OBVIOUS
  <2>1. CASE receiving[r] # {}
    BY <2>1
  <2>2. CASE receiving[r] = {}
    <3>1. PICK p \in Peers(r) : rnext[r][p] # Planes[p]
      BY <2>2 DEF Received
    <3>2. rnext[r][p] \in Nat /\ Planes[p] \in Nat /\ rnext[r][p] <= Planes[p]
      BY PeersAre, PipeSizes DEF FInv, WindowTyped, WindowInv
    <3>3. \E x \in receiving[r] : x[1] = p
      BY <1>1, <3>1, <3>2 DEF FInv, WindowInv
    <3> QED
      BY <3>3
  <2> QED
    BY <2>1, <2>2
<1>4. /\ v = "waitRecv" => receiving[r] # {} /\ posted[r] = Planes[r]
      /\ v = "waitSend" => sending[r] # {} /\ InputsReady(r)
  <2>1. v \in {"waitRecv", "waitSend"} => ~(posted[r] < Planes[r])
    BY <1>2
  <2>2. v \in {"waitRecv", "waitSend"} => posted[r] = Planes[r]
    <3>1. posted[r] \in Nat /\ launched[r] \in Nat /\ Planes[r] \in Nat
      BY PipeSizes DEF FInv, LanesTyped
    <3>2. posted[r] <= launched[r] /\ launched[r] <= Planes[r]
      BY DEF FInv, LanesHold
    <3> QED
      BY <2>1, <3>1, <3>2
  <2>3. v = "waitSend" => sending[r] # {} /\ Received(r)
    BY <1>2
  <2>4. v = "waitRecv" => ~Received(r)
    BY <1>2
  <2> QED
    BY <1>3, <2>2, <2>3, <2>4 DEF InputsReady
<1>5. Overlapped(r) \notin running
  BY <1>1 DEF FInv, LanesRun
<1> HIDE DEF v
<1> QED
  BY <1>1, <1>2, <1>4, <1>5, PhaseStep DEF PipePhases, Leaving

LEMMA LeaveLoopInv ==
    ASSUME FInv, way \in {"forward", "overlap"}, NEW r \in Ranks, LeaveLoop(r), computed' = computed
    PROVE  FInv'
<1> DEFINE v == IF way = "overlap" THEN "launch" ELSE "done"
<1>1. /\ pc[r] = "head" /\ pc' = [pc EXCEPT ![r] = v] /\ UNCHANGED <<pipeVars, running, mpiVars>>
      /\ InputsReady(r) /\ (way = "forward" => sending[r] = {})
  BY DEF LeaveLoop, PipeUnfinished
<1>2. Overlapped(r) \notin running
  BY <1>1 DEF FInv, LanesRun
<1>3. v \in {"launch", "done"} /\ (v = "done" => sending[r] = {})
  BY <1>1
<1> HIDE DEF v
<1> QED
  BY <1>1, <1>2, <1>3, PhaseStep DEF PipePhases, Leaving

LEMMA LaunchOverlapInv ==
    ASSUME FInv, NEW r \in Ranks, LaunchOverlap(r), computed' = computed
    PROVE  FInv'
<1>1. pc[r] = "launch" /\ InputsReady(r) /\ Overlapped(r) \notin running
  BY DEF LaunchOverlap, FInv, PhasesInv, Leaving, LanesRun
<1>2. UNCHANGED <<pipeVars, mpiVars>>
  BY DEF LaunchOverlap
<1>3. CASE pc' = [pc EXCEPT ![r] = "failDrain"] /\ running' = running
  BY <1>1, <1>2, <1>3, PhaseStep DEF PipePhases, Leaving
<1>4. CASE pc' = [pc EXCEPT ![r] = "drain"] /\ running' = running \cup {Overlapped(r)}
  <2>1. PhasesTyped' /\ pc'[r] = "drain" /\ \A q \in Ranks : q # r => pc'[q] = pc[q]
    BY <1>4 DEF FInv, PhasesTyped, PipePhases
  <2>2. \A q \in Ranks : pc'[q] = "activate" <=> pc[q] = "activate"
    BY <1>1, <2>1
  <2>3. Overlapped(r)[1] = r /\ Overlapped(r)[2] = 0 /\ Overlapped(r) \in Ranks \X (PlanLaneIds \cup {0})
    BY DEF Overlapped
  <2>4. \A q \in Ranks, l \in PlanLaneIds : <<q, l>> # Overlapped(r)
    BY PipeLanes DEF Overlapped
  <2>5. \A q \in Ranks : Overlapped(q) = Overlapped(r) => q = r
    BY DEF Overlapped
  <2>6. LanesTyped'
    BY <1>2, <1>4, <2>3 DEF FInv, LanesTyped, pipeVars
  <2>7. LanesHold'
    BY <1>2, <2>2 DEF FInv, LanesHold, pipeVars
  <2>8. LanesRun'
    <3>1. \A x \in running' : x[2] # 0 => holds'[x[1]][x[2]] # -1
      BY <1>2, <1>4, <2>3 DEF FInv, LanesRun, pipeVars
    <3>2. \A q \in Ranks : Overlapped(q) \in running' => pc'[q] = "drain"
      BY <1>4, <2>1, <2>5 DEF FInv, LanesRun
    <3>3. \A q \in Ranks, l \in PlanLaneIds :
            holds'[q][l] # -1 /\ <<q, l>> \notin running' => holds'[q][l] \in computed'[q]
      BY <1>2, <1>4 DEF FInv, LanesRun, pipeVars
    <3>4. \A q \in Ranks : 0 .. posted'[q] - 1 \subseteq computed'[q]
      BY <1>2 DEF FInv, LanesRun, pipeVars
    <3> QED
      BY <3>1, <3>2, <3>3, <3>4 DEF LanesRun, Overlapped
  <2>9. TransfersTyped' /\ WindowTyped' /\ WindowInv' /\ PlaneTransfers'
    BY <1>2, <2>2, TransfersSame DEF FInv, pipeVars
  <2>10. PhasesInv'
    <3>1. InputsReady(r)'
      BY <1>1, <1>2 DEF InputsReady, Received, pipeVars
    <3> QED
      BY <1>2, <2>1, <3>1, PhasesOwn DEF FInv, pipeVars
  <2> QED
    BY <2>1, <2>6, <2>7, <2>8, <2>9, <2>10 DEF FInv
<1> QED
  BY <1>3, <1>4 DEF LaunchOverlap

LEMMA EndOverlapInv ==
    ASSUME FInv, NEW r \in Ranks, EndOverlap(r), computed' = computed
    PROVE  FInv'
<1> DEFINE v == IF pc[r] = "drain" THEN "done" ELSE "failed"
<1>1. /\ pc[r] \in {"drain", "failDrain"} /\ sending[r] = {} /\ UNCHANGED <<pipeVars, running, mpiVars>>
      /\ pc[r] = "drain" => Overlapped(r) \notin running
  BY DEF EndOverlap
<1>2. pc' = [pc EXCEPT ![r] = v]
  BY DEF EndOverlap, FInv, PhasesTyped
<1>3. Overlapped(r) \notin running /\ InputsReady(r)
  BY <1>1 DEF FInv, LanesRun, PhasesInv, Leaving
<1>4. v \in {"done", "failed"}
  OBVIOUS
<1> HIDE DEF v
<1> QED
  BY <1>1, <1>2, <1>3, <1>4, PhaseStep DEF PipePhases, Leaving

LEMMA PipeStepInv ==
    ASSUME FInv, way \in {"forward", "overlap"}, NEW r \in Ranks, PipeStep(r), computed' = computed
    PROVE  FInv'
<1>1. CASE Begin(r)
  BY <1>1, BeginInv
<1>2. CASE PollAndPost(r)
  BY <1>2, PollAndPostInv
<1>3. CASE PipeTestRecv(r)
  <2>1. CASE \E x \in receiving[r] : AdvanceRecv(r, x[1], x[2]) /\ pc' = pc
    BY <1>3, <2>1, RecvStep DEF PipeTestRecv
  <2>2. CASE pc' = [pc EXCEPT ![r] = "testSend"] /\ UNCHANGED <<pipeVars, running, mpiVars>>
    <3>1. pc[r] = "testRecv" /\ Overlapped(r) \notin running
      BY <1>3 DEF PipeTestRecv, FInv, LanesRun
    <3> QED
      BY <2>2, <3>1, PhaseStep DEF PipePhases, Leaving
  <2> QED
    BY <1>3, <2>1, <2>2 DEF PipeTestRecv
<1>4. CASE PipeTestSend(r)
  <2>1. CASE \E x \in sending[r] : AdvanceSend(r, x[1], x[2]) /\ pc' = pc
    BY <1>4, <2>1, SendStep DEF PipeTestSend
  <2>2. CASE pc' = [pc EXCEPT ![r] = "recycle"] /\ UNCHANGED <<pipeVars, running, mpiVars>>
    <3>1. pc[r] = "testSend" /\ Overlapped(r) \notin running
      BY <1>4 DEF PipeTestSend, FInv, LanesRun
    <3> QED
      BY <2>2, <3>1, PhaseStep DEF PipePhases, Leaving
  <2> QED
    BY <1>4, <2>1, <2>2 DEF PipeTestSend
<1>5. CASE PipeEndRound(r)
  BY <1>5, PipeEndRoundInv
<1>6. CASE PipeWaitRecv(r)
  BY <1>6, RecvStep DEF PipeWaitRecv
<1>7. CASE PipeWaitSend(r)
  BY <1>7, SendStep DEF PipeWaitSend
<1>8. CASE LeaveLoop(r)
  BY <1>8, LeaveLoopInv
<1>9. CASE LaunchOverlap(r)
  BY <1>9, LaunchOverlapInv
<1>10. CASE DrainSend(r)
  BY <1>10, SendStep DEF DrainSend, rankVars
<1>11. CASE EndOverlap(r)
  BY <1>11, EndOverlapInv
<1> QED
  BY <1>1, <1>2, <1>3, <1>4, <1>5, <1>6, <1>7, <1>8, <1>9, <1>10, <1>11 DEF PipeStep


LEMMA FinishPlaneInv ==
    ASSUME FInv, FinishPlane, UNCHANGED pipeVars
    PROVE  FInv'
<1>1. PICK x \in running :
        /\ running' = running \ {x}
        /\ computed' = IF x = Overlapped(x[1]) THEN computed
                       ELSE [computed EXCEPT ![x[1]] = @ \cup {holds[x[1]][x[2]]}]
        /\ UNCHANGED <<rankVars, creditVars, mpiVars>>
  BY DEF FinishPlane
<1>2. /\ UNCHANGED <<pc, holds, polled, launched, posted, receiving, rnext, sending>>
      /\ UNCHANGED <<recvs, sends, unacked, landed>>
  BY <1>1 DEF pipeVars, rankVars, mpiVars
<1>3. /\ x \in Ranks \X (PlanLaneIds \cup {0}) /\ computed \in [Ranks -> SUBSET Int]
      /\ holds \in [Ranks -> [PlanLaneIds -> Nat \cup {-1}]]
  BY DEF FInv, LanesTyped
<1>4. x[1] \in Ranks /\ x[2] \in PlanLaneIds \cup {0} /\ x = <<x[1], x[2]>>
  BY <1>3
<1>5. x = Overlapped(x[1]) \/ x[2] \in PlanLaneIds
  BY <1>4 DEF Overlapped
<1>6. /\ computed' \in [Ranks -> SUBSET Int]
      /\ \A q \in Ranks : computed[q] \subseteq computed'[q]
      /\ x # Overlapped(x[1]) => holds[x[1]][x[2]] \in computed'[x[1]]
  <2>1. CASE x = Overlapped(x[1])
    BY <1>1, <1>3, <2>1
  <2>2. CASE x # Overlapped(x[1])
    <3> DEFINE n == holds[x[1]][x[2]]
    <3>1. n \in Int
      BY <1>3, <1>4, <1>5, <2>2
    <3>2. computed' = [computed EXCEPT ![x[1]] = computed[x[1]] \cup {n}]
      BY <1>1, <1>3, <2>2
    <3> HIDE DEF n
    <3>3. n \in computed'[x[1]] /\ computed' \in [Ranks -> SUBSET Int]
          /\ \A q \in Ranks : computed[q] \subseteq computed'[q]
      BY <1>3, <1>4, <3>1, <3>2
    <3> QED
      BY <3>3 DEF n
  <2> QED
    BY <2>1, <2>2
<1>7. LanesTyped'
  BY <1>1, <1>2, <1>6 DEF FInv, LanesTyped
<1>8. LanesHold' /\ PhasesTyped' /\ WindowTyped' /\ TransfersTyped' /\ WindowInv' /\ PhasesInv'
  <2>1. LanesHold'
    BY <1>2 DEF FInv, LanesHold
  <2>2. PhasesTyped' /\ WindowTyped' /\ TransfersTyped'
    BY <1>2 DEF FInv, PhasesTyped, WindowTyped, TransfersTyped
  <2>3. WindowInv'
    BY <1>2 DEF FInv, WindowInv
  <2>4. PhasesInv'
    BY <1>2 DEF FInv, PhasesInv, Leaving, Ended, InputsReady, Received
  <2> QED
    BY <2>1, <2>2, <2>3, <2>4
<1>9. PlaneTransfers'
  BY <1>2 DEF FInv, PlaneTransfers, PlaneRecvsAre, PlaneSendsAre, PlaneUnackedAre, PlaneLandedAre,
              PlaneRecvsCover, PlaneSendsCover
<1>10. LanesRun'
  <2>1. /\ \A y \in running' : y[2] # 0 => holds'[y[1]][y[2]] # -1
        /\ \A r \in Ranks : Overlapped(r) \in running' => pc'[r] = "drain"
    BY <1>1, <1>2 DEF FInv, LanesRun
  <2>2. ASSUME NEW r \in Ranks, NEW l \in PlanLaneIds, holds[r][l] # -1, <<r, l>> \notin running'
        PROVE  holds[r][l] \in computed'[r]
    <3>1. CASE <<r, l>> = x
      <4>1. x # Overlapped(x[1]) /\ x[1] = r /\ x[2] = l
        BY <3>1, PipeLanes DEF Overlapped
      <4> QED
        BY <1>6, <4>1
    <3>2. CASE <<r, l>> # x
      <4>1. <<r, l>> \notin running
        BY <1>1, <2>2, <3>2
      <4> QED
        BY <1>6, <2>2, <4>1 DEF FInv, LanesRun
    <3> QED
      BY <3>1, <3>2
  <2>3. \A r \in Ranks : 0 .. posted'[r] - 1 \subseteq computed'[r]
    BY <1>2, <1>6 DEF FInv, LanesRun
  <2> QED
    BY <1>2, <2>1, <2>2, <2>3 DEF LanesRun, Overlapped
<1> QED
  BY <1>7, <1>8, <1>9, <1>10 DEF FInv

LEMMA PipeMpiInv ==
    ASSUME FInv, Match \/ Acknowledge, UNCHANGED <<pipeVars, computed>>
    PROVE  FInv'
<1>1. UNCHANGED <<pc, running, holds, polled, launched, posted, receiving, rnext, sending, computed>>
  BY DEF Match, Acknowledge, rankVars, planVars, pipeVars
<1>2. TransfersTyped' /\ PlaneTransfers'
  BY <1>1, PipeMatchInv, PipeAcknowledgeInv DEF FInv
<1>3. LanesTyped' /\ LanesHold' /\ LanesRun' /\ PhasesTyped' /\ WindowTyped' /\ WindowInv'
  BY <1>1 DEF FInv, LanesTyped, LanesHold, LanesRun, Overlapped, PhasesTyped, WindowTyped, WindowInv
<1>4. PhasesInv'
  BY <1>1 DEF FInv, PhasesInv, Leaving, Ended, InputsReady, Received
<1> QED
  BY <1>2, <1>3, <1>4 DEF FInv

LEMMA PipeStutter ==
    ASSUME FInv, UNCHANGED allVars
    PROVE  FInv'
<1>1. /\ UNCHANGED <<pc, running, recvs, sends, unacked, landed>>
      /\ UNCHANGED <<holds, polled, launched, posted, receiving, rnext, sending, computed>>
  BY DEF allVars, vars, rankVars, planVars, mpiVars, pipeVars
<1>2. /\ LanesTyped' /\ LanesHold' /\ LanesRun' /\ PhasesTyped' /\ WindowTyped' /\ WindowInv'
      /\ TransfersTyped'
  BY <1>1 DEF FInv, LanesTyped, LanesHold, LanesRun, Overlapped, PhasesTyped, WindowTyped, WindowInv,
              TransfersTyped
<1>3. PhasesInv'
  BY <1>1 DEF FInv, PhasesInv, Leaving, Ended, InputsReady, Received
<1>4. PlaneTransfers'
  BY <1>1 DEF FInv, PlaneTransfers, PlaneRecvsAre, PlaneSendsAre, PlaneUnackedAre, PlaneLandedAre,
              PlaneRecvsCover, PlaneSendsCover
<1> QED
  BY <1>2, <1>3, <1>4 DEF FInv

LEMMA CreditSame ==
    ASSUME CreditIdle, UNCHANGED creditVars
    PROVE  CreditIdle'
  BY DEF CreditIdle, creditVars

LEMMA PipeInitInv == PipeInit => PInv
  BY InitInv, ForwardInit DEF PipeInit, PInv

LEMMA PipeInvStep == PInv /\ [PipeNext]_allVars => PInv'
<1> SUFFICES ASSUME PInv, [PipeNext]_allVars PROVE PInv'
  OBVIOUS
<1>1. CASE way = "backward" /\ Next /\ UNCHANGED <<way, pipeVars, computed>>
  <2>1. KInv'
    BY <1>1, InvStep DEF PInv
  <2> QED
    BY <1>1, <2>1 DEF PInv
<1>2. CASE way # "backward" /\ (\E r \in Ranks : PipeStep(r)) /\ UNCHANGED <<way, creditVars, computed>>
  <2>1. FInv /\ CreditIdle /\ way \in {"forward", "overlap"}
    BY <1>2 DEF PInv
  <2>2. FInv'
    BY <1>2, <2>1, PipeStepInv
  <2>3. CreditIdle'
    BY <1>2, <2>1, CreditSame
  <2> QED
    BY <1>2, <2>1, <2>2, <2>3 DEF PInv
<1>3. CASE way # "backward" /\ FinishPlane /\ UNCHANGED <<way, pipeVars>>
  <2>1. FInv /\ CreditIdle
    BY <1>3 DEF PInv
  <2>2. FInv'
    BY <1>3, <2>1, FinishPlaneInv
  <2>3. CreditIdle'
    BY <1>3, <2>1, CreditSame DEF FinishPlane
  <2> QED
    BY <1>3, <2>2, <2>3 DEF PInv
<1>4. CASE way # "backward" /\ (Match \/ Acknowledge) /\ UNCHANGED <<way, pipeVars, computed>>
  <2>1. FInv /\ CreditIdle
    BY <1>4 DEF PInv
  <2>2. FInv'
    BY <1>4, <2>1, PipeMpiInv
  <2>3. UNCHANGED creditVars
    BY <1>4 DEF Match, Acknowledge, creditVars, planVars
  <2>4. CreditIdle'
    BY <2>1, <2>3, CreditSame
  <2> QED
    BY <1>4, <2>2, <2>4 DEF PInv
<1>5. CASE UNCHANGED allVars
  <2>1. way' = way /\ UNCHANGED vars /\ UNCHANGED creditVars
    BY <1>5 DEF allVars, vars, creditVars, slotVars, planVars
  <2>2. KInv => KInv'
    BY <2>1, StutterInv
  <2>3. FInv => FInv'
    BY <1>5, PipeStutter
  <2>4. CreditIdle => CreditIdle'
    BY <2>1, CreditSame
  <2> QED
    BY <2>1, <2>2, <2>3, <2>4 DEF PInv
<1> QED
  BY <1>1, <1>2, <1>3, <1>4, <1>5 DEF PipeNext

LEMMA PipeInvCorrect == PipeSpec => []PInv
  BY PipeInitInv, PipeInvStep, PTL DEF PipeSpec

-----------------------------------------------------------------------------
(***************************************************************************)
(* What the invariant says of a forward call.                              *)
(***************************************************************************)

LEMMA ForwardSends ==
    ASSUME FInv, NEW m \in sends \cup unacked
    PROVE  /\ m.plane \in computed[m.src]
           /\ \A l \in PlanLaneIds : <<m.src, l>> \in running => holds[m.src][l] # m.plane
<1> DEFINE s == m.src
           n == m.plane
<1>1. s \in Ranks /\ n \in Nat /\ n < posted[s] /\ posted[s] \in Nat
  BY DEF FInv, TransfersTyped, PlaneRequests, PlaneTransfers, PlaneSendsAre, PlaneUnackedAre, LanesTyped
<1> HIDE DEF s, n
<1>2. n \in computed[s]
  <2>1. n \in 0 .. posted[s] - 1
    BY <1>1
  <2> QED
    BY <1>1, <2>1 DEF FInv, LanesRun
<1>3. ASSUME NEW l \in PlanLaneIds, <<s, l>> \in running PROVE holds[s][l] # n
  <2>1. holds[s][l] # -1
    <3>1. l # 0
      BY <1>1, PipeLanes
    <3> QED
      BY <1>3, <3>1 DEF FInv, LanesRun
  <2>2. posted[s] <= holds[s][l] /\ holds[s][l] \in Nat \cup {-1}
    BY <1>1, <2>1 DEF FInv, LanesHold, LanesTyped
  <2> QED
    BY <1>1, <2>1, <2>2
<1> QED
  BY <1>2, <1>3 DEF s, n

LEMMA NothingToReceive ==
    ASSUME FInv, NEW r \in Ranks, InputsReady(r)
    PROVE  /\ \A q \in recvs : q.dst # r
           /\ \A p \in Peers(r) : \A n \in Nat : n < Planes[p] => Arrival(p, r, n) \in landed
<1>1. receiving[r] = {} /\ \A p \in Peers(r) : rnext[r][p] = Planes[p]
  BY DEF InputsReady, Received
<1>2. \A q \in recvs : q.dst # r
  BY <1>1 DEF FInv, PlaneTransfers, PlaneRecvsAre
<1>3. ASSUME NEW p \in Peers(r), NEW n \in Nat, n < Planes[p] PROVE Arrival(p, r, n) \in landed
  <2>1. PlaneRequest(p, r, n) \in recvs \/ Arrival(p, r, n) \in landed
    BY <1>1, <1>3 DEF FInv, PlaneTransfers, PlaneRecvsCover
  <2>2. PlaneRequest(p, r, n).dst = r
    BY DEF PlaneRequest
  <2> QED
    BY <1>2, <2>1, <2>2
<1> QED
  BY <1>2, <1>3

LEMMA ForwardArrived ==
    ASSUME FInv, NEW r \in Ranks, Overlapped(r) \in running, NEW p \in Peers(r),
           NEW n \in 0 .. MaxPlanes - 1, n < Planes[p]
    PROVE  [src |-> p, dst |-> r, want |-> n, got |-> n] \in landed
<1>1. InputsReady(r)
  BY DEF FInv, LanesRun, PhasesInv, Leaving
<1>2. n \in Nat
  BY MaxFacts
<1> QED
  BY <1>1, <1>2, NothingToReceive DEF Arrival

LEMMA ForwardEnd ==
    ASSUME FInv, NEW r \in Ranks, Ended(r)
    PROVE  /\ launched[r] = Planes[r] /\ posted[r] = Planes[r] /\ Received(r)
           /\ \A x \in running : x[1] # r
           /\ \A m \in sends \cup unacked : m.src # r \/ <<r, m.dst>> \in Eager
           /\ \A q \in recvs : q.dst # r
<1>1. InputsReady(r) /\ sending[r] = {} /\ pc[r] # "drain"
  BY DEF FInv, PhasesInv, Ended, Leaving
<1>2. posted[r] = Planes[r] /\ Received(r)
  BY <1>1 DEF InputsReady
<1>3. launched[r] = Planes[r]
  <2>1. launched[r] \in Nat /\ Planes[r] \in Nat /\ posted[r] <= launched[r] /\ launched[r] <= Planes[r]
    BY PipeSizes DEF FInv, LanesTyped, LanesHold
  <2> QED
    BY <1>2, <2>1
<1>4. ASSUME NEW x \in running PROVE x[1] # r
  <2> SUFFICES ASSUME x[1] = r PROVE FALSE
    OBVIOUS
  <2> DEFINE l == x[2]
  <2>1. l \in PlanLaneIds \cup {0} /\ x = <<r, l>>
    BY DEF FInv, LanesTyped
  <2> HIDE DEF l
  <2>2. l # 0
    BY <1>1, <2>1 DEF FInv, LanesRun, Overlapped
  <2>3. l \in PlanLaneIds /\ holds[r][l] # -1
    BY <2>1, <2>2 DEF FInv, LanesRun
  <2>4. posted[r] <= holds[r][l] /\ holds[r][l] < launched[r] /\ holds[r][l] \in Nat /\ Planes[r] \in Nat
    BY <2>3, PipeSizes DEF FInv, LanesHold, LanesTyped
  <2> QED
    BY <1>2, <1>3, <2>4
<1>5. ASSUME NEW m \in sends \cup unacked PROVE m.src # r \/ <<r, m.dst>> \in Eager
  <2>1. m \in unacked => m.src # r
    BY <1>1 DEF FInv, PlaneTransfers, PlaneUnackedAre
  <2>2. m \in sends => <<m.src, m.dst>> \in Eager \/ m \in unacked
    BY DEF FInv, PlaneTransfers, PlaneSendsAre
  <2> QED
    BY <2>1, <2>2
<1> QED
  BY <1>1, <1>2, <1>3, <1>4, <1>5, NothingToReceive

\* A rank that waits for a plane of a peer that has sent all of its own: MPI can
\* match the oldest receive of that channel.
LEMMA WaitingMatches ==
    ASSUME FInv, NEW r \in Ranks, NEW x \in receiving[r], posted[x[1]] = Planes[x[1]],
           ~PlaneArrived(r, x[1], x[2])
    PROVE  \E m \in sends, q \in recvs : Matching(m, q, sends, recvs)
<1> DEFINE p == x[1]
           Waiting == {n \in Nat : PlaneRequest(p, r, n) \in recvs}
<1>1. /\ x = <<p, x[2]>> /\ x[2] \in Nat /\ p \in Peers(r) /\ p \in Ranks /\ p # r /\ r \in Peers(p)
      /\ rnext[r][p] <= posted[p] /\ rnext[r][p] \in Nat /\ posted[p] \in Nat
  BY PeersAre DEF FInv, WindowTyped, WindowInv, LanesTyped
<1>2. x[2] \in Waiting
  BY <1>1 DEF PlaneArrived
<1> HIDE DEF p
<1>3. PICK n \in Waiting : \A k \in Waiting : n <= k
  BY <1>2, LeastNat
<1> DEFINE q == PlaneRequest(p, r, n)
<1>4. n \in Nat /\ q \in recvs /\ q.src = p /\ q.dst = r /\ q.plane = n /\ q.order = n
  BY <1>1, RequestIs
<1>5. Arrival(p, r, n) \notin landed /\ n < rnext[r][p]
  <2>1. Arrival(p, r, n) \notin landed /\ <<p, n>> \in receiving[r]
    <3>1. /\ <<q.src, q.plane>> \in receiving[q.dst]
          /\ Arrival(q.src, q.dst, q.plane) \notin landed
      BY <1>4 DEF FInv, PlaneTransfers, PlaneRecvsAre
    <3> HIDE DEF q
    <3> QED
      BY <1>4, <3>1
  <2> QED
    BY <2>1 DEF FInv, WindowInv
<1>6. n < posted[p]
  BY <1>1, <1>4, <1>5
<1>7. q \in sends
  BY <1>1, <1>4, <1>5, <1>6 DEF FInv, PlaneTransfers, PlaneSendsCover
<1> HIDE DEF q
<1>8. Oldest(q, recvs)
  <2> SUFFICES ASSUME NEW other \in recvs, SameClass(other, q) PROVE q.order <= other.order
    BY DEF Oldest
  <2> DEFINE k == other.plane
  <2>1. k \in Nat /\ other = PlaneRequest(p, r, k)
    BY <1>4 DEF SameClass, FInv, TransfersTyped, PlaneRequests, PlaneTransfers, PlaneRecvsAre
  <2> HIDE DEF k
  <2>2. other.order = k /\ n <= k
    BY <1>1, <1>3, <2>1, RequestIs
  <2> QED
    BY <1>4, <2>2
<1>9. Oldest(q, sends)
  <2> SUFFICES ASSUME NEW other \in sends, SameClass(other, q) PROVE q.order <= other.order
    BY DEF Oldest
  <2> DEFINE k == other.plane
  <2>1. k \in Nat /\ other = PlaneRequest(p, r, k) /\ Arrival(p, r, k) \notin landed
    BY <1>4 DEF SameClass, FInv, TransfersTyped, PlaneRequests, PlaneTransfers, PlaneSendsAre
  <2> HIDE DEF k
  <2>2. other.order = k
    BY <1>1, <2>1, RequestIs
  <2>3. k < n => k \in Waiting
    <3> SUFFICES ASSUME k < n PROVE k \in Waiting
      OBVIOUS
    <3>1. k < rnext[r][p]
      BY <1>1, <1>4, <1>5, <2>1
    <3> QED
      BY <1>1, <2>1, <3>1 DEF FInv, PlaneTransfers, PlaneRecvsCover
  <2>4. n <= k
    BY <1>3, <1>4, <2>1, <2>3
  <2> QED
    BY <1>4, <2>2, <2>4
<1> QED
  BY <1>4, <1>7, <1>8, <1>9 DEF Matching, SameClass

\* Where every rank is blocked each has sent all of its planes, so that one which
\* waits for a plane, or for a send not matched yet, has MPI at work.
LEMMA ForwardGoes ==
    ASSUME FInv, NEW r \in Ranks, ~Ended(r), \A s \in Ranks : PipeBlocked(s)
    PROVE  \/ \E m \in sends, q \in recvs : Matching(m, q, sends, recvs)
           \/ \E m \in unacked : m \notin sends
<1>1. \A s \in Ranks : posted[s] = Planes[s] /\ (pc[s] # "waitRecv" => InputsReady(s))
  BY DEF PipeBlocked, Ended, FInv, PhasesInv, Leaving, InputsReady
<1>2. ASSUME NEW s \in Ranks, pc[s] = "waitRecv"
      PROVE  \E m \in sends, q \in recvs : Matching(m, q, sends, recvs)
  <2>1. PICK x \in receiving[s] : TRUE
    BY <1>2 DEF FInv, PhasesInv
  <2>2. ~PlaneArrived(s, x[1], x[2])
    BY <1>2 DEF PipeBlocked, Ended, SomeArrived
  <2>3. x[1] \in Ranks
    BY DEF FInv, WindowTyped
  <2> QED
    BY <1>1, <2>1, <2>2, <2>3, WaitingMatches
<1>3. CASE \A s \in Ranks : pc[s] # "waitRecv"
  <2>1. PICK x \in sending[r] : ~PlaneSent(r, x[1], x[2])
    BY <1>3 DEF PipeBlocked, SomeSent, FInv, PhasesInv
  <2>2. x = <<x[1], x[2]>> /\ x[1] \in Ranks /\ x[2] \in Nat
    BY DEF FInv, WindowTyped
  <2> DEFINE m == PlaneRequest(r, x[1], x[2])
  <2>3. m \in unacked /\ m.src = r /\ m.dst = x[1] /\ m.plane = x[2]
    BY <2>1, <2>2, RequestIs DEF PlaneSent
  <2>4. m \notin sends
    <3> SUFFICES ASSUME m \in sends PROVE FALSE
      OBVIOUS
    <3>1. r # x[1] /\ x[2] < posted[r] /\ Arrival(r, x[1], x[2]) \notin landed
      BY <2>3 DEF FInv, PlaneTransfers, PlaneSendsAre
    <3>2. r \in Peers(x[1]) /\ x[2] < Planes[r]
      BY <1>1, <2>2, <3>1, PeersAre
    <3>3. InputsReady(x[1])
      BY <1>1, <1>3, <2>2
    <3> QED
      BY <2>2, <3>1, <3>2, <3>3, NothingToReceive
  <2> QED
    BY <2>3, <2>4
<1> QED
  BY <1>2, <1>3

-----------------------------------------------------------------------------
(***************************************************************************)
(* The theorems.                                                           *)
(***************************************************************************)

\* Of the whole pipeline: a plane of a backward call is waiting, on one lane or
\* transformed; queue_ready_plane and launch_ready_planes never repeat one.
THEOREM PipeTransformedOnce == PipeSpec => []TransformedOnce
<1>1. PInv => TransformedOnce
  <2>1. KInv => TransformedOnce
    BY DEF KInv, QueueInv
  <2>2. CreditIdle => TransformedOnce
    <3> SUFFICES ASSUME CreditIdle, NEW r \in Ranks
                 PROVE  /\ \A i, j \in 1 .. Len(ready[r]) : i # j => ready[r][i] # ready[r][j]
                        /\ \A l \in LaneIds : lane[r][l] = -1
      BY DEF TransformedOnce
    <3>1. 1 .. Len(ready[r]) = {}
      BY DEF CreditIdle
    <3> QED
      BY <3>1 DEF CreditIdle
  <2> QED
    BY <2>1, <2>2 DEF PInv
<1> QED
  BY <1>1, PipeInvCorrect, PTL

\* A forward send is posted only for a plane whose FFT is done, and until MPI is
\* finished with it no lane writes that plane again: the lanes, polled between
\* the posts, are relaunched on later planes only.
THEOREM SendsTransformedCorrect == PipeSpec => []SendsTransformed
<1>1. PInv => SendsTransformed
  BY ForwardSends DEF PInv, SendsTransformed
<1> QED
  BY <1>1, PipeInvCorrect, PTL

\* The GPU reads data of the peers that is complete and in its place: the
\* inverse FFT of a plane in a backward call, the FFT that overlaps the sends in
\* a forward one.  Planes share tags in both; the order of posting keeps them apart.
THEOREM ReadsArrivedCorrect == PipeSpec => []ReadsArrived
<1>1. PInv => ReadsArrived
  <2> SUFFICES ASSUME PInv PROVE ReadsArrived
    OBVIOUS
  <2>1. CASE way = "backward"
    <3>1. KInv
      BY <2>1 DEF PInv
    <3>2. \A r \in Ranks : Overlapped(r) \notin running
      <4>1. running \subseteq Ranks \X LaneIds /\ 0 \notin LaneIds
        BY <3>1 DEF KInv, QueueTyped, LaneIds
      <4> QED
        BY <4>1 DEF Overlapped
    <3> QED
      BY <3>1, <3>2, Launched DEF ReadsArrived
  <2>2. CASE way # "backward"
    <3>1. FInv
      BY <2>2 DEF PInv
    <3> QED
      BY <2>2, <3>1, ForwardArrived DEF ReadsArrived
  <2> QED
    BY <2>1, <2>2
<1> QED
  BY <1>1, PipeInvCorrect, PTL

\* A call returns, or passes on what the overlapped launch threw, only when all
\* planes are launched, sent and received, no FFT of the rank runs and none of
\* its requests is left; its scheduler never throws "stalled before posting".
THEOREM NothingBehindCorrect == PipeSpec => []NothingBehind
<1>1. PInv => NothingBehind
  <2> SUFFICES ASSUME PInv PROVE NothingBehind
    OBVIOUS
  <2>1. CASE way = "backward"
    BY <2>1, Complete DEF PInv, NothingBehind
  <2>2. CASE way # "backward"
    <3>1. FInv
      BY <2>2 DEF PInv
    <3>2. \A r \in Ranks : pc[r] # "noProgress" /\ (pc[r] = "waitRecv" => receiving[r] # {})
      BY <3>1 DEF FInv, PhasesInv
    <3> QED
      BY <2>2, <3>1, <3>2, ForwardEnd DEF NothingBehind
  <2> QED
    BY <2>1, <2>2
<1> QED
  BY <1>1, PipeInvCorrect, PTL

\* A forward call does not deadlock, however many planes, slots and lanes there
\* are and whichever sends MPI copies: a rank that waits in MPI_Waitany has sent
\* all of its planes, so that no peer waits for one it still has to post.
THEOREM ForwardMovesCorrect == PipeSpec => []ForwardMoves
<1>1. PInv => ForwardMoves
  <2> SUFFICES ASSUME FInv
               PROVE  \/ \A r \in Ranks : Ended(r)
                      \/ \E r \in Ranks : ~PipeBlocked(r)
                      \/ running # {}
                      \/ \E m \in sends, q \in recvs : Matching(m, q, sends, recvs)
                      \/ \E m \in unacked : m \notin sends
    BY DEF PInv, ForwardMoves
  <2> QED
    BY ForwardGoes
<1> QED
  BY <1>1, PipeInvCorrect, PTL
=============================================================================
