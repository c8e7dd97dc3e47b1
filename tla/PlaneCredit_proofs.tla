-------------------------- MODULE PlaneCredit_proofs --------------------------
(***************************************************************************)
(* Proofs about the backward plane-credit scheduler, for any number of     *)
(* ranks, planes, credits and lanes, and any choice of eager channels.     *)
(*                                                                         *)
(* Two facts carry the argument.  A slot walks through the planes of its   *)
(* residue class, and the tags tell the classes apart, so that a send and  *)
(* a receive which MPI matches are for one plane.  And the planes that     *)
(* have arrived are, each once, in the queue, on a lane or transformed:    *)
(* the launch moves a prefix of the queue to the idle lanes, in order.     *)
(***************************************************************************)
EXTENDS PlaneCredit, FiniteSetTheorems, SequenceTheorems, WellFoundedInduction, TLAPS

-----------------------------------------------------------------------------
(***************************************************************************)
(* The inductive invariant.                                                *)
(***************************************************************************)

\* The slot that takes a plane.
SlotOf == [n \in Nat |-> n % Credit]

\* The planes whose requests a rank has posted.
Begun ==
    [r \in Ranks |->
        {n \in 0 .. MaxPlanes - 1 :
            \/ n <= plane[r][SlotOf[n]]
            \/ plane[r][SlotOf[n]] = -1 /\ pc[r] # "activate"}]

\* Those of its own that it knows to have arrived, and those its slots have left.
Arrived ==
    [r \in Ranks |->
        {n \in Begun[r] : n < Planes[r] /\ (plane[r][SlotOf[n]] = n => rwait[r][SlotOf[n]] = {})}]
Closed == [r \in Ranks |-> {n \in Begun[r] : plane[r][SlotOf[n]] # n}]

\* The request of a part of a plane, and its arrival in its place.
Part(s, d, n) == Request(s, d, n, SlotOf[n])
Arrival(s, d, n) == [src |-> s, dst |-> d, want |-> n, got |-> n]

Phases == {"activate", "head", "testRecv", "testSend", "recycle", "waitRecv", "waitSend",
           "noProgress", "done"}
Requests == [src : Ranks, dst : Ranks, tag : Nat, order : Nat, plane : Nat, slot : Slots]
Arrivals == [src : Ranks, dst : Ranks, want : Nat, got : Nat]

SlotsTyped ==
    /\ plane \in [Ranks -> [Slots -> Nat \cup {-1}]]
    /\ rwait \in [Ranks -> [Slots -> SUBSET Ranks]]
    /\ swait \in [Ranks -> [Slots -> SUBSET Ranks]]
    /\ recvs \subseteq Requests
    /\ sends \subseteq Requests
    /\ unacked \subseteq Requests
    /\ landed \subseteq Arrivals
QueueTyped ==
    /\ ready \in [Ranks -> Seq(Nat)]
    /\ lane \in [Ranks -> [LaneIds -> Nat \cup {-1}]]
    /\ running \subseteq Ranks \X LaneIds
    /\ transformed \in [Ranks -> SUBSET Nat]
LoopTyped ==
    /\ pc \in [Ranks -> Phases]
    /\ progressed \in [Ranks -> BOOLEAN]
    /\ network \in [Ranks -> Nat]

\* A slot is at a plane of its class, and waits for the parts of that plane.
SlotsOwn ==
    \A r \in Ranks, s \in Slots :
        /\ plane[r][s] # -1 => plane[r][s] < MaxPlanes /\ SlotOf[plane[r][s]] = s
        /\ rwait[r][s] # {} => plane[r][s] # -1 /\ plane[r][s] < Planes[r]

\* A receive that is posted is one its slot waits for; so is a send MPI may read.
RecvsAre ==
    \A q \in recvs :
        /\ q = Part(q.src, q.dst, q.plane) /\ q.src # q.dst
        /\ q.plane < Planes[q.dst]
        /\ q.plane = plane[q.dst][q.slot] /\ q.src \in rwait[q.dst][q.slot]
        /\ Arrival(q.src, q.dst, q.plane) \notin landed
SendsAre ==
    \A m \in sends :
        /\ m = Part(m.src, m.dst, m.plane) /\ m.src # m.dst
        /\ m.plane \in Begun[m.src] /\ m.plane < Planes[m.dst]
        /\ Arrival(m.src, m.dst, m.plane) \notin landed
UnackedAre ==
    \A m \in unacked : m.plane = plane[m.src][m.slot] /\ m.dst \in swait[m.src][m.slot]

\* A plane that landed was posted on both sides, and landed in its place.
LandedAre ==
    \A a \in landed :
        /\ a = Arrival(a.src, a.dst, a.want) /\ a.src # a.dst
        /\ a.want \in Begun[a.src] /\ a.want \in Begun[a.dst]

\* What was posted is posted still or has landed.
RecvsCover ==
    \A r, p \in Ranks : \A n \in Begun[r] :
        p # r /\ n < Planes[r] => Part(p, r, n) \in recvs \/ Arrival(p, r, n) \in landed
SendsCover ==
    \A r, p \in Ranks : \A n \in Begun[r] :
        p # r /\ n < Planes[p] => Part(r, p, n) \in sends \/ Arrival(r, p, n) \in landed

\* Every plane that has arrived is queued, on a lane or transformed.
Queued ==
    \A r \in Ranks :
        /\ \A i \in 1 .. Len(ready[r]) : ready[r][i] \in Arrived[r] /\ ready[r][i] \notin transformed[r]
        /\ \A l \in LaneIds : lane[r][l] # -1 => lane[r][l] \in Arrived[r]
        /\ transformed[r] \subseteq Arrived[r]
        /\ \A n \in Arrived[r] : \/ \E i \in 1 .. Len(ready[r]) : ready[r][i] = n
                                 \/ \E l \in LaneIds : lane[r][l] = n
                                 \/ n \in transformed[r]
LanesBusy == \A x \in running : lane[x[1]][x[2]] # -1

\* The counter of the slots, and what it says at the end of a round and of the call.
Counted == \A r \in Ranks : network[r] = Cardinality(Closed[r])
Rounds ==
    \A r \in Ranks :
        /\ pc[r] \in {"testRecv", "testSend", "recycle"} /\ ~progressed[r] =>
              network[r] < MaxPlanes \/ Cardinality(transformed[r]) < Planes[r]
        /\ pc[r] = "done" => network[r] >= MaxPlanes /\ Cardinality(transformed[r]) >= Planes[r]
        /\ pc[r] # "noProgress"
        /\ pc[r] = "waitRecv" => \E s \in Slots : rwait[r][s] # {}

MpiInv == RecvsAre /\ SendsAre /\ UnackedAre /\ LandedAre /\ RecvsCover /\ SendsCover
QueueInv == Queued /\ TransformedOnce /\ LanesBusy
KInv ==
    /\ SlotsTyped /\ QueueTyped /\ LoopTyped
    /\ SlotsOwn /\ MpiInv
    /\ QueueInv
    /\ Counted /\ Rounds

-----------------------------------------------------------------------------
(***************************************************************************)
(* The arithmetic of slots and tags.                                       *)
(***************************************************************************)

LEMMA Sizes == P \in Nat \ {0} /\ Credit \in Nat \ {0} /\ Lanes \in Nat \ {0}
  BY CreditAssumption

LEMMA ModOf ==
    ASSUME NEW n \in Nat, NEW c \in Nat \ {0}, NEW k \in Nat, NEW x \in Nat, x < c, n = c * k + x
    PROVE  n % c = x
  OBVIOUS

LEMMA DivMod ==
    ASSUME NEW n \in Nat, NEW c \in Nat \ {0}
    PROVE  \E k, x \in Nat : n = c * k + x /\ x < c /\ n % c = x
<1> DEFINE k == n \div c
           x == n - c * k
<1>1. k \in Nat /\ c * k \in Nat /\ c * k <= n /\ n < c * k + c
  OBVIOUS
<1>2. x \in Nat /\ x < c /\ n = c * k + x
  BY <1>1
<1> HIDE DEF k, x
<1>3. n % c = x
  BY <1>1, <1>2, ModOf
<1> QED
  BY <1>1, <1>2, <1>3

LEMMA Times == 
    ASSUME NEW a \in Nat, NEW b \in Nat, a < b, NEW c \in Nat \ {0}
    PROVE  c * a + c <= c * b /\ c * a \in Nat /\ c * b \in Nat
<1>1. a + 1 <= b /\ a + 1 \in Nat
  OBVIOUS
<1>2. c * (a + 1) <= c * b
  BY <1>1
<1>3. c * (a + 1) = c * a + c
  OBVIOUS
<1> QED
  BY <1>2, <1>3

LEMMA SlotFacts ==
    /\ SlotOf \in [Nat -> Slots]
    /\ \A s \in Slots : s \in Nat /\ SlotOf[s] = s
    /\ \A n \in Nat : SlotOf[n] <= n /\ SlotOf[n + Credit] = SlotOf[n]
    /\ \A n, m \in Nat : n < m /\ SlotOf[n] = SlotOf[m] => n + Credit <= m
<1>1. SlotOf \in [Nat -> Slots]
  BY DivMod, Sizes DEF SlotOf, Slots
<1>2. \A s \in Slots : s \in Nat /\ SlotOf[s] = s
  BY Sizes DEF SlotOf, Slots
<1>3. ASSUME NEW n \in Nat PROVE SlotOf[n] <= n
  <2>1. PICK k, x \in Nat : n = Credit * k + x /\ x < Credit /\ n % Credit = x
    BY Sizes, DivMod
  <2>2. Credit * k \in Nat
    BY Sizes
  <2>3. x <= n
    BY <2>1, <2>2, Sizes
  <2> QED
    BY <2>1, <2>3 DEF SlotOf
<1>4. ASSUME NEW n \in Nat, NEW m \in Nat, n < m, SlotOf[n] = SlotOf[m] PROVE n + Credit <= m
  <2>1. PICK a, x \in Nat : n = Credit * a + x /\ x < Credit /\ n % Credit = x
    BY Sizes, DivMod
  <2>2. PICK b, y \in Nat : m = Credit * b + y /\ y < Credit /\ m % Credit = y
    BY Sizes, DivMod
  <2>3. x = y
    BY <2>1, <2>2, <1>4 DEF SlotOf
  <2>4. a < b
    <3> SUFFICES ASSUME b <= a PROVE FALSE
      OBVIOUS
    <3>1. Credit * b <= Credit * a /\ Credit * a \in Nat /\ Credit * b \in Nat
      BY Sizes
    <3> QED
      BY <3>1, <2>1, <2>2, <2>3, <1>4
  <2>5. Credit * a + Credit <= Credit * b /\ Credit * a \in Nat /\ Credit * b \in Nat
    BY <2>4, Times, Sizes
  <2> QED
    BY <2>1, <2>2, <2>3, <2>5, Sizes
<1>5. ASSUME NEW n \in Nat PROVE SlotOf[n + Credit] = SlotOf[n]
  <2>1. PICK k, x \in Nat : n = Credit * k + x /\ x < Credit /\ n % Credit = x
    BY Sizes, DivMod
  <2>2. Credit * (k + 1) = Credit * k + Credit /\ Credit * k \in Nat
    BY Sizes
  <2>3. n + Credit = Credit * (k + 1) + x /\ n + Credit \in Nat /\ k + 1 \in Nat
    BY <2>1, <2>2, Sizes
  <2>4. (n + Credit) % Credit = x
    BY <2>1, <2>3, ModOf, Sizes
  <2> QED
    BY <2>1, <2>4, Sizes DEF SlotOf
<1> QED
  BY <1>1, <1>2, <1>3, <1>4, <1>5

LEMMA TagFacts ==
    ASSUME NEW d \in Ranks, NEW n \in Nat
    PROVE  /\ Tag(d, n) \in Nat
           /\ \A m \in Nat : Tag(d, n) = Tag(d, m) => SlotOf[n] = SlotOf[m]
<1>1. d \in Nat
  BY Sizes DEF Ranks
<1>2. \A m \in Nat : m % Credit \in Nat /\ P * (m % Credit) \in Nat
  <2> SUFFICES ASSUME NEW m \in Nat PROVE m % Credit \in Nat /\ P * (m % Credit) \in Nat
    OBVIOUS
  <2>1. m % Credit \in Nat
    BY DivMod, Sizes
  <2> QED
    BY <2>1, Sizes
<1>3. ASSUME NEW m \in Nat, Tag(d, n) = Tag(d, m) PROVE SlotOf[n] = SlotOf[m]
  <2>1. P * (n % Credit) = P * (m % Credit)
    BY <1>1, <1>2, <1>3 DEF Tag
  <2>2. n % Credit \in Nat /\ m % Credit \in Nat
    BY <1>2
  <2>3. ~(n % Credit < m % Credit)
    BY <2>1, <2>2, Times, Sizes
  <2>4. ~(m % Credit < n % Credit)
    BY <2>1, <2>2, Times, Sizes
  <2> QED
    BY <2>2, <2>3, <2>4 DEF SlotOf
<1>4. Tag(d, n) \in Nat
  BY <1>1, <1>2 DEF Tag
<1> QED
  BY <1>3, <1>4

LEMMA PlanesType == Planes \in [Ranks -> Nat] /\ Ranks # {} /\ Ranks \subseteq Nat
<1>1. 0 \in Ranks
  BY Sizes DEF Ranks
<1> QED
  <2>1. Ranks \subseteq Nat
    BY Sizes DEF Ranks
  <2> QED
    BY <1>1, <2>1, CreditAssumption

LEMMA LessThanWF == IsWellFoundedOn({ss \in Nat \X Nat : ss[1] < ss[2]}, Nat)
  BY NatLessThanWellFounded DEF OpToRel

\* A set of naturals that is not empty has a least element.
LEMMA LeastNat ==
    ASSUME NEW T, T \subseteq Nat, T # {}
    PROVE  \E x \in T : \A y \in T : x <= y
<1> DEFINE R == {ss \in Nat \X Nat : ss[1] < ss[2]}
<1>1. IsWellFoundedOn(R, Nat)
  BY LessThanWF
<1> HIDE DEF R
<1>2. PICK x \in T : \A y \in T : ~(<<y, x>> \in R)
  BY <1>1, WFMin
<1>3. \A y \in T : <<y, x>> \in Nat \X Nat
  OBVIOUS
<1>4. \A y \in T : ~(y < x)
  BY <1>2, <1>3 DEF R
<1> QED
  BY <1>4

\* The ranks own finitely many planes: one of them owns the most.
LEMMA MaxFacts == MaxPlanes \in Nat /\ \A r \in Ranks : Planes[r] <= MaxPlanes
<1> DEFINE Top(k) == {r \in 0 .. k : \A q \in 0 .. k : Planes[q] <= Planes[r]}
           Bad == {k \in Ranks : Top(k) = {}}
<1>1. Bad = {}
  <2> SUFFICES ASSUME Bad # {} PROVE FALSE
    OBVIOUS
  <2>1. PICK k \in Bad : \A j \in Bad : k <= j
    BY LeastNat, PlanesType
  <2>2. k \in Nat /\ 0 .. k \subseteq Ranks /\ 0 .. k - 1 \subseteq Ranks
    BY Sizes DEF Ranks
  <2>3. k # 0
    <3>1. 0 \in Ranks /\ Planes[0] \in Nat
      BY PlanesType, Sizes DEF Ranks
    <3>2. k = 0 => 0 \in Top(k)
      BY <3>1
    <3> QED
      BY <3>2, <2>1
  <2>4. k - 1 \in Ranks /\ k - 1 \notin Bad
    BY <2>1, <2>2, <2>3 DEF Ranks
  <2>5. PICK r \in Top(k - 1) : TRUE
    BY <2>4
  <2>6. r \in 0 .. k - 1 /\ \A q \in 0 .. k - 1 : Planes[q] <= Planes[r]
    BY <2>5
  <2>7. \A q \in 0 .. k : Planes[q] \in Nat
    BY <2>2, PlanesType
  <2>8. \A q \in 0 .. k : q \in 0 .. k - 1 \/ q = k
    BY <2>2
  <2>9. CASE Planes[k] <= Planes[r]
    <3>1. ASSUME NEW q \in 0 .. k PROVE Planes[q] <= Planes[r]
      BY <2>6, <2>8, <2>9
    <3>2. r \in 0 .. k
      BY <2>2, <2>6
    <3>3. r \in Top(k)
      BY <3>1, <3>2
    <3> QED
      BY <3>3, <2>1
  <2>10. CASE ~(Planes[k] <= Planes[r])
    <3>2. k \in 0 .. k /\ r \in 0 .. k
      BY <2>2, <2>6
    <3>3. Planes[k] \in Nat /\ Planes[r] \in Nat
      BY <2>7, <3>2
    <3>4. ASSUME NEW q \in 0 .. k PROVE Planes[q] <= Planes[k]
      <4>1. Planes[q] \in Nat
        BY <2>7
      <4>2. CASE q = k
        BY <3>3, <4>2
      <4>3. CASE q # k
        <5>1. Planes[q] <= Planes[r]
          BY <2>6, <2>8, <4>3
        <5> QED
          BY <2>10, <3>3, <4>1, <5>1
      <4> QED
        BY <4>2, <4>3
    <3>1. k \in Top(k)
      BY <3>2, <3>4
    <3> QED
      BY <3>1, <2>1
  <2> QED
    BY <2>9, <2>10
<1>2. P - 1 \in Ranks /\ Ranks = 0 .. P - 1
  BY Sizes DEF Ranks
<1>3. PICK r \in Ranks : \A q \in Ranks : Planes[q] <= Planes[r]
  BY <1>1, <1>2
<1>4. \E n \in {Planes[q] : q \in Ranks} : \A q \in Ranks : Planes[q] <= n
  BY <1>3
<1>5. MaxPlanes \in {Planes[q] : q \in Ranks} /\ \A q \in Ranks : Planes[q] <= MaxPlanes
  BY <1>4 DEF MaxPlanes
<1> QED
  BY <1>5, PlanesType

-----------------------------------------------------------------------------
(***************************************************************************)
(* The lanes that launch: idle lanes in order take ready planes in order.  *)
(***************************************************************************)

LEMMA RankFacts ==
    ASSUME NEW S \in SUBSET LaneIds
    PROVE  /\ IsFiniteSet(S)
           /\ Cardinality(S) \in Nat
           /\ \A l \in S : Rank(l, S) \in 1 .. Cardinality(S)
           /\ \A l, k \in S : Rank(l, S) = Rank(k, S) => l = k
           /\ \A n \in 1 .. Cardinality(S) : \E l \in S : Rank(l, S) = n
<1> DEFINE U == [l \in LaneIds |-> {x \in S : x <= l}]
<1>1. IsFiniteSet(LaneIds) /\ LaneIds \subseteq Nat
  BY FS_Interval, Sizes DEF LaneIds
<1>2. IsFiniteSet(S) /\ Cardinality(S) \in Nat
  BY <1>1, FS_Subset, FS_CardinalityType
<1>3. \A l \in S : Rank(l, S) = Cardinality(U[l])
  BY DEF Rank
<1>10. \A l \in S : U[l] = {x \in S : x <= l} /\ l \in Nat
  BY <1>1
<1> HIDE DEF U
<1>4. \A l \in S : U[l] \in SUBSET S /\ l \in U[l]
  BY <1>10
<1>5. ASSUME NEW l \in S PROVE IsFiniteSet(U[l]) /\ Cardinality(U[l]) \in 1 .. Cardinality(S)
  <2>1. IsFiniteSet(U[l]) /\ Cardinality(U[l]) <= Cardinality(S)
    BY <1>2, <1>4, FS_Subset
  <2>2. Cardinality(U[l]) \in Nat /\ Cardinality(U[l]) # 0
    BY <1>4, <2>1, FS_CardinalityType, FS_EmptySet
  <2> QED
    BY <1>2, <2>1, <2>2
<1>6. ASSUME NEW l \in S, NEW k \in S, l < k PROVE Cardinality(U[l]) < Cardinality(U[k])
  <2>1. U[l] \in SUBSET (U[k] \ {k})
    <3> SUFFICES ASSUME NEW x \in U[l] PROVE x \in U[k] /\ x # k
      OBVIOUS
    <3> QED
      BY <1>6, <1>10
  <2>2. IsFiniteSet(U[k] \ {k}) /\ Cardinality(U[k] \ {k}) = Cardinality(U[k]) - 1
    BY <1>4, <1>5, FS_RemoveElement
  <2>3. Cardinality(U[l]) <= Cardinality(U[k] \ {k})
    BY <2>1, <2>2, FS_Subset
  <2> QED
    BY <2>2, <2>3, <1>5
<1>7. \A l \in S : Rank(l, S) \in 1 .. Cardinality(S)
  BY <1>3, <1>5
<1>8. \A l, k \in S : Rank(l, S) = Rank(k, S) => l = k
  <2> SUFFICES ASSUME NEW l \in S, NEW k \in S, Rank(l, S) = Rank(k, S) PROVE l = k
    OBVIOUS
  <2>1. Cardinality(U[l]) = Cardinality(U[k]) /\ Cardinality(U[l]) \in Nat
    BY <1>3, <1>5
  <2>2. ~(l < k) /\ ~(k < l)
    BY <2>1, <1>5, <1>6
  <2> QED
    BY <1>1, <2>2
<1>9. \A n \in 1 .. Cardinality(S) : \E l \in S : Rank(l, S) = n
  <2> DEFINE f == [l \in S |-> Rank(l, S)]
  <2>1. f \in Injection(S, 1 .. Cardinality(S))
    BY <1>7, <1>8 DEF Injection, IsInjective
  <2>2. IsFiniteSet(1 .. Cardinality(S)) /\ Cardinality(1 .. Cardinality(S)) = Cardinality(S)
    BY <1>2, FS_Interval
  <2>3. f \in Surjection(S, 1 .. Cardinality(S))
    BY <2>1, <2>2, FS_Injection
  <2> QED
    BY <2>3 DEF Surjection
<1> QED
  BY <1>2, <1>7, <1>8, <1>9

\* As many launch as there are idle lanes and ready planes.
LEMMA UsedFacts ==
    ASSUME NEW S \in SUBSET LaneIds, NEW n \in Nat,
           NEW used, used = {l \in S : Rank(l, S) <= n},
           NEW k, k = IF Cardinality(S) < n THEN Cardinality(S) ELSE n
    PROVE  /\ Cardinality(used) = k
           /\ \A l \in used : Rank(l, S) \in 1 .. k
           /\ \A i \in 1 .. k : \E l \in used : Rank(l, S) = i
<1> DEFINE f == [l \in used |-> Rank(l, S)]
<1>1. k \in Nat
  BY RankFacts
<1>2. \A l \in used : Rank(l, S) \in 1 .. k
  BY RankFacts
<1>3. \A i \in 1 .. k : \E l \in used : Rank(l, S) = i
  <2> SUFFICES ASSUME NEW i \in 1 .. k PROVE \E l \in used : Rank(l, S) = i
    OBVIOUS
  <2>1. i \in 1 .. Cardinality(S) /\ i <= n
    BY RankFacts
  <2>2. PICK l \in S : Rank(l, S) = i
    BY <2>1, RankFacts
  <2> QED
    BY <2>1, <2>2
<1>4. f \in Injection(used, 1 .. k)
  BY <1>2, RankFacts DEF Injection, IsInjective
<1>5. f \in Surjection(used, 1 .. k)
  BY <1>2, <1>3 DEF Surjection
<1>6. Cardinality(used) = k
  <2>1. IsFiniteSet(1 .. k) /\ Cardinality(1 .. k) = k
    BY <1>1, FS_Interval
  <2> HIDE DEF f
  <2> QED
    BY <1>4, <1>5, <2>1, FS_Injection
<1> QED
  BY <1>2, <1>3, <1>6

-----------------------------------------------------------------------------
(***************************************************************************)
(* Requests and planes.                                                    *)
(***************************************************************************)

LEMMA PartFacts ==
    ASSUME NEW s \in Ranks, NEW d \in Ranks, NEW n \in Nat
    PROVE  /\ Part(s, d, n) \in Requests
           /\ Part(s, d, n).src = s /\ Part(s, d, n).dst = d /\ Part(s, d, n).plane = n
           /\ Part(s, d, n).slot = SlotOf[n] /\ Part(s, d, n).order = n
           /\ Part(s, d, n).tag = Tag(d, n)
  BY SlotFacts, TagFacts DEF Part, Request, Requests

LEMMA ArrivalFacts ==
    ASSUME NEW s \in Ranks, NEW d \in Ranks, NEW n \in Nat
    PROVE  /\ Arrival(s, d, n) \in Arrivals
           /\ Arrival(s, d, n).src = s /\ Arrival(s, d, n).dst = d
           /\ Arrival(s, d, n).want = n /\ Arrival(s, d, n).got = n
  BY DEF Arrival, Arrivals

LEMMA BegunIs ==
    \A r \in Ranks :
        /\ Begun[r] \subseteq 0 .. MaxPlanes - 1
        /\ \A n \in 0 .. MaxPlanes - 1 :
              n \in Begun[r] <=> \/ n <= plane[r][SlotOf[n]]
                                 \/ plane[r][SlotOf[n]] = -1 /\ pc[r] # "activate"
  BY DEF Begun

LEMMA BegunIsNext ==
    \A r \in Ranks :
        /\ Begun'[r] \subseteq 0 .. MaxPlanes - 1
        /\ \A n \in 0 .. MaxPlanes - 1 :
              n \in Begun'[r] <=> \/ n <= plane'[r][SlotOf[n]]
                                  \/ plane'[r][SlotOf[n]] = -1 /\ pc'[r] # "activate"
  BY DEF Begun

LEMMA ArrivedIs ==
    \A r \in Ranks : \A n :
        n \in Arrived[r] <=> /\ n \in Begun[r] /\ n < Planes[r]
                             /\ plane[r][SlotOf[n]] = n => rwait[r][SlotOf[n]] = {}
  BY DEF Arrived

LEMMA ArrivedIsNext ==
    \A r \in Ranks : \A n :
        n \in Arrived'[r] <=> /\ n \in Begun'[r] /\ n < Planes[r]
                              /\ plane'[r][SlotOf[n]] = n => rwait'[r][SlotOf[n]] = {}
  BY DEF Arrived

LEMMA PlanesAre ==
    /\ Begun = [r \in Ranks |-> Begun[r]] /\ Arrived = [r \in Ranks |-> Arrived[r]]
    /\ Begun' = [r \in Ranks |-> Begun'[r]] /\ Arrived' = [r \in Ranks |-> Arrived'[r]]
    /\ \A r \in Ranks : Begun[r] \subseteq Nat /\ Arrived[r] \subseteq Begun[r]
<1>1. 0 .. MaxPlanes - 1 \subseteq Nat
  BY MaxFacts
<1>2. Begun = [r \in Ranks |-> Begun[r]] /\ Begun' = [r \in Ranks |-> Begun'[r]]
  BY DEF Begun
<1>3. Arrived = [r \in Ranks |-> Arrived[r]] /\ Arrived' = [r \in Ranks |-> Arrived'[r]]
  BY DEF Arrived
<1>4. \A r \in Ranks : Arrived[r] \subseteq Begun[r]
  BY DEF Arrived
<1> QED
  BY <1>1, <1>2, <1>3, <1>4, BegunIs

\* A step that leaves the slots alone leaves the planes where they are.
LEMMA PlanesSame ==
    ASSUME plane' = plane, \A r \in Ranks : pc'[r] = "activate" <=> pc[r] = "activate"
    PROVE  Begun' = Begun /\ Closed' = Closed /\ (rwait' = rwait => Arrived' = Arrived)
<1>1. Begun' = Begun
  <2>1. \A r \in Ranks : Begun'[r] = Begun[r]
    BY BegunIs, BegunIsNext
  <2> QED
    BY <2>1, PlanesAre
<1>2. Closed' = Closed
  BY <1>1 DEF Closed
<1>3. rwait' = rwait => Arrived' = Arrived
  BY <1>1 DEF Arrived
<1> QED
  BY <1>1, <1>2, <1>3

-----------------------------------------------------------------------------
(***************************************************************************)
(* The queue of planes that have arrived.                                  *)
(***************************************************************************)

LEMMA QueueSame ==
    ASSUME QueueTyped, QueueInv, Arrived' = Arrived, UNCHANGED planVars
    PROVE  QueueTyped' /\ QueueInv'
  BY DEF QueueTyped, QueueInv, Queued, TransformedOnce, LanesBusy, planVars

\* A plane that arrives is queued.
LEMMA QueueAppend ==
    ASSUME QueueTyped, QueueInv, NEW r \in Ranks, NEW n \in Nat, n \notin Arrived[r],
           Arrived' = [Arrived EXCEPT ![r] = @ \cup {n}],
           ready' = [ready EXCEPT ![r] = Append(@, n)],
           UNCHANGED <<lane, running, transformed>>
    PROVE  QueueTyped' /\ QueueInv'
<1>1. QueueTyped'
  BY DEF QueueTyped
<1>2. /\ ready'[r] = Append(ready[r], n) /\ ready[r] \in Seq(Nat)
      /\ Len(ready'[r]) = Len(ready[r]) + 1 /\ Len(ready[r]) \in Nat
      /\ ready'[r][Len(ready[r]) + 1] = n
      /\ \A i \in 1 .. Len(ready[r]) : ready'[r][i] = ready[r][i]
  BY DEF QueueTyped
<1>3. Arrived'[r] = Arrived[r] \cup {n} /\ \A q \in Ranks : q # r => Arrived'[q] = Arrived[q] /\ ready'[q] = ready[q]
  BY PlanesAre DEF QueueTyped
<1>4. \A i \in 1 .. Len(ready'[r]) : i \in 1 .. Len(ready[r]) \/ i = Len(ready[r]) + 1
  BY <1>2
<1>5. Queued'
  <2> SUFFICES ASSUME NEW q \in Ranks
               PROVE  /\ \A i \in 1 .. Len(ready'[q]) : ready'[q][i] \in Arrived'[q] /\ ready'[q][i] \notin transformed[q]
                      /\ \A l \in LaneIds : lane[q][l] # -1 => lane[q][l] \in Arrived'[q]
                      /\ transformed[q] \subseteq Arrived'[q]
                      /\ \A k \in Arrived'[q] : \/ \E i \in 1 .. Len(ready'[q]) : ready'[q][i] = k
                                                \/ \E l \in LaneIds : lane[q][l] = k
                                                \/ k \in transformed[q]
    BY DEF Queued
  <2>1. CASE q = r
    <3>1. n \notin transformed[r]
      BY DEF QueueInv, Queued
    <3>2. \A i \in 1 .. Len(ready'[r]) : ready'[r][i] \in Arrived'[r] /\ ready'[r][i] \notin transformed[r]
      BY <1>2, <1>3, <1>4, <3>1 DEF QueueInv, Queued
    <3>3. \A l \in LaneIds : lane[r][l] # -1 => lane[r][l] \in Arrived'[r]
      BY <1>3 DEF QueueInv, Queued
    <3>4. transformed[r] \subseteq Arrived'[r]
      BY <1>3 DEF QueueInv, Queued
    <3>5. ASSUME NEW k \in Arrived'[r]
          PROVE  \/ \E i \in 1 .. Len(ready'[r]) : ready'[r][i] = k
                 \/ \E l \in LaneIds : lane[r][l] = k
                 \/ k \in transformed[r]
      <4>1. Len(ready[r]) + 1 \in 1 .. Len(ready'[r]) /\ 1 .. Len(ready[r]) \subseteq 1 .. Len(ready'[r])
        BY <1>2
      <4>2. CASE k = n
        BY <4>1, <4>2, <1>2
      <4>3. CASE k \in Arrived[r]
        BY <4>1, <4>3, <1>2 DEF QueueInv, Queued
      <4> QED
        BY <4>2, <4>3, <1>3
    <3> QED
      BY <2>1, <3>2, <3>3, <3>4, <3>5
  <2>2. CASE q # r
    BY <2>2, <1>3 DEF QueueInv, Queued
  <2> QED
    BY <2>1, <2>2
<1>6. TransformedOnce'
  <2> SUFFICES ASSUME NEW q \in Ranks
               PROVE  /\ \A i, j \in 1 .. Len(ready'[q]) : i # j => ready'[q][i] # ready'[q][j]
                      /\ \A l \in LaneIds : lane[q][l] # -1 =>
                           /\ lane[q][l] \notin transformed[q]
                           /\ \A k \in LaneIds : k # l => lane[q][k] # lane[q][l]
                           /\ \A i \in 1 .. Len(ready'[q]) : ready'[q][i] # lane[q][l]
    BY DEF TransformedOnce
  <2>1. CASE q = r
    <3>1. \A i, j \in 1 .. Len(ready'[r]) : i # j => ready'[r][i] # ready'[r][j]
      BY <1>2, <1>4 DEF QueueInv, Queued, TransformedOnce
    <3>2. \A l \in LaneIds : lane[r][l] # -1 => n # lane[r][l]
      BY DEF QueueInv, Queued
    <3>3. \A l \in LaneIds : lane[r][l] # -1 => \A i \in 1 .. Len(ready'[r]) : ready'[r][i] # lane[r][l]
      BY <1>2, <1>4, <3>2 DEF QueueInv, TransformedOnce
    <3> QED
      BY <2>1, <3>1, <3>3 DEF QueueInv, TransformedOnce
  <2>2. CASE q # r
    BY <2>2, <1>3 DEF QueueInv, TransformedOnce
  <2> QED
    BY <2>1, <2>2
<1>7. LanesBusy'
  BY DEF QueueInv, LanesBusy
<1> QED
  BY <1>1, <1>5, <1>6, <1>7 DEF QueueInv

\* A launch: planes of the lanes that became idle are transformed, the first
\* ready planes are on the lanes, the others wait.
LEMMA QueueLaunch ==
    ASSUME QueueTyped, QueueInv, NEW r \in Ranks, NEW freed \in SUBSET LaneIds,
           \A l \in freed : lane[r][l] # -1 /\ <<r, l>> \notin running,
           Launch(r, freed), Arrived' = Arrived,
           transformed' = [transformed EXCEPT ![r] = @ \cup {lane[r][l] : l \in freed}]
    PROVE  QueueTyped' /\ QueueInv'
<1> DEFINE idle == IdleLanes(r, freed)
           used == Launches(r, freed)
           len == Len(ready[r])
           k == IF Cardinality(idle) < len THEN Cardinality(idle) ELSE len
<1>1. ready[r] \in Seq(Nat) /\ len \in Nat /\ \A i \in 1 .. len : ready[r][i] \in Nat
  BY DEF QueueTyped
<1>2. idle \in SUBSET LaneIds /\ used = {l \in idle : Rank(l, idle) <= len} /\ used \subseteq idle
  BY DEF IdleLanes, Launches
<1>3. \A l \in LaneIds : l \in idle <=> lane[r][l] = -1 \/ l \in freed
  BY DEF IdleLanes
<1> HIDE DEF idle
<1>4. /\ Cardinality(used) = k
      /\ \A l \in used : Rank(l, idle) \in 1 .. k
      /\ \A i \in 1 .. k : \E l \in used : Rank(l, idle) = i
      /\ \A l, j \in used : Rank(l, idle) = Rank(j, idle) => l = j
  <2> HIDE DEF used
  <2>1. k = IF Cardinality(idle) < len THEN Cardinality(idle) ELSE len
    OBVIOUS
  <2> HIDE DEF k
  <2>2. /\ Cardinality(used) = k
        /\ \A l \in used : Rank(l, idle) \in 1 .. k
        /\ \A i \in 1 .. k : \E l \in used : Rank(l, idle) = i
    <3>1. idle \in SUBSET LaneIds /\ used = {l \in idle : Rank(l, idle) <= len} /\ len \in Nat
      BY <1>1, <1>2
    <3> HIDE DEF len
    <3> QED
      BY <3>1, <2>1, UsedFacts
  <2>3. \A l, j \in used : Rank(l, idle) = Rank(j, idle) => l = j
    BY <1>2, RankFacts
  <2> QED
    BY <2>2, <2>3
<1>5. k \in 0 .. len /\ 1 .. k \subseteq 1 .. len
  BY <1>1, <1>2, RankFacts
<1>6. /\ lane' = [lane EXCEPT ![r] = [l \in LaneIds |->
                    IF l \in used THEN ready[r][Rank(l, idle)]
                    ELSE IF l \in freed THEN -1 ELSE @[l]]]
      /\ running' = running \cup {<<r, l>> : l \in used}
      /\ ready' = [ready EXCEPT ![r] = SubSeq(@, k + 1, Len(@))]
  BY <1>4 DEF Launch, idle
<1> HIDE DEF used, k
<1>7. /\ ready'[r] = SubSeq(ready[r], k + 1, len) /\ ready'[r] \in Seq(Nat)
      /\ Len(ready'[r]) = len - k
      /\ \A i \in 1 .. len - k : ready'[r][i] = ready[r][k + i] /\ k + i \in 1 .. len
  <2>1. k \in Nat /\ k <= len
    BY <1>1, <1>5
  <2>2. ready'[r] = SubSeq(ready[r], k + 1, len)
    BY <1>6 DEF QueueTyped
  <2>3. \A i \in 1 .. len - k : SubSeq(ready[r], k + 1, len)[i] = ready[r][k + i]
    BY <1>1, <2>1
  <2>4. \A i \in 1 .. len - k : k + i \in 1 .. len
    BY <1>1, <2>1
  <2>5. SubSeq(ready[r], k + 1, len) \in Seq(Nat) /\ Len(SubSeq(ready[r], k + 1, len)) = len - k
    BY <1>1, <2>1, <2>3, <2>4
  <2> QED
    BY <2>2, <2>3, <2>4, <2>5
<1>8. /\ \A l \in used : lane'[r][l] = ready[r][Rank(l, idle)] /\ Rank(l, idle) \in 1 .. len
      /\ \A l \in freed \ used : lane'[r][l] = -1
      /\ \A l \in LaneIds \ (used \cup freed) : lane'[r][l] = lane[r][l]
  BY <1>2, <1>4, <1>5, <1>6 DEF QueueTyped
<1>9. /\ \A n \in transformed'[r] : n \in transformed[r] \/ \E l \in freed : n = lane[r][l] /\ lane[r][l] # -1
      /\ transformed[r] \subseteq transformed'[r]
      /\ \A l \in freed : lane[r][l] \in transformed'[r]
  BY DEF QueueTyped
<1>10. \A q \in Ranks : q # r =>
          lane'[q] = lane[q] /\ ready'[q] = ready[q] /\ transformed'[q] = transformed[q]
  BY <1>6 DEF QueueTyped
<1>11. \A l \in LaneIds \ (used \cup freed) : lane[r][l] # -1 \/ lane'[r][l] = -1
  BY <1>8
<1>12. \A l \in LaneIds : lane'[r][l] # -1 => l \in used \/ (l \notin freed /\ l \notin used /\ lane'[r][l] = lane[r][l])
  BY <1>8
<1>17. /\ \A i \in 1 .. Len(ready'[r]) : ready'[r][i] = ready[r][k + i] /\ k + i \in 1 .. len
       /\ \A i, j \in 1 .. Len(ready'[r]) : i # j => k + i # k + j
  <2>1. k \in Nat /\ len - k \in Nat /\ Len(ready'[r]) = len - k
    BY <1>1, <1>5, <1>7
  <2>2. \A i, j \in 1 .. len - k : i # j => k + i # k + j
    BY <2>1
  <2> QED
    BY <2>1, <2>2, <1>7
<1>13. QueueTyped'
  <2>1. ready' \in [Ranks -> Seq(Nat)]
    BY <1>6, <1>7 DEF QueueTyped
  <2>2. \A l \in LaneIds : lane'[r][l] \in Nat \cup {-1}
    <3> SUFFICES ASSUME NEW l \in LaneIds PROVE lane'[r][l] \in Nat \cup {-1}
      OBVIOUS
    <3>1. CASE l \in used
      BY <3>1, <1>1, <1>8
    <3>2. CASE l \notin used
      BY <3>2, <1>12 DEF QueueTyped
    <3> QED
      BY <3>1, <3>2
  <2>3. lane' \in [Ranks -> [LaneIds -> Nat \cup {-1}]]
    <3>1. lane'[r] \in [LaneIds -> Nat \cup {-1}]
      <4>1. lane'[r] = [l \in LaneIds |-> lane'[r][l]]
        BY <1>6 DEF QueueTyped
      <4> QED
        BY <4>1, <2>2
    <3>2. lane' = [q \in Ranks |-> lane'[q]]
      BY <1>6 DEF QueueTyped
    <3>3. \A q \in Ranks : lane'[q] \in [LaneIds -> Nat \cup {-1}]
      BY <1>10, <3>1 DEF QueueTyped
    <3> QED
      BY <3>2, <3>3
  <2>4. running' \subseteq Ranks \X LaneIds
    BY <1>2, <1>6 DEF QueueTyped
  <2>5. transformed' \in [Ranks -> SUBSET Nat]
    <3>1. {lane[r][l] : l \in freed} \subseteq Nat
      BY DEF QueueTyped
    <3> QED
      BY <3>1 DEF QueueTyped
  <2> QED
    BY <2>1, <2>3, <2>4, <2>5 DEF QueueTyped
<1>14. Queued'
  <2> SUFFICES ASSUME NEW q \in Ranks
               PROVE  /\ \A i \in 1 .. Len(ready'[q]) : ready'[q][i] \in Arrived[q] /\ ready'[q][i] \notin transformed'[q]
                      /\ \A l \in LaneIds : lane'[q][l] # -1 => lane'[q][l] \in Arrived[q]
                      /\ transformed'[q] \subseteq Arrived[q]
                      /\ \A n \in Arrived[q] : \/ \E i \in 1 .. Len(ready'[q]) : ready'[q][i] = n
                                               \/ \E l \in LaneIds : lane'[q][l] = n
                                               \/ n \in transformed'[q]
    BY DEF Queued
  <2>1. CASE q = r
    <3>1. \A i \in 1 .. Len(ready'[r]) : ready'[r][i] \in Arrived[r] /\ ready'[r][i] \notin transformed'[r]
      <4> SUFFICES ASSUME NEW i \in 1 .. Len(ready'[r])
                   PROVE  ready'[r][i] \in Arrived[r] /\ ready'[r][i] \notin transformed'[r]
        OBVIOUS
      <4>1. PICK j \in 1 .. len : ready'[r][i] = ready[r][j]
        BY <1>17
      <4>2. ready[r][j] \in Arrived[r] /\ ready[r][j] \notin transformed[r]
        BY DEF QueueInv, Queued
      <4>3. \A l \in freed : lane[r][l] # -1 => ready[r][j] # lane[r][l]
        BY DEF QueueInv, TransformedOnce
      <4> QED
        BY <1>9, <4>1, <4>2, <4>3
    <3>2. \A l \in LaneIds : lane'[r][l] # -1 => lane'[r][l] \in Arrived[r]
      BY <1>8, <1>12 DEF QueueInv, Queued
    <3>3. transformed'[r] \subseteq Arrived[r]
      BY <1>9 DEF QueueInv, Queued
    <3>4. ASSUME NEW n \in Arrived[r]
          PROVE  \/ \E i \in 1 .. Len(ready'[r]) : ready'[r][i] = n
                 \/ \E l \in LaneIds : lane'[r][l] = n
                 \/ n \in transformed'[r]
      <4>1. CASE \E i \in 1 .. len : ready[r][i] = n
        <5>1. PICK i \in 1 .. len : ready[r][i] = n
          BY <4>1
        <5>2. CASE i <= k
          <6>1. i \in 1 .. k
            BY <1>1, <1>5, <5>2
          <6>2. PICK l \in used : Rank(l, idle) = i
            BY <6>1, <1>4
          <6> QED
            BY <6>2, <5>1, <1>2, <1>8
        <5>3. CASE ~(i <= k)
          <6>1. i - k \in 1 .. len - k /\ k + (i - k) = i
            BY <1>1, <1>5, <5>3
          <6>2. ready'[r][i - k] = n
            BY <6>1, <5>1, <1>7
          <6> QED
            BY <6>1, <6>2, <1>7
        <5> QED
          BY <5>2, <5>3
      <4>2. CASE \E l \in LaneIds : lane[r][l] = n
        <5>1. PICK l \in LaneIds : lane[r][l] = n
          BY <4>2
        <5>2. n # -1
          BY PlanesAre
        <5>3. l \in freed \/ l \notin idle
          BY <1>3, <5>1, <5>2
        <5>4. CASE l \in freed
          BY <5>1, <5>4, <1>9
        <5>5. CASE l \notin freed
          BY <5>1, <5>3, <5>5, <1>2, <1>8
        <5> QED
          BY <5>4, <5>5
      <4>3. CASE n \in transformed[r]
        BY <4>3, <1>9
      <4> QED
        BY <4>1, <4>2, <4>3 DEF QueueInv, Queued
    <3> QED
      BY <2>1, <3>1, <3>2, <3>3, <3>4
  <2>2. CASE q # r
    BY <2>2, <1>10 DEF QueueInv, Queued
  <2> QED
    BY <2>1, <2>2
<1>15. TransformedOnce'
  <2> SUFFICES ASSUME NEW q \in Ranks
               PROVE  /\ \A i, j \in 1 .. Len(ready'[q]) : i # j => ready'[q][i] # ready'[q][j]
                      /\ \A l \in LaneIds : lane'[q][l] # -1 =>
                           /\ lane'[q][l] \notin transformed'[q]
                           /\ \A j \in LaneIds : j # l => lane'[q][j] # lane'[q][l]
                           /\ \A i \in 1 .. Len(ready'[q]) : ready'[q][i] # lane'[q][l]
    BY DEF TransformedOnce
  <2>1. CASE q = r
    <3>1. \A i, j \in 1 .. Len(ready'[r]) : i # j => ready'[r][i] # ready'[r][j]
      BY <1>17 DEF QueueInv, TransformedOnce
    <3>2. ASSUME NEW l \in used
          PROVE  /\ lane'[r][l] \notin transformed'[r]
                 /\ \A j \in LaneIds : j # l => lane'[r][j] # lane'[r][l]
                 /\ \A i \in 1 .. Len(ready'[r]) : ready'[r][i] # lane'[r][l]
      <4>1. lane'[r][l] = ready[r][Rank(l, idle)] /\ Rank(l, idle) \in 1 .. len /\ Rank(l, idle) \in 1 .. k
        BY <1>4, <1>8
      <4>2. lane'[r][l] \notin transformed'[r]
        BY <4>1, <1>9 DEF QueueInv, Queued, TransformedOnce
      <4>3. ASSUME NEW j \in LaneIds, j # l PROVE lane'[r][j] # lane'[r][l]
        <5>1. CASE j \in used
          BY <5>1, <4>1, <4>3, <1>4, <1>8 DEF QueueInv, TransformedOnce
        <5>2. CASE lane'[r][j] = -1
          BY <5>2, <4>1, <1>1
        <5>3. CASE j \notin freed /\ lane'[r][j] = lane[r][j] /\ lane'[r][j] # -1
          BY <5>3, <4>1 DEF QueueInv, TransformedOnce
        <5> QED
          BY <5>1, <5>2, <5>3, <1>12
      <4>4. ASSUME NEW i \in 1 .. Len(ready'[r]) PROVE ready'[r][i] # lane'[r][l]
        <5>1. ready'[r][i] = ready[r][k + i] /\ k + i \in 1 .. len
          BY <1>7
        <5>2. k + i # Rank(l, idle)
          BY <4>1, <1>1, <1>5, <1>7
        <5> QED
          BY <5>1, <5>2, <4>1 DEF QueueInv, TransformedOnce
      <4> QED
        BY <4>2, <4>3, <4>4
    <3>3. ASSUME NEW l \in LaneIds, l \notin used, lane'[r][l] # -1
          PROVE  /\ lane'[r][l] \notin transformed'[r]
                 /\ \A j \in LaneIds : j # l => lane'[r][j] # lane'[r][l]
                 /\ \A i \in 1 .. Len(ready'[r]) : ready'[r][i] # lane'[r][l]
      <4>1. l \notin freed /\ lane'[r][l] = lane[r][l] /\ lane[r][l] # -1
        BY <3>3, <1>12
      <4>2. lane'[r][l] \notin transformed'[r]
        BY <4>1, <1>9 DEF QueueInv, TransformedOnce
      <4>3. ASSUME NEW j \in LaneIds, j # l PROVE lane'[r][j] # lane'[r][l]
        <5>1. CASE j \in used
          BY <5>1, <4>3, <3>2, <3>3
        <5>2. CASE lane'[r][j] = -1
          BY <5>2, <3>3
        <5>3. CASE lane'[r][j] = lane[r][j]
          BY <5>3, <4>1, <4>3 DEF QueueInv, TransformedOnce
        <5> QED
          BY <5>1, <5>2, <5>3, <1>12
      <4>4. \A i \in 1 .. Len(ready'[r]) : ready'[r][i] # lane'[r][l]
        BY <4>1, <1>17 DEF QueueInv, TransformedOnce
      <4> QED
        BY <4>2, <4>3, <4>4
    <3> QED
      BY <2>1, <3>1, <3>2, <3>3
  <2>2. CASE q # r
    BY <2>2, <1>10 DEF QueueInv, TransformedOnce
  <2> QED
    BY <2>1, <2>2
<1>16. LanesBusy'
  <2> SUFFICES ASSUME NEW x \in running' PROVE lane'[x[1]][x[2]] # -1
    BY DEF LanesBusy
  <2>1. CASE x \in {<<r, l>> : l \in used}
    <3>1. PICK l \in used : x = <<r, l>>
      BY <2>1
    <3>2. lane'[r][l] = ready[r][Rank(l, idle)] /\ Rank(l, idle) \in 1 .. len
      BY <1>8
    <3>3. ready[r][Rank(l, idle)] \in Nat
      BY <1>1, <3>2
    <3>4. lane'[r][l] # -1
      BY <3>2, <3>3
    <3> QED
      BY <3>1, <3>4
  <2>2. CASE x \in running
    <3>1. x[1] \in Ranks /\ x[2] \in LaneIds /\ lane[x[1]][x[2]] # -1 /\ x = <<x[1], x[2]>>
      BY <2>2 DEF QueueInv, LanesBusy, QueueTyped
    <3>2. CASE x[1] = r
      <4>1. x[2] \notin freed
        BY <3>1, <3>2, <2>2
      <4>2. x[2] \notin idle
        BY <4>1, <3>1, <3>2, <1>3
      <4> QED
        BY <3>1, <3>2, <4>1, <4>2, <1>2, <1>8
    <3>3. CASE x[1] # r
      BY <3>1, <3>3, <1>10
    <3> QED
      BY <3>2, <3>3
  <2> QED
    BY <2>1, <2>2, <1>6
<1> QED
  BY <1>13, <1>14, <1>15, <1>16 DEF QueueInv

\* A rank whose lanes are all idle launches every ready plane, or a lane full.
LEMMA NothingReady ==
    ASSUME QueueTyped, NEW r \in Ranks, \A l \in LaneIds : lane[r][l] = -1, Launches(r, {}) = {}
    PROVE  Len(ready[r]) = 0
<1> SUFFICES ASSUME Len(ready[r]) # 0 PROVE FALSE
  OBVIOUS
<1>1. Len(ready[r]) \in Nat /\ 1 <= Len(ready[r])
  BY DEF QueueTyped
<1>2. IdleLanes(r, {}) = LaneIds
  BY DEF IdleLanes
<1>3. 1 \in LaneIds
  BY Sizes DEF LaneIds
<1>4. IsFiniteSet(LaneIds) /\ Cardinality(LaneIds) \in Nat /\ Cardinality(LaneIds) # 0
  BY <1>3, RankFacts, FS_EmptySet
<1>5. PICK l \in LaneIds : Rank(l, LaneIds) = 1
  BY <1>4, RankFacts
<1> QED
  BY <1>1, <1>2, <1>5 DEF Launches

-----------------------------------------------------------------------------
(***************************************************************************)
(* A slot posts the requests of its next plane.                            *)
(***************************************************************************)

\* Slot s of rank r is done with its planes below n, and n is the next one.
Follows(r, s, n) ==
    /\ n \in 0 .. MaxPlanes - 1 /\ SlotOf[n] = s /\ plane[r][s] < n
    /\ rwait[r][s] = {}
    /\ plane[r][s] = -1 \/ swait[r][s] = {}
    /\ \A k \in 0 .. MaxPlanes - 1 : SlotOf[k] = s => (k \in Begun[r] <=> k < n)

Posting(r, s, n) ==
    /\ plane' = [plane EXCEPT ![r][s] = n]
    /\ rwait' = [rwait EXCEPT ![r][s] = Sources(r, n)]
    /\ swait' = [swait EXCEPT ![r][s] = Targets(r, n)]
    /\ ready' = [ready EXCEPT ![r] = QueueReady(@, r, n, Sources(r, n))]
    /\ PostSlot(r, n, s)
    /\ UNCHANGED <<lane, running, transformed, landed>>

LEMMA PostingSlots ==
    ASSUME SlotsTyped, NEW r \in Ranks, NEW s \in Slots, NEW n \in Nat, Posting(r, s, n)
    PROVE  /\ plane'[r][s] = n /\ rwait'[r][s] = Sources(r, n) /\ swait'[r][s] = Targets(r, n)
           /\ \A q \in Ranks, t \in Slots : q # r \/ t # s =>
                 plane'[q][t] = plane[q][t] /\ rwait'[q][t] = rwait[q][t] /\ swait'[q][t] = swait[q][t]
           /\ plane' \in [Ranks -> [Slots -> Nat \cup {-1}]]
           /\ rwait' \in [Ranks -> [Slots -> SUBSET Ranks]]
           /\ swait' \in [Ranks -> [Slots -> SUBSET Ranks]]
<1>1. Sources(r, n) \subseteq Ranks /\ Targets(r, n) \subseteq Ranks
  BY DEF Sources, Targets, Peers
<1>2. /\ plane'[r][s] = n
      /\ \A q \in Ranks, t \in Slots : q # r \/ t # s => plane'[q][t] = plane[q][t]
      /\ plane' \in [Ranks -> [Slots -> Nat \cup {-1}]]
  BY DEF SlotsTyped, Posting
<1>3. /\ rwait'[r][s] = Sources(r, n)
      /\ \A q \in Ranks, t \in Slots : q # r \/ t # s => rwait'[q][t] = rwait[q][t]
      /\ rwait' \in [Ranks -> [Slots -> SUBSET Ranks]]
  BY <1>1 DEF SlotsTyped, Posting
<1>4. /\ swait'[r][s] = Targets(r, n)
      /\ \A q \in Ranks, t \in Slots : q # r \/ t # s => swait'[q][t] = swait[q][t]
      /\ swait' \in [Ranks -> [Slots -> SUBSET Ranks]]
  BY <1>1 DEF SlotsTyped, Posting
<1> QED
  BY <1>2, <1>3, <1>4

LEMMA PostingPlanes ==
    ASSUME SlotsTyped, NEW r \in Ranks, NEW s \in Slots, NEW n \in Nat,
           Follows(r, s, n), Posting(r, s, n), pc' = pc
    PROVE  /\ n \notin Begun[r] /\ n \notin Arrived[r]
           /\ Begun' = [Begun EXCEPT ![r] = @ \cup {n}]
           /\ Arrived' = [Arrived EXCEPT ![r] = IF n < Planes[r] /\ Sources(r, n) = {} THEN @ \cup {n} ELSE @]
<1>1. n \notin Begun[r] /\ n \notin Arrived[r]
  BY PlanesAre DEF Follows
<1>2. ASSUME NEW q \in Ranks, NEW k \in 0 .. MaxPlanes - 1, q # r \/ SlotOf[k] # s
      PROVE  /\ plane'[q][SlotOf[k]] = plane[q][SlotOf[k]]
             /\ rwait'[q][SlotOf[k]] = rwait[q][SlotOf[k]]
             /\ k \in Begun'[q] <=> k \in Begun[q]
  <2>1. k \in Nat /\ SlotOf[k] \in Slots
    BY MaxFacts, SlotFacts
  <2>2. plane'[q][SlotOf[k]] = plane[q][SlotOf[k]] /\ rwait'[q][SlotOf[k]] = rwait[q][SlotOf[k]]
    BY <1>2, <2>1, PostingSlots
  <2> QED
    BY <2>2, BegunIs, BegunIsNext
<1>3. ASSUME NEW k \in 0 .. MaxPlanes - 1, SlotOf[k] = s
      PROVE  k \in Begun'[r] <=> k \in Begun[r] \/ k = n
  <2>1. plane'[r][s] = n /\ k \in Nat
    BY PostingSlots, MaxFacts
  <2>2. k \in Begun'[r] <=> k <= n
    BY <2>1, <1>3, BegunIsNext
  <2>3. k \in Begun[r] <=> k < n
    BY <1>3 DEF Follows
  <2> QED
    BY <2>1, <2>2, <2>3
<1>4. Begun'[r] = Begun[r] \cup {n} /\ \A q \in Ranks : q # r => Begun'[q] = Begun[q]
  <2>1. ASSUME NEW k PROVE k \in Begun'[r] <=> k \in Begun[r] \/ k = n
    <3>1. CASE k \in 0 .. MaxPlanes - 1
      BY <3>1, <1>2, <1>3 DEF Follows
    <3>2. CASE k \notin 0 .. MaxPlanes - 1
      BY <3>2, BegunIs, BegunIsNext DEF Follows
    <3> QED
      BY <3>1, <3>2
  <2>2. ASSUME NEW q \in Ranks, q # r, NEW k PROVE k \in Begun'[q] <=> k \in Begun[q]
    BY <2>2, <1>2, BegunIs, BegunIsNext
  <2> QED
    BY <2>1, <2>2
<1>5. Begun' = [Begun EXCEPT ![r] = @ \cup {n}]
  BY <1>4, PlanesAre
<1>6. ASSUME NEW q \in Ranks, q # r PROVE Arrived'[q] = Arrived[q]
  <2>1. ASSUME NEW k PROVE k \in Arrived'[q] <=> k \in Arrived[q]
    <3>1. CASE k \in 0 .. MaxPlanes - 1
      <4>1. /\ plane'[q][SlotOf[k]] = plane[q][SlotOf[k]]
            /\ rwait'[q][SlotOf[k]] = rwait[q][SlotOf[k]]
            /\ k \in Begun'[q] <=> k \in Begun[q]
        BY <3>1, <1>2, <1>6
      <4> QED
        BY <4>1, ArrivedIs, ArrivedIsNext
    <3>2. CASE k \notin 0 .. MaxPlanes - 1
      BY <3>2, BegunIs, BegunIsNext, ArrivedIs, ArrivedIsNext
    <3> QED
      BY <3>1, <3>2
  <2> QED
    BY <2>1
<1>7. ASSUME NEW k, k # n PROVE k \in Arrived'[r] <=> k \in Arrived[r]
  <2>1. CASE k \in 0 .. MaxPlanes - 1 /\ SlotOf[k] # s
    BY <2>1, <1>2, ArrivedIs, ArrivedIsNext
  <2>2. CASE k \in 0 .. MaxPlanes - 1 /\ SlotOf[k] = s
    <3>1. k \in Begun'[r] <=> k \in Begun[r]
      BY <1>4, <1>7
    <3>2. plane'[r][s] # k
      BY <1>7, PostingSlots
    <3>3. rwait[r][s] = {}
      BY DEF Follows
    <3> QED
      BY <2>2, <3>1, <3>2, <3>3, ArrivedIs, ArrivedIsNext
  <2>3. CASE k \notin 0 .. MaxPlanes - 1
    BY <2>3, BegunIs, BegunIsNext, ArrivedIs, ArrivedIsNext
  <2> QED
    BY <2>1, <2>2, <2>3
<1>8. n \in Arrived'[r] <=> n < Planes[r] /\ Sources(r, n) = {}
  <2>1. n \in Begun'[r] /\ SlotOf[n] = s
    BY <1>4 DEF Follows
  <2>2. plane'[r][s] = n /\ rwait'[r][s] = Sources(r, n)
    BY PostingSlots
  <2> QED
    BY <2>1, <2>2, ArrivedIsNext
<1>9. Arrived'[r] = IF n < Planes[r] /\ Sources(r, n) = {} THEN Arrived[r] \cup {n} ELSE Arrived[r]
  BY <1>1, <1>7, <1>8
<1>10. Arrived' = [Arrived EXCEPT ![r] = IF n < Planes[r] /\ Sources(r, n) = {} THEN @ \cup {n} ELSE @]
  BY <1>6, <1>9, PlanesAre
<1> QED
  BY <1>1, <1>5, <1>10

LEMMA PostingQueue ==
    ASSUME SlotsTyped, QueueTyped, QueueInv, NEW r \in Ranks, NEW s \in Slots, NEW n \in Nat,
           Follows(r, s, n), Posting(r, s, n), pc' = pc
    PROVE  QueueTyped' /\ QueueInv'
<1>1. UNCHANGED <<lane, running, transformed>>
  BY DEF Posting
<1>2. CASE n < Planes[r] /\ Sources(r, n) = {}
  <2>1. ready' = [ready EXCEPT ![r] = Append(@, n)]
    BY <1>2 DEF Posting, QueueReady
  <2>2. Arrived' = [Arrived EXCEPT ![r] = @ \cup {n}] /\ n \notin Arrived[r]
    BY <1>2, PostingPlanes
  <2> QED
    BY <1>1, <2>1, <2>2, QueueAppend
<1>3. CASE ~(n < Planes[r] /\ Sources(r, n) = {})
  <2>1. ready' = ready
    BY <1>3 DEF Posting, QueueReady, QueueTyped
  <2>2. Arrived' = Arrived
    BY <1>3, PostingPlanes, PlanesAre
  <2> QED
    BY <1>1, <2>1, <2>2, QueueSame DEF planVars
<1> QED
  BY <1>2, <1>3

LEMMA PostingMpi ==
    ASSUME SlotsTyped, SlotsOwn, MpiInv, NEW r \in Ranks, NEW s \in Slots, NEW n \in Nat,
           Follows(r, s, n), Posting(r, s, n), pc' = pc
    PROVE  SlotsTyped' /\ SlotsOwn' /\ MpiInv'
<1>1. /\ n \notin Begun[r] /\ \A q \in Ranks : Begun[q] \subseteq Begun'[q]
      /\ n \in Begun'[r] /\ Begun'[r] = Begun[r] \cup {n} /\ \A q \in Ranks : q # r => Begun'[q] = Begun[q]
      /\ SlotOf[n] = s /\ n < MaxPlanes
  <2>1. SlotOf[n] = s /\ n < MaxPlanes
    BY MaxFacts DEF Follows
  <2> QED
    BY <2>1, PostingPlanes, PlanesAre
<1>2. /\ recvs' = recvs \cup NewRecvs(r, n, s)
      /\ sends' = sends \cup NewSends(r, n, s)
      /\ unacked' \subseteq unacked \cup NewSends(r, n, s)
      /\ landed' = landed
  BY DEF Posting, PostSlot
<1>3. \A q \in NewRecvs(r, n, s) : \E p \in Ranks : q = Part(p, r, n) /\ p # r /\ n < Planes[r] /\ p \in Sources(r, n)
  BY <1>1 DEF NewRecvs, Sources, Peers, Part
<1>4. \A m \in NewSends(r, n, s) : \E p \in Ranks : m = Part(r, p, n) /\ p # r /\ n < Planes[p] /\ p \in Targets(r, n)
  BY <1>1 DEF NewSends, Targets, Peers, Part
<1>5. \A p \in Ranks : p # r /\ n < Planes[r] => Part(p, r, n) \in recvs'
  BY <1>1, <1>2 DEF NewRecvs, Sources, Peers, Part
<1>6. \A p \in Ranks : p # r /\ n < Planes[p] => Part(r, p, n) \in sends'
  BY <1>1, <1>2 DEF NewSends, Targets, Peers, Part
<1>7. \A p \in Ranks : Arrival(p, r, n) \notin landed /\ Arrival(r, p, n) \notin landed
  BY <1>1, ArrivalFacts DEF MpiInv, LandedAre
<1>8. SlotsTyped'
  <2>1. NewRecvs(r, n, s) \subseteq Requests /\ NewSends(r, n, s) \subseteq Requests
    BY <1>3, <1>4, PartFacts
  <2> QED
    BY <1>2, <2>1, PostingSlots DEF SlotsTyped
<1>9. SlotsOwn'
  <2>1. Sources(r, n) # {} => n < Planes[r]
    BY DEF Sources
  <2> SUFFICES ASSUME NEW q \in Ranks, NEW t \in Slots
               PROVE  /\ plane'[q][t] # -1 => plane'[q][t] < MaxPlanes /\ SlotOf[plane'[q][t]] = t
                      /\ rwait'[q][t] # {} => plane'[q][t] # -1 /\ plane'[q][t] < Planes[q]
    BY DEF SlotsOwn
  <2>2. CASE q = r /\ t = s
    BY <2>1, <2>2, <1>1, PostingSlots
  <2>3. CASE q # r \/ t # s
    <3>1. plane'[q][t] = plane[q][t] /\ rwait'[q][t] = rwait[q][t]
      BY <2>3, PostingSlots
    <3> QED
      BY <3>1 DEF SlotsOwn
  <2> QED
    BY <2>2, <2>3
<1>10. RecvsAre'
  <2> SUFFICES ASSUME NEW q \in recvs'
               PROVE  /\ q = Part(q.src, q.dst, q.plane) /\ q.src # q.dst
                      /\ q.plane < Planes[q.dst]
                      /\ q.plane = plane'[q.dst][q.slot] /\ q.src \in rwait'[q.dst][q.slot]
                      /\ Arrival(q.src, q.dst, q.plane) \notin landed
    BY <1>2 DEF RecvsAre
  <2>1. CASE q \in recvs
    <3>1. q.dst \in Ranks /\ q.slot \in Slots /\ q.src \in rwait[q.dst][q.slot]
      BY <2>1 DEF SlotsTyped, Requests, MpiInv, RecvsAre
    <3>2. q.dst # r \/ q.slot # s
      BY <3>1 DEF Follows
    <3>3. plane'[q.dst][q.slot] = plane[q.dst][q.slot] /\ rwait'[q.dst][q.slot] = rwait[q.dst][q.slot]
      BY <3>1, <3>2, PostingSlots
    <3> QED
      BY <2>1, <3>3 DEF MpiInv, RecvsAre
  <2>2. CASE q \in NewRecvs(r, n, s)
    <3>1. PICK p \in Ranks : q = Part(p, r, n) /\ p # r /\ n < Planes[r] /\ p \in Sources(r, n)
      BY <2>2, <1>3
    <3>2. q.src = p /\ q.dst = r /\ q.plane = n /\ q.slot = s
      BY <3>1, <1>1, PartFacts
    <3> QED
      BY <3>1, <3>2, <1>7, PostingSlots
  <2> QED
    BY <2>1, <2>2, <1>2
<1>11. SendsAre'
  <2> SUFFICES ASSUME NEW m \in sends'
               PROVE  /\ m = Part(m.src, m.dst, m.plane) /\ m.src # m.dst
                      /\ m.plane \in Begun'[m.src] /\ m.plane < Planes[m.dst]
                      /\ Arrival(m.src, m.dst, m.plane) \notin landed
    BY <1>2 DEF SendsAre
  <2>1. CASE m \in sends
    <3>1. m.src \in Ranks
      BY <2>1 DEF SlotsTyped, Requests
    <3> QED
      BY <2>1, <3>1, <1>1 DEF MpiInv, SendsAre
  <2>2. CASE m \in NewSends(r, n, s)
    <3>1. PICK p \in Ranks : m = Part(r, p, n) /\ p # r /\ n < Planes[p] /\ p \in Targets(r, n)
      BY <2>2, <1>4
    <3>2. m.src = r /\ m.dst = p /\ m.plane = n
      BY <3>1, PartFacts
    <3> QED
      BY <3>1, <3>2, <1>1, <1>7
  <2> QED
    BY <2>1, <2>2, <1>2
<1>12. UnackedAre'
  <2> SUFFICES ASSUME NEW m \in unacked'
               PROVE  m.plane = plane'[m.src][m.slot] /\ m.dst \in swait'[m.src][m.slot]
    BY DEF UnackedAre
  <2>1. CASE m \in unacked
    <3>1. m.src \in Ranks /\ m.slot \in Slots /\ m.plane \in Nat
      BY <2>1 DEF SlotsTyped, Requests
    <3>2. m.plane = plane[m.src][m.slot] /\ m.dst \in swait[m.src][m.slot]
      BY <2>1 DEF MpiInv, UnackedAre
    <3>3. m.src # r \/ m.slot # s
      BY <3>1, <3>2 DEF Follows
    <3> QED
      BY <3>1, <3>2, <3>3, PostingSlots
  <2>2. CASE m \in NewSends(r, n, s)
    <3>1. PICK p \in Ranks : m = Part(r, p, n) /\ p # r /\ n < Planes[p] /\ p \in Targets(r, n)
      BY <2>2, <1>4
    <3>2. m.src = r /\ m.dst = p /\ m.plane = n /\ m.slot = s
      BY <3>1, <1>1, PartFacts
    <3> QED
      BY <3>1, <3>2, PostingSlots
  <2> QED
    BY <2>1, <2>2, <1>2
<1>13. LandedAre'
  <2> SUFFICES ASSUME NEW a \in landed
               PROVE  /\ a = Arrival(a.src, a.dst, a.want) /\ a.src # a.dst
                      /\ a.want \in Begun'[a.src] /\ a.want \in Begun'[a.dst]
    BY <1>2 DEF LandedAre
  <2>1. a.src \in Ranks /\ a.dst \in Ranks
    BY DEF SlotsTyped, Arrivals
  <2> QED
    BY <2>1, <1>1 DEF MpiInv, LandedAre
<1>14. RecvsCover'
  <2> SUFFICES ASSUME NEW q \in Ranks, NEW p \in Ranks, NEW k \in Begun'[q], p # q, k < Planes[q]
               PROVE  Part(p, q, k) \in recvs' \/ Arrival(p, q, k) \in landed
    BY <1>2 DEF RecvsCover
  <2>1. CASE k \in Begun[q]
    BY <2>1, <1>2 DEF MpiInv, RecvsCover
  <2>2. CASE k \notin Begun[q]
    BY <2>2, <1>1, <1>5
  <2> QED
    BY <2>1, <2>2
<1>15. SendsCover'
  <2> SUFFICES ASSUME NEW q \in Ranks, NEW p \in Ranks, NEW k \in Begun'[q], p # q, k < Planes[p]
               PROVE  Part(q, p, k) \in sends' \/ Arrival(q, p, k) \in landed
    BY <1>2 DEF SendsCover
  <2>1. CASE k \in Begun[q]
    BY <2>1, <1>2 DEF MpiInv, SendsCover
  <2>2. CASE k \notin Begun[q]
    BY <2>2, <1>1, <1>6
  <2> QED
    BY <2>1, <2>2
<1> QED
  BY <1>8, <1>9, <1>10, <1>11, <1>12, <1>13, <1>14, <1>15 DEF MpiInv

-----------------------------------------------------------------------------
(***************************************************************************)
(* The other changes of the slots.                                         *)
(***************************************************************************)

LEMMA SlotsSame ==
    ASSUME SlotsTyped, SlotsOwn, MpiInv, Begun' = Begun,
           UNCHANGED <<plane, rwait, swait, recvs, sends, unacked, landed>>
    PROVE  SlotsTyped' /\ SlotsOwn' /\ MpiInv' /\ Closed' = Closed /\ Arrived' = Arrived
<1>1. Closed' = Closed /\ Arrived' = Arrived
  BY DEF Closed, Arrived
<1>2. SlotsTyped' /\ SlotsOwn'
  BY DEF SlotsTyped, SlotsOwn
<1>3. MpiInv'
  BY DEF MpiInv, RecvsAre, SendsAre, UnackedAre, LandedAre, RecvsCover, SendsCover
<1> QED
  BY <1>1, <1>2, <1>3

\* A receive is complete: the plane has arrived if it was the last one.
LEMMA TakeRecvInv ==
    ASSUME SlotsTyped, SlotsOwn, MpiInv, QueueTyped, QueueInv,
           NEW r \in Ranks, NEW s \in Slots, NEW p \in Peers(r), TakeRecv(r, s, p),
           \A q \in Ranks : pc'[q] = "activate" <=> pc[q] = "activate"
    PROVE  /\ SlotsTyped' /\ SlotsOwn' /\ MpiInv' /\ QueueTyped' /\ QueueInv'
           /\ Closed' = Closed /\ UNCHANGED <<network, transformed>>
<1> DEFINE n == plane[r][s]
<1>1. Begun' = Begun /\ Closed' = Closed
  BY PlanesSame DEF TakeRecv
<1>2. UNCHANGED <<plane, swait, network, lane, running, transformed, recvs, sends, unacked, landed>>
  BY DEF TakeRecv, mpiVars
<1>3. /\ p \in rwait[r][s] /\ p \in Ranks
      /\ rwait'[r][s] = rwait[r][s] \ {p}
      /\ \A q \in Ranks, t \in Slots : q # r \/ t # s => rwait'[q][t] = rwait[q][t]
      /\ rwait' \in [Ranks -> [Slots -> SUBSET Ranks]]
  BY DEF TakeRecv, RecvReady, SlotsTyped
<1>4. n \in 0 .. MaxPlanes - 1 /\ n \in Nat /\ n < Planes[r] /\ SlotOf[n] = s /\ n \in Begun[r] /\ n \notin Arrived[r]
  <2>1. n \in Nat /\ n < MaxPlanes /\ n < Planes[r] /\ SlotOf[n] = s
    BY <1>3 DEF SlotsTyped, SlotsOwn
  <2>2. n \in 0 .. MaxPlanes - 1
    BY <2>1, MaxFacts
  <2>3. n \in Begun[r]
    BY <2>1, <2>2, BegunIs
  <2>4. n \notin Arrived[r]
    <3>1. plane[r][SlotOf[n]] = n /\ rwait[r][SlotOf[n]] # {}
      BY <1>3, <2>1
    <3> HIDE DEF n
    <3> QED
      BY <3>1, ArrivedIs
  <2> QED
    BY <2>1, <2>2, <2>3, <2>4
<1> HIDE DEF n
<1>5. SlotsTyped'
  BY <1>2, <1>3 DEF SlotsTyped
<1>6. SlotsOwn'
  <2> SUFFICES ASSUME NEW q \in Ranks, NEW t \in Slots
               PROVE  /\ plane[q][t] # -1 => plane[q][t] < MaxPlanes /\ SlotOf[plane[q][t]] = t
                      /\ rwait'[q][t] # {} => plane[q][t] # -1 /\ plane[q][t] < Planes[q]
    BY <1>2 DEF SlotsOwn
  <2>1. rwait'[q][t] \subseteq rwait[q][t]
    BY <1>3
  <2> QED
    BY <2>1 DEF SlotsOwn
<1>7. RecvsAre'
  <2> SUFFICES ASSUME NEW q \in recvs PROVE q.src \in rwait'[q.dst][q.slot]
    BY <1>2 DEF RecvsAre, MpiInv
  <2>1. q.src \in rwait[q.dst][q.slot] /\ q.dst \in Ranks /\ q.slot \in Slots
    BY DEF SlotsTyped, Requests, RecvsAre, MpiInv
  <2>2. ~(q.dst = r /\ q.src = p /\ q.slot = s)
    BY DEF TakeRecv, RecvReady
  <2> QED
    BY <2>1, <2>2, <1>3
<1>8. SendsAre' /\ UnackedAre' /\ LandedAre' /\ RecvsCover' /\ SendsCover'
  BY <1>1, <1>2 DEF MpiInv, SendsAre, UnackedAre, LandedAre, RecvsCover, SendsCover
<1>9. ASSUME NEW q \in Ranks, NEW k, q # r \/ k # n
      PROVE  k \in Arrived'[q] <=> k \in Arrived[q]
  <2>1. CASE k \in Begun[q]
    <3>1. k \in Nat /\ SlotOf[k] \in Slots
      BY <2>1, PlanesAre, SlotFacts
    <3>2. CASE q # r \/ SlotOf[k] # s
      <4>1. rwait'[q][SlotOf[k]] = rwait[q][SlotOf[k]]
        BY <3>1, <3>2, <1>3
      <4> QED
        BY <4>1, <1>1, <1>2, ArrivedIs, ArrivedIsNext
    <3>3. CASE q = r /\ SlotOf[k] = s
      <4>1. plane[q][SlotOf[k]] # k
        BY <3>3, <1>9 DEF n
      <4> QED
        BY <4>1, <1>1, <1>2, ArrivedIs, ArrivedIsNext
    <3> QED
      BY <3>2, <3>3
  <2>2. CASE k \notin Begun[q]
    BY <2>2, <1>1, ArrivedIs, ArrivedIsNext
  <2> QED
    BY <2>1, <2>2
<1>10. n \in Arrived'[r] <=> rwait[r][s] \ {p} = {}
  <2>1. n \in Begun'[r] /\ plane'[r][s] = n
    BY <1>1, <1>2, <1>4 DEF n
  <2> QED
    BY <2>1, <1>3, <1>4, ArrivedIsNext
<1>11. ready' = [ready EXCEPT ![r] = QueueReady(@, r, n, rwait[r][s] \ {p})]
  BY DEF TakeRecv, n
<1>12. QueueTyped' /\ QueueInv'
  <2>1. CASE rwait[r][s] \ {p} = {}
    <3>1. ready' = [ready EXCEPT ![r] = Append(@, n)]
      BY <2>1, <1>4, <1>11 DEF QueueReady
    <3>2. Arrived'[r] = Arrived[r] \cup {n} /\ \A q \in Ranks : q # r => Arrived'[q] = Arrived[q]
      BY <2>1, <1>9, <1>10
    <3>3. Arrived' = [Arrived EXCEPT ![r] = @ \cup {n}]
      BY <3>2, PlanesAre
    <3> QED
      BY <3>1, <3>3, <1>2, <1>4, QueueAppend
  <2>2. CASE rwait[r][s] \ {p} # {}
    <3>1. ready' = ready
      BY <2>2, <1>11 DEF QueueReady, QueueTyped
    <3>2. ASSUME NEW q \in Ranks PROVE Arrived'[q] = Arrived[q]
      <4>1. \A k : k \in Arrived'[q] <=> k \in Arrived[q]
        BY <2>2, <1>4, <1>9, <1>10
      <4> QED
        BY <4>1
    <3>3. Arrived' = Arrived
      BY <3>2, PlanesAre
    <3> QED
      BY <3>1, <3>3, <1>2, QueueSame DEF planVars
  <2> QED
    BY <2>1, <2>2
<1> QED
  BY <1>1, <1>2, <1>5, <1>6, <1>7, <1>8, <1>12 DEF MpiInv

LEMMA TakeSendInv ==
    ASSUME SlotsTyped, SlotsOwn, MpiInv, QueueTyped, QueueInv,
           NEW r \in Ranks, NEW s \in Slots, NEW p \in Peers(r), TakeSend(r, s, p),
           \A q \in Ranks : pc'[q] = "activate" <=> pc[q] = "activate"
    PROVE  /\ SlotsTyped' /\ SlotsOwn' /\ MpiInv' /\ QueueTyped' /\ QueueInv'
           /\ Closed' = Closed /\ UNCHANGED <<network, rwait, transformed>>
<1>1. UNCHANGED <<plane, rwait, network, ready, lane, running, transformed, recvs, sends, unacked, landed>>
  BY DEF TakeSend, planVars, mpiVars
<1>2. Begun' = Begun /\ Closed' = Closed /\ Arrived' = Arrived
  BY <1>1, PlanesSame
<1>3. /\ swait'[r][s] = swait[r][s] \ {p}
      /\ \A q \in Ranks, t \in Slots : q # r \/ t # s => swait'[q][t] = swait[q][t]
      /\ swait' \in [Ranks -> [Slots -> SUBSET Ranks]]
  BY DEF TakeSend, SlotsTyped
<1>4. SlotsTyped' /\ SlotsOwn'
  BY <1>1, <1>3 DEF SlotsTyped, SlotsOwn
<1>5. UnackedAre'
  <2> SUFFICES ASSUME NEW m \in unacked PROVE m.dst \in swait'[m.src][m.slot]
    BY <1>1 DEF UnackedAre, MpiInv
  <2>1. m.dst \in swait[m.src][m.slot] /\ m.src \in Ranks /\ m.slot \in Slots
    BY DEF SlotsTyped, Requests, UnackedAre, MpiInv
  <2>2. ~(m.src = r /\ m.dst = p /\ m.slot = s)
    BY DEF TakeSend, SendReady
  <2> QED
    BY <2>1, <2>2, <1>3
<1>6. RecvsAre' /\ SendsAre' /\ LandedAre' /\ RecvsCover' /\ SendsCover'
  BY <1>1, <1>2 DEF MpiInv, RecvsAre, SendsAre, LandedAre, RecvsCover, SendsCover
<1>7. QueueTyped' /\ QueueInv'
  BY <1>1, <1>2, QueueSame DEF planVars
<1> QED
  BY <1>1, <1>2, <1>4, <1>5, <1>6, <1>7 DEF MpiInv

-----------------------------------------------------------------------------
(***************************************************************************)
(* MPI matches a send with the receive of the same plane.                  *)
(***************************************************************************)

\* The order of two planes of one slot: when the later one has been begun, so has
\* the earlier one.
LEMMA BegunBefore ==
    ASSUME SlotsTyped, NEW r \in Ranks, NEW n \in Begun[r], NEW k \in Nat, k < n, SlotOf[k] = SlotOf[n]
    PROVE  k \in Begun[r]
<1>1. n \in Nat /\ k \in 0 .. MaxPlanes - 1 /\ n \in 0 .. MaxPlanes - 1
  BY BegunIs, PlanesAre, MaxFacts
<1>2. plane[r][SlotOf[n]] \in Nat \cup {-1}
  BY <1>1, SlotFacts DEF SlotsTyped
<1> QED
  BY <1>1, <1>2, BegunIs

LEMMA MatchedPlane ==
    ASSUME SlotsTyped, MpiInv, NEW m \in sends, NEW q \in recvs, Matching(m, q, sends, recvs)
    PROVE  /\ m.src = q.src /\ m.dst = q.dst /\ m.plane = q.plane
           /\ q.plane \in Begun[q.src] /\ q.plane \in Begun[q.dst]
           /\ q.src \in Ranks /\ q.dst \in Ranks /\ q.plane \in Nat
<1> DEFINE s == q.src
           d == q.dst
           a == m.plane
           b == q.plane
<1>1. /\ m.src = s /\ m.dst = d /\ m.tag = q.tag /\ s \in Ranks /\ d \in Ranks /\ s # d
      /\ a \in Nat /\ b \in Nat
  BY DEF Matching, SameClass, SlotsTyped, Requests, MpiInv, RecvsAre
<1>2. m = Part(s, d, a) /\ a \in Begun[s] /\ a < Planes[d]
  BY <1>1 DEF MpiInv, SendsAre
<1>3. q = Part(s, d, b) /\ b < Planes[d] /\ b = plane[d][q.slot]
  BY <1>1 DEF MpiInv, RecvsAre
<1>11. /\ \A k \in Nat : SameClass(Part(s, d, k), q) <=> Part(s, d, k).tag = q.tag
       /\ \A k \in Nat : SameClass(Part(s, d, k), m) <=> Part(s, d, k).tag = m.tag
  BY <1>1, PartFacts DEF SameClass
<1> HIDE DEF s, d, a, b
<1>12. /\ m.tag = Tag(d, a) /\ q.tag = Tag(d, b) /\ m.order = a /\ q.order = b /\ q.slot = SlotOf[b]
       /\ \A k \in Nat : Part(s, d, k).tag = Tag(d, k) /\ Part(s, d, k).order = k
  BY <1>1, <1>2, <1>3, PartFacts
<1>4. b \in Begun[d]
  <2>1. b \in 0 .. MaxPlanes - 1
    BY <1>1, <1>3, MaxFacts, PlanesType
  <2> QED
    <3>1. b <= plane[d][q.slot]
      BY <1>1, <1>3
    <3>2. b <= plane[d][SlotOf[b]] /\ d \in Ranks
      BY <1>1, <1>12, <3>1
    <3> QED
      BY <2>1, <3>2, BegunIs
<1>5. SlotOf[a] = SlotOf[b]
  <2>1. Tag(d, a) = Tag(d, b) /\ d \in Ranks /\ a \in Nat /\ b \in Nat
    BY <1>1, <1>12
  <2> QED
    BY <2>1, TagFacts
<1>7. ASSUME NEW k \in Nat, SlotOf[k] = SlotOf[a] PROVE Tag(d, k) = m.tag
  BY <1>1, <1>7, <1>12 DEF Tag, SlotOf
<1>8. ~(a < b)
  <2> SUFFICES ASSUME a < b PROVE FALSE
    OBVIOUS
  <2>1. a \in Begun[d]
    BY <1>1, <1>4, <1>5, BegunBefore
  <2>2. Part(s, d, a) \in recvs
    <3>1. Arrival(s, d, a) \notin landed
      BY <1>1 DEF MpiInv, SendsAre, s, d, a
    <3> QED
      BY <2>1, <3>1, <1>1, <1>2 DEF MpiInv, RecvsCover
  <2>3. q.order <= Part(s, d, a).order
    BY <2>2, <1>1, <1>7, <1>11, <1>12 DEF Matching, Oldest
  <2> QED
    BY <2>3, <1>1, <1>12
<1>9. ~(b < a)
  <2> SUFFICES ASSUME b < a PROVE FALSE
    OBVIOUS
  <2>1. b \in Begun[s]
    BY <1>1, <1>2, <1>5, BegunBefore
  <2>2. Part(s, d, b) \in sends
    <3>1. Arrival(s, d, b) \notin landed
      BY DEF MpiInv, RecvsAre, s, d, b
    <3> QED
      BY <2>1, <3>1, <1>1, <1>3 DEF MpiInv, SendsCover
  <2>3. m.order <= Part(s, d, b).order
    BY <2>2, <1>1, <1>5, <1>7, <1>11, <1>12 DEF Matching, Oldest
  <2> QED
    BY <2>3, <1>1, <1>12
<1>10. a = b
  BY <1>1, <1>8, <1>9
<1> QED
  BY <1>1, <1>2, <1>4, <1>10 DEF s, d, a, b

LEMMA MatchMpi ==
    ASSUME SlotsTyped, SlotsOwn, MpiInv, Match
    PROVE  /\ SlotsTyped' /\ SlotsOwn' /\ MpiInv'
           /\ Begun' = Begun /\ Closed' = Closed /\ Arrived' = Arrived
<1>1. PICK m \in sends, q \in recvs :
        /\ Matching(m, q, sends, recvs)
        /\ sends' = sends \ {m}
        /\ recvs' = recvs \ {q}
        /\ landed' = landed \cup {[src |-> q.src, dst |-> q.dst, want |-> q.plane, got |-> m.plane]}
  BY DEF Match
<1>2. UNCHANGED <<pc, plane, rwait, swait, unacked>>
  BY DEF Match, rankVars, slotVars
<1>3. Begun' = Begun /\ Closed' = Closed /\ Arrived' = Arrived
  BY <1>2, PlanesSame
<1> DEFINE s == q.src
           d == q.dst
           n == q.plane
<1>4. /\ s \in Ranks /\ d \in Ranks /\ s # d /\ n \in Nat /\ n \in Begun[s] /\ n \in Begun[d]
      /\ m = Part(s, d, n) /\ q = Part(s, d, n) /\ m.plane = n
  <2>1. m.src = s /\ m.dst = d /\ m.plane = n
    BY <1>1, MatchedPlane
  <2>2. m = Part(m.src, m.dst, m.plane) /\ q = Part(s, d, n) /\ s # d
    BY DEF MpiInv, SendsAre, RecvsAre
  <2> QED
    BY <1>1, <2>1, <2>2, MatchedPlane
<1>5. landed' = landed \cup {Arrival(s, d, n)}
  BY <1>1, <1>4 DEF Arrival
<1> HIDE DEF s, d, n
<1>6. Arrival(s, d, n) \in Arrivals
  BY <1>4, ArrivalFacts
<1>7. \A a, b \in Ranks : \A k \in Nat :
         /\ Part(a, b, k) = Part(s, d, n) <=> a = s /\ b = d /\ k = n
         /\ Arrival(a, b, k) = Arrival(s, d, n) <=> a = s /\ b = d /\ k = n
  BY <1>4, PartFacts, ArrivalFacts
<1>8. SlotsTyped'
  BY <1>1, <1>2, <1>5, <1>6 DEF SlotsTyped
<1>9. SlotsOwn'
  BY <1>2 DEF SlotsOwn
<1>10. RecvsAre'
  <2> SUFFICES ASSUME NEW x \in recvs, x # q
               PROVE  /\ x = Part(x.src, x.dst, x.plane) /\ x.src # x.dst
                      /\ x.plane < Planes[x.dst]
                      /\ x.plane = plane[x.dst][x.slot] /\ x.src \in rwait[x.dst][x.slot]
                      /\ Arrival(x.src, x.dst, x.plane) \notin landed'
    BY <1>1, <1>2 DEF RecvsAre
  <2>1. /\ x = Part(x.src, x.dst, x.plane) /\ x.src # x.dst
        /\ x.plane < Planes[x.dst]
        /\ x.plane = plane[x.dst][x.slot] /\ x.src \in rwait[x.dst][x.slot]
        /\ Arrival(x.src, x.dst, x.plane) \notin landed
    BY DEF MpiInv, RecvsAre
  <2>2. x.src \in Ranks /\ x.dst \in Ranks /\ x.plane \in Nat
    BY DEF SlotsTyped, Requests
  <2>3. Arrival(x.src, x.dst, x.plane) # Arrival(s, d, n)
    BY <2>1, <2>2, <1>4, <1>7
  <2> QED
    BY <2>1, <2>3, <1>5
<1>11. SendsAre'
  <2> SUFFICES ASSUME NEW x \in sends, x # m
               PROVE  /\ x = Part(x.src, x.dst, x.plane) /\ x.src # x.dst
                      /\ x.plane \in Begun[x.src] /\ x.plane < Planes[x.dst]
                      /\ Arrival(x.src, x.dst, x.plane) \notin landed'
    BY <1>1, <1>3 DEF SendsAre
  <2>1. /\ x = Part(x.src, x.dst, x.plane) /\ x.src # x.dst
        /\ x.plane \in Begun[x.src] /\ x.plane < Planes[x.dst]
        /\ Arrival(x.src, x.dst, x.plane) \notin landed
    BY DEF MpiInv, SendsAre
  <2>2. x.src \in Ranks /\ x.dst \in Ranks /\ x.plane \in Nat
    BY DEF SlotsTyped, Requests
  <2>3. Arrival(x.src, x.dst, x.plane) # Arrival(s, d, n)
    BY <2>1, <2>2, <1>4, <1>7
  <2> QED
    BY <2>1, <2>3, <1>5
<1>12. UnackedAre'
  BY <1>2 DEF MpiInv, UnackedAre
<1>13. LandedAre'
  <2> SUFFICES ASSUME NEW a \in landed'
               PROVE  /\ a = Arrival(a.src, a.dst, a.want) /\ a.src # a.dst
                      /\ a.want \in Begun[a.src] /\ a.want \in Begun[a.dst]
    BY <1>3 DEF LandedAre
  <2>1. CASE a \in landed
    BY <2>1 DEF MpiInv, LandedAre
  <2>2. CASE a = Arrival(s, d, n)
    BY <2>2, <1>4, ArrivalFacts
  <2> QED
    BY <2>1, <2>2, <1>5
<1>14. RecvsCover'
  <2> SUFFICES ASSUME NEW r \in Ranks, NEW p \in Ranks, NEW k \in Begun[r], p # r, k < Planes[r]
               PROVE  Part(p, r, k) \in recvs' \/ Arrival(p, r, k) \in landed'
    BY <1>3 DEF RecvsCover
  <2>1. Part(p, r, k) \in recvs \/ Arrival(p, r, k) \in landed
    BY DEF MpiInv, RecvsCover
  <2>2. k \in Nat
    BY PlanesAre
  <2>3. CASE p = s /\ r = d /\ k = n
    BY <2>3, <1>5
  <2>4. CASE ~(p = s /\ r = d /\ k = n)
    BY <2>1, <2>2, <2>4, <1>1, <1>4, <1>5, <1>7
  <2> QED
    BY <2>3, <2>4
<1>15. SendsCover'
  <2> SUFFICES ASSUME NEW r \in Ranks, NEW p \in Ranks, NEW k \in Begun[r], p # r, k < Planes[p]
               PROVE  Part(r, p, k) \in sends' \/ Arrival(r, p, k) \in landed'
    BY <1>3 DEF SendsCover
  <2>1. Part(r, p, k) \in sends \/ Arrival(r, p, k) \in landed
    BY DEF MpiInv, SendsCover
  <2>2. k \in Nat
    BY PlanesAre
  <2>3. CASE r = s /\ p = d /\ k = n
    BY <2>3, <1>5
  <2>4. CASE ~(r = s /\ p = d /\ k = n)
    BY <2>1, <2>2, <2>4, <1>1, <1>4, <1>5, <1>7
  <2> QED
    BY <2>3, <2>4
<1> QED
  BY <1>3, <1>8, <1>9, <1>10, <1>11, <1>12, <1>13, <1>14, <1>15 DEF MpiInv

-----------------------------------------------------------------------------
(***************************************************************************)
(* The invariant, action by action.                                        *)
(***************************************************************************)

LEMMA ClosedFacts ==
    \A r \in Ranks : /\ IsFiniteSet(Closed[r]) /\ Cardinality(Closed[r]) \in Nat
                     /\ Closed[r] \subseteq 0 .. MaxPlanes - 1
<1> SUFFICES ASSUME NEW r \in Ranks
             PROVE  /\ IsFiniteSet(Closed[r]) /\ Cardinality(Closed[r]) \in Nat
                    /\ Closed[r] \subseteq 0 .. MaxPlanes - 1
  OBVIOUS
<1>1. Closed[r] \in SUBSET (0 .. MaxPlanes - 1)
  BY BegunIs DEF Closed
<1>2. IsFiniteSet(0 .. MaxPlanes - 1)
  BY MaxFacts, FS_Interval
<1>3. IsFiniteSet(Closed[r])
  BY <1>1, <1>2, FS_Subset
<1> QED
  BY <1>1, <1>3, FS_CardinalityType

LEMMA TransformedFacts ==
    ASSUME QueueInv
    PROVE  \A r \in Ranks : /\ IsFiniteSet(transformed[r]) /\ Cardinality(transformed[r]) \in Nat
                            /\ transformed[r] \subseteq 0 .. Planes[r] - 1
<1> SUFFICES ASSUME NEW r \in Ranks
             PROVE  /\ IsFiniteSet(transformed[r]) /\ Cardinality(transformed[r]) \in Nat
                    /\ transformed[r] \subseteq 0 .. Planes[r] - 1
  OBVIOUS
<1>1. \A n \in Arrived[r] : n \in Nat /\ n < Planes[r]
  BY PlanesAre, ArrivedIs
<1>2. transformed[r] \in SUBSET (0 .. Planes[r] - 1)
  BY <1>1, PlanesType DEF QueueInv, Queued
<1>3. IsFiniteSet(0 .. Planes[r] - 1)
  BY PlanesType, FS_Interval
<1>4. IsFiniteSet(transformed[r])
  BY <1>2, <1>3, FS_Subset
<1> QED
  BY <1>2, <1>4, FS_CardinalityType

\* Between its steps on requests a rank keeps its counters.
LEMMA RoundsSame ==
    ASSUME LoopTyped, Rounds, NEW r \in Ranks, Closed' = Closed, Counted,
           UNCHANGED <<network, transformed>>,
           pc' \in [Ranks -> Phases], progressed' \in [Ranks -> BOOLEAN],
           \A q \in Ranks : q # r => pc'[q] = pc[q] /\ progressed'[q] = progressed[q] /\ rwait'[q] = rwait[q],
           \/ pc'[r] = "head"
           \/ pc'[r] \in {"testRecv", "testSend", "recycle"} /\ progressed'[r]
           \/ pc[r] \in {"testRecv", "testSend", "recycle"} /\ pc'[r] \in {"testRecv", "testSend", "recycle"}
                 /\ progressed'[r] = progressed[r]
    PROVE  LoopTyped' /\ Counted' /\ Rounds'
<1>1. LoopTyped' /\ Counted'
  BY DEF LoopTyped, Counted
<1>2. Rounds'
  <2> SUFFICES ASSUME NEW q \in Ranks
               PROVE  /\ pc'[q] \in {"testRecv", "testSend", "recycle"} /\ ~progressed'[q] =>
                            network[q] < MaxPlanes \/ Cardinality(transformed[q]) < Planes[q]
                      /\ pc'[q] = "done" => network[q] >= MaxPlanes /\ Cardinality(transformed[q]) >= Planes[q]
                      /\ pc'[q] # "noProgress"
                      /\ pc'[q] = "waitRecv" => \E s \in Slots : rwait'[q][s] # {}
    BY DEF Rounds
  <2>1. CASE q = r
    BY <2>1 DEF Rounds
  <2>2. CASE q # r
    BY <2>2 DEF Rounds
  <2> QED
    BY <2>1, <2>2
<1> QED
  BY <1>1, <1>2

LEMMA InitInv == Init => KInv
<1> SUFFICES ASSUME Init PROVE KInv
  OBVIOUS
<1>1. SlotsTyped /\ QueueTyped /\ LoopTyped
  <2>1. <<>> \in Seq(Nat)
    OBVIOUS
  <2> QED
    BY <2>1 DEF Init, SlotsTyped, QueueTyped, LoopTyped, Phases
<1>2. \A r \in Ranks : Begun[r] = {}
  <2> SUFFICES ASSUME NEW r \in Ranks, NEW n \in Begun[r] PROVE FALSE
    OBVIOUS
  <2>1. n \in 0 .. MaxPlanes - 1 /\ n \in Nat
    BY BegunIs, MaxFacts
  <2>2. plane[r][SlotOf[n]] = -1 /\ pc[r] = "activate"
    BY <2>1, SlotFacts DEF Init
  <2> QED
    BY <2>1, <2>2, BegunIs
<1>3. \A r \in Ranks : Arrived[r] = {} /\ Closed[r] = {}
  BY <1>2 DEF Arrived, Closed
<1>4. SlotsOwn /\ MpiInv
  BY <1>2 DEF Init, SlotsOwn, MpiInv, RecvsAre, SendsAre, UnackedAre, LandedAre, RecvsCover, SendsCover
<1>5. QueueInv
  <2>1. \A r \in Ranks : Len(ready[r]) = 0
    BY DEF Init
  <2>2. \A r \in Ranks : \A i \in 1 .. Len(ready[r]) : FALSE
    BY <2>1
  <2>3. Queued
    BY <1>3, <2>2 DEF Init, Queued
  <2>4. TransformedOnce
    BY <2>2 DEF Init, TransformedOnce
  <2>5. LanesBusy
    BY DEF Init, LanesBusy
  <2> QED
    BY <2>3, <2>4, <2>5 DEF QueueInv
<1>6. Counted
  BY <1>3, FS_EmptySet DEF Init, Counted
<1>7. Rounds
  BY DEF Init, Rounds
<1> QED
  BY <1>1, <1>4, <1>5, <1>6, <1>7 DEF KInv

LEMMA ActivateInv ==
    ASSUME KInv, NEW r \in Ranks, Activate(r)
    PROVE  KInv'
<1> DEFINE free == {s \in Slots : s < MaxPlanes /\ plane[r][s] = -1}
<1>1. SlotsTyped /\ QueueTyped /\ LoopTyped /\ SlotsOwn /\ MpiInv /\ QueueInv /\ Counted /\ Rounds
  BY DEF KInv
<1>2. UNCHANGED <<progressed, network, lane, running, transformed, landed>> /\ pc[r] = "activate"
  BY DEF Activate
<1>3. CASE free = {}
  <2>1. pc' = [pc EXCEPT ![r] = "head"] /\ UNCHANGED <<plane, rwait, swait, ready, recvs, sends, unacked>>
    BY <1>3 DEF Activate
  <2>2. Begun' = Begun
    <3>1. ASSUME NEW q \in Ranks, NEW n \in 0 .. MaxPlanes - 1 PROVE n \in Begun'[q] <=> n \in Begun[q]
      <4>1. CASE q = r
        <5>1. n \in Nat /\ SlotOf[n] \in Slots /\ SlotOf[n] <= n /\ n < MaxPlanes /\ SlotOf[n] \in Nat
          BY SlotFacts, MaxFacts
        <5>2. SlotOf[n] < MaxPlanes
          BY <5>1, MaxFacts
        <5>3. plane[r][SlotOf[n]] # -1
          BY <1>3, <5>1, <5>2
        <5> QED
          BY <2>1, <4>1, <5>3, BegunIs, BegunIsNext
      <4>2. CASE q # r
        <5>1. pc'[q] = pc[q]
          BY <1>1, <2>1, <4>2 DEF LoopTyped
        <5> QED
          BY <2>1, <5>1, BegunIs, BegunIsNext
      <4> QED
        BY <4>1, <4>2
    <3>2. \A q \in Ranks : Begun'[q] = Begun[q]
      BY <3>1, BegunIs, BegunIsNext
    <3> QED
      BY <3>2, PlanesAre
  <2>3. SlotsTyped' /\ SlotsOwn' /\ MpiInv' /\ Closed' = Closed /\ Arrived' = Arrived
    BY <1>1, <1>2, <2>1, <2>2, SlotsSame
  <2>4. QueueTyped' /\ QueueInv'
    BY <1>1, <1>2, <2>1, <2>3, QueueSame DEF planVars
  <2>5. LoopTyped' /\ Counted' /\ Rounds'
    BY <1>1, <1>2, <2>1, <2>3, RoundsSame DEF LoopTyped, Phases
  <2> QED
    BY <2>3, <2>4, <2>5 DEF KInv
<1>4. CASE free # {}
  <2>1. \E x \in free : \A y \in free : x <= y
    <3>1. free \subseteq Nat
      BY SlotFacts
    <3> HIDE DEF free
    <3> QED
      BY <1>4, <3>1, LeastNat
  <2> DEFINE s == CHOOSE x \in free : \A y \in free : x <= y
  <2>2. s \in free
    BY <2>1
  <2>3. Posting(r, s, s) /\ pc' = pc
    BY <1>2, <1>4 DEF Activate, Posting
  <2> HIDE DEF s
  <2>4. s \in Slots /\ s \in Nat /\ s < MaxPlanes /\ plane[r][s] = -1 /\ SlotOf[s] = s
    BY <2>2, SlotFacts
  <2>5. Follows(r, s, s)
    <3>1. s \in 0 .. MaxPlanes - 1 /\ rwait[r][s] = {}
      BY <1>1, <2>4, MaxFacts DEF SlotsOwn
    <3>2. ASSUME NEW k \in 0 .. MaxPlanes - 1, SlotOf[k] = s PROVE k \notin Begun[r] /\ ~(k < s)
      <4>1. k \in Nat /\ s <= k
        BY <3>2, SlotFacts, MaxFacts
      <4> QED
        BY <4>1, <3>2, <1>2, <2>4, BegunIs
    <3> QED
      BY <2>4, <3>1, <3>2 DEF Follows
  <2>6. SlotsTyped' /\ SlotsOwn' /\ MpiInv' /\ QueueTyped' /\ QueueInv'
    BY <1>1, <2>3, <2>4, <2>5, PostingMpi, PostingQueue
  <2>7. Closed' = Closed
    <3>1. ASSUME NEW q \in Ranks, NEW k PROVE k \in Closed'[q] <=> k \in Closed[q]
      <4>1. Begun' = [Begun EXCEPT ![r] = @ \cup {s}] /\ s \notin Begun[r]
        BY <1>1, <2>3, <2>4, <2>5, PostingPlanes
      <4>2. CASE k \in Nat /\ (q # r \/ SlotOf[k] # s)
        <5>1. plane'[q][SlotOf[k]] = plane[q][SlotOf[k]]
          <6>1. SlotOf[k] \in Slots
            BY <4>2, SlotFacts
          <6>2. plane \in [Ranks -> [Slots -> Nat \cup {-1}]]
            BY DEF KInv, SlotsTyped
          <6>3. plane' = [plane EXCEPT ![r][s] = s]
            BY <2>3 DEF Posting
          <6> QED
            BY <4>2, <6>1, <6>2, <6>3
        <5>2. k \in Begun'[q] <=> k \in Begun[q]
          BY <2>4, <4>1, <4>2, PlanesAre
        <5> QED
          BY <5>1, <5>2 DEF Closed
      <4>3. CASE k \in Nat /\ q = r /\ SlotOf[k] = s
        <5>2. s <= k /\ plane'[r][s] = s
          BY <1>1, <2>3, <2>4, <4>3, PostingSlots, SlotFacts
        <5>3. k \in Begun'[r] => k = s
          <6>1. k \in Begun'[r] => k \in Begun[r] \/ k = s
            BY <4>1, PlanesAre
          <6>2. k \notin Begun[r]
            BY <4>3, <2>5, <5>2, <2>4, BegunIs DEF Follows
          <6> QED
            BY <6>1, <6>2
        <5>4. k \notin Begun[r]
          BY <4>3, <2>5, <5>2, <2>4, BegunIs DEF Follows
        <5> QED
          BY <4>3, <5>2, <5>3, <5>4 DEF Closed
      <4>4. CASE k \notin Nat
        <5>1. k \notin Begun'[q] /\ k \notin Begun[q]
          BY <4>4, BegunIs, BegunIsNext, MaxFacts
        <5> QED
          BY <5>1 DEF Closed
      <4> QED
        BY <4>2, <4>3, <4>4
    <3>2. \A q \in Ranks : Closed'[q] = Closed[q]
      BY <3>1
    <3> QED
      BY <3>2 DEF Closed
  <2>8. LoopTyped' /\ Counted'
    BY <1>1, <1>2, <2>3, <2>7 DEF LoopTyped, Counted
  <2>9. Rounds'
    <3> SUFFICES ASSUME NEW q \in Ranks
                 PROVE  /\ pc[q] \in {"testRecv", "testSend", "recycle"} /\ ~progressed[q] =>
                              network[q] < MaxPlanes \/ Cardinality(transformed[q]) < Planes[q]
                        /\ pc[q] = "done" => network[q] >= MaxPlanes /\ Cardinality(transformed[q]) >= Planes[q]
                        /\ pc[q] # "noProgress"
                        /\ pc[q] = "waitRecv" => \E t \in Slots : rwait'[q][t] # {}
      BY <1>2, <2>3 DEF Rounds
    <3>1. pc[q] = "waitRecv" => rwait'[q] = rwait[q]
      BY <1>1, <1>2, <2>3 DEF Posting, SlotsTyped
    <3> QED
      BY <1>1, <3>1 DEF Rounds
  <2> QED
    BY <2>6, <2>8, <2>9 DEF KInv
<1> QED
  BY <1>3, <1>4

LEMMA PollInv ==
    ASSUME KInv, NEW r \in Ranks, PollLanes(r)
    PROVE  KInv'
<1> DEFINE freed == {l \in LaneIds : lane[r][l] # -1 /\ <<r, l>> \notin running}
<1>1. SlotsTyped /\ QueueTyped /\ LoopTyped /\ SlotsOwn /\ MpiInv /\ QueueInv /\ Counted /\ Rounds
  BY DEF KInv
<1>2. UNCHANGED <<plane, rwait, swait, network, recvs, sends, unacked, landed>> /\ pc[r] = "head"
  BY DEF PollLanes, slotVars, mpiVars
<1>3. \E to \in {"testRecv", "done"} : pc' = [pc EXCEPT ![r] = to]
  BY DEF PollLanes
<1>4. /\ \A q \in Ranks : pc'[q] = "activate" <=> pc[q] = "activate"
      /\ \A q \in Ranks : q # r => pc'[q] = pc[q]
      /\ pc' \in [Ranks -> Phases]
  BY <1>1, <1>2, <1>3 DEF LoopTyped, Phases
<1>5. SlotsTyped' /\ SlotsOwn' /\ MpiInv' /\ Begun' = Begun /\ Closed' = Closed /\ Arrived' = Arrived
  BY <1>1, <1>2, <1>4, PlanesSame, SlotsSame
<1>6. Counted'
  BY <1>1, <1>2, <1>5 DEF Counted
<1>7. CASE Unfinished(r)
  <2>1. /\ Launch(r, freed)
        /\ transformed' = [transformed EXCEPT ![r] = @ \cup {lane[r][l] : l \in freed}]
        /\ progressed' = [progressed EXCEPT ![r] = freed # {} \/ Launches(r, freed) # {}]
        /\ pc' = [pc EXCEPT ![r] = "testRecv"]
    BY <1>7 DEF PollLanes
  <2>2. QueueTyped' /\ QueueInv'
    <3>1. freed \in SUBSET LaneIds /\ \A l \in freed : lane[r][l] # -1 /\ <<r, l>> \notin running
      OBVIOUS
    <3> HIDE DEF freed
    <3> QED
      BY <1>1, <1>5, <2>1, <3>1, QueueLaunch
  <2>3. LoopTyped'
    BY <1>1, <1>2, <1>4, <2>1 DEF LoopTyped
  <2>4. Rounds'
    <3> SUFFICES ASSUME NEW q \in Ranks
                 PROVE  /\ pc'[q] \in {"testRecv", "testSend", "recycle"} /\ ~progressed'[q] =>
                              network[q] < MaxPlanes \/ Cardinality(transformed'[q]) < Planes[q]
                        /\ pc'[q] = "done" => network[q] >= MaxPlanes /\ Cardinality(transformed'[q]) >= Planes[q]
                        /\ pc'[q] # "noProgress"
                        /\ pc'[q] = "waitRecv" => \E s \in Slots : rwait[q][s] # {}
      BY <1>2 DEF Rounds
    <3>1. CASE q = r
      <4>1. pc'[r] = "testRecv"
        BY <1>1, <2>1 DEF LoopTyped
      <4>2. ASSUME ~progressed'[r] PROVE network[r] < MaxPlanes \/ Cardinality(transformed'[r]) < Planes[r]
        <5>1. freed = {}
          BY <1>1, <2>1, <4>2 DEF LoopTyped
        <5>2. transformed'[r] = transformed[r]
          BY <1>1, <2>1, <5>1 DEF QueueTyped
        <5> QED
          BY <1>7, <5>2 DEF Unfinished
      <4> QED
        BY <3>1, <4>1, <4>2
    <3>2. CASE q # r
      <4>1. pc'[q] = pc[q] /\ progressed'[q] = progressed[q] /\ transformed'[q] = transformed[q]
        BY <1>1, <1>4, <2>1, <3>2 DEF LoopTyped, QueueTyped
      <4> QED
        BY <1>1, <4>1 DEF Rounds
    <3> QED
      BY <3>1, <3>2
  <2> QED
    BY <1>5, <1>6, <2>2, <2>3, <2>4 DEF KInv
<1>8. CASE ~Unfinished(r)
  <2>1. UNCHANGED <<progressed, ready, lane, running, transformed>> /\ pc' = [pc EXCEPT ![r] = "done"]
    BY <1>8 DEF PollLanes, planVars
  <2>2. QueueTyped' /\ QueueInv'
    BY <1>1, <1>5, <2>1, QueueSame DEF planVars
  <2>3. LoopTyped'
    BY <1>1, <1>2, <1>4, <2>1 DEF LoopTyped
  <2>4. Rounds'
    <3> SUFFICES ASSUME NEW q \in Ranks
                 PROVE  /\ pc'[q] \in {"testRecv", "testSend", "recycle"} /\ ~progressed[q] =>
                              network[q] < MaxPlanes \/ Cardinality(transformed[q]) < Planes[q]
                        /\ pc'[q] = "done" => network[q] >= MaxPlanes /\ Cardinality(transformed[q]) >= Planes[q]
                        /\ pc'[q] # "noProgress"
                        /\ pc'[q] = "waitRecv" => \E s \in Slots : rwait[q][s] # {}
      BY <1>2, <2>1 DEF Rounds
    <3>1. CASE q = r
      <4>1. pc'[r] = "done"
        BY <1>1, <2>1 DEF LoopTyped
      <4>2. network[r] \in Nat /\ Cardinality(transformed[r]) \in Nat /\ MaxPlanes \in Nat /\ Planes[r] \in Nat
        BY <1>1, TransformedFacts, MaxFacts, PlanesType DEF LoopTyped
      <4> QED
        BY <1>8, <3>1, <4>1, <4>2 DEF Unfinished
    <3>2. CASE q # r
      BY <1>1, <1>4, <3>2 DEF Rounds
    <3> QED
      BY <3>1, <3>2
  <2> QED
    BY <1>5, <1>6, <2>2, <2>3, <2>4 DEF KInv
<1> QED
  BY <1>7, <1>8

\* A step on the rank's loop alone.
LEMMA LoopOnly ==
    ASSUME KInv, NEW r \in Ranks, NEW to \in {"testSend", "recycle"}, pc' = [pc EXCEPT ![r] = to],
           pc[r] \in {"testRecv", "testSend", "recycle"},
           UNCHANGED <<progressed, plane, rwait, swait, network, ready, lane, running, transformed,
                       recvs, sends, unacked, landed>>
    PROVE  KInv'
<1>1. SlotsTyped /\ QueueTyped /\ LoopTyped /\ SlotsOwn /\ MpiInv /\ QueueInv /\ Counted /\ Rounds
  BY DEF KInv
<1>2. /\ \A q \in Ranks : pc'[q] = "activate" <=> pc[q] = "activate"
      /\ \A q \in Ranks : q # r => pc'[q] = pc[q]
      /\ pc'[r] = to /\ pc' \in [Ranks -> Phases]
  BY <1>1 DEF LoopTyped, Phases
<1>3. SlotsTyped' /\ SlotsOwn' /\ MpiInv' /\ Begun' = Begun /\ Closed' = Closed /\ Arrived' = Arrived
  BY <1>1, <1>2, PlanesSame, SlotsSame
<1>4. QueueTyped' /\ QueueInv'
  BY <1>1, <1>3, QueueSame DEF planVars
<1>5. LoopTyped' /\ Counted' /\ Rounds'
  BY <1>1, <1>2, <1>3, RoundsSame DEF LoopTyped
<1> QED
  BY <1>3, <1>4, <1>5 DEF KInv

\* A completed request that a rank takes: the loop goes on.
LEMMA TakeInv ==
    ASSUME KInv, NEW r \in Ranks, NEW s \in Slots, NEW p \in Peers(r),
           TakeRecv(r, s, p) \/ TakeSend(r, s, p),
           NEW to \in {"head", "testRecv", "testSend"}, pc' = [pc EXCEPT ![r] = to],
           pc[r] # "activate",
           NEW made \in BOOLEAN, progressed' = [progressed EXCEPT ![r] = made],
           to # "head" => made
    PROVE  KInv'
<1>1. SlotsTyped /\ QueueTyped /\ LoopTyped /\ SlotsOwn /\ MpiInv /\ QueueInv /\ Counted /\ Rounds
  BY DEF KInv
<1>2. /\ \A q \in Ranks : pc'[q] = "activate" <=> pc[q] = "activate"
      /\ \A q \in Ranks : q # r => pc'[q] = pc[q] /\ progressed'[q] = progressed[q]
      /\ pc'[r] = to /\ pc' \in [Ranks -> Phases] /\ progressed'[r] = made /\ progressed' \in [Ranks -> BOOLEAN]
  BY <1>1 DEF LoopTyped, Phases
<1>3. /\ SlotsTyped' /\ SlotsOwn' /\ MpiInv' /\ QueueTyped' /\ QueueInv'
      /\ Closed' = Closed /\ UNCHANGED <<network, transformed>>
  BY <1>1, <1>2, TakeRecvInv, TakeSendInv
<1>4. \A q \in Ranks : q # r => rwait'[q] = rwait[q]
  BY <1>1 DEF TakeRecv, TakeSend, SlotsTyped
<1>5. LoopTyped' /\ Counted' /\ Rounds'
  BY <1>1, <1>2, <1>3, <1>4, RoundsSame
<1> QED
  BY <1>3, <1>5 DEF KInv

LEMMA TestRecvInv ==
    ASSUME KInv, NEW r \in Ranks, TestRecv(r)
    PROVE  KInv'
<1>1. pc[r] = "testRecv" /\ pc \in [Ranks -> Phases]
  BY DEF TestRecv, KInv, LoopTyped
<1>2. CASE /\ \E s \in Slots, p \in Peers(r) : TakeRecv(r, s, p)
           /\ progressed' = [progressed EXCEPT ![r] = TRUE]
           /\ UNCHANGED pc
  <2>1. pc' = [pc EXCEPT ![r] = "testRecv"]
    BY <1>1, <1>2
  <2> QED
    BY <1>1, <1>2, <2>1, TakeInv
<1>3. CASE pc' = [pc EXCEPT ![r] = "testSend"] /\ UNCHANGED <<progressed, slotVars, planVars, mpiVars>>
  BY <1>1, <1>3, LoopOnly DEF slotVars, planVars, mpiVars
<1> QED
  BY <1>2, <1>3 DEF TestRecv

LEMMA TestSendInv ==
    ASSUME KInv, NEW r \in Ranks, TestSend(r)
    PROVE  KInv'
<1>1. pc[r] = "testSend" /\ pc \in [Ranks -> Phases]
  BY DEF TestSend, KInv, LoopTyped
<1>2. CASE /\ \E s \in Slots, p \in Peers(r) : TakeSend(r, s, p)
           /\ progressed' = [progressed EXCEPT ![r] = TRUE]
           /\ UNCHANGED pc
  <2>1. pc' = [pc EXCEPT ![r] = "testSend"]
    BY <1>1, <1>2
  <2> QED
    BY <1>1, <1>2, <2>1, TakeInv
<1>3. CASE pc' = [pc EXCEPT ![r] = "recycle"] /\ UNCHANGED <<progressed, slotVars, planVars, mpiVars>>
  BY <1>1, <1>3, LoopOnly DEF slotVars, planVars, mpiVars
<1> QED
  BY <1>2, <1>3 DEF TestSend

LEMMA WaitRecvInv ==
    ASSUME KInv, NEW r \in Ranks, WaitRecv(r)
    PROVE  KInv'
<1>1. pc[r] = "waitRecv" /\ progressed[r] \in BOOLEAN /\ progressed' = [progressed EXCEPT ![r] = progressed[r]]
  BY DEF WaitRecv, KInv, LoopTyped
<1>2. PICK s \in Slots, p \in Peers(r) : TakeRecv(r, s, p)
  BY DEF WaitRecv
<1> QED
  BY <1>1, <1>2, TakeInv DEF WaitRecv

LEMMA WaitSendInv ==
    ASSUME KInv, NEW r \in Ranks, WaitSend(r)
    PROVE  KInv'
<1>1. pc[r] = "waitSend" /\ progressed[r] \in BOOLEAN /\ progressed' = [progressed EXCEPT ![r] = progressed[r]]
  BY DEF WaitSend, KInv, LoopTyped
<1>2. PICK s \in Slots, p \in Peers(r) : TakeSend(r, s, p)
  BY DEF WaitSend
<1> QED
  BY <1>1, <1>2, TakeInv DEF WaitSend

\* A slot that is done counts its plane.
LEMMA RecycleClosed ==
    ASSUME KInv, NEW r \in Ranks, NEW s \in Slots, plane[r][s] # -1,
           plane' \in [Ranks -> [Slots -> Nat \cup {-1}]],
           \A q \in Ranks, t \in Slots : q # r \/ t # s => plane'[q][t] = plane[q][t],
           plane'[r][s] # plane[r][s],
           \A q \in Ranks : q # r => Begun'[q] = Begun[q],
           Begun'[r] = Begun[r] \/ Begun'[r] = Begun[r] \cup {plane'[r][s]},
           plane'[r][s] \notin Begun[r], plane'[r][s] # -1 => SlotOf[plane'[r][s]] = s,
           network' = [network EXCEPT ![r] = @ + 1]
    PROVE  Counted'
<1> DEFINE n == plane[r][s]
<1>1. n \in Nat /\ n < MaxPlanes /\ SlotOf[n] = s /\ n \in 0 .. MaxPlanes - 1 /\ n \in Begun[r]
  <2>1. n \in Nat /\ n < MaxPlanes /\ SlotOf[n] = s
    BY DEF KInv, SlotsTyped, SlotsOwn
  <2>2. n \in 0 .. MaxPlanes - 1
    BY <2>1, MaxFacts
  <2> QED
    BY <2>1, <2>2, BegunIs
<1> HIDE DEF n
<1>2. \A q \in Ranks : \A k : /\ k \in Closed[q] <=> k \in Begun[q] /\ plane[q][SlotOf[k]] # k
                              /\ k \in Closed'[q] <=> k \in Begun'[q] /\ plane'[q][SlotOf[k]] # k
  BY DEF Closed
<1>3. ASSUME NEW q \in Ranks, q # r PROVE Closed'[q] = Closed[q]
  <2>1. \A k \in Begun[q] : SlotOf[k] \in Slots
    BY PlanesAre, SlotFacts
  <2>2. \A k \in Begun[q] : plane'[q][SlotOf[k]] = plane[q][SlotOf[k]]
    BY <1>3, <2>1
  <2>3. \A k : k \in Closed'[q] <=> k \in Closed[q]
    BY <1>2, <1>3, <2>2
  <2> QED
    BY <2>3
<1>4. n \notin Closed[r]
  BY <1>1, <1>2 DEF n
<1>5. ASSUME NEW k PROVE k \in Closed'[r] <=> k \in Closed[r] \/ k = n
  <2>1. CASE k \in Begun[r] /\ SlotOf[k] # s
    <3>1. SlotOf[k] \in Slots /\ k # n
      BY <2>1, <1>1, PlanesAre, SlotFacts
    <3>2. plane'[r][SlotOf[k]] = plane[r][SlotOf[k]] /\ k \in Begun'[r]
      BY <2>1, <3>1
    <3> QED
      BY <2>1, <3>1, <3>2, <1>2
  <2>2. CASE k \in Begun[r] /\ SlotOf[k] = s
    <3>1. plane'[r][s] # k /\ k \in Begun'[r]
      BY <2>2
    <3> QED
      BY <2>2, <3>1, <1>2 DEF n
  <2>3. CASE k \notin Begun[r]
    <3>1. k \notin Closed[r] /\ k # n
      BY <2>3, <1>1, <1>2
    <3>2. k \in Begun'[r] => k = plane'[r][s]
      BY <2>3
    <3>3. k \in Begun'[r] => SlotOf[k] = s
      <4> SUFFICES ASSUME k \in Begun'[r] PROVE SlotOf[k] = s
        OBVIOUS
      <4>1. k = plane'[r][s] /\ k \in Nat
        BY <3>2, BegunIsNext, MaxFacts
      <4> QED
        BY <4>1
    <3> QED
      BY <2>3, <3>1, <3>2, <3>3, <1>2
  <2> QED
    BY <2>1, <2>2, <2>3
<1>6. Closed'[r] = Closed[r] \cup {n}
  BY <1>5
<1>7. Cardinality(Closed'[r]) = Cardinality(Closed[r]) + 1
  <2> DEFINE T == Closed[r]
  <2>1. IsFiniteSet(T) /\ n \notin T /\ Closed'[r] = T \cup {n}
    BY <1>4, <1>6, ClosedFacts
  <2> HIDE DEF T, n
  <2>2. Cardinality(T \cup {n}) = Cardinality(T) + 1
    BY <2>1, FS_AddElement
  <2> QED
    BY <2>1, <2>2 DEF T
<1> QED
  BY <1>3, <1>7 DEF KInv, Counted, LoopTyped

LEMMA RecycleInv ==
    ASSUME KInv, NEW r \in Ranks, Recycle(r)
    PROVE  KInv'
<1>1. SlotsTyped /\ QueueTyped /\ LoopTyped /\ SlotsOwn /\ MpiInv /\ QueueInv /\ Counted /\ Rounds
  BY DEF KInv
<1>2. /\ pc[r] = "recycle" /\ UNCHANGED <<pc, lane, running, transformed, landed>>
      /\ progressed' = [progressed EXCEPT ![r] = TRUE]
  BY DEF Recycle
<1>3. PICK s \in Recyclable(r) :
          LET n == plane[r][s] + Credit
          IN  /\ network' = [network EXCEPT ![r] = @ + 1]
              /\ IF Continues(n)
                 THEN /\ plane' = [plane EXCEPT ![r][s] = n]
                      /\ rwait' = [rwait EXCEPT ![r][s] = Sources(r, n)]
                      /\ swait' = [swait EXCEPT ![r][s] = Targets(r, n)]
                      /\ ready' = [ready EXCEPT ![r] = QueueReady(@, r, n, Sources(r, n))]
                      /\ PostSlot(r, n, s)
                 ELSE /\ plane' = [plane EXCEPT ![r][s] = -1]
                      /\ UNCHANGED <<rwait, swait, ready, recvs, sends, unacked>>
  BY DEF Recycle
<1> DEFINE n0 == plane[r][s]
           n == n0 + Credit
<1>4. s \in Slots /\ n0 # -1 /\ rwait[r][s] = {} /\ swait[r][s] = {}
  BY DEF Recyclable
<1>5. n0 \in Nat /\ n0 < MaxPlanes /\ SlotOf[n0] = s /\ n \in Nat /\ SlotOf[n] = s /\ n0 < n
  <2>1. n0 \in Nat /\ n0 < MaxPlanes /\ SlotOf[n0] = s
    BY <1>1, <1>4 DEF SlotsTyped, SlotsOwn
  <2> QED
    BY <2>1, SlotFacts, Sizes
<1>6. \A k \in Nat : SlotOf[k] = s /\ k > n0 => k >= n
  BY <1>5, SlotFacts
<1>7. ASSUME NEW k \in 0 .. MaxPlanes - 1, SlotOf[k] = s PROVE k \in Begun[r] <=> k < n
  <2>1. k \in Nat
    BY MaxFacts
  <2>2. k \in Begun[r] <=> k <= n0
    BY <1>4, <1>7, BegunIs
  <2> QED
    BY <1>5, <1>6, <1>7, <2>1, <2>2
<1>8. network' = [network EXCEPT ![r] = @ + 1]
  BY <1>3
<1>9. LoopTyped'
  BY <1>1, <1>2, <1>8 DEF LoopTyped
<1>10. CASE Continues(n)
  <2>1. Posting(r, s, n)
    BY <1>2, <1>3, <1>10 DEF Posting
  <2> HIDE DEF n
  <2>2. n < MaxPlanes
    BY <1>10 DEF Continues
  <2>3. n \in 0 .. MaxPlanes - 1
    BY <2>2, <1>5, MaxFacts
  <2>4. Follows(r, s, n)
    BY <2>3, <1>4, <1>5, <1>7 DEF Follows
  <2>5. SlotsTyped' /\ SlotsOwn' /\ MpiInv' /\ QueueTyped' /\ QueueInv'
    BY <1>1, <1>2, <1>4, <1>5, <2>1, <2>4, PostingMpi, PostingQueue
  <2>6. Counted'
    <3>1. Begun' = [Begun EXCEPT ![r] = @ \cup {n}] /\ n \notin Begun[r]
      BY <1>1, <1>2, <1>4, <1>5, <2>1, <2>4, PostingPlanes
    <3>2. Begun'[r] = Begun[r] \cup {n} /\ \A q \in Ranks : q # r => Begun'[q] = Begun[q]
      BY <3>1, PlanesAre
    <3>3. /\ plane'[r][s] = n
          /\ \A q \in Ranks, t \in Slots : q # r \/ t # s => plane'[q][t] = plane[q][t]
          /\ plane' \in [Ranks -> [Slots -> Nat \cup {-1}]]
      BY <1>1, <1>4, <1>5, <2>1, PostingSlots
    <3>4. plane'[r][s] # plane[r][s]
      BY <1>5, <3>3
    <3> QED
      <4>1. Begun'[r] = Begun[r] \cup {plane'[r][s]} /\ plane'[r][s] \notin Begun[r] /\ SlotOf[plane'[r][s]] = s
        BY <1>5, <3>1, <3>2, <3>3
      <4> QED
        BY <1>4, <1>8, <3>2, <3>3, <3>4, <4>1, RecycleClosed
  <2>7. Rounds'
    <3> SUFFICES ASSUME NEW q \in Ranks
                 PROVE  /\ pc[q] \in {"testRecv", "testSend", "recycle"} /\ ~progressed'[q] =>
                              network'[q] < MaxPlanes \/ Cardinality(transformed[q]) < Planes[q]
                        /\ pc[q] = "done" => network'[q] >= MaxPlanes /\ Cardinality(transformed[q]) >= Planes[q]
                        /\ pc[q] # "noProgress"
                        /\ pc[q] = "waitRecv" => \E t \in Slots : rwait'[q][t] # {}
      BY <1>2 DEF Rounds
    <3>1. CASE q = r
      BY <1>1, <1>2, <3>1 DEF LoopTyped
    <3>2. CASE q # r
      <4>1. network'[q] = network[q] /\ progressed'[q] = progressed[q] /\ rwait'[q] = rwait[q]
        BY <1>1, <1>2, <1>8, <2>1, <3>2 DEF LoopTyped, Posting, SlotsTyped
      <4> QED
        BY <1>1, <4>1 DEF Rounds
    <3> QED
      BY <3>1, <3>2
  <2> QED
    BY <1>9, <2>5, <2>6, <2>7 DEF KInv
<1>11. CASE ~Continues(n)
  <2>1. plane' = [plane EXCEPT ![r][s] = -1] /\ UNCHANGED <<rwait, swait, ready, recvs, sends, unacked>>
    BY <1>3, <1>11
  <2> HIDE DEF n
  <2>2. n >= MaxPlanes
    BY <1>5, <1>11, MaxFacts DEF Continues
  <2>3. /\ plane'[r][s] = -1
        /\ \A q \in Ranks, t \in Slots : q # r \/ t # s => plane'[q][t] = plane[q][t]
        /\ plane' \in [Ranks -> [Slots -> Nat \cup {-1}]]
    BY <1>1, <1>4, <2>1 DEF SlotsTyped
  <2>4. ASSUME NEW q \in Ranks, NEW k \in 0 .. MaxPlanes - 1
        PROVE  k \in Begun'[q] <=> k \in Begun[q]
    <3>1. k \in Nat /\ SlotOf[k] \in Slots
      BY MaxFacts, SlotFacts
    <3>2. CASE q # r \/ SlotOf[k] # s
      <4>1. plane'[q][SlotOf[k]] = plane[q][SlotOf[k]]
        BY <2>3, <3>1, <3>2
      <4> QED
        BY <1>2, <4>1, BegunIs, BegunIsNext
    <3>3. CASE q = r /\ SlotOf[k] = s
      <4>1. k < n
        BY <2>2, <1>5, MaxFacts
      <4>2. k \in Begun[r]
        BY <4>1, <3>3, <1>7
      <4>3. k \in Begun'[r]
        BY <1>2, <2>3, <3>3, BegunIsNext
      <4> QED
        BY <4>2, <4>3, <3>3
    <3> QED
      BY <3>2, <3>3
  <2>5. \A q \in Ranks : Begun'[q] = Begun[q]
    BY <2>4, BegunIs, BegunIsNext
  <2>6. Begun' = Begun
    BY <2>5, PlanesAre
  <2>7. Arrived' = Arrived
    <3>1. ASSUME NEW q \in Ranks, NEW k PROVE k \in Arrived'[q] <=> k \in Arrived[q]
      <4>1. CASE k \in Begun[q]
        <5>1. k \in Nat /\ SlotOf[k] \in Slots
          BY <4>1, PlanesAre, SlotFacts
        <5>2. CASE q # r \/ SlotOf[k] # s
          <6>1. plane'[q][SlotOf[k]] = plane[q][SlotOf[k]]
            BY <2>3, <5>1, <5>2
          <6> QED
            BY <2>1, <2>6, <6>1, ArrivedIs, ArrivedIsNext
        <5>3. CASE q = r /\ SlotOf[k] = s
          <6>1. plane'[q][SlotOf[k]] # k /\ rwait[q][SlotOf[k]] = {}
            BY <1>4, <2>3, <5>1, <5>3
          <6> QED
            BY <2>1, <2>6, <6>1, ArrivedIs, ArrivedIsNext
        <5> QED
          BY <5>2, <5>3
      <4>2. CASE k \notin Begun[q]
        BY <2>6, <4>2, ArrivedIs, ArrivedIsNext
      <4> QED
        BY <4>1, <4>2
    <3>2. \A q \in Ranks : Arrived'[q] = Arrived[q]
      BY <3>1
    <3> QED
      BY <3>2, PlanesAre
  <2>8. QueueTyped' /\ QueueInv'
    BY <1>1, <1>2, <2>1, <2>7, QueueSame DEF planVars
  <2>9. SlotsTyped'
    BY <1>1, <1>2, <2>1, <2>3 DEF SlotsTyped
  <2>10. SlotsOwn'
    <3> SUFFICES ASSUME NEW q \in Ranks, NEW t \in Slots
                 PROVE  /\ plane'[q][t] # -1 => plane'[q][t] < MaxPlanes /\ SlotOf[plane'[q][t]] = t
                        /\ rwait[q][t] # {} => plane'[q][t] # -1 /\ plane'[q][t] < Planes[q]
      BY <2>1 DEF SlotsOwn
    <3>1. CASE q = r /\ t = s
      BY <1>4, <2>3, <3>1
    <3>2. CASE q # r \/ t # s
      <4>1. plane'[q][t] = plane[q][t]
        BY <2>3, <3>2
      <4> QED
        BY <1>1, <4>1 DEF SlotsOwn
    <3> QED
      BY <3>1, <3>2
  <2>11. RecvsAre'
    <3> SUFFICES ASSUME NEW q \in recvs PROVE q.plane = plane'[q.dst][q.slot]
      BY <1>1, <1>2, <2>1 DEF MpiInv, RecvsAre
    <3>1. q.plane = plane[q.dst][q.slot] /\ q.src \in rwait[q.dst][q.slot] /\ q.dst \in Ranks /\ q.slot \in Slots
      BY <1>1 DEF MpiInv, RecvsAre, SlotsTyped, Requests
    <3>2. q.dst # r \/ q.slot # s
      BY <1>4, <3>1
    <3>3. plane'[q.dst][q.slot] = plane[q.dst][q.slot]
      BY <2>3, <3>1, <3>2
    <3> QED
      BY <3>1, <3>3
  <2>12. UnackedAre'
    <3> SUFFICES ASSUME NEW m \in unacked PROVE m.plane = plane'[m.src][m.slot] /\ m.dst \in swait[m.src][m.slot]
      BY <2>1 DEF UnackedAre
    <3>1. m.plane = plane[m.src][m.slot] /\ m.dst \in swait[m.src][m.slot] /\ m.src \in Ranks /\ m.slot \in Slots
      BY <1>1 DEF MpiInv, UnackedAre, SlotsTyped, Requests
    <3>2. m.src # r \/ m.slot # s
      BY <1>4, <3>1
    <3>3. plane'[m.src][m.slot] = plane[m.src][m.slot]
      BY <2>3, <3>1, <3>2
    <3> QED
      BY <3>1, <3>3
  <2>13. SendsAre' /\ LandedAre' /\ RecvsCover' /\ SendsCover'
    BY <1>1, <1>2, <2>1, <2>6 DEF MpiInv, SendsAre, LandedAre, RecvsCover, SendsCover
  <2>14. Counted'
    <3>1. plane'[r][s] \notin Begun[r] /\ plane'[r][s] # plane[r][s]
      BY <1>4, <2>3, PlanesAre
    <3> QED
      BY <1>4, <1>8, <2>3, <2>5, <3>1, RecycleClosed
  <2>15. Rounds'
    <3> SUFFICES ASSUME NEW q \in Ranks
                 PROVE  /\ pc[q] \in {"testRecv", "testSend", "recycle"} /\ ~progressed'[q] =>
                              network'[q] < MaxPlanes \/ Cardinality(transformed[q]) < Planes[q]
                        /\ pc[q] = "done" => network'[q] >= MaxPlanes /\ Cardinality(transformed[q]) >= Planes[q]
                        /\ pc[q] # "noProgress"
                        /\ pc[q] = "waitRecv" => \E t \in Slots : rwait[q][t] # {}
      BY <1>2, <2>1 DEF Rounds
    <3>1. CASE q = r
      BY <1>1, <1>2, <3>1 DEF LoopTyped
    <3>2. CASE q # r
      <4>1. network'[q] = network[q] /\ progressed'[q] = progressed[q]
        BY <1>1, <1>2, <1>8, <3>2 DEF LoopTyped
      <4> QED
        BY <1>1, <4>1 DEF Rounds
    <3> QED
      BY <3>1, <3>2
  <2> QED
    BY <1>9, <2>8, <2>9, <2>10, <2>11, <2>12, <2>13, <2>14, <2>15 DEF KInv, MpiInv
<1> QED
  BY <1>10, <1>11

\* A round that changed nothing leaves a request or a lane to wait for: were there
\* none, all planes would have been exchanged and transformed, and the round not begun.
LEMMA SomethingLeft ==
    ASSUME KInv, NEW r \in Ranks, pc[r] = "recycle", Recyclable(r) = {}, ~progressed[r],
           Launches(r, {}) = {}, ~Receiving(r), ~Sending(r), \A l \in LaneIds : lane[r][l] = -1
    PROVE  FALSE
<1>1. SlotsTyped /\ QueueTyped /\ LoopTyped /\ SlotsOwn /\ MpiInv /\ QueueInv /\ Counted /\ Rounds
  BY DEF KInv
<1>2. \A s \in Slots : plane[r][s] = -1
  BY DEF Recyclable, Receiving, Sending
<1>3. \A n \in 0 .. MaxPlanes - 1 : plane[r][SlotOf[n]] = -1 /\ n \in Nat
  BY <1>2, SlotFacts, MaxFacts
<1>4. \A n \in 0 .. MaxPlanes - 1 : n \in Begun[r] /\ n \in Closed[r]
  <2> SUFFICES ASSUME NEW n \in 0 .. MaxPlanes - 1 PROVE n \in Begun[r] /\ n \in Closed[r]
    OBVIOUS
  <2>1. n \in Begun[r]
    BY <1>3, BegunIs
  <2> QED
    BY <1>3, <2>1 DEF Closed
<1>5. network[r] = MaxPlanes
  <2>1. Closed[r] = 0 .. MaxPlanes - 1
    BY <1>4, ClosedFacts
  <2>2. Cardinality(0 .. MaxPlanes - 1) = MaxPlanes
    BY MaxFacts, FS_Interval
  <2> QED
    BY <1>1, <2>1, <2>2 DEF Counted
<1>6. \A n \in 0 .. Planes[r] - 1 : n \in transformed[r]
  <2> SUFFICES ASSUME NEW n \in 0 .. Planes[r] - 1 PROVE n \in transformed[r]
    OBVIOUS
  <2>1. n \in 0 .. MaxPlanes - 1 /\ n \in Nat /\ n < Planes[r]
    BY MaxFacts, PlanesType
  <2>2. n \in Arrived[r]
    <3>1. plane[r][SlotOf[n]] # n
      BY <1>3, <2>1
    <3> QED
      BY <1>4, <2>1, <3>1, ArrivedIs
  <2>3. Len(ready[r]) = 0
    BY <1>1, NothingReady
  <2>4. ~\E i \in 1 .. Len(ready[r]) : ready[r][i] = n
    BY <2>3
  <2>5. ~\E l \in LaneIds : lane[r][l] = n
    BY <2>1
  <2> QED
    BY <1>1, <2>2, <2>4, <2>5 DEF QueueInv, Queued
<1>7. Cardinality(transformed[r]) = Planes[r]
  <2>1. transformed[r] = 0 .. Planes[r] - 1
    BY <1>1, <1>6, TransformedFacts
  <2>2. Cardinality(0 .. Planes[r] - 1) = Planes[r]
    BY PlanesType, FS_Interval
  <2> QED
    BY <2>1, <2>2
<1> QED
  BY <1>1, <1>5, <1>7, MaxFacts, PlanesType DEF Rounds

LEMMA EndRoundInv ==
    ASSUME KInv, NEW r \in Ranks, EndRound(r)
    PROVE  KInv'
<1>1. SlotsTyped /\ QueueTyped /\ LoopTyped /\ SlotsOwn /\ MpiInv /\ QueueInv /\ Counted /\ Rounds
  BY DEF KInv
<1>2. /\ pc[r] = "recycle" /\ Recyclable(r) = {} /\ Launch(r, {})
      /\ UNCHANGED <<progressed, plane, rwait, swait, network, transformed, recvs, sends, unacked, landed>>
  BY DEF EndRound, slotVars, mpiVars
<1>3. PICK to : /\ pc' = [pc EXCEPT ![r] = to]
                /\ to = IF progressed[r] \/ Launches(r, {}) # {} THEN "head"
                        ELSE IF Receiving(r) THEN "waitRecv"
                        ELSE IF Sending(r) THEN "waitSend"
                        ELSE IF \E l \in LaneIds : lane[r][l] # -1 THEN "head"
                        ELSE "noProgress"
  BY DEF EndRound
<1>4. to \in {"head", "waitRecv", "waitSend"} /\ (to = "waitRecv" => Receiving(r))
  BY <1>2, <1>3, SomethingLeft
<1>5. /\ \A q \in Ranks : pc'[q] = "activate" <=> pc[q] = "activate"
      /\ \A q \in Ranks : q # r => pc'[q] = pc[q]
      /\ pc'[r] = to /\ pc' \in [Ranks -> Phases]
  BY <1>1, <1>2, <1>3, <1>4 DEF LoopTyped, Phases
<1>6. SlotsTyped' /\ SlotsOwn' /\ MpiInv' /\ Begun' = Begun /\ Closed' = Closed /\ Arrived' = Arrived
  BY <1>1, <1>2, <1>5, PlanesSame, SlotsSame
<1>7. QueueTyped' /\ QueueInv'
  <2> DEFINE none == {}
  <2>1. none \in SUBSET LaneIds /\ \A l \in none : lane[r][l] # -1 /\ <<r, l>> \notin running
    OBVIOUS
  <2>2. transformed' = [transformed EXCEPT ![r] = @ \cup {lane[r][l] : l \in none}]
    BY <1>1, <1>2 DEF QueueTyped
  <2>3. Launch(r, none)
    BY <1>2
  <2> HIDE DEF none
  <2> QED
    BY <1>1, <1>6, <2>1, <2>2, <2>3, QueueLaunch
<1>8. LoopTyped' /\ Counted'
  BY <1>1, <1>2, <1>5, <1>6 DEF LoopTyped, Counted
<1>9. Rounds'
  <2> SUFFICES ASSUME NEW q \in Ranks
               PROVE  /\ pc'[q] \in {"testRecv", "testSend", "recycle"} /\ ~progressed[q] =>
                            network[q] < MaxPlanes \/ Cardinality(transformed[q]) < Planes[q]
                      /\ pc'[q] = "done" => network[q] >= MaxPlanes /\ Cardinality(transformed[q]) >= Planes[q]
                      /\ pc'[q] # "noProgress"
                      /\ pc'[q] = "waitRecv" => \E s \in Slots : rwait[q][s] # {}
    BY <1>2 DEF Rounds
  <2>1. CASE q = r
    BY <2>1, <1>4, <1>5 DEF Receiving
  <2>2. CASE q # r
    BY <2>2, <1>1, <1>5 DEF Rounds
  <2> QED
    BY <2>1, <2>2
<1> QED
  BY <1>6, <1>7, <1>8, <1>9 DEF KInv

LEMMA EnvironmentInv ==
    ASSUME KInv, FinishFFT \/ Match \/ Acknowledge
    PROVE  KInv'
<1>1. SlotsTyped /\ QueueTyped /\ LoopTyped /\ SlotsOwn /\ MpiInv /\ QueueInv /\ Counted /\ Rounds
  BY DEF KInv
<1>2. UNCHANGED <<pc, progressed, plane, rwait, swait, network, ready, lane, transformed>>
  BY DEF FinishFFT, Match, Acknowledge, rankVars, slotVars, planVars
<1>3. Begun' = Begun /\ Closed' = Closed /\ Arrived' = Arrived
  BY <1>2, PlanesSame
<1>4. LoopTyped' /\ Counted' /\ Rounds'
  BY <1>1, <1>2, <1>3 DEF LoopTyped, Counted, Rounds
<1>5. CASE FinishFFT
  <2>1. running' \subseteq running /\ UNCHANGED <<recvs, sends, unacked, landed>>
    BY <1>5 DEF FinishFFT, mpiVars
  <2>2. SlotsTyped' /\ SlotsOwn' /\ MpiInv'
    BY <1>1, <1>2, <1>3, <2>1, SlotsSame
  <2>3. QueueTyped'
    BY <1>1, <1>2, <2>1 DEF QueueTyped
  <2>4. Queued' /\ TransformedOnce' /\ LanesBusy'
    BY <1>1, <1>2, <1>3, <2>1 DEF QueueInv, Queued, TransformedOnce, LanesBusy
  <2> QED
    BY <1>4, <2>2, <2>3, <2>4 DEF KInv, QueueInv
<1>6. CASE Match
  <2>1. UNCHANGED planVars
    BY <1>6 DEF Match
  <2> QED
    BY <1>1, <1>3, <1>4, <1>6, <2>1, MatchMpi, QueueSame DEF KInv
<1>7. CASE Acknowledge
  <2>1. unacked' \subseteq unacked /\ UNCHANGED <<recvs, sends, landed, running>>
    BY <1>7 DEF Acknowledge, planVars
  <2>2. SlotsTyped' /\ SlotsOwn'
    BY <1>1, <1>2, <2>1 DEF SlotsTyped, SlotsOwn
  <2>3. MpiInv'
    BY <1>1, <1>2, <1>3, <2>1 DEF MpiInv, RecvsAre, SendsAre, UnackedAre, LandedAre, RecvsCover, SendsCover
  <2>4. QueueTyped' /\ QueueInv'
    BY <1>1, <1>2, <1>3, <2>1, QueueSame DEF planVars
  <2> QED
    BY <1>4, <2>2, <2>3, <2>4 DEF KInv
<1> QED
  BY <1>5, <1>6, <1>7

LEMMA StutterInv ==
    ASSUME KInv, UNCHANGED vars
    PROVE  KInv'
<1>1. UNCHANGED <<pc, progressed, plane, rwait, swait, network, ready, lane, running, transformed,
                  recvs, sends, unacked, landed>>
  BY DEF vars, rankVars, slotVars, planVars, mpiVars
<1>2. Begun' = Begun /\ Closed' = Closed /\ Arrived' = Arrived
  BY <1>1, PlanesSame
<1>3. SlotsTyped' /\ SlotsOwn' /\ MpiInv' /\ QueueTyped' /\ QueueInv'
  BY <1>1, <1>2, SlotsSame, QueueSame DEF KInv, planVars
<1>4. LoopTyped' /\ Counted' /\ Rounds'
  BY <1>1, <1>2 DEF KInv, LoopTyped, Counted, Rounds
<1> QED
  BY <1>3, <1>4 DEF KInv

LEMMA InvStep == KInv /\ [Next]_vars => KInv'
<1> SUFFICES ASSUME KInv, [Next]_vars PROVE KInv'
  OBVIOUS
<1>1. ASSUME NEW r \in Ranks, RankStep(r) PROVE KInv'
  BY <1>1, ActivateInv, PollInv, TestRecvInv, TestSendInv, RecycleInv, EndRoundInv, WaitRecvInv,
     WaitSendInv DEF RankStep
<1>2. CASE FinishFFT \/ Match \/ Acknowledge
  BY <1>2, EnvironmentInv
<1>3. CASE Finished \/ UNCHANGED vars
  BY <1>3, StutterInv DEF Finished
<1> QED
  BY <1>1, <1>2, <1>3 DEF Next

-----------------------------------------------------------------------------
(***************************************************************************)
(* What follows from it.                                                   *)
(***************************************************************************)

\* What a rank knows to have arrived has landed, in its place.
LEMMA ArrivedLanded ==
    ASSUME KInv, NEW r \in Ranks, NEW n \in Arrived[r], NEW p \in Peers(r)
    PROVE  Arrival(p, r, n) \in landed
<1>1. n \in Begun[r] /\ n < Planes[r] /\ n \in Nat /\ p \in Ranks /\ p # r
  BY ArrivedIs, PlanesAre DEF Peers
<1>2. CASE Part(p, r, n) \in recvs
  <2>1. /\ Part(p, r, n).plane = n /\ Part(p, r, n).dst = r /\ Part(p, r, n).src = p
        /\ Part(p, r, n).slot = SlotOf[n]
    BY <1>1, PartFacts
  <2>2. n = plane[r][SlotOf[n]] /\ p \in rwait[r][SlotOf[n]]
    BY <1>2, <2>1 DEF KInv, MpiInv, RecvsAre
  <2>3. rwait[r][SlotOf[n]] = {}
    BY <2>2, ArrivedIs
  <2> QED
    BY <2>2, <2>3
<1> QED
  BY <1>1, <1>2 DEF KInv, MpiInv, RecvsCover

LEMMA Launched == KInv => LaunchAfterArrival
<1> SUFFICES ASSUME KInv, NEW x \in running, NEW p \in Peers(x[1])
             PROVE  \E l \in landed : l.src = p /\ l.dst = x[1] /\ l.want = lane[x[1]][x[2]] /\ l.got = l.want
  BY DEF LaunchAfterArrival
<1>1. x[1] \in Ranks /\ x[2] \in LaneIds /\ lane[x[1]][x[2]] # -1
  BY DEF KInv, QueueTyped, QueueInv, LanesBusy
<1> DEFINE r == x[1]
           n == lane[x[1]][x[2]]
<1>2. n \in Arrived[r]
  BY <1>1 DEF KInv, QueueInv, Queued
<1>3. n \in Nat /\ p \in Ranks
  BY <1>1, <1>2, PlanesAre DEF Peers
<1>4. Arrival(p, r, n) \in landed
  BY <1>1, <1>2, ArrivedLanded
<1>5. /\ Arrival(p, r, n).src = p /\ Arrival(p, r, n).dst = r /\ Arrival(p, r, n).want = n
      /\ Arrival(p, r, n).got = n
  BY <1>1, <1>3, ArrivalFacts
<1> QED
  BY <1>4, <1>5

LEMMA Complete == KInv => CompleteOnReturn
<1> SUFFICES ASSUME KInv, NEW r \in Ranks
             PROVE  /\ pc[r] # "noProgress"
                    /\ pc[r] = "waitRecv" => Receiving(r)
                    /\ pc[r] = "done" =>
                          /\ transformed[r] = 0 .. Planes[r] - 1
                          /\ \A q \in recvs : q.dst # r
                          /\ \A m \in unacked : m.src # r
  BY DEF CompleteOnReturn
<1>1. pc[r] # "noProgress" /\ (pc[r] = "waitRecv" => Receiving(r))
  BY DEF KInv, Rounds, Receiving
<1>2. ASSUME pc[r] = "done"
      PROVE  /\ transformed[r] = 0 .. Planes[r] - 1
             /\ \A q \in recvs : q.dst # r
             /\ \A m \in unacked : m.src # r
  <2>1. network[r] >= MaxPlanes /\ Cardinality(transformed[r]) >= Planes[r] /\ network[r] = Cardinality(Closed[r])
    BY <1>2 DEF KInv, Rounds, Counted
  <2>2. Closed[r] = 0 .. MaxPlanes - 1
    <3>1. Closed[r] \in SUBSET (0 .. MaxPlanes - 1) /\ Cardinality(Closed[r]) \in Nat
      BY ClosedFacts
    <3>2. IsFiniteSet(0 .. MaxPlanes - 1) /\ Cardinality(0 .. MaxPlanes - 1) = MaxPlanes
      BY MaxFacts, FS_Interval
    <3>3. Cardinality(Closed[r]) <= MaxPlanes /\ (MaxPlanes = Cardinality(Closed[r]) => 0 .. MaxPlanes - 1 = Closed[r])
      <4> DEFINE all == 0 .. MaxPlanes - 1
      <4>1. IsFiniteSet(all) /\ Closed[r] \in SUBSET all /\ Cardinality(all) = MaxPlanes
        BY <3>1, <3>2
      <4> HIDE DEF all
      <4>2. Cardinality(Closed[r]) <= Cardinality(all) /\ (Cardinality(all) = Cardinality(Closed[r]) => all = Closed[r])
        BY <4>1, FS_Subset
      <4> QED
        BY <4>1, <4>2 DEF all
    <3> QED
      BY <2>1, <3>1, <3>3, MaxFacts
  <2>3. transformed[r] = 0 .. Planes[r] - 1
    <3>1. transformed[r] \in SUBSET (0 .. Planes[r] - 1) /\ Cardinality(transformed[r]) \in Nat
      BY TransformedFacts DEF KInv
    <3> Planes[r] \in Nat
      BY PlanesType
    <3> DEFINE top == Planes[r] - 1
    <3>4. 0 \in Int /\ top \in Int /\ (0 > top => Planes[r] = 0) /\ top - 0 + 1 = Planes[r]
      OBVIOUS
    <3> HIDE DEF top
    <3>5. IsFiniteSet(0 .. top) /\ Cardinality(0 .. top) = Planes[r]
      BY <3>4, FS_Interval
    <3>2. IsFiniteSet(0 .. Planes[r] - 1) /\ Cardinality(0 .. Planes[r] - 1) = Planes[r]
      BY <3>5 DEF top
    <3>3. Cardinality(transformed[r]) <= Planes[r] /\ (Planes[r] = Cardinality(transformed[r]) => 0 .. Planes[r] - 1 = transformed[r])
      BY <3>1, <3>2, FS_Subset
    <3> QED
      BY <2>1, <3>1, <3>3, PlanesType
  <2>4. ASSUME NEW s \in Slots PROVE plane[r][s] = -1
    <3> SUFFICES ASSUME plane[r][s] # -1 PROVE FALSE
      OBVIOUS
    <3>1. plane[r][s] \in Nat /\ plane[r][s] < MaxPlanes /\ SlotOf[plane[r][s]] = s
      BY DEF KInv, SlotsTyped, SlotsOwn
    <3>2. plane[r][s] \in Closed[r]
      BY <2>2, <3>1, MaxFacts
    <3> QED
      BY <3>1, <3>2 DEF Closed
  <2>5. ASSUME NEW q \in recvs PROVE q.dst # r
    <3>1. q.plane \in Nat /\ q.slot \in Slots /\ q.plane = plane[q.dst][q.slot]
      BY DEF KInv, SlotsTyped, Requests, MpiInv, RecvsAre
    <3> QED
      BY <2>4, <3>1
  <2>6. ASSUME NEW m \in unacked PROVE m.src # r
    <3>1. m.plane \in Nat /\ m.slot \in Slots /\ m.plane = plane[m.src][m.slot]
      BY DEF KInv, SlotsTyped, Requests, MpiInv, UnackedAre
    <3> QED
      BY <2>4, <3>1
  <2> QED
    BY <2>3, <2>5, <2>6
<1> QED
  BY <1>1, <1>2

-----------------------------------------------------------------------------
(***************************************************************************)
(* The theorems.                                                           *)
(***************************************************************************)

LEMMA InvCorrect == Spec => []KInv
BY InitInv, InvStep, PTL DEF Spec

\* A plane that has arrived is waiting, on one lane or transformed, and never
\* twice: queue_ready_plane, launch_ready_planes and the polling of the lanes
\* neither lose a plane nor transform it again.
THEOREM TransformedOnceCorrect == Spec => []TransformedOnce
<1>1. KInv => TransformedOnce
  BY DEF KInv, QueueInv
<1> QED
  BY <1>1, InvCorrect, PTL

\* The inverse FFT of a plane starts only when the part of every peer has
\* landed, and has landed in that plane: slots, tags and recycling never let a
\* plane be launched on the data of another one, or on none.
THEOREM LaunchAfterArrivalCorrect == Spec => []LaunchAfterArrival
BY InvCorrect, Launched, PTL

\* The scheduler returns with every plane of its own transformed and no request
\* left, and throws neither of its errors.
THEOREM CompleteOnReturnCorrect == Spec => []CompleteOnReturn
BY InvCorrect, Complete, PTL
=============================================================================
