--------------------------- MODULE ReadySend_proofs ---------------------------
(***************************************************************************)
(* Proofs about the optimized transpose, for any number of peers, every    *)
(* configuration of the call and a failure at any point.  A peer passes    *)
(* through its stream, the stack of ready peers and the poster's hand to   *)
(* its send, and is in one of these places at a time; the poster counts    *)
(* what it takes.  So the poster ends with every send posted once, and a   *)
(* call that returned, or joined the poster, has nothing left that reads   *)
(* the objects of its stack frame.                                         *)
(***************************************************************************)
EXTENDS ReadySend, FiniteSetTheorems, SequenceTheorems, TLAPS

-----------------------------------------------------------------------------
(***************************************************************************)
(* What a stream holds: at most one copy, before the one report that       *)
(* follows it, and any unpacking.                                          *)
(***************************************************************************)

Works == {"pack", "push", "notify", "unpack"}

Holds(s, work) == \E i \in 1 .. Len(s) : s[i] = work

\* The report is queued once, and nothing is copied behind it or without it.
WellFormed(s) ==
    /\ \A i, j \in 1 .. Len(s) : s[i] = "push" /\ s[j] = "push" => i = j
    /\ \A i, j \in 1 .. Len(s) : s[i] = "pack" /\ s[j] = "push" => i < j
    /\ Holds(s, "pack") => Holds(s, "push")

LEMMA TailElements ==
    ASSUME NEW s \in Seq(Works), s # <<>>
    PROVE  /\ Tail(s) \in Seq(Works) /\ Len(s) \in Nat \ {0} /\ Len(Tail(s)) = Len(s) - 1
           /\ \A i \in 1 .. Len(Tail(s)) : i + 1 \in 1 .. Len(s) /\ Tail(s)[i] = s[i + 1]
           /\ \A i \in 2 .. Len(s) : i - 1 \in 1 .. Len(Tail(s)) /\ s[i] = Tail(s)[i - 1]
           /\ Head(s) = s[1]
  OBVIOUS

\* What is left of a stream when the GPU takes its head.
LEMMA TailHolds ==
    ASSUME NEW s \in Seq(Works), s # <<>>, NEW work
    PROVE  /\ Holds(Tail(s), work) => Holds(s, work)
           /\ Holds(s, work) => Holds(Tail(s), work) \/ Head(s) = work
<1>1. Holds(Tail(s), work) => Holds(s, work)
  BY TailElements DEF Holds
<1>2. ASSUME NEW i \in 1 .. Len(s), s[i] = work PROVE Holds(Tail(s), work) \/ Head(s) = work
  <2>1. CASE i = 1
    BY <1>2, <2>1, TailElements
  <2>2. CASE i # 1
    <3>1. i \in 2 .. Len(s)
      BY <2>2
    <3> QED
      BY <1>2, <3>1, TailElements DEF Holds
  <2> QED
    BY <2>1, <2>2
<1> QED
  BY <1>1, <1>2 DEF Holds

LEMMA TailWellFormed ==
    ASSUME NEW s \in Seq(Works), s # <<>>, WellFormed(s)
    PROVE  /\ WellFormed(Tail(s))
           /\ Head(s) = "push" => ~Holds(Tail(s), "push") /\ ~Holds(Tail(s), "pack")
           /\ Holds(s, "push") => Head(s) = "push" \/ Holds(Tail(s), "push")
<1> DEFINE t == Tail(s)
<1>1. /\ t \in Seq(Works) /\ Len(s) \in Nat \ {0} /\ Len(t) = Len(s) - 1 /\ Head(s) = s[1]
      /\ \A i \in 1 .. Len(t) : i + 1 \in 1 .. Len(s) /\ t[i] = s[i + 1]
  BY TailElements
<1>2. /\ \A i, j \in 1 .. Len(s) : s[i] = "push" /\ s[j] = "push" => i = j
      /\ \A i, j \in 1 .. Len(s) : s[i] = "pack" /\ s[j] = "push" => i < j
  BY DEF WellFormed
<1>3. /\ Holds(t, "pack") => Holds(s, "pack")
      /\ Holds(s, "push") => Head(s) = "push" \/ Holds(t, "push")
  BY TailHolds
<1> HIDE DEF t
<1>4. \A i, j \in 1 .. Len(t) : t[i] = "push" /\ t[j] = "push" => i = j
  <2> SUFFICES ASSUME NEW i \in 1 .. Len(t), NEW j \in 1 .. Len(t), t[i] = "push", t[j] = "push"
               PROVE  i = j
    OBVIOUS
  <2>1. s[i + 1] = "push" /\ s[j + 1] = "push" /\ i + 1 \in 1 .. Len(s) /\ j + 1 \in 1 .. Len(s)
    BY <1>1
  <2>2. i + 1 = j + 1
    BY <1>2, <2>1
  <2> QED
    BY <2>2
<1>5. \A i, j \in 1 .. Len(t) : t[i] = "pack" /\ t[j] = "push" => i < j
  <2> SUFFICES ASSUME NEW i \in 1 .. Len(t), NEW j \in 1 .. Len(t), t[i] = "pack", t[j] = "push"
               PROVE  i < j
    OBVIOUS
  <2>1. s[i + 1] = "pack" /\ s[j + 1] = "push" /\ i + 1 \in 1 .. Len(s) /\ j + 1 \in 1 .. Len(s)
    BY <1>1
  <2>2. i + 1 < j + 1
    BY <1>2, <2>1
  <2> QED
    BY <2>2
<1>6. ASSUME Head(s) = "push" PROVE ~Holds(t, "push") /\ ~Holds(t, "pack")
  <2>1. 1 \in 1 .. Len(s) /\ s[1] = "push"
    BY <1>1, <1>6
  <2>2. ASSUME NEW i \in 1 .. Len(t), t[i] \in {"push", "pack"} PROVE FALSE
    <3>1. i + 1 \in 1 .. Len(s) /\ s[i + 1] \in {"push", "pack"}
      BY <1>1, <2>2
    <3>2. i + 1 = 1 \/ i + 1 < 1
      BY <1>2, <2>1, <3>1
    <3> QED
      BY <3>2
  <2> QED
    BY <2>2 DEF Holds
<1>7. Holds(t, "pack") => Holds(t, "push")
  BY <1>3, <1>6 DEF WellFormed
<1> QED
  BY <1>3, <1>4, <1>5, <1>6, <1>7 DEF WellFormed, t

\* The unpacking of a chunk is queued behind what a stream holds.
LEMMA UnpackQueued ==
    ASSUME NEW s \in Seq(Works), WellFormed(s)
    PROVE  LET t == Append(s, "unpack")
           IN  /\ t \in Seq(Works) /\ WellFormed(t)
               /\ Holds(t, "unpack")
               /\ \A work \in {"push", "pack"} : Holds(t, work) <=> Holds(s, work)
<1> DEFINE t == Append(s, "unpack")
<1>1. t \in Seq(Works) /\ Len(t) = Len(s) + 1 /\ Len(s) \in Nat
  BY DEF Works
<1>2. (\A i \in 1 .. Len(s) : t[i] = s[i]) /\ t[Len(t)] = "unpack"
  OBVIOUS
<1> HIDE DEF t
<1>3. \A i \in 1 .. Len(t) : i \in 1 .. Len(s) \/ i = Len(t)
  BY <1>1
<1>4. \A work \in {"push", "pack"} : Holds(t, work) <=> Holds(s, work)
  BY <1>1, <1>2, <1>3 DEF Holds
<1>5. Holds(t, "unpack")
  BY <1>1, <1>2 DEF Holds
<1>6. WellFormed(t)
  BY <1>1, <1>2, <1>3, <1>4 DEF WellFormed
<1> QED
  BY <1>1, <1>4, <1>5, <1>6 DEF t

\* A copy and its report are queued on an empty stream.
LEMMA PackQueued ==
    LET t == <<>> \o PackAndReport
    IN  t \in Seq(Works) /\ WellFormed(t)
<1> DEFINE t == <<>> \o PackAndReport
<1>1. PackAndReport \in Seq(Works) /\ Len(PackAndReport) = 3
  BY DEF PackAndReport, Works
<1>2. t \in Seq(Works) /\ Len(t) = 3 /\ t = PackAndReport
  BY <1>1
<1>3. t[1] = "pack" /\ t[2] = "push" /\ t[3] = "notify"
  BY <1>2 DEF PackAndReport
<1> HIDE DEF t
<1>4. \A i \in 1 .. Len(t) : i = 1 \/ i = 2 \/ i = 3
  BY <1>2
<1>5. Holds(t, "push")
  BY <1>2, <1>3 DEF Holds
<1>6. WellFormed(t)
  BY <1>3, <1>4, <1>5 DEF WellFormed
<1> QED
  BY <1>2, <1>6 DEF t

\* The stack of ready peers without its last.
LEMMA Popped ==
    ASSUME NEW s \in Seq(Peers), s # <<>>
    PROVE  /\ Len(s) \in 1 .. Len(s) /\ s[Len(s)] \in Peers
           /\ SubSeq(s, 1, Len(s) - 1) \in Seq(Peers)
           /\ Len(SubSeq(s, 1, Len(s) - 1)) = Len(s) - 1
           /\ \A i \in 1 .. Len(s) - 1 : i \in 1 .. Len(s) /\ SubSeq(s, 1, Len(s) - 1)[i] = s[i]
<1> DEFINE t == SubSeq(s, 1, Len(s) - 1)
<1>1. Len(s) \in Nat /\ Len(s) > 0 /\ s[Len(s)] \in Peers
  OBVIOUS
<1>2. 1 \in Int /\ Len(s) - 1 \in Int /\ \A i \in 1 .. Len(s) - 1 : s[i] \in Peers
  BY <1>1
<1>3. /\ t \in Seq(Peers)
      /\ Len(t) = IF 1 <= Len(s) - 1 THEN (Len(s) - 1) - 1 + 1 ELSE 0
      /\ \A i \in 1 .. (Len(s) - 1) - 1 + 1 : t[i] = s[1 + i - 1]
  <2>1. t \in Seq(Peers)
    BY <1>2, SubSeqProperties
  <2>2. Len(t) = IF 1 <= Len(s) - 1 THEN (Len(s) - 1) - 1 + 1 ELSE 0
    BY <1>2, SubSeqProperties
  <2>3. \A i \in 1 .. (Len(s) - 1) - 1 + 1 : t[i] = s[1 + i - 1]
    BY <1>2, SubSeqProperties
  <2> QED
    BY <2>1, <2>2, <2>3
<1> HIDE DEF t
<1>4. Len(t) = Len(s) - 1
  <2>1. ASSUME NEW n \in Nat, n > 0 PROVE (IF 1 <= n - 1 THEN (n - 1) - 1 + 1 ELSE 0) = n - 1
    BY <2>1
  <2> QED
    BY <1>1, <1>3, <2>1
<1>5. \A i \in 1 .. Len(s) - 1 : i \in 1 .. Len(s) /\ t[i] = s[i]
  BY <1>1, <1>3
<1> QED
  BY <1>1, <1>3, <1>4, <1>5 DEF t

-----------------------------------------------------------------------------
(***************************************************************************)
(* The inductive invariant.                                                *)
(***************************************************************************)

\* The variables' types, without the bound of the stack, which is a consequence.
Typed ==
    /\ call \in Calls
    /\ pc \in MainPhases
    /\ next \in 1 .. N + 1
    /\ thread \in ThreadPhases
    /\ joinable \in BOOLEAN
    /\ held \in 0 .. N
    /\ left \in 0 .. N
    /\ ready \in Seq(Peers)
    /\ cancel \in BOOLEAN
    /\ sendError \in BOOLEAN
    /\ stream \in [Peers -> Seq(Works)]
    /\ posted \in [Peers -> {0, 1}]
    /\ sent \subseteq Peers
    /\ arrived \subseteq Peers
    /\ got \subseteq arrived
    /\ output \subseteq Peers

\* A peer is reported on its stream, ready, in the poster's hand or posted, in
\* one of the four at a time, and in none of them before the loop came to it.
OnePlace ==
    \A p \in Peers :
        /\ WellFormed(stream[p])
        /\ Holds(stream[p], "push") => ~Holds(ready, p) /\ held # p /\ posted[p] = 0
        /\ Holds(ready, p) => held # p /\ posted[p] = 0
        /\ held = p => posted[p] = 0
        /\ p >= next => /\ stream[p] = <<>> /\ ~Holds(ready, p)
                        /\ held # p /\ posted[p] = 0

\* A peer is on the stack once.
ReadyOnce == \A i, j \in 1 .. Len(ready) : ready[i] = ready[j] => i = j

\* A direct send passes neither the stream nor the stack.
DirectSends ==
    call.direct =>
        /\ ready = <<>> /\ held = 0
        /\ \A p \in Peers : ~Holds(stream[p], "push") /\ (p < next => posted[p] = 1)

\* What the poster has taken, and how much it has left.
Taken == {p \in Peers : held = p \/ posted[p] = 1}
TakenCounted == ~call.direct /\ ~sendError => left + Cardinality(Taken) = N

\* Which thread posts, and when it holds a peer.
Posters ==
    /\ pc = "begin" => thread = "none" /\ ~joinable /\ left = N
    /\ pc # "begin" => (thread = "none" <=> ~Threaded(call))
    /\ joinable => thread # "none"
    /\ Threaded(call) /\ ~joinable => pc \in {"begin", "waitSend", "returned", "catch", "failed"}
    /\ ~joinable => thread \in {"none", "exited"}
    /\ pc \in {"post", "asleep", "send"} => ~call.direct /\ thread = "none"
    /\ pc = "direct" => call.direct
    /\ pc = "pack" => ~call.direct
    /\ pc = "send" \/ thread = "send" => held \in Peers
    /\ held # 0 => thread = "send" \/ (thread = "none" /\ pc \in {"send", "catch", "failed"})

\* What the phases of the calling thread stand for.
Progress ==
    /\ pc \notin {"begin", "direct", "pack", "catch", "notifyAll", "cancelSync", "cancelJoin",
                  "failed", "terminated"} => next = N + 1
    /\ pc \in {"join", "notifyAll", "cancelSync", "cancelJoin"} => joinable
    /\ pc \in {"waitSend", "returned"} => ~joinable /\ ~sendError
    /\ cancel => pc \in {"notifyAll", "cancelSync", "cancelJoin", "failed", "terminated"}
    /\ sendError => thread = "exited"
    /\ thread = "exited" /\ ~cancel /\ ~sendError => left = 0
    /\ ~call.direct /\ thread = "none" /\ pc \in {"waitRecv", "sync", "waitSend", "returned"} =>
           left = 0
    /\ pc \in {"sync", "join", "waitSend", "returned"} => got = Peers
    /\ pc \in {"join", "waitSend", "returned", "cancelJoin"} => StreamsIdle
    /\ Threaded(call) /\ ~joinable /\ pc # "begin" => StreamsIdle
    /\ joinable => pc \notin {"waitSend", "returned", "failed"}
    /\ pc = "returned" => \A p \in Peers : posted[p] = 1 => p \in sent

\* A chunk that was waited for is in the output, or its unpacking is queued.
Arrivals ==
    /\ call.unpack => \A p \in got : p \in output \/ Holds(stream[p], "unpack")
    /\ ~call.unpack => arrived \subseteq output

RInv ==
    /\ Typed
    /\ OnePlace
    /\ ReadyOnce
    /\ DirectSends
    /\ TakenCounted
    /\ Posters
    /\ Progress
    /\ Arrivals

LEMMA NType == N \in Nat /\ N > 0
  BY PeersAssumption

\* Both threads' phases.
LEMMA PhasesExpanded ==
    /\ MainPhases = {"begin", "direct", "pack", "post", "asleep", "send", "waitRecv", "sync", "join",
                     "waitSend", "returned", "catch", "notifyAll", "cancelSync", "cancelJoin",
                     "failed", "terminated"}
    /\ ThreadPhases = {"none", "check", "asleep", "send", "exited"}
  BY DEF MainPhases, ThreadPhases

-----------------------------------------------------------------------------
(***************************************************************************)
(* Where the peers are.  What the steps do to it is stated apart from the  *)
(* thread that does them.                                                  *)
(***************************************************************************)

Places == OnePlace /\ ReadyOnce /\ DirectSends /\ TakenCounted

LEMMA PlacesUntouched ==
    ASSUME RInv, UNCHANGED <<call, next, held, left, sendError, ready, stream, posted>>
    PROVE  Places'
<1>1. OnePlace'
  BY DEF RInv, OnePlace, Holds, WellFormed
<1>2. ReadyOnce' /\ DirectSends'
  BY DEF RInv, ReadyOnce, DirectSends, Holds
<1>3. Taken' = Taken
  BY DEF Taken
<1>4. TakenCounted'
  BY <1>3 DEF RInv, TakenCounted
<1> QED
  BY <1>1, <1>2, <1>4 DEF Places

LEMMA TakenType ==
    /\ IsFiniteSet(Taken) /\ Cardinality(Taken) \in Nat
    /\ Cardinality(Taken) = N => Taken = Peers
<1>1. IsFiniteSet(Peers) /\ Cardinality(Peers) = N
  <2>1. 1 \in Int /\ N \in Int
    BY NType
  <2> QED
    BY <2>1, NType, FS_Interval DEF Peers
<1>2. Taken \in SUBSET Peers
  BY DEF Taken
<1> QED
  BY <1>1, <1>2, FS_Subset, FS_CardinalityType

\* The poster takes the last ready peer.
LEMMA TakePlaces ==
    ASSUME RInv, ~call.direct, held = 0, left > 0, Take,
           UNCHANGED <<call, next, sendError, stream, posted>>
    PROVE  Places' /\ held' \in Peers /\ left' \in 0 .. N /\ ready' \in Seq(Peers)
<1>1. /\ ready \in Seq(Peers) /\ ready # <<>> /\ posted \in [Peers -> {0, 1}]
      /\ left \in 0 .. N /\ next \in 1 .. N + 1
  BY DEF RInv, Typed, Take
<1> DEFINE n == Len(ready)
<1>2. /\ n \in 1 .. n /\ ready[n] \in Peers /\ n \in Nat
      /\ held' = ready[n] /\ ready' \in Seq(Peers) /\ Len(ready') = n - 1 /\ left' = left - 1
      /\ \A i \in 1 .. n - 1 : i \in 1 .. n /\ ready'[i] = ready[i]
  BY <1>1, Popped DEF Take
<1> HIDE DEF n
<1>3. Holds(ready, held')
  BY <1>2 DEF Holds, n
<1>4. \A p \in Peers : Holds(ready', p) => Holds(ready, p) /\ p # held'
  <2> SUFFICES ASSUME NEW p \in Peers, NEW i \in 1 .. n - 1, ready'[i] = p
               PROVE  Holds(ready, p) /\ p # held'
    BY <1>2 DEF Holds
  <2>1. i \in 1 .. n /\ ready[i] = p /\ i # n
    BY <1>2
  <2> QED
    BY <1>2, <2>1 DEF Holds, RInv, ReadyOnce, n
<1>5. OnePlace'
  <2> SUFFICES ASSUME NEW p \in Peers
               PROVE  /\ WellFormed(stream[p])
                      /\ Holds(stream[p], "push") => ~Holds(ready', p) /\ held' # p /\ posted[p] = 0
                      /\ Holds(ready', p) => held' # p /\ posted[p] = 0
                      /\ held' = p => posted[p] = 0
                      /\ p >= next => /\ stream[p] = <<>> /\ ~Holds(ready', p)
                                      /\ held' # p /\ posted[p] = 0
    BY DEF OnePlace, Holds, WellFormed
  <2> QED
    BY <1>3, <1>4 DEF RInv, OnePlace
<1>6. ReadyOnce'
  BY <1>2 DEF RInv, ReadyOnce, n
<1>7. Taken' = Taken \cup {held'} /\ held' \notin Taken
  <2>1. \A p \in Peers : held # p
    BY DEF Peers
  <2>2. posted[held'] = 0
    BY <1>2, <1>3 DEF RInv, OnePlace
  <2> QED
    BY <1>2, <2>1, <2>2 DEF Taken
<1>8. TakenCounted'
  <2>1. Cardinality(Taken') = Cardinality(Taken) + 1
    BY <1>7, TakenType, FS_AddElement
  <2>2. Cardinality(Taken) \in Nat
    BY TakenType
  <2> QED
    BY <1>1, <1>2, <2>1, <2>2 DEF RInv, TakenCounted
<1> QED
  BY <1>1, <1>2, <1>5, <1>6, <1>8, NType DEF Places, DirectSends

\* The poster posts the send of the peer in hand.
LEMMA PostPlaces ==
    ASSUME RInv, ~call.direct, held \in Peers, PostHeld,
           UNCHANGED <<call, next, left, sendError, ready, stream>>
    PROVE  Places' /\ posted' \in [Peers -> {0, 1}] /\ posted[held] = 0
<1>1. /\ posted \in [Peers -> {0, 1}] /\ posted[held] = 0 /\ held' = 0
      /\ posted' = [posted EXCEPT ![held] = posted[held] + 1]
  BY DEF RInv, Typed, OnePlace, PostHeld
<1>2. posted' = [posted EXCEPT ![held] = 1]
  BY <1>1
<1>3. posted' \in [Peers -> {0, 1}] /\ \A p \in Peers : posted'[p] = IF p = held THEN 1 ELSE posted[p]
  BY <1>1, <1>2
<1>4. \A p \in Peers : held' # p
  BY <1>1 DEF Peers
<1>5. OnePlace'
  <2> SUFFICES ASSUME NEW p \in Peers
               PROVE  /\ WellFormed(stream[p])
                      /\ Holds(stream[p], "push") => ~Holds(ready, p) /\ held' # p /\ posted'[p] = 0
                      /\ Holds(ready, p) => held' # p /\ posted'[p] = 0
                      /\ held' = p => posted'[p] = 0
                      /\ p >= next => /\ stream[p] = <<>> /\ ~Holds(ready, p)
                                      /\ held' # p /\ posted'[p] = 0
    BY DEF OnePlace, Holds, WellFormed
  <2> QED
    BY <1>3, <1>4 DEF RInv, OnePlace
<1>6. Taken' = Taken
  BY <1>3, <1>4 DEF Taken
<1>7. ReadyOnce' /\ DirectSends' /\ TakenCounted'
  BY <1>6 DEF RInv, ReadyOnce, DirectSends, TakenCounted
<1> QED
  BY <1>1, <1>3, <1>5, <1>7 DEF Places

\* What one configuration excludes of another.
LEMMA Configuration ==
    ASSUME call \in Calls
    PROVE  call.direct \in BOOLEAN /\ call.unpack \in BOOLEAN /\ Threaded(call) \in BOOLEAN
           /\ (call.direct => ~Threaded(call))
  BY DEF Calls, Settings, Threaded

-----------------------------------------------------------------------------
(***************************************************************************)
(* The calling thread's steps.                                             *)
(***************************************************************************)

LEMMA BeginStep == RInv /\ Begin => RInv'
<1> SUFFICES ASSUME RInv, Begin PROVE RInv'
  OBVIOUS
<1> USE DEF threadVars, sharedVars, mpiVars, dataVars
<1>1. Places'
  BY PlacesUntouched DEF Begin
<1>2. Typed'
  BY PhasesExpanded, Configuration DEF RInv, Typed, Begin
<1>3. Posters'
  BY Configuration DEF RInv, Typed, Posters, Begin
<1>4. Progress'
  BY Configuration DEF RInv, Typed, Posters, Progress, Begin, StreamsIdle, Threaded
<1>5. Arrivals'
  BY DEF RInv, Arrivals, Begin, Holds
<1> QED
  BY <1>1, <1>2, <1>3, <1>4, <1>5 DEF RInv, Places

LEMMA SendDirectStep == RInv /\ SendDirect => RInv'
<1> SUFFICES ASSUME RInv, SendDirect PROVE RInv'
  OBVIOUS
<1> USE DEF threadVars, sharedVars, mpiVars, dataVars
<1>0. call.direct /\ ~Threaded(call) /\ pc = "direct"
  BY Configuration DEF RInv, Typed, Posters, SendDirect
<1>1. CASE next <= N
  <2>1. next \in Peers /\ posted[next] = 0 /\ next' = next + 1 /\ next + 1 \in 1 .. N + 1
    <3>1. next \in Peers
      BY <1>1, NType DEF RInv, Typed, Peers
    <3>2. next >= next
      BY <3>1 DEF Peers
    <3>3. posted[next] = 0
      BY <3>1, <3>2 DEF RInv, OnePlace
    <3> QED
      BY <1>1, <3>1, <3>3, NType DEF SendDirect, Peers
  <2>2. /\ posted' \in [Peers -> {0, 1}]
        /\ \A p \in Peers : posted'[p] = IF p = next THEN 1 ELSE posted[p]
    <3>1. posted' = [posted EXCEPT ![next] = 1]
      BY <1>1, <2>1 DEF SendDirect
    <3> QED
      BY <2>1, <3>1 DEF RInv, Typed
  <2>3. \A p \in Peers : (p >= next' => p >= next /\ p # next) /\ (p < next' => p < next \/ p = next)
    BY <2>1 DEF Peers
  <2>4. OnePlace'
    <3> SUFFICES ASSUME NEW p \in Peers
                 PROVE  /\ WellFormed(stream[p])
                        /\ Holds(stream[p], "push") =>
                               ~Holds(ready, p) /\ held # p /\ posted'[p] = 0
                        /\ Holds(ready, p) => held # p /\ posted'[p] = 0
                        /\ held = p => posted'[p] = 0
                        /\ p >= next' => /\ stream[p] = <<>> /\ ~Holds(ready, p)
                                         /\ held # p /\ posted'[p] = 0
      BY DEF OnePlace, Holds, WellFormed, SendDirect
    <3>1. CASE p = next
      BY <3>1, <1>0, <2>1, <2>2, <2>3 DEF RInv, OnePlace, DirectSends, Holds
    <3>2. CASE p # next
      BY <3>2, <2>2, <2>3 DEF RInv, OnePlace
    <3> QED
      BY <3>1, <3>2
  <2>5. DirectSends'
    BY <1>0, <2>2, <2>3 DEF RInv, DirectSends, SendDirect, Holds
  <2>6. ReadyOnce' /\ TakenCounted'
    BY <1>0 DEF RInv, ReadyOnce, TakenCounted, SendDirect
  <2>7. Typed'
    BY <1>1, <2>1, <2>2, PhasesExpanded DEF RInv, Typed, SendDirect
  <2>8. Posters' /\ Progress' /\ Arrivals'
    BY <1>0, <1>1 DEF RInv, Posters, Progress, Arrivals, SendDirect, StreamsIdle, Holds, Threaded
  <2> QED
    BY <2>4, <2>5, <2>6, <2>7, <2>8 DEF RInv
<1>2. CASE ~(next <= N)
  <2>1. next = N + 1
    BY <1>2, NType DEF RInv, Typed
  <2>2. Places'
    BY <1>2, PlacesUntouched DEF SendDirect
  <2>3. Typed'
    BY <1>2, PhasesExpanded DEF RInv, Typed, SendDirect
  <2>4. Posters' /\ Arrivals'
    BY <1>0, <1>2 DEF RInv, Posters, Arrivals, SendDirect, StreamsIdle, Holds, Threaded
  <2>5. Progress'
    BY <1>0, <1>2, <2>1 DEF RInv, Posters, Progress, SendDirect, StreamsIdle, Threaded
  <2> QED
    BY <2>2, <2>3, <2>4, <2>5 DEF RInv, Places
<1> QED
  BY <1>1, <1>2

LEMMA PackStep == RInv /\ Pack => RInv'
<1> SUFFICES ASSUME RInv, Pack PROVE RInv'
  OBVIOUS
<1> USE DEF threadVars, sharedVars, mpiVars, dataVars
<1>0. ~call.direct /\ pc = "pack"
  BY Configuration DEF RInv, Typed, Posters, Pack
<1>1. CASE next <= N
  <2>1. next \in Peers /\ next' = next + 1 /\ next + 1 \in 1 .. N + 1
    BY <1>1, NType DEF RInv, Typed, Peers, Pack
  <2>2. stream[next] = <<>> /\ ~Holds(ready, next) /\ held # next /\ posted[next] = 0
    <3>1. next >= next
      BY <2>1 DEF Peers
    <3> QED
      BY <2>1, <3>1 DEF RInv, OnePlace
  <2> DEFINE t == <<>> \o PackAndReport
  <2>3. t \in Seq(Works) /\ WellFormed(t)
    BY PackQueued
  <2>4. stream' = [stream EXCEPT ![next] = t]
    BY <1>1, <2>2 DEF Pack
  <2> HIDE DEF t
  <2>5. /\ stream' \in [Peers -> Seq(Works)]
        /\ \A p \in Peers : stream'[p] = IF p = next THEN t ELSE stream[p]
    BY <2>1, <2>3, <2>4 DEF RInv, Typed
  <2>6. \A p \in Peers : p >= next' => p >= next /\ p # next
    BY <2>1 DEF Peers
  <2>7. OnePlace'
    <3> SUFFICES ASSUME NEW p \in Peers
                 PROVE  /\ WellFormed(stream'[p])
                        /\ Holds(stream'[p], "push") =>
                               ~Holds(ready, p) /\ held # p /\ posted[p] = 0
                        /\ Holds(ready, p) => held # p /\ posted[p] = 0
                        /\ held = p => posted[p] = 0
                        /\ p >= next' => /\ stream'[p] = <<>> /\ ~Holds(ready, p)
                                         /\ held # p /\ posted[p] = 0
      BY DEF OnePlace, Holds, WellFormed, Pack
    <3>1. CASE p = next
      BY <3>1, <2>2, <2>3, <2>5, <2>6
    <3>2. CASE p # next
      BY <3>2, <2>5, <2>6 DEF RInv, OnePlace
    <3> QED
      BY <3>1, <3>2
  <2>8. ReadyOnce' /\ DirectSends'
    BY <1>0 DEF RInv, ReadyOnce, DirectSends, Pack
  <2>9. TakenCounted'
    <3>1. Taken' = Taken
      BY DEF Taken, Pack
    <3> QED
      BY <3>1 DEF RInv, TakenCounted, Pack
  <2>10. Typed'
    BY <1>1, <2>1, <2>5, PhasesExpanded DEF RInv, Typed, Pack
  <2>11. Posters'
    BY <1>0, <1>1 DEF RInv, Posters, Pack
  <2>12. Progress'
    <3>1. Threaded(call) => joinable
      BY <1>0 DEF RInv, Typed, Posters
    <3> QED
      BY <1>0, <1>1, <3>1 DEF RInv, Posters, Progress, Pack
  <2>13. Arrivals'
    <3>1. \A p \in Peers : Holds(stream[p], "unpack") => Holds(stream'[p], "unpack")
      BY <2>2, <2>5 DEF Holds
    <3> QED
      BY <1>1, <3>1 DEF RInv, Typed, Arrivals, Pack
  <2> QED
    BY <2>7, <2>8, <2>9, <2>10, <2>11, <2>12, <2>13 DEF RInv
<1>2. CASE ~(next <= N)
  <2>1. next = N + 1
    BY <1>2, NType DEF RInv, Typed
  <2>2. Places'
    BY <1>2, PlacesUntouched DEF Pack
  <2>3. Typed'
    BY <1>2, PhasesExpanded DEF RInv, Typed, Pack
  <2>4. Posters' /\ Arrivals'
    BY <1>0, <1>2 DEF RInv, Posters, Arrivals, Pack, StreamsIdle, Holds
  <2>5. Progress'
    BY <1>0, <1>2, <2>1 DEF RInv, Posters, Progress, Pack, StreamsIdle
  <2> QED
    BY <2>2, <2>3, <2>4, <2>5 DEF RInv, Places
<1> QED
  BY <1>1, <1>2

LEMMA PostInlineStep == RInv /\ PostInline => RInv'
<1> SUFFICES ASSUME RInv, PostInline PROVE RInv'
  OBVIOUS
<1> USE DEF threadVars, sharedVars, mpiVars, dataVars
<1>0. pc \in {"post", "send"} /\ ~call.direct /\ thread = "none" /\ ~Threaded(call) /\ next = N + 1
  BY DEF RInv, Typed, Posters, Progress, PostInline
<1>1. CASE pc = "post" /\ left > 0 /\ Take /\ pc' = "send" /\ UNCHANGED posted
  <2>1. held = 0
    BY <1>0, <1>1 DEF RInv, Posters
  <2>2. Places' /\ held' \in Peers /\ left' \in 0 .. N /\ ready' \in Seq(Peers)
    BY <1>0, <1>1, <2>1, TakePlaces DEF PostInline
  <2>3. Typed'
    BY <1>1, <2>2, PhasesExpanded DEF RInv, Typed, PostInline, Peers
  <2>4. Posters' /\ Progress' /\ Arrivals'
    BY <1>0, <1>1, <2>2 DEF RInv, Posters, Progress, Arrivals, PostInline, StreamsIdle, Holds
  <2> QED
    BY <2>2, <2>3, <2>4 DEF RInv, Places
<1>2. CASE /\ pc = "post" /\ pc' \in {"asleep", "waitRecv"} /\ UNCHANGED <<held, left, ready, posted>>
           /\ pc' = "waitRecv" => left = 0
  <2>1. Places'
    BY <1>2, PlacesUntouched DEF PostInline
  <2>2. Typed'
    BY <1>2, PhasesExpanded DEF RInv, Typed, PostInline
  <2>3. Posters' /\ Progress' /\ Arrivals'
    BY <1>0, <1>2 DEF RInv, Posters, Progress, Arrivals, PostInline, StreamsIdle, Holds
  <2> QED
    BY <2>1, <2>2, <2>3 DEF RInv, Places
<1>3. CASE pc = "send" /\ PostHeld /\ pc' = "post" /\ UNCHANGED <<left, ready>>
  <2>1. held \in Peers
    BY <1>3 DEF RInv, Posters
  <2>2. Places' /\ posted' \in [Peers -> {0, 1}]
    BY <1>0, <1>3, <2>1, PostPlaces DEF PostInline
  <2>3. held' = 0 /\ held' \in 0 .. N
    BY <1>3, NType DEF PostHeld
  <2>4. Typed'
    BY <1>3, <2>2, <2>3, PhasesExpanded DEF RInv, Typed, PostInline
  <2>5. Posters' /\ Progress' /\ Arrivals'
    BY <1>0, <1>3, <2>3 DEF RInv, Posters, Progress, Arrivals, PostInline, StreamsIdle, Holds
  <2> QED
    BY <2>2, <2>4, <2>5 DEF RInv, Places
<1> QED
  BY <1>1, <1>2, <1>3 DEF PostInline

LEMMA WaitRecvStep == RInv /\ WaitRecv => RInv'
<1> SUFFICES ASSUME RInv, WaitRecv PROVE RInv'
  OBVIOUS
<1> USE DEF mainVars, threadVars, sharedVars, mpiVars
<1>1. PICK peers \in SUBSET (arrived \ got) :
           /\ got' = got \cup peers
           /\ stream' = [p \in Peers |-> IF call.unpack /\ p \in peers
                                         THEN Append(stream[p], "unpack") ELSE stream[p]]
  BY DEF WaitRecv
<1>2. stream \in [Peers -> Seq(Works)] /\ next = N + 1 /\ pc = "waitRecv"
  BY DEF RInv, Typed, Progress, WaitRecv
<1>3. \A p \in Peers : /\ stream'[p] \in Seq(Works) /\ WellFormed(stream'[p])
                       /\ Holds(stream'[p], "push") <=> Holds(stream[p], "push")
                       /\ Holds(stream[p], "unpack") => Holds(stream'[p], "unpack")
                       /\ call.unpack /\ p \in peers => Holds(stream'[p], "unpack")
  <2> SUFFICES ASSUME NEW p \in Peers
               PROVE  /\ stream'[p] \in Seq(Works) /\ WellFormed(stream'[p])
                      /\ Holds(stream'[p], "push") <=> Holds(stream[p], "push")
                      /\ Holds(stream[p], "unpack") => Holds(stream'[p], "unpack")
                      /\ call.unpack /\ p \in peers => Holds(stream'[p], "unpack")
    OBVIOUS
  <2>1. stream[p] \in Seq(Works) /\ WellFormed(stream[p])
    BY <1>2 DEF RInv, OnePlace
  <2>2. CASE call.unpack /\ p \in peers
    <3>1. stream'[p] = Append(stream[p], "unpack")
      BY <1>1, <2>2
    <3> QED
      BY <2>1, <3>1, UnpackQueued
  <2>3. CASE ~(call.unpack /\ p \in peers)
    <3>1. stream'[p] = stream[p]
      BY <1>1, <2>3
    <3> QED
      BY <2>1, <2>3, <3>1
  <2> QED
    BY <2>2, <2>3
<1>4. stream' \in [Peers -> Seq(Works)]
  BY <1>1, <1>3
<1>5. \A p \in Peers : ~(p >= next)
  BY <1>2, NType DEF Peers
<1>6. OnePlace'
  <2> SUFFICES ASSUME NEW p \in Peers
               PROVE  /\ WellFormed(stream'[p])
                      /\ Holds(stream'[p], "push") => ~Holds(ready, p) /\ held # p /\ posted[p] = 0
                      /\ Holds(ready, p) => held # p /\ posted[p] = 0
                      /\ held = p => posted[p] = 0
                      /\ p >= next => /\ stream'[p] = <<>> /\ ~Holds(ready, p)
                                      /\ held # p /\ posted[p] = 0
    BY DEF OnePlace, Holds, WellFormed, WaitRecv
  <2> QED
    BY <1>3, <1>5 DEF RInv, OnePlace
<1>7. ReadyOnce'
  BY DEF RInv, ReadyOnce, WaitRecv
<1>8. DirectSends'
  <2> SUFFICES ASSUME call.direct
               PROVE  /\ ready = <<>> /\ held = 0
                      /\ \A p \in Peers : ~Holds(stream'[p], "push") /\ (p < next => posted[p] = 1)
    BY DEF DirectSends, Holds, WaitRecv
  <2> QED
    BY <1>3 DEF RInv, DirectSends
<1>9. TakenCounted'
  <2>1. Taken' = Taken
    BY DEF Taken, WaitRecv
  <2> QED
    BY <2>1 DEF RInv, TakenCounted, WaitRecv
<1>10. Typed'
  BY <1>1, <1>4, PhasesExpanded DEF RInv, Typed, WaitRecv
<1>11. Posters' /\ Progress'
  BY <1>2 DEF RInv, Posters, Progress, WaitRecv
<1>12. Arrivals'
  <2>1. ~call.unpack => arrived' \subseteq output'
    BY DEF RInv, Arrivals, WaitRecv
  <2>2. ASSUME call.unpack, NEW p \in got' PROVE p \in output \/ Holds(stream'[p], "unpack")
    <3>1. p \in Peers /\ (p \in got \/ p \in peers)
      BY <1>1, <2>2 DEF RInv, Typed
    <3> QED
      BY <1>3, <2>2, <3>1 DEF RInv, Arrivals
  <2>3. call' = call /\ output' = output
    BY DEF WaitRecv
  <2> QED
    BY <2>1, <2>2, <2>3 DEF Arrivals, Holds
<1> QED
  BY <1>6, <1>7, <1>8, <1>9, <1>10, <1>11, <1>12 DEF RInv

\* The steps that move the calling thread and its flags only.
LEMMA MainPhaseSteps ==
    ASSUME RInv, EndRecv \/ Sync \/ Join \/ WaitSend \/ Throw
    PROVE  RInv'
<1> USE DEF threadVars, sharedVars, mpiVars, dataVars
<1>1. UNCHANGED <<call, next, held, left, sendError, ready, stream, posted>>
  BY DEF EndRecv, Sync, Join, WaitSend, Throw
<1>2. Places'
  BY <1>1, PlacesUntouched
<1>3. Typed'
  BY PhasesExpanded DEF RInv, Typed, EndRecv, Sync, Join, AfterJoin, WaitSend, Throw
<1>4. Arrivals'
  BY DEF RInv, Arrivals, EndRecv, Sync, Join, WaitSend, Throw, Holds
<1>5. CASE EndRecv
  <2>1. Posters' /\ Progress'
    BY <1>5 DEF EndRecv, RInv, Posters, Progress, StreamsIdle
  <2> QED
    BY <1>2, <1>3, <1>4, <2>1 DEF RInv, Places
<1>6. CASE Sync
  <2>1. Posters' /\ Progress'
    BY <1>6 DEF Sync, RInv, Typed, Posters, Progress, StreamsIdle
  <2> QED
    BY <1>2, <1>3, <1>4, <2>1 DEF RInv, Places
<1>7. CASE Join
  <2>1. Posters' /\ Progress'
    BY <1>7 DEF Join, MayJoin, AfterJoin, RInv, Typed, Posters, Progress, StreamsIdle
  <2> QED
    BY <1>2, <1>3, <1>4, <2>1 DEF RInv, Places
<1>8. CASE WaitSend
  <2>1. \A p \in Peers : posted[p] = 1 => p \in sent
    BY <1>8 DEF WaitSend
  <2>2. Posters' /\ Progress'
    BY <1>8, <2>1 DEF WaitSend, RInv, Posters, Progress, StreamsIdle
  <2> QED
    BY <1>2, <1>3, <1>4, <2>2 DEF RInv, Places
<1>9. CASE Throw
  <2>1. Posters' /\ Progress'
    BY <1>9 DEF Throw, RInv, Posters, Progress, StreamsIdle
  <2> QED
    BY <1>2, <1>3, <1>4, <2>1 DEF RInv, Places
<1> QED
  BY <1>5, <1>6, <1>7, <1>8, <1>9

LEMMA CancelThreadStep == RInv /\ CancelThread => RInv'
<1> SUFFICES ASSUME RInv, CancelThread PROVE RInv'
  OBVIOUS
<1> USE DEF mpiVars, dataVars
<1>1. Places'
  BY PlacesUntouched DEF CancelThread
<1>2. Typed'
  BY PhasesExpanded DEF RInv, Typed, CancelThread, AfterNotify
<1>3. Arrivals'
  BY DEF RInv, Arrivals, CancelThread, Holds
<1>4. Posters' /\ Progress'
  <2>1. CASE /\ pc = "catch"
             /\ cancel' = joinable
             /\ pc' = IF joinable THEN "notifyAll" ELSE "failed"
             /\ UNCHANGED <<thread, joinable>>
    BY <2>1 DEF RInv, Typed, Posters, Progress, CancelThread, StreamsIdle
  <2>2. CASE /\ pc = "notifyAll"
             /\ thread' = IF thread = "asleep" THEN "check" ELSE thread
             /\ pc' = AfterNotify
             /\ UNCHANGED <<cancel, joinable>>
    BY <2>2, PhasesExpanded DEF RInv, Typed, Posters, Progress, CancelThread, StreamsIdle, AfterNotify
  <2>3. CASE pc = "cancelSync" /\ StreamsIdle /\ pc' = "cancelJoin" /\ UNCHANGED <<thread, cancel, joinable>>
    BY <2>3 DEF RInv, Posters, Progress, CancelThread, StreamsIdle
  <2>4. CASE /\ pc = "cancelJoin"
             /\ MayJoin
             /\ joinable' = FALSE
             /\ pc' = "failed"
             /\ UNCHANGED <<thread, cancel>>
    BY <2>4 DEF RInv, Posters, Progress, CancelThread, StreamsIdle, MayJoin
  <2> QED
    BY <2>1, <2>2, <2>3, <2>4 DEF CancelThread
<1> QED
  BY <1>1, <1>2, <1>3, <1>4 DEF RInv, Places

-----------------------------------------------------------------------------
(***************************************************************************)
(* The send thread's steps, the GPU's and MPI's.                           *)
(***************************************************************************)

LEMMA ThreadStepStep == RInv /\ ThreadStep => RInv'
<1> SUFFICES ASSUME RInv, ThreadStep PROVE RInv'
  OBVIOUS
<1> USE DEF mainVars, dataVars
<1>0. thread \in {"check", "send"} /\ ~call.direct /\ pc # "begin" /\ joinable /\ ~sendError
  BY Configuration DEF RInv, Typed, Posters, Progress, ThreadStep
<1>1. CASE thread = "check" /\ left > 0 /\ Take /\ thread' = "send" /\ UNCHANGED posted
  <2>1. held = 0
    BY <1>1 DEF RInv, Posters
  <2>2. Places' /\ held' \in Peers /\ left' \in 0 .. N /\ ready' \in Seq(Peers)
    BY <1>0, <1>1, <2>1, TakePlaces DEF ThreadStep
  <2>3. Typed'
    BY <1>1, <2>2, PhasesExpanded DEF RInv, Typed, ThreadStep, Peers
  <2>4. Posters' /\ Progress' /\ Arrivals'
    BY <1>0, <1>1, <2>2 DEF RInv, Posters, Progress, Arrivals, ThreadStep, StreamsIdle, Holds
  <2> QED
    BY <2>2, <2>3, <2>4 DEF RInv, Places
<1>2. CASE /\ thread = "check" /\ thread' \in {"asleep", "exited"}
           /\ UNCHANGED <<held, left, ready, posted>>
           /\ thread' = "exited" => left = 0 \/ cancel
  <2>1. Places'
    BY <1>2, PlacesUntouched DEF ThreadStep
  <2>2. Typed'
    BY <1>2, PhasesExpanded DEF RInv, Typed, ThreadStep
  <2>3. Posters' /\ Progress' /\ Arrivals'
    BY <1>0, <1>2 DEF RInv, Posters, Progress, Arrivals, ThreadStep, StreamsIdle, Holds
  <2> QED
    BY <2>1, <2>2, <2>3 DEF RInv, Places
<1>3. CASE thread = "send" /\ PostHeld /\ thread' = "check" /\ UNCHANGED <<left, ready>>
  <2>1. held \in Peers
    BY <1>3 DEF RInv, Posters
  <2>2. Places' /\ posted' \in [Peers -> {0, 1}]
    BY <1>0, <1>3, <2>1, PostPlaces DEF ThreadStep
  <2>3. held' = 0 /\ held' \in 0 .. N
    BY <1>3, NType DEF PostHeld
  <2>4. Typed'
    BY <1>3, <2>2, <2>3, PhasesExpanded DEF RInv, Typed, ThreadStep
  <2>5. pc # "returned"
    BY <1>0 DEF RInv, Progress
  <2>6. Posters' /\ Progress' /\ Arrivals'
    BY <1>0, <1>3, <2>3, <2>5 DEF RInv, Posters, Progress, Arrivals, ThreadStep, StreamsIdle, Holds
  <2> QED
    BY <2>2, <2>4, <2>6 DEF RInv, Places
<1> QED
  BY <1>1, <1>2, <1>3 DEF ThreadStep

\* A send that failed leaves the count: the call does not return any more.
LEMMA ThreadFailsStep == RInv /\ ThreadFails => RInv'
<1> SUFFICES ASSUME RInv, ThreadFails PROVE RInv'
  OBVIOUS
<1> USE DEF mainVars, sharedVars, mpiVars, dataVars
<1>0. /\ thread = "send" /\ ~call.direct /\ pc # "begin" /\ joinable
      /\ pc \notin {"waitSend", "returned"}
  BY Configuration DEF RInv, Typed, Posters, Progress, ThreadFails
<1>1. \A p \in Peers : held' # p
  BY DEF ThreadFails, Peers
<1>2. OnePlace'
  <2> SUFFICES ASSUME NEW p \in Peers
               PROVE  /\ WellFormed(stream[p])
                      /\ Holds(stream[p], "push") => ~Holds(ready, p) /\ held' # p /\ posted[p] = 0
                      /\ Holds(ready, p) => held' # p /\ posted[p] = 0
                      /\ held' = p => posted[p] = 0
                      /\ p >= next => /\ stream[p] = <<>> /\ ~Holds(ready, p)
                                      /\ held' # p /\ posted[p] = 0
    BY DEF OnePlace, Holds, WellFormed, ThreadFails
  <2> QED
    BY <1>1 DEF RInv, OnePlace
<1>3. ReadyOnce' /\ DirectSends' /\ TakenCounted'
  BY <1>0 DEF RInv, ReadyOnce, DirectSends, TakenCounted, ThreadFails
<1>4. Typed'
  BY PhasesExpanded, NType DEF RInv, Typed, ThreadFails
<1>5. Posters' /\ Progress' /\ Arrivals'
  BY <1>0 DEF RInv, Posters, Progress, Arrivals, ThreadFails, StreamsIdle, Holds
<1> QED
  BY <1>2, <1>3, <1>4, <1>5 DEF RInv

LEMMA WakeUpStep == RInv /\ WakeUp => RInv'
<1> SUFFICES ASSUME RInv, WakeUp PROVE RInv'
  OBVIOUS
<1> USE DEF sharedVars, mpiVars, dataVars
<1>1. Places'
  BY PlacesUntouched DEF WakeUp
<1>2. Typed'
  BY PhasesExpanded DEF RInv, Typed, WakeUp
<1>3. Posters' /\ Progress' /\ Arrivals'
  BY DEF RInv, Posters, Progress, Arrivals, WakeUp, StreamsIdle, Holds
<1> QED
  BY <1>1, <1>2, <1>3 DEF RInv, Places

LEMMA ArriveStep == ASSUME NEW p \in Peers PROVE RInv /\ Arrive(p) => RInv'
<1> SUFFICES ASSUME RInv, Arrive(p) PROVE RInv'
  OBVIOUS
<1> USE DEF mainVars, threadVars, sharedVars
<1>1. Places'
  BY PlacesUntouched DEF Arrive
<1>2. Typed'
  BY DEF RInv, Typed, Arrive
<1>3. Posters' /\ Progress' /\ Arrivals'
  BY DEF RInv, Posters, Progress, Arrivals, Arrive, StreamsIdle, Holds
<1> QED
  BY <1>1, <1>2, <1>3 DEF RInv, Places

LEMMA CompleteSendStep == ASSUME NEW p \in Peers PROVE RInv /\ CompleteSend(p) => RInv'
<1> SUFFICES ASSUME RInv, CompleteSend(p) PROVE RInv'
  OBVIOUS
<1> USE DEF mainVars, threadVars, sharedVars, dataVars
<1>1. Places'
  BY PlacesUntouched DEF CompleteSend
<1>2. Typed'
  BY DEF RInv, Typed, CompleteSend
<1>3. Posters' /\ Progress' /\ Arrivals'
  BY DEF RInv, Posters, Progress, Arrivals, CompleteSend, StreamsIdle, Holds
<1> QED
  BY <1>1, <1>2, <1>3 DEF RInv, Places

\* The stack with one more peer.
LEMMA Pushed ==
    ASSUME NEW s \in Seq(Peers), NEW p \in Peers
    PROVE  LET t == Append(s, p)
           IN  /\ t \in Seq(Peers) /\ Len(t) = Len(s) + 1 /\ Len(s) \in Nat
               /\ t[Len(t)] = p /\ \A i \in 1 .. Len(s) : t[i] = s[i]
               /\ \A i \in 1 .. Len(t) : i \in 1 .. Len(s) \/ i = Len(t)
<1>1. Append(s, p) \in Seq(Peers) /\ Len(Append(s, p)) = Len(s) + 1 /\ Len(s) \in Nat
  OBVIOUS
<1>2. Append(s, p)[Len(s) + 1] = p /\ \A i \in 1 .. Len(s) : Append(s, p)[i] = s[i]
  OBVIOUS
<1> QED
  BY <1>1, <1>2

\* The head of a stream is done; a report puts its peer on the stack.
LEMMA GpuPlaces ==
    ASSUME RInv, NEW p \in Peers, GpuStep(p)
    PROVE  Places' /\ ready' \in Seq(Peers) /\ stream' \in [Peers -> Seq(Works)]
<1> USE DEF mpiVars
<1> DEFINE s == stream[p]
<1>1. /\ s \in Seq(Works) /\ s # <<>> /\ WellFormed(s) /\ ready \in Seq(Peers)
      /\ stream \in [Peers -> Seq(Works)] /\ next \in 1 .. N + 1
  BY DEF RInv, Typed, OnePlace, GpuStep
<1>2. stream' = [stream EXCEPT ![p] = Tail(s)]
  BY DEF GpuStep
<1>3. /\ Tail(s) \in Seq(Works) /\ WellFormed(Tail(s))
      /\ Head(s) = "push" => ~Holds(Tail(s), "push") /\ Holds(s, "push")
      /\ Holds(Tail(s), "push") => Holds(s, "push")
  <2>1. Head(s) = s[1] /\ 1 \in 1 .. Len(s) /\ Tail(s) \in Seq(Works)
    BY <1>1, TailElements
  <2> QED
    BY <1>1, <2>1, TailHolds, TailWellFormed DEF Holds
<1>4. /\ stream' \in [Peers -> Seq(Works)]
      /\ \A q \in Peers : stream'[q] = IF q = p THEN Tail(s) ELSE stream[q]
  BY <1>1, <1>2, <1>3
<1>5. p < next
  <2>1. ~(p >= next)
    BY <1>1 DEF RInv, OnePlace
  <2> QED
    BY <1>1, <2>1 DEF Peers
<1>6. CASE Head(s) = "push"
  <2>1. Holds(s, "push") /\ ~Holds(ready, p) /\ held # p /\ posted[p] = 0 /\ ~call.direct
    BY <1>3, <1>6 DEF RInv, OnePlace, DirectSends
  <2>2. ready' = Append(ready, p)
    BY <1>6 DEF GpuStep
  <2>3. /\ ready' \in Seq(Peers) /\ Len(ready') = Len(ready) + 1 /\ Len(ready) \in Nat
        /\ ready'[Len(ready')] = p /\ \A i \in 1 .. Len(ready) : ready'[i] = ready[i]
        /\ \A i \in 1 .. Len(ready') : i \in 1 .. Len(ready) \/ i = Len(ready')
    BY <1>1, <2>2, Pushed
  <2>4. \A q \in Peers : Holds(ready', q) => Holds(ready, q) \/ q = p
    BY <2>3 DEF Holds
  <2>5. OnePlace'
    <3> SUFFICES ASSUME NEW q \in Peers
                 PROVE  /\ WellFormed(stream'[q])
                        /\ Holds(stream'[q], "push") =>
                               ~Holds(ready', q) /\ held # q /\ posted[q] = 0
                        /\ Holds(ready', q) => held # q /\ posted[q] = 0
                        /\ held = q => posted[q] = 0
                        /\ q >= next => /\ stream'[q] = <<>> /\ ~Holds(ready', q)
                                        /\ held # q /\ posted[q] = 0
      BY DEF OnePlace, Holds, WellFormed, GpuStep
    <3>1. CASE q = p
      <4>1. ~(q >= next)
        BY <1>1, <1>5, <3>1 DEF Peers
      <4> QED
        BY <1>3, <1>4, <1>6, <2>1, <3>1, <4>1
    <3>2. CASE q # p
      BY <1>4, <2>4, <3>2 DEF RInv, OnePlace
    <3> QED
      BY <3>1, <3>2
  <2>6. ReadyOnce'
    <3> SUFFICES ASSUME NEW i \in 1 .. Len(ready'), NEW j \in 1 .. Len(ready'), ready'[i] = ready'[j]
                 PROVE  i = j
      BY DEF ReadyOnce
    <3>1. \A k \in 1 .. Len(ready) : ready'[k] # p
      BY <2>1, <2>3 DEF Holds
    <3> QED
      BY <2>3, <3>1 DEF RInv, ReadyOnce
  <2>7. DirectSends' /\ TakenCounted'
    <3>1. Taken' = Taken
      BY DEF Taken, GpuStep
    <3> QED
      BY <2>1, <3>1 DEF RInv, DirectSends, TakenCounted, GpuStep
  <2> QED
    BY <1>4, <2>3, <2>5, <2>6, <2>7 DEF Places
<1>7. CASE Head(s) # "push"
  <2>1. ready' = ready
    BY <1>7 DEF GpuStep
  <2>2. \A q \in Peers : /\ WellFormed(stream'[q])
                         /\ Holds(stream'[q], "push") => Holds(stream[q], "push")
    BY <1>3, <1>4 DEF RInv, OnePlace
  <2>3. OnePlace'
    <3> SUFFICES ASSUME NEW q \in Peers
                 PROVE  /\ WellFormed(stream'[q])
                        /\ Holds(stream'[q], "push") =>
                               ~Holds(ready', q) /\ held # q /\ posted[q] = 0
                        /\ Holds(ready', q) => held # q /\ posted[q] = 0
                        /\ held = q => posted[q] = 0
                        /\ q >= next => /\ stream'[q] = <<>> /\ ~Holds(ready', q)
                                        /\ held # q /\ posted[q] = 0
      BY DEF OnePlace, Holds, WellFormed, GpuStep
    <3>1. q >= next => q # p
      BY <1>1, <1>5 DEF Peers
    <3> QED
      BY <1>4, <2>1, <2>2, <3>1 DEF RInv, OnePlace
  <2>4. ReadyOnce'
    BY <2>1 DEF RInv, ReadyOnce
  <2>5. DirectSends'
    <3> SUFFICES ASSUME call.direct
                 PROVE  /\ ready = <<>> /\ held = 0
                        /\ \A q \in Peers : ~Holds(stream'[q], "push") /\ (q < next => posted[q] = 1)
      BY <2>1 DEF DirectSends, Holds, GpuStep
    <3> QED
      BY <2>2 DEF RInv, DirectSends
  <2>6. TakenCounted'
    <3>1. Taken' = Taken
      BY DEF Taken, GpuStep
    <3> QED
      BY <3>1 DEF RInv, TakenCounted, GpuStep
  <2> QED
    BY <1>1, <1>4, <2>1, <2>3, <2>4, <2>5, <2>6 DEF Places
<1> QED
  BY <1>6, <1>7

LEMMA GpuStepStep == ASSUME NEW p \in Peers PROVE RInv /\ GpuStep(p) => RInv'
<1> SUFFICES ASSUME RInv, GpuStep(p) PROVE RInv'
  OBVIOUS
<1> USE DEF mpiVars
<1> DEFINE s == stream[p]
<1>1. Places' /\ ready' \in Seq(Peers) /\ stream' \in [Peers -> Seq(Works)]
  BY GpuPlaces
<1>2. Typed'
  BY <1>1, PhasesExpanded DEF RInv, Typed, GpuStep
<1>3. ~StreamsIdle
  BY DEF StreamsIdle, GpuStep
<1>4. Posters'
  BY DEF RInv, Posters, GpuStep
<1>5. Progress'
  BY <1>3 DEF RInv, Progress, GpuStep
<1>6. Arrivals'
  <2>1. ~call.unpack => arrived' \subseteq output'
    BY DEF RInv, Arrivals, GpuStep
  <2>2. ASSUME call.unpack, NEW q \in got PROVE q \in output' \/ Holds(stream'[q], "unpack")
    <3>1. q \in Peers /\ (q \in output \/ Holds(stream[q], "unpack"))
      BY <2>2 DEF RInv, Typed, Arrivals
    <3>2. output \subseteq output'
      BY DEF GpuStep
    <3>3. stream'[q] = IF q = p THEN Tail(s) ELSE stream[q]
      BY <3>1 DEF RInv, Typed, GpuStep
    <3>4. CASE q = p /\ Holds(s, "unpack")
      <4>1. Holds(Tail(s), "unpack") \/ Head(s) = "unpack"
        BY <3>4, TailHolds DEF RInv, Typed, GpuStep
      <4> QED
        BY <3>3, <3>4, <4>1 DEF GpuStep
    <3> QED
      BY <3>1, <3>2, <3>3, <3>4
  <2>3. call' = call /\ got' = got
    BY DEF GpuStep
  <2> QED
    BY <2>1, <2>2, <2>3 DEF Arrivals, Holds
<1> QED
  BY <1>1, <1>2, <1>4, <1>5, <1>6 DEF RInv, Places

LEMMA StutterStep == RInv /\ UNCHANGED vars => RInv'
<1> SUFFICES ASSUME RInv, UNCHANGED vars PROVE RInv'
  OBVIOUS
<1> USE DEF vars, mainVars, threadVars, sharedVars, mpiVars, dataVars
<1>1. Places'
  BY PlacesUntouched
<1>2. Typed' /\ Posters' /\ Progress' /\ Arrivals'
  BY DEF RInv, Typed, Posters, Progress, Arrivals, StreamsIdle, Holds
<1> QED
  BY <1>1, <1>2 DEF RInv, Places

-----------------------------------------------------------------------------
(***************************************************************************)
(* The invariant holds, and with it what the call promises.                *)
(***************************************************************************)

LEMMA InitRInv == Init => RInv
<1> SUFFICES ASSUME Init PROVE RInv
  OBVIOUS
<1>1. /\ stream \in [Peers -> Seq(Works)] /\ \A p \in Peers : stream[p] = <<>>
      /\ posted \in [Peers -> {0, 1}] /\ \A p \in Peers : posted[p] = 0
      /\ ready = <<>> /\ held = 0
  BY DEF Init, Works
<1>2. Typed
  <2>1. next \in 1 .. N + 1 /\ held \in 0 .. N /\ left \in 0 .. N
    BY <1>1, NType DEF Init
  <2>2. ready \in Seq(Peers)
    BY <1>1
  <2> QED
    BY <1>1, <2>1, <2>2, PhasesExpanded DEF Typed, Init
<1>3. \A p \in Peers : held # p
  BY <1>1 DEF Peers
<1>4. ~Holds(<<>>, "push") /\ ~Holds(<<>>, "pack") /\ WellFormed(<<>>) /\ \A p : ~Holds(<<>>, p)
  <2>1. \A i \in 1 .. Len(<<>>) : FALSE
    OBVIOUS
  <2> QED
    BY <2>1 DEF Holds, WellFormed
<1>5. OnePlace
  BY <1>1, <1>3, <1>4 DEF OnePlace
<1>6. ReadyOnce
  <2>1. \A i \in 1 .. Len(ready) : FALSE
    BY <1>1
  <2> QED
    BY <2>1 DEF ReadyOnce
<1>7. DirectSends
  <2>1. \A p \in Peers : ~(p < next)
    BY DEF Init, Peers
  <2> QED
    BY <1>1, <1>4, <2>1 DEF DirectSends
<1>8. TakenCounted
  <2>1. Taken = {}
    BY <1>1, <1>3 DEF Taken
  <2> QED
    BY <2>1, FS_EmptySet, NType DEF TakenCounted, Init
<1>9. Posters /\ Progress /\ Arrivals
  BY DEF Init, Posters, Progress, Arrivals
<1> QED
  BY <1>2, <1>5, <1>6, <1>7, <1>8, <1>9 DEF RInv

LEMMA NextRInv == RInv /\ [Next]_vars => RInv'
<1> SUFFICES ASSUME RInv, [Next]_vars PROVE RInv'
  OBVIOUS
<1>1. CASE MainStep
  BY <1>1, BeginStep, SendDirectStep, PackStep, PostInlineStep, WaitRecvStep, MainPhaseSteps,
     CancelThreadStep DEF MainStep
<1>2. CASE Throw
  BY <1>2, MainPhaseSteps
<1>3. CASE ThreadStep \/ ThreadFails \/ WakeUp
  BY <1>3, ThreadStepStep, ThreadFailsStep, WakeUpStep
<1>4. CASE EnvironmentStep
  BY <1>4, GpuStepStep, ArriveStep, CompleteSendStep DEF EnvironmentStep
<1>5. CASE Finished \/ UNCHANGED vars
  BY <1>5, StutterStep DEF Finished
<1> QED
  BY <1>1, <1>2, <1>3, <1>4, <1>5 DEF Next

LEMMA RInvHolds == Spec => []RInv
<1> QED
  BY InitRInv, NextRInv, PTL DEF Spec

\* No peer is on the stack twice, so that it never outgrows the row.
LEMMA StackBound == RInv => Len(ready) <= N
<1> SUFFICES ASSUME RInv PROVE Len(ready) <= N
  OBVIOUS
<1>1. ready \in Seq(Peers) /\ Len(ready) \in Nat
  BY DEF RInv, Typed
<1> DEFINE n == Len(ready)
           S == 1 .. n
           f == [i \in S |-> ready[i]]
<1>2. \A i \in S : ready[i] \in Peers
  BY <1>1
<1>3. IsFiniteSet(Peers) /\ Cardinality(Peers) = N
  <2>1. 1 \in Int /\ N \in Int
    BY NType
  <2> QED
    BY <2>1, NType, FS_Interval DEF Peers
<1>4. IsFiniteSet(S) /\ Cardinality(S) = n
  <2>1. 1 \in Int /\ n \in Int /\ n >= 0
    BY <1>1
  <2>2. IsFiniteSet(S) /\ Cardinality(S) = IF 1 > n THEN 0 ELSE n - 1 + 1
    BY <2>1, FS_Interval
  <2> QED
    BY <2>1, <2>2
<1>5. ASSUME N < n PROVE FALSE
  <2>1. f \in [S -> Peers]
    BY <1>2
  <2>2. \E i, j \in S : i # j /\ f[i] = f[j]
    <3> HIDE DEF S, f
    <3> QED
      BY <1>3, <1>4, <1>5, <2>1, FS_PigeonHole
  <2> QED
    BY <2>2 DEF RInv, ReadyOnce
<1> QED
  BY <1>1, <1>5, NType

\* Every variable keeps its type in every call, and the stack of ready peers, reserved
\* once for the row, is never outgrown.
THEOREM TypeCorrect == Spec => []TypeOK
<1>1. RInv => TypeOK
  <2> SUFFICES ASSUME RInv PROVE TypeOK
    OBVIOUS
  <2>1. posted \in [Peers -> 0 .. N]
    BY NType DEF RInv, Typed
  <2> QED
    BY <2>1, StackBound DEF RInv, Typed, TypeOK, Works
<1> QED
  BY <1>1, RInvHolds, PTL

\* No send is posted twice, whichever thread posts it, and none before the copy its
\* callback follows on the stream is done.
THEOREM SentOncePackedCorrect == Spec => []SentOncePacked
<1>1. RInv => SentOncePacked
  <2> SUFFICES ASSUME RInv, NEW p \in Peers
               PROVE  /\ posted[p] <= 1
                      /\ posted[p] = 1 \/ held = p =>
                             /\ p < next
                             /\ \A i \in 1 .. Len(stream[p]) : stream[p][i] # "pack"
    BY DEF SentOncePacked
  <2>1. posted[p] \in {0, 1} /\ next \in 1 .. N + 1
    BY DEF RInv, Typed
  <2>2. ASSUME posted[p] = 1 \/ held = p
        PROVE  p < next /\ ~Holds(stream[p], "pack")
    <3>1. ~(p >= next) /\ ~Holds(stream[p], "push")
      BY <2>1, <2>2 DEF RInv, OnePlace
    <3>2. ~Holds(stream[p], "pack")
      BY <3>1 DEF RInv, OnePlace, WellFormed
    <3> QED
      BY <2>1, <3>1, <3>2 DEF Peers
  <2> QED
    BY <2>1, <2>2 DEF Holds
<1> QED
  BY <1>1, RInvHolds, PTL

\* The poster that has nothing left has posted every send, unless one failed.
LEMMA AllTaken == RInv /\ ~call.direct /\ ~sendError /\ left = 0 /\ held = 0 =>
                      \A p \in Peers : posted[p] = 1
<1> SUFFICES ASSUME RInv, ~call.direct, ~sendError, left = 0, held = 0 PROVE \A p \in Peers : posted[p] = 1
  OBVIOUS
<1>1. Cardinality(Taken) = N
  <2>1. left + Cardinality(Taken) = N
    BY DEF RInv, TakenCounted
  <2> QED
    BY <2>1, TakenType
<1>2. Taken = Peers
  BY <1>1, TakenType
<1> QED
  BY <1>2 DEF Taken, Peers

\* A call that returns has posted and completed every send and has every chunk in the
\* output, whatever the order of its two threads, the GPU and MPI.
THEOREM CompleteOnReturnCorrect == Spec => []CompleteOnReturn
<1>1. RInv => CompleteOnReturn
  <2> SUFFICES ASSUME RInv, pc = "returned"
               PROVE  ~sendError /\ (\A p \in Peers : posted[p] = 1 /\ p \in sent) /\ output = Peers
    BY DEF CompleteOnReturn
  <2>1. /\ ~sendError /\ ~joinable /\ next = N + 1 /\ got = Peers /\ StreamsIdle /\ ~cancel
        /\ thread \in {"none", "exited"} /\ call \in Calls
    BY DEF RInv, Typed, Posters, Progress
  <2>2. \A p \in Peers : posted[p] = 1
    <3>1. CASE call.direct
      <4>1. \A p \in Peers : p < next
        BY <2>1, NType DEF Peers
      <4> QED
        BY <3>1, <4>1 DEF RInv, DirectSends
    <3>2. CASE ~call.direct
      <4>1. left = 0 /\ held = 0
        BY <2>1, <3>2 DEF RInv, Typed, Posters, Progress
      <4> QED
        BY <2>1, <3>2, <4>1, AllTaken
    <3> QED
      BY <3>1, <3>2
  <2>3. \A p \in Peers : p \in sent
    BY <2>2 DEF RInv, Progress
  <2>4. \A p \in Peers : p \in output
    <3> SUFFICES ASSUME NEW p \in Peers PROVE p \in output
      OBVIOUS
    <3>1. ~Holds(stream[p], "unpack")
      <4>1. stream[p] = <<>>
        BY <2>1 DEF StreamsIdle
      <4>2. \A i \in 1 .. Len(stream[p]) : FALSE
        BY <4>1
      <4> QED
        BY <4>2 DEF Holds
    <3> QED
      BY <2>1, <3>1, Configuration DEF RInv, Typed, Arrivals
  <2> QED
    BY <2>1, <2>2, <2>3, <2>4 DEF RInv, Typed
<1> QED
  BY <1>1, RInvHolds, PTL

\* A call that returned, or failed after it had started the send thread, leaves no
\* thread and no callback behind that uses its stack frame.
THEOREM QuietAtEndCorrect == Spec => []QuietAtEnd
<1>1. RInv => QuietAtEnd
  <2> SUFFICES ASSUME RInv, pc = "returned" \/ (pc = "failed" /\ Threaded(call))
               PROVE  thread \in {"none", "exited"} /\ StreamsIdle
    BY DEF QuietAtEnd
  <2>1. ~joinable
    BY DEF RInv, Typed, Posters, Progress
  <2> QED
    BY <2>1 DEF RInv, Posters, Progress
<1> QED
  BY <1>1, RInvHolds, PTL

=============================================================================
