------------------------ MODULE AutotuneMeasure_proofs ------------------------
(***************************************************************************)
(* Proofs about the measured autotuner, for any number of ranks,           *)
(* candidates, iterations and jobs, and any moment of a crash.             *)
(*                                                                         *)
(* What the ranks do together (the order of their collectives, their       *)
(* verdicts and selections) holds where a candidate that fails does so on  *)
(* every rank (Alone = {}): a failure on one rank breaks the order of the  *)
(* collectives, as the run am_alone shows.  The cache file needs no such   *)
(* condition: rank 0 alone writes it, and what it knows of its own sweep   *)
(* is enough, whatever happens to the others.                              *)
(*                                                                         *)
(* The argument is that of a program in lock step.  A rank's next call of  *)
(* a collective is a function of its last one, so that two ranks make the  *)
(* same calls as far as both have come; a call that ended therefore tells  *)
(* what its peers have done, and rank 0 in particular: the values it       *)
(* broadcasts, and the file, are final when another rank reads them.       *)
(***************************************************************************)
EXTENDS AutotuneMeasure, FiniteSetTheorems, SequenceTheorems, WellFoundedInduction, TLAPS

-----------------------------------------------------------------------------
(***************************************************************************)
(* The order of the collectives.                                           *)
(***************************************************************************)

LocalSteps == {"plan", "arrays", "check", "verify"}

\* The positions of the script that call a collective, and those at which a
\* candidate fails, on every rank.
Calling == {i \in 1 .. Len(Script) : Script[i] \notin LocalSteps}
Breaking == [c \in Candidates |-> {i \in 1 .. Len(Script) : Throws(0, c, Script[i])}]

\* The candidates that run to the end, and those of them that can win.
Good == {c \in Candidates : Breaking[c] = {}}
Usable == {c \in Good : Timed(c)}

InventoryPoint == [what |-> "gather", cand |-> None, step |-> "inventory"]
StatePoint     == [what |-> "bcast", cand |-> None, step |-> "state"]
WinnerPoint    == [what |-> "bcast", cand |-> None, step |-> "winner"]
SavedPoint     == [what |-> "bcast", cand |-> None, step |-> "saved"]
BarrierPoint   == [what |-> "barrier", cand |-> None, step |-> "savedBarrier"]
MeasurePoint ==
    [c \in Candidates |-> [s \in 1 .. Voting |->
        [what |-> IF s = Voting THEN "min" ELSE Script[s], cand |-> c, step |-> s]]]

\* What a step of the script is, and a call of a collective.
Words == {"barrier", "plan", "split", "arrays", "transform", "max", "check", "verify"}
Points == [what : Words \cup {"gather", "bcast", "min"}, cand : Candidates \cup {None},
           step : {"inventory", "state", "winner", "saved", "savedBarrier"} \cup Nat]

\* The call after a candidate, and after its evaluator.
AfterCandidate == [c \in Candidates |-> IF c < N THEN MeasurePoint[c + 1][1] ELSE WinnerPoint]
AfterEvaluator == [c \in Candidates |-> IF Is4D THEN MeasurePoint[c][Voting] ELSE AfterCandidate[c]]

\* The call a candidate comes to first from a position of its script on, if any.
Reached ==
    [c \in Candidates |-> [s \in 1 .. Voting |->
        {j \in Calling : s <= j /\ \A i \in s .. j - 1 : i \notin Calling /\ i \notin Breaking[c]}]]

Onward ==
    [c \in Candidates |-> [s \in 1 .. Voting |->
        IF Reached[c][s] = {} THEN AfterEvaluator[c]
        ELSE MeasurePoint[c][CHOOSE j \in Reached[c][s] : TRUE]]]

\* The call that follows a call, if another one comes.
Follows ==
    [p \in Points |->
        IF p.cand # None THEN IF p.step = Voting THEN AfterCandidate[p.cand]
                              ELSE Onward[p.cand][p.step + 1]
        ELSE IF p.step = "inventory" THEN StatePoint
        ELSE IF p.step = "state" THEN MeasurePoint[1][1]
        ELSE IF p.step = "winner" THEN SavedPoint
        ELSE BarrierPoint]

\* The call a rank is in, or comes to next if it makes one.
Coming ==
    [r \in Ranks |->
        IF pc[r] = "measure" THEN Onward[cand[r]][step[r]]
        ELSE IF pc[r] = "inventory" THEN InventoryPoint
        ELSE IF pc[r] \in {"inspect", "state"} THEN StatePoint
        ELSE IF pc[r] \in {"choose", "winner"} THEN WinnerPoint
        ELSE IF pc[r] \in {"open", "write", "rename", "saved"} THEN SavedPoint
        ELSE BarrierPoint]

Phases == {"inventory", "inspect", "state", "measure", "choose", "winner", "open", "write", "rename",
           "saved", "savedBarrier", "load", "returned", "failed", "dead"}
LivePhases == {"inventory", "inspect", "state", "measure", "choose", "winner", "open", "write",
               "rename", "saved", "savedBarrier"}
CallPhases == {"inventory", "state", "measure", "winner", "saved", "savedBarrier"}
RootPhases == {"inspect", "choose", "open", "write", "rename"}

\* The calls a rank has made.
Made == [r \in Ranks |-> {calls[r][i] : i \in 1 .. Len(calls[r])}]

-----------------------------------------------------------------------------
(***************************************************************************)
(* The inductive invariant.                                                *)
(***************************************************************************)
Files == {NoFile, Partial} \cup PolicyFiles \cup MeasuredFile

Typed ==
    /\ pc \in [Ranks -> Phases]
    /\ \A r \in Ranks : pc[r] \in RootPhases => r = 0
    /\ cand \in [Ranks -> Candidates]
    /\ step \in [Ranks -> 1 .. Voting]
    /\ \A r \in Ranks : pc[r] = "measure" /\ ~Is4D => step[r] # Voting
    /\ calls \in [Ranks -> Seq(Points)]
    /\ inside \subseteq Ranks
    /\ passed \in [Ranks -> SUBSET Candidates]
    /\ valid \in [Ranks -> SUBSET Candidates]
    /\ selected \in [Ranks -> Candidates \cup {None}]
    /\ state \in 0 .. 3 /\ winner \in Candidates \cup {None} /\ saveError \in BOOLEAN
    /\ fate \in Fates /\ ms \in Millis
    /\ request \in Requests /\ job \in 1 .. Jobs
    /\ cache \in Files /\ tmp \in Files
    /\ \A r, q \in Ranks : pc[r] = "dead" => pc[q] = "dead"

\* A rank's calls follow one another, and its place follows them.
LockStep ==
    \A r \in Ranks :
        /\ r \in inside => /\ calls[r] # <<>> /\ calls[r][Len(calls[r])] = Coming[r]
                           /\ pc[r] \in CallPhases
                           /\ pc[r] = "measure" => step[r] \in Calling \cup {Voting}
        /\ r \notin inside /\ pc[r] \in LivePhases =>
               IF calls[r] = <<>> THEN pc[r] = "inventory"
               ELSE pc[r] # "inventory" /\ Follows[calls[r][Len(calls[r])]] = Coming[r]
        /\ calls[r] # <<>> => calls[r][1] = InventoryPoint /\ pc[r] # "dead"
        /\ \A i \in 1 .. Len(calls[r]) - 1 : calls[r][i + 1] = Follows[calls[r][i]]

\* Two ranks made the same calls, as far as both have come.
SamePrefix ==
    \A r, q \in Ranks : \A i \in 1 .. Len(calls[r]) :
        i \in 1 .. Len(calls[q]) => calls[r][i] = calls[q][i]

\* What a call that was made says of the rank that made it.
MadeBefore ==
    \A r \in Ranks :
        /\ StatePoint \in Made[r] => pc[r] \notin {"inventory", "inspect"}
        /\ WinnerPoint \in Made[r] => pc[r] \notin {"inventory", "inspect", "state", "measure", "choose"}
        /\ SavedPoint \in Made[r] =>
               pc[r] \in {"saved", "savedBarrier", "load", "returned", "failed"}
        /\ BarrierPoint \in Made[r] => pc[r] \in {"savedBarrier", "load", "returned", "failed"}
        /\ \A c \in Candidates : MeasurePoint[c][Voting] \in Made[r] =>
               /\ pc[r] \notin {"inventory", "inspect", "state"}
               /\ pc[r] = "measure" => c < cand[r] \/ (c = cand[r] /\ step[r] = Voting)
               /\ c \in passed[r] <=> c \in Good

\* The candidates a measuring rank has done with.
Over == [r \in Ranks |-> {c \in Candidates : c < cand[r] \/ (c = cand[r] /\ step[r] = Voting)}]

HasSwept(r) ==
    \/ pc[r] \in {"choose", "winner", "open", "write", "rename", "saved", "savedBarrier"}
    \/ pc[r] \in {"load", "returned"} /\ state = 1

\* How far each rank's sweep is, and what it found.
Sweeping ==
    \A r \in Ranks :
        /\ pc[r] \in {"inventory", "inspect", "state"} =>
               passed[r] = {} /\ valid[r] = {} /\ cand[r] = 1 /\ step[r] = 1
        /\ pc[r] = "measure" =>
               /\ passed[r] = Good \cap Over[r] /\ valid[r] = Usable \cap Over[r]
               /\ step[r] # Voting => \A i \in 1 .. step[r] - 1 : i \notin Breaking[cand[r]]
               /\ ~request.continue => Over[r] \subseteq Good
        /\ HasSwept(r) => /\ valid[r] = Usable
                          /\ ~request.continue => Good = Candidates

\* A rank that has read a broadcast value finds it final.
Final ==
    \A r \in Ranks :
        /\ pc[r] \in {"measure", "choose", "winner", "open", "write", "rename", "saved",
                      "savedBarrier"} => state = 1
        /\ pc[r] \in {"load", "returned"} => state \in {0, 1}
        /\ pc[r] \notin {"inventory", "inspect", "state", "dead"} =>
               pc[0] \notin {"inventory", "inspect"}
        /\ HasSwept(r) /\ pc[r] \notin {"choose", "winner"} => winner # None
        /\ pc[r] = "savedBarrier" => pc[0] \in {"saved", "savedBarrier", "load", "returned", "failed"}
        /\ pc[r] \in {"load", "returned"} /\ state = 1 =>
               ~saveError /\ pc[0] \in {"savedBarrier", "load", "returned", "failed"}

\* Rank 0, the values it broadcasts and the file it writes.
Saving ==
    /\ winner # None =>
           /\ state = 1 /\ Usable # {} /\ valid[0] = Usable
           /\ pc[0] \notin {"inventory", "inspect", "state", "measure", "choose"}
    /\ pc[0] = "write" => tmp = Partial
    /\ pc[0] = "rename" => tmp = Content
    /\ saveError => state = 1 /\ pc[0] \in {"saved", "savedBarrier", "failed", "dead"}
    /\ winner # None /\ ~saveError
       /\ pc[0] \in {"saved", "savedBarrier", "load", "returned", "failed"} => cache = Content
    /\ cache # Partial
    /\ cache.kind = "measured" => cache.valid # {}
    /\ state = 1 /\ cache.kind = "measured"
       /\ pc[0] \in {"state", "measure", "choose", "winner", "open", "write", "rename"} =>
           cache.problem # request.problem

\* What a rank makes of the file.
Chosen == Selection(cache)
Refused == Chosen = None /\ ~PolicyServes

\* Why a rank has failed; a rank that has returned excludes each of the reasons.
Verdicts ==
    \A r \in Ranks :
        /\ pc[r] = "failed" =>
               \/ state \in {2, 3}
               \/ state = 1 /\ ~request.continue /\ Good # Candidates
               \/ state = 1 /\ winner = None /\ pc[0] \in {"winner", "failed"}
               \/ saveError
               \/ Refused /\ \/ state = 0
                             \/ /\ state = 1 /\ winner # None
                                /\ pc[0] \in {"savedBarrier", "load", "returned", "failed"}
        /\ pc[r] = "returned" => selected[r] = Chosen /\ ~Refused

\* A rank's own place: it is in a call only where it makes one, and begins its
\* sweep with the first candidate.
InCall ==
    \A r \in inside :
        pc[r] \in CallPhases /\ (pc[r] = "measure" => step[r] \in Calling \cup {Voting})

Fresh ==
    \A r \in Ranks : pc[r] \in {"inventory", "inspect", "state"} => cand[r] = 1 /\ step[r] = 1

Own == Typed /\ InCall /\ Fresh

\* What rank 0 knows without its peers: the candidates it calls valid ran to the
\* end on rank 0, and the file is renamed from what it wrote.
RootSweep ==
    /\ pc[0] = "measure" /\ step[0] # Voting => \A i \in 1 .. step[0] - 1 : i \notin Breaking[cand[0]]
    /\ valid[0] \subseteq Good

RootFile ==
    /\ pc[0] \in {"measure", "choose", "winner", "open", "write", "rename", "saved"} => state = 1
    /\ pc[0] = "winner" /\ winner # None => valid[0] # {}
    /\ pc[0] \in {"open", "write", "rename", "saved"} => valid[0] # {}
    /\ pc[0] = "rename" => tmp = Content
    /\ pc[0] = "saved" /\ ~saveError => cache = Content
    /\ cache # Partial
    /\ cache.kind = "measured" => cache.valid # {}
    /\ state = 1 /\ cache.kind = "measured"
       /\ pc[0] \in {"state", "measure", "choose", "winner", "open", "write", "rename"} =>
           cache.problem # request.problem

\* The invariant of each rank on its own, which holds whatever fails on which rank.
Kept == Own /\ RootSweep /\ RootFile

\* The invariant of the ranks together.
MInv ==
    /\ Typed
    /\ LockStep
    /\ SamePrefix
    /\ MadeBefore
    /\ Sweeping
    /\ Final
    /\ Saving
    /\ Verdicts

-----------------------------------------------------------------------------
(***************************************************************************)
(* The script.                                                             *)
(***************************************************************************)

HasStep(s, what) == \E i \in 1 .. Len(s) : s[i] = what

LEMMA Joined ==
    ASSUME NEW s \in Seq(Words), NEW t \in Seq(Words)
    PROVE  /\ s \o t \in Seq(Words) /\ Len(s \o t) = Len(s) + Len(t)
           /\ \A i \in 1 .. Len(s) : (s \o t)[i] = s[i]
           /\ \A what : HasStep(s, what) \/ HasStep(t, what) => HasStep(s \o t, what)
<1> DEFINE u == s \o t
<1>1. u \in Seq(Words) /\ Len(u) = Len(s) + Len(t) /\ Len(s) \in Nat /\ Len(t) \in Nat
  OBVIOUS
<1>2. (\A i \in 1 .. Len(s) : u[i] = s[i]) /\ (\A i \in 1 .. Len(t) : u[Len(s) + i] = t[i])
  OBVIOUS
<1> HIDE DEF u
<1>3. ASSUME NEW what, NEW i \in 1 .. Len(s), s[i] = what PROVE HasStep(u, what)
  BY <1>1, <1>2, <1>3 DEF HasStep
<1>4. ASSUME NEW what, NEW i \in 1 .. Len(t), t[i] = what PROVE HasStep(u, what)
  <2>1. Len(s) + i \in 1 .. Len(u) /\ u[Len(s) + i] = what
    BY <1>1, <1>2, <1>4
  <2> QED
    BY <2>1 DEF HasStep
<1>5. \A what : HasStep(s, what) \/ HasStep(t, what) => HasStep(u, what)
  BY <1>3, <1>4 DEF HasStep
<1> QED
  BY <1>1, <1>2, <1>5 DEF u

LEMMA Repeated ==
    ASSUME NEW n \in Nat, NEW s \in Seq(Words), Len(s) > 0
    PROVE  Repeat(n, s) \in Seq(Words)
<1>1. Len(s) \in Nat /\ \A i \in 1 .. Len(s) : s[i] \in Words
  OBVIOUS
<1> DEFINE k == Len(s)
<1> HIDE DEF k
<1>2. n * k \in Nat
  BY <1>1 DEF k
<1>3. ASSUME NEW i \in 1 .. n * k PROVE ((i - 1) % k) + 1 \in 1 .. k
  BY <1>1, <1>2 DEF k
<1>4. Repeat(n, s) \in [1 .. n * k -> Words]
  BY <1>1, <1>3 DEF Repeat, k
<1> QED
  BY <1>2, <1>4

\* The script by the number of the problem's axes.
ScriptOf ==
    [four \in BOOLEAN |->
        Boundary \o Body \o Boundary
        \o (CASE ~Verify -> <<>>
              [] Verify /\ four -> <<"max", "verify">>
              [] OTHER -> <<"max", "max", "max", "verify">>)]

LEMMA BodySteps == Body \in Seq(Words) /\ HasStep(Body, "plan") /\ HasStep(Body, "check")
<1> DEFINE a == <<"plan", "split", "arrays">>
           b == Repeat(Warmup, <<"barrier", "transform">>)
           c == Repeat(Iterations, <<"barrier", "transform", "max">>)
           d == <<"max", "check">>
<1>1. a \in Seq(Words) /\ HasStep(a, "plan") /\ d \in Seq(Words) /\ HasStep(d, "check")
  <2>1. Len(a) = 3 /\ a[1] = "plan" /\ Len(d) = 2 /\ d[2] = "check"
    OBVIOUS
  <2>2. 1 \in 1 .. Len(a) /\ 2 \in 1 .. Len(d)
    BY <2>1
  <2>3. a \in Seq(Words) /\ d \in Seq(Words)
    BY DEF Words
  <2> HIDE DEF a, d
  <2> QED
    BY <2>1, <2>2, <2>3 DEF HasStep
<1>2. b \in Seq(Words)
  <2>1. <<"barrier", "transform">> \in Seq(Words) /\ Len(<<"barrier", "transform">>) > 0 /\ Warmup \in Nat
    BY MeasureAssumption DEF Words
  <2> QED
    BY <2>1, Repeated
<1>3. c \in Seq(Words)
  <2>1. /\ <<"barrier", "transform", "max">> \in Seq(Words)
        /\ Len(<<"barrier", "transform", "max">>) > 0 /\ Iterations \in Nat
    BY MeasureAssumption DEF Words
  <2> QED
    BY <2>1, Repeated
<1>4. Boundary \in Seq(Words)
  BY DEF Boundary, Words
<1>5. Body = (((a \o b) \o c) \o d) \o Boundary
  BY DEF Body
<1> HIDE DEF a, b, c, d
<1>6. a \o b \in Seq(Words) /\ HasStep(a \o b, "plan")
  BY <1>1, <1>2, Joined
<1>7. (a \o b) \o c \in Seq(Words) /\ HasStep((a \o b) \o c, "plan")
  BY <1>3, <1>6, Joined
<1>8. /\ ((a \o b) \o c) \o d \in Seq(Words)
      /\ HasStep(((a \o b) \o c) \o d, "plan") /\ HasStep(((a \o b) \o c) \o d, "check")
  BY <1>1, <1>7, Joined
<1> QED
  BY <1>4, <1>5, <1>8, Joined

\* A script begins with a call, and contains the local steps that may fail on
\* every rank.
LEMMA ScriptOfSteps ==
    \A four \in BOOLEAN :
        /\ ScriptOf[four] \in Seq(Words) /\ Len(ScriptOf[four]) > 0 /\ ScriptOf[four][1] = "barrier"
        /\ HasStep(ScriptOf[four], "plan") /\ HasStep(ScriptOf[four], "check")
        /\ Verify => HasStep(ScriptOf[four], "verify")
<1> SUFFICES ASSUME NEW four \in BOOLEAN
             PROVE  /\ ScriptOf[four] \in Seq(Words) /\ Len(ScriptOf[four]) > 0
                    /\ ScriptOf[four][1] = "barrier"
                    /\ HasStep(ScriptOf[four], "plan") /\ HasStep(ScriptOf[four], "check")
                    /\ Verify => HasStep(ScriptOf[four], "verify")
  OBVIOUS
<1> DEFINE z == CASE ~Verify -> <<>>
                  [] Verify /\ four -> <<"max", "verify">>
                  [] OTHER -> <<"max", "max", "max", "verify">>
<1>1. ScriptOf[four] = ((Boundary \o Body) \o Boundary) \o z
  BY DEF ScriptOf
<1>2. z \in Seq(Words) /\ (Verify => HasStep(z, "verify"))
  <2>1. CASE ~Verify
    BY <2>1
  <2>2. CASE Verify /\ four
    <3>1. z = <<"max", "verify">>
      BY <2>2
    <3> HIDE DEF z
    <3>2. 2 \in 1 .. Len(z) /\ z[2] = "verify" /\ z \in Seq(Words)
      BY <3>1 DEF Words
    <3> QED
      BY <3>2 DEF HasStep
  <2>3. CASE Verify /\ ~four
    <3>1. z = <<"max", "max", "max", "verify">>
      BY <2>3
    <3> HIDE DEF z
    <3>2. 4 \in 1 .. Len(z) /\ z[4] = "verify" /\ z \in Seq(Words)
      BY <3>1 DEF Words
    <3> QED
      BY <3>2 DEF HasStep
  <2> QED
    BY <2>1, <2>2, <2>3
<1>3. Boundary \in Seq(Words) /\ Len(Boundary) = 2 /\ Boundary[1] = "barrier"
  BY DEF Boundary, Words
<1> HIDE DEF z
<1>4. /\ Boundary \o Body \in Seq(Words) /\ Len(Boundary \o Body) = Len(Boundary) + Len(Body)
      /\ \A i \in 1 .. Len(Boundary) : (Boundary \o Body)[i] = Boundary[i]
      /\ HasStep(Boundary \o Body, "plan") /\ HasStep(Boundary \o Body, "check")
  BY <1>3, BodySteps, Joined
<1>5. Len(Boundary \o Body) > 0 /\ (Boundary \o Body)[1] = "barrier"
  <2>1. Len(Body) \in Nat
    BY BodySteps
  <2> QED
    BY <1>3, <1>4, <2>1
<1> DEFINE y == Boundary \o Body
           x == y \o Boundary
<1> HIDE DEF y
<1>6. y \in Seq(Words) /\ Len(y) > 0 /\ y[1] = "barrier" /\ HasStep(y, "plan") /\ HasStep(y, "check")
  BY <1>4, <1>5 DEF y
<1>7. /\ x \in Seq(Words) /\ Len(x) = Len(y) + Len(Boundary) /\ \A i \in 1 .. Len(y) : x[i] = y[i]
      /\ HasStep(x, "plan") /\ HasStep(x, "check")
  BY <1>3, <1>6, Joined
<1> HIDE DEF x
<1>8. Len(x) > 0 /\ x[1] = "barrier"
  BY <1>3, <1>6, <1>7
<1>9. /\ x \o z \in Seq(Words) /\ Len(x \o z) = Len(x) + Len(z)
      /\ \A i \in 1 .. Len(x) : (x \o z)[i] = x[i]
      /\ HasStep(x \o z, "plan") /\ HasStep(x \o z, "check") /\ (Verify => HasStep(x \o z, "verify"))
  BY <1>2, <1>7, Joined
<1>10. Len(x \o z) > 0 /\ (x \o z)[1] = "barrier"
  <2>1. Len(z) \in Nat /\ Len(x) \in Nat
    BY <1>2, <1>7
  <2>2. 1 \in 1 .. Len(x)
    BY <1>8, <2>1
  <2> QED
    BY <1>8, <1>9, <2>1, <2>2
<1> QED
  BY <1>1, <1>9, <1>10 DEF x, y

LEMMA ScriptSteps ==
    /\ Script \in Seq(Words) /\ Len(Script) \in Nat /\ Len(Script) > 0 /\ Script[1] = "barrier"
    /\ Voting = Len(Script) + 1 /\ 1 \in Calling
    /\ HasStep(Script, "plan") /\ HasStep(Script, "check") /\ (Verify => HasStep(Script, "verify"))
<1>1. Is4D \in BOOLEAN
  BY DEF Is4D
<1>2. Script = ScriptOf[Is4D]
  BY <1>1 DEF Script, ScriptOf, Recovery
<1>3. /\ Script \in Seq(Words) /\ Len(Script) > 0 /\ Script[1] = "barrier"
      /\ HasStep(Script, "plan") /\ HasStep(Script, "check") /\ (Verify => HasStep(Script, "verify"))
  BY <1>1, <1>2, ScriptOfSteps
<1>4. Len(Script) \in Nat
  BY <1>3
<1> QED
  BY <1>3, <1>4 DEF Voting, Calling, LocalSteps

-----------------------------------------------------------------------------
(***************************************************************************)
(* The calls and what follows them.                                        *)
(***************************************************************************)

LEMMA Numbers == N \in Nat /\ N > 0 /\ P \in Nat /\ P > 0 /\ 0 \in Ranks /\ 1 \in Candidates
  BY MeasureAssumption DEF Ranks, Candidates

LEMMA MeasurePoints ==
    \A c \in Candidates, s \in 1 .. Voting :
        /\ MeasurePoint[c][s] \in Points /\ MeasurePoint[c][s].cand = c /\ MeasurePoint[c][s].step = s
        /\ MeasurePoint[c][s].what = IF s = Voting THEN "min" ELSE Script[s]
<1> SUFFICES ASSUME NEW c \in Candidates, NEW s \in 1 .. Voting
             PROVE  /\ MeasurePoint[c][s] \in Points /\ MeasurePoint[c][s].cand = c
                    /\ MeasurePoint[c][s].step = s
                    /\ MeasurePoint[c][s].what = IF s = Voting THEN "min" ELSE Script[s]
  OBVIOUS
<1>1. MeasurePoint[c][s] = [what |-> IF s = Voting THEN "min" ELSE Script[s], cand |-> c, step |-> s]
  BY DEF MeasurePoint
<1>2. s # Voting => Script[s] \in Words
  BY ScriptSteps
<1>3. s \in Nat
  BY ScriptSteps
<1> QED
  BY <1>1, <1>2, <1>3 DEF Points

LEMMA SharedPoints ==
    /\ {InventoryPoint, StatePoint, WinnerPoint, SavedPoint, BarrierPoint} \subseteq Points
    /\ InventoryPoint.cand = None /\ InventoryPoint.step = "inventory"
    /\ StatePoint.cand = None /\ StatePoint.step = "state"
    /\ WinnerPoint.cand = None /\ WinnerPoint.step = "winner"
    /\ SavedPoint.cand = None /\ SavedPoint.step = "saved"
    /\ BarrierPoint.cand = None /\ BarrierPoint.step = "savedBarrier"
  BY DEF Points, Words, InventoryPoint, StatePoint, WinnerPoint, SavedPoint, BarrierPoint

LEMMA CandidateIsSome == \A c \in Candidates : c # None
  BY DEF Candidates, None

LEMMA NextPoints ==
    \A c \in Candidates :
        /\ AfterCandidate[c] \in Points /\ AfterEvaluator[c] \in Points
        /\ c < N => AfterCandidate[c] = MeasurePoint[c + 1][1] /\ c + 1 \in Candidates
        /\ ~(c < N) => AfterCandidate[c] = WinnerPoint
        /\ AfterEvaluator[c] = IF Is4D THEN MeasurePoint[c][Voting] ELSE AfterCandidate[c]
<1> SUFFICES ASSUME NEW c \in Candidates
             PROVE  /\ AfterCandidate[c] \in Points /\ AfterEvaluator[c] \in Points
                    /\ c < N => AfterCandidate[c] = MeasurePoint[c + 1][1] /\ c + 1 \in Candidates
                    /\ ~(c < N) => AfterCandidate[c] = WinnerPoint
                    /\ AfterEvaluator[c] = IF Is4D THEN MeasurePoint[c][Voting] ELSE AfterCandidate[c]
  OBVIOUS
<1>1. c < N => c + 1 \in Candidates
  BY Numbers DEF Candidates
<1>2. 1 \in 1 .. Voting /\ Voting \in 1 .. Voting
  BY ScriptSteps
<1>3. AfterCandidate[c] = IF c < N THEN MeasurePoint[c + 1][1] ELSE WinnerPoint
  BY DEF AfterCandidate
<1>4. AfterCandidate[c] \in Points
  BY <1>1, <1>2, <1>3, MeasurePoints, SharedPoints
<1>5. AfterEvaluator[c] = IF Is4D THEN MeasurePoint[c][Voting] ELSE AfterCandidate[c]
  BY DEF AfterEvaluator
<1> QED
  BY <1>1, <1>2, <1>3, <1>4, <1>5, MeasurePoints

LEMMA Reaching ==
    \A c \in Candidates, s \in 1 .. Voting :
        /\ Reached[c][s] \subseteq Calling /\ Calling \subseteq 1 .. Len(Script)
        /\ \A j \in Calling : j \in Reached[c][s] <=>
               s <= j /\ \A i \in s .. j - 1 : i \notin Calling /\ i \notin Breaking[c]
  BY DEF Reached, Calling

\* At a call, the next call is this one.
LEMMA OnwardCalling ==
    \A c \in Candidates : \A s \in Calling : s \in 1 .. Voting /\ Onward[c][s] = MeasurePoint[c][s]
<1> SUFFICES ASSUME NEW c \in Candidates, NEW s \in Calling
             PROVE  s \in 1 .. Voting /\ Onward[c][s] = MeasurePoint[c][s]
  OBVIOUS
<1>1. s \in 1 .. Len(Script) /\ s \in 1 .. Voting
  BY ScriptSteps DEF Calling
<1>2. Reached[c][s] = {s}
  <2>1. \A i \in s .. s - 1 : FALSE
    BY <1>1
  <2>2. s \in Reached[c][s]
    BY <1>1, <2>1, Reaching
  <2>3. ASSUME NEW j \in Reached[c][s] PROVE j = s
    <3>1. j \in 1 .. Len(Script) /\ s <= j /\ \A i \in s .. j - 1 : i \notin Calling
      BY <1>1, Reaching
    <3>2. CASE j # s
      <4>1. s \in s .. j - 1
        BY <1>1, <3>1, <3>2, ScriptSteps
      <4> QED
        BY <3>1, <4>1
    <3> QED
      BY <3>2
  <2> QED
    BY <2>2, <2>3
<1>3. Onward[c][s] = MeasurePoint[c][CHOOSE j \in {s} : TRUE]
  BY <1>1, <1>2 DEF Onward
<1> QED
  BY <1>1, <1>3

\* A local step that does not fail leads to the next step.
LEMMA OnwardPasses ==
    \A c \in Candidates : \A s \in 1 .. Len(Script) :
        s \notin Calling /\ s \notin Breaking[c] => s + 1 \in 1 .. Voting /\ Onward[c][s] = Onward[c][s + 1]
<1> SUFFICES ASSUME NEW c \in Candidates, NEW s \in 1 .. Len(Script), s \notin Calling, s \notin Breaking[c]
             PROVE  s + 1 \in 1 .. Voting /\ Onward[c][s] = Onward[c][s + 1]
  OBVIOUS
<1>1. s \in 1 .. Voting /\ s + 1 \in 1 .. Voting /\ Len(Script) \in Nat
  BY ScriptSteps
<1>2. ASSUME NEW j \in Calling PROVE j \in Reached[c][s] <=> j \in Reached[c][s + 1]
  <2>1. j \in 1 .. Len(Script) /\ j # s
    BY DEF Calling
  <2>2. s <= j <=> s + 1 <= j
    BY <1>1, <2>1
  <2>3. s <= j => s .. j - 1 = {s} \cup ((s + 1) .. j - 1)
    BY <1>1, <2>1
  <2>4. ASSUME s <= j
        PROVE  (\A i \in s .. j - 1 : i \notin Calling /\ i \notin Breaking[c])
                 <=> (\A i \in (s + 1) .. j - 1 : i \notin Calling /\ i \notin Breaking[c])
    BY <2>3, <2>4
  <2> QED
    BY <1>1, <2>2, <2>4, Reaching
<1>3. Reached[c][s] = Reached[c][s + 1]
  BY <1>1, <1>2, Reaching
<1> DEFINE a == CHOOSE j \in Reached[c][s] : TRUE
           b == CHOOSE j \in Reached[c][s + 1] : TRUE
<1>4. a = b
  BY <1>3
<1>5. Onward[c][s] = IF Reached[c][s] = {} THEN AfterEvaluator[c] ELSE MeasurePoint[c][a]
  BY <1>1 DEF Onward
<1>6. Onward[c][s + 1] = IF Reached[c][s + 1] = {} THEN AfterEvaluator[c] ELSE MeasurePoint[c][b]
  BY <1>1 DEF Onward
<1> HIDE DEF a, b
<1> QED
  BY <1>1, <1>3, <1>4, <1>5, <1>6

\* A step that fails, and the vote, end the evaluator.
LEMMA OnwardEnds ==
    \A c \in Candidates : \A s \in 1 .. Voting :
        s = Voting \/ (s \in Breaking[c] /\ s \notin Calling) => Onward[c][s] = AfterEvaluator[c]
<1> SUFFICES ASSUME NEW c \in Candidates, NEW s \in 1 .. Voting,
                    s = Voting \/ (s \in Breaking[c] /\ s \notin Calling)
             PROVE  Onward[c][s] = AfterEvaluator[c]
  OBVIOUS
<1>1. ASSUME NEW j \in Calling PROVE j \notin Reached[c][s]
  <2>1. j \in 1 .. Len(Script) /\ Len(Script) \in Nat /\ Voting = Len(Script) + 1
    BY ScriptSteps DEF Calling
  <2>2. CASE s = Voting
    <3>1. ~(s <= j)
      BY <2>1, <2>2
    <3> QED
      BY <3>1, Reaching
  <2>3. CASE s \in Breaking[c] /\ s \notin Calling
    <3>1. s <= j => s \in s .. j - 1
      BY <2>1, <2>3
    <3> QED
      BY <2>3, <3>1, Reaching
  <2> QED
    BY <2>2, <2>3
<1>2. Reached[c][s] = {}
  BY <1>1, Reaching
<1> QED
  BY <1>2 DEF Onward

LEMMA OnwardType == \A c \in Candidates, s \in 1 .. Voting : Onward[c][s] \in Points
<1> SUFFICES ASSUME NEW c \in Candidates, NEW s \in 1 .. Voting PROVE Onward[c][s] \in Points
  OBVIOUS
<1>1. CASE Reached[c][s] = {}
  BY <1>1, NextPoints DEF Onward
<1>2. CASE Reached[c][s] # {}
  <2>1. (CHOOSE j \in Reached[c][s] : TRUE) \in 1 .. Voting
    BY <1>2, Reaching, ScriptSteps
  <2> DEFINE j == CHOOSE j \in Reached[c][s] : TRUE
  <2>2. Onward[c][s] = MeasurePoint[c][j]
    BY <1>2 DEF Onward
  <2> HIDE DEF j
  <2> QED
    BY <2>1, <2>2, MeasurePoints DEF j
<1> QED
  BY <1>1, <1>2

LEMMA Following ==
    /\ Follows[InventoryPoint] = StatePoint
    /\ Follows[StatePoint] = MeasurePoint[1][1]
    /\ Follows[WinnerPoint] = SavedPoint
    /\ Follows[SavedPoint] = BarrierPoint
    /\ \A c \in Candidates :
           /\ Follows[MeasurePoint[c][Voting]] = AfterCandidate[c]
           /\ \A s \in 1 .. Len(Script) : /\ s \in 1 .. Voting /\ s + 1 \in 1 .. Voting
                                          /\ Follows[MeasurePoint[c][s]] = Onward[c][s + 1]
<1>1. /\ Follows[InventoryPoint] = StatePoint
      /\ Follows[StatePoint] = MeasurePoint[1][1]
      /\ Follows[WinnerPoint] = SavedPoint
      /\ Follows[SavedPoint] = BarrierPoint
  BY SharedPoints DEF Follows
<1>2. ASSUME NEW c \in Candidates
      PROVE  Follows[MeasurePoint[c][Voting]] = AfterCandidate[c]
  <2>1. Voting \in 1 .. Voting
    BY ScriptSteps
  <2> QED
    BY <2>1, MeasurePoints, CandidateIsSome DEF Follows
<1>3. ASSUME NEW c \in Candidates, NEW s \in 1 .. Len(Script)
      PROVE  /\ s \in 1 .. Voting /\ s + 1 \in 1 .. Voting
             /\ Follows[MeasurePoint[c][s]] = Onward[c][s + 1]
  <2>1. s \in 1 .. Voting /\ s + 1 \in 1 .. Voting /\ s # Voting
    BY ScriptSteps
  <2> QED
    BY <2>1, MeasurePoints, CandidateIsSome DEF Follows
<1> QED
  BY <1>1, <1>2, <1>3

\* All of this stays the same within a job.
LEMMA JobFixed ==
    ASSUME UNCHANGED jobVars
    PROVE  /\ Is4D' = Is4D /\ Script' = Script /\ Voting' = Voting /\ Calling' = Calling
           /\ Breaking' = Breaking /\ Good' = Good /\ Usable' = Usable /\ MeasurePoint' = MeasurePoint
           /\ Onward' = Onward /\ Follows' = Follows
<1>1. Is4D' = Is4D
  BY DEF Is4D, jobVars
<1>2. Script' = Script
  BY <1>1 DEF Script, Recovery
<1>3. Voting' = Voting /\ Calling' = Calling
  BY <1>2 DEF Voting, Calling
<1>4. Breaking' = Breaking
  BY <1>2 DEF Breaking, Throws, jobVars
<1>5. Good' = Good /\ Usable' = Usable
  BY <1>4 DEF Good, Usable, Timed, jobVars
<1>6. MeasurePoint' = MeasurePoint
  BY <1>2, <1>3 DEF MeasurePoint
<1>7. AfterCandidate' = AfterCandidate
  BY <1>6 DEF AfterCandidate
<1>8. AfterEvaluator' = AfterEvaluator
  BY <1>1, <1>3, <1>6, <1>7 DEF AfterEvaluator
<1>9. Reached' = Reached
  BY <1>3, <1>4 DEF Reached
<1>10. Onward' = Onward
  BY <1>3, <1>6, <1>8, <1>9 DEF Onward
<1>11. Follows' = Follows
  BY <1>3, <1>6, <1>7, <1>10 DEF Follows
<1> QED
  BY <1>1, <1>2, <1>3, <1>4, <1>5, <1>6, <1>10, <1>11

\* Which local steps fail, and which candidates run to the end.
LEMMA BreakingShared ==
    ASSUME Alone = {}, NEW r \in Ranks, NEW c \in Candidates, NEW s \in 1 .. Len(Script)
    PROVE  Throws(r, c, Script[s]) <=> s \in Breaking[c]
  BY DEF Breaking, Throws

LEMMA BreakingLocal ==
    \A c \in Candidates : Breaking[c] \subseteq 1 .. Len(Script) /\ Breaking[c] \cap Calling = {}
  BY DEF Breaking, Throws, Calling, LocalSteps

\* What a candidate does wrong shows: the free memory is known, or every plan
\* gives its memory back.
Shows == Verify \/ \A f \in Fates : \A c \in Candidates : f[c] # "retains"

LEMMA GoodRan ==
    ASSUME Shows, fate \in Fates
    PROVE  \A c \in Good : c \in Candidates /\ fate[c] = "ok"
<1> SUFFICES ASSUME NEW c \in Good PROVE c \in Candidates /\ fate[c] = "ok"
  OBVIOUS
<1> USE DEF Good
<1>1. fate[c] \in {"ok", "unsupported", "inaccurate", "retains"}
  BY MeasureAssumption DEF AllFates
<1>2. PICK i \in 1 .. Len(Script) : Script[i] = "plan"
  BY ScriptSteps DEF HasStep
<1>3. PICK j \in 1 .. Len(Script) : Script[j] = "check"
  BY ScriptSteps DEF HasStep
<1>4. fate[c] = "retains" => \E k \in 1 .. Len(Script) : Script[k] = "verify"
  BY ScriptSteps DEF HasStep, Shows
<1>5. fate[c] # "ok" => Breaking[c] # {}
  BY <1>1, <1>2, <1>3, <1>4 DEF Breaking, Throws
<1> QED
  BY <1>5

LEMMA GoodFates ==
    ASSUME Alone = {}, Shows, fate \in Fates
    PROVE  \A c \in Candidates : c \in Good <=> fate[c] = "ok"
<1>1. \A c \in Candidates : fate[c] = "ok" => Breaking[c] = {}
  BY DEF Breaking, Throws
<1> QED
  BY <1>1, GoodRan DEF Good

-----------------------------------------------------------------------------
(***************************************************************************)
(* Lock step.                                                              *)
(***************************************************************************)

LEMMA ComingType ==
    ASSUME Typed
    PROVE  Coming \in [Ranks -> Points]
<1> SUFFICES ASSUME NEW r \in Ranks PROVE Coming[r] \in Points
  BY DEF Coming
<1>1. Onward[cand[r]][step[r]] \in Points
  BY OnwardType DEF Typed
<1> QED
  BY <1>1, SharedPoints DEF Coming

\* A rank moves without a new call: from the end of a call, or locally.
LEMMA CallsKept ==
    ASSUME Typed, LockStep, SamePrefix, NEW r \in Ranks,
           UNCHANGED <<calls, jobVars>>, inside' = inside \ {r},
           \A q \in Ranks \ {r} : pc'[q] = pc[q] /\ cand'[q] = cand[q] /\ step'[q] = step[q],
           r \in inside \/ pc[r] # "inventory",
           pc'[r] \notin {"inventory", "dead"},
           r \notin inside /\ pc'[r] \in LivePhases => pc[r] \in LivePhases,
           pc'[r] \in LivePhases => Coming'[r] = IF r \in inside THEN Follows[Coming[r]] ELSE Coming[r]
    PROVE  LockStep' /\ SamePrefix' /\ Made' = Made
<1>1. Onward' = Onward /\ Follows' = Follows /\ Calling' = Calling /\ Voting' = Voting
  BY JobFixed
<1>2. \A q \in Ranks \ {r} : Coming'[q] = Coming[q]
  BY <1>1 DEF Coming
<1>3. SamePrefix' /\ Made' = Made
  BY DEF SamePrefix, Made
<1>4. LockStep'
  <2> SUFFICES ASSUME NEW q \in Ranks
               PROVE  /\ q \in inside' => /\ calls[q] # <<>> /\ calls[q][Len(calls[q])] = Coming'[q]
                                          /\ pc'[q] \in CallPhases
                                          /\ pc'[q] = "measure" => step'[q] \in Calling \cup {Voting}
                      /\ q \notin inside' /\ pc'[q] \in LivePhases =>
                             IF calls[q] = <<>> THEN pc'[q] = "inventory"
                             ELSE pc'[q] # "inventory" /\ Follows[calls[q][Len(calls[q])]] = Coming'[q]
                      /\ calls[q] # <<>> => calls[q][1] = InventoryPoint /\ pc'[q] # "dead"
                      /\ \A i \in 1 .. Len(calls[q]) - 1 : calls[q][i + 1] = Follows[calls[q][i]]
    BY <1>1 DEF LockStep, InventoryPoint
  <2>1. CASE q # r
    BY <1>2, <2>1 DEF LockStep
  <2>2. CASE q = r
    <3>1. r \notin inside'
      OBVIOUS
    <3>2. /\ calls[r] # <<>> => calls[r][1] = InventoryPoint
          /\ \A i \in 1 .. Len(calls[r]) - 1 : calls[r][i + 1] = Follows[calls[r][i]]
      BY DEF LockStep
    <3>3. ASSUME pc'[r] \in LivePhases
          PROVE  calls[r] # <<>> /\ Follows[calls[r][Len(calls[r])]] = Coming'[r]
      <4>1. CASE r \in inside
        BY <3>3, <4>1 DEF LockStep
      <4>2. CASE r \notin inside
        BY <3>3, <4>2 DEF LockStep
      <4> QED
        BY <4>1, <4>2
    <3> QED
      BY <2>2, <3>1, <3>2, <3>3
  <2> QED
    BY <2>1, <2>2
<1> QED
  BY <1>3, <1>4

\* What a rank calls is what it comes to.
LEMMA PointComing ==
    ASSUME Typed, NEW r \in Ranks, Call(r) # "none"
    PROVE  /\ Point(r) = Coming[r] /\ pc[r] \in CallPhases
           /\ pc[r] = "measure" => step[r] \in Calling \cup {Voting}
<1>1. CASE pc[r] = "measure"
  <2> DEFINE c == cand[r]
             s == step[r]
  <2>1. c \in Candidates /\ s \in 1 .. Voting /\ (~Is4D => s # Voting)
    BY <1>1 DEF Typed
  <2>2. CASE s = Voting
    <3>1. Is4D /\ Point(r) = [what |-> "min", cand |-> c, step |-> s]
      BY <1>1, <2>1, <2>2 DEF Point, Call
    <3>2. Onward[c][s] = MeasurePoint[c][s]
      BY <2>1, <2>2, <3>1, OnwardEnds, NextPoints
    <3>3. MeasurePoint[c][s] = [what |-> "min", cand |-> c, step |-> s]
      BY <2>1, <2>2 DEF MeasurePoint
    <3> QED
      BY <1>1, <2>2, <3>1, <3>2, <3>3 DEF Coming, CallPhases
  <2>3. CASE s # Voting
    <3>1. s \in 1 .. Len(Script) /\ s < Voting
      BY <2>1, <2>3, ScriptSteps
    <3>2. Script[s] \notin LocalSteps /\ Call(r) = Script[s]
      BY <1>1, <2>3, <3>1 DEF Call, LocalSteps
    <3>3. s \in Calling
      BY <3>1, <3>2 DEF Calling
    <3>4. Point(r) = [what |-> Script[s], cand |-> c, step |-> s]
      BY <1>1, <3>2 DEF Point
    <3>5. Onward[c][s] = MeasurePoint[c][s]
      BY <2>1, <3>3, OnwardCalling
    <3>6. MeasurePoint[c][s] = [what |-> Script[s], cand |-> c, step |-> s]
      BY <2>1, <2>3 DEF MeasurePoint
    <3> QED
      BY <1>1, <3>3, <3>4, <3>5, <3>6 DEF Coming, CallPhases
  <2> QED
    BY <2>2, <2>3
<1>2. CASE pc[r] # "measure"
  BY <1>2 DEF Call, Point, Coming, CallPhases, InventoryPoint, StatePoint, WinnerPoint, SavedPoint,
              BarrierPoint
<1> QED
  BY <1>1, <1>2

LEMMA EnterLockStep ==
    ASSUME Typed, LockStep, SamePrefix, NEW r \in Ranks, Enter(r)
    PROVE  /\ LockStep' /\ SamePrefix' /\ calls' \in [Ranks -> Seq(Points)]
           /\ Made' = [Made EXCEPT ![r] = @ \cup {Coming[r]}]
           /\ pc[r] \in CallPhases
<1> DEFINE n == Len(calls[r])
           e == Coming[r]
           new == Append(calls[r], e)
<1>1. /\ Point(r) = e /\ pc[r] \in CallPhases /\ r \notin inside
      /\ pc[r] = "measure" => step[r] \in Calling \cup {Voting}
  BY PointComing DEF Enter
<1>2. e \in Points /\ calls \in [Ranks -> Seq(Points)]
  BY ComingType DEF Typed
<1>3. /\ new \in Seq(Points) /\ Len(new) = n + 1 /\ n \in Nat /\ new[n + 1] = e
      /\ \A i \in 1 .. n : new[i] = calls[r][i]
  BY <1>2
<1>4. calls' = [calls EXCEPT ![r] = new] /\ inside' = inside \cup {r}
  BY <1>1 DEF Enter
<1> HIDE DEF new, e, n
<1>5. calls' \in [Ranks -> Seq(Points)] /\ calls'[r] = new /\ \A q \in Ranks \ {r} : calls'[q] = calls[q]
  BY <1>2, <1>3, <1>4
<1>6. Onward' = Onward /\ Follows' = Follows /\ Calling' = Calling /\ Voting' = Voting
  BY JobFixed DEF Enter
<1>7. Coming' = Coming /\ pc' = pc /\ step' = step
  BY <1>6 DEF Coming, Enter, rankVars
<1>8. IF n = 0 THEN e = InventoryPoint ELSE e = Follows[calls[r][n]]
  <2>1. pc[r] \in LivePhases
    BY <1>1 DEF CallPhases, LivePhases
  <2>2. calls[r] = <<>> <=> n = 0
    BY <1>2 DEF n
  <2>3. CASE n = 0
    BY <1>1, <2>1, <2>2, <2>3 DEF LockStep, Coming, e
  <2>4. CASE n # 0
    BY <1>1, <2>1, <2>2, <2>4 DEF LockStep, e, n
  <2> QED
    BY <2>3, <2>4
<1>9. /\ \A i \in 1 .. n - 1 : calls[r][i + 1] = Follows[calls[r][i]]
      /\ n > 0 => calls[r][1] = InventoryPoint
  <2>1. n > 0 => calls[r] # <<>>
    BY <1>2 DEF n
  <2> QED
    BY <2>1 DEF LockStep, n
<1>10. /\ new # <<>> /\ new[1] = InventoryPoint /\ Len(new) = n + 1
       /\ \A i \in 1 .. n : new[i + 1] = Follows[new[i]]
  <2>1. new # <<>> /\ Len(new) = n + 1
    BY <1>3
  <2>2. new[1] = InventoryPoint
    BY <1>3, <1>8, <1>9
  <2>3. ASSUME NEW i \in 1 .. n PROVE new[i + 1] = Follows[new[i]]
    <3>1. CASE i = n
      BY <1>3, <1>8, <3>1
    <3>2. CASE i # n
      <4>1. i \in 1 .. n - 1 /\ i + 1 \in 1 .. n
        BY <1>3, <3>2
      <4> QED
        BY <1>3, <1>9, <4>1
    <3> QED
      BY <3>1, <3>2
  <2> QED
    BY <2>1, <2>2, <2>3
<1>11. LockStep'
  <2> SUFFICES ASSUME NEW q \in Ranks
               PROVE  /\ q \in inside' => /\ calls'[q] # <<>> /\ calls'[q][Len(calls'[q])] = Coming[q]
                                          /\ pc[q] \in CallPhases
                                          /\ pc[q] = "measure" => step[q] \in Calling \cup {Voting}
                      /\ q \notin inside' /\ pc[q] \in LivePhases =>
                             IF calls'[q] = <<>> THEN pc[q] = "inventory"
                             ELSE /\ pc[q] # "inventory"
                                  /\ Follows[calls'[q][Len(calls'[q])]] = Coming[q]
                      /\ calls'[q] # <<>> => calls'[q][1] = InventoryPoint /\ pc[q] # "dead"
                      /\ \A i \in 1 .. Len(calls'[q]) - 1 : calls'[q][i + 1] = Follows[calls'[q][i]]
    BY <1>6, <1>7 DEF LockStep, InventoryPoint
  <2>1. CASE q # r
    <3>1. calls'[q] = calls[q] /\ (q \in inside' <=> q \in inside)
      BY <1>4, <1>5, <2>1
    <3>2. /\ q \in inside => /\ calls[q] # <<>> /\ calls[q][Len(calls[q])] = Coming[q]
                             /\ pc[q] \in CallPhases
                             /\ pc[q] = "measure" => step[q] \in Calling \cup {Voting}
          /\ q \notin inside /\ pc[q] \in LivePhases =>
                 IF calls[q] = <<>> THEN pc[q] = "inventory"
                 ELSE pc[q] # "inventory" /\ Follows[calls[q][Len(calls[q])]] = Coming[q]
          /\ calls[q] # <<>> => calls[q][1] = InventoryPoint /\ pc[q] # "dead"
          /\ \A i \in 1 .. Len(calls[q]) - 1 : calls[q][i + 1] = Follows[calls[q][i]]
      BY DEF LockStep
    <3> QED
      BY <3>1, <3>2
  <2>2. CASE q = r
    <3>1. Len(new) - 1 = n
      BY <1>3
    <3> QED
      BY <1>1, <1>3, <1>4, <1>5, <1>10, <2>2, <3>1 DEF CallPhases, e
  <2> QED
    BY <2>1, <2>2
<1>12. SamePrefix'
  <2>1. ASSUME NEW q \in Ranks \ {r}, n + 1 \in 1 .. Len(calls[q]) PROVE calls[q][n + 1] = e
    <3>1. calls[q] # <<>> /\ Len(calls[q]) \in Nat
      BY <1>2, <2>1
    <3>2. CASE n = 0
      BY <1>8, <3>1, <3>2 DEF LockStep
    <3>3. CASE n # 0
      <4>1. n \in 1 .. Len(calls[q]) - 1 /\ n \in 1 .. n /\ n \in 1 .. Len(calls[q])
        BY <1>3, <2>1, <3>1, <3>3
      <4>2. calls[q][n + 1] = Follows[calls[q][n]]
        BY <4>1 DEF LockStep
      <4>3. calls[r][n] = calls[q][n]
        BY <4>1 DEF SamePrefix, n
      <4> QED
        BY <1>8, <3>3, <4>2, <4>3
    <3> QED
      BY <3>2, <3>3
  <2>2. ASSUME NEW q \in Ranks \ {r}, NEW i \in 1 .. n, i \in 1 .. Len(calls[q])
        PROVE  new[i] = calls[q][i]
    BY <1>3, <2>2 DEF SamePrefix, n
  <2>3. \A i \in 1 .. Len(new) : i \in 1 .. n \/ i = n + 1
    BY <1>3
  <2>4. ASSUME NEW q \in Ranks \ {r}, NEW i \in 1 .. Len(new), i \in 1 .. Len(calls[q])
        PROVE  new[i] = calls[q][i]
    BY <1>3, <2>1, <2>2, <2>3, <2>4
  <2>5. \A p, q \in Ranks : \A i \in 1 .. Len(calls'[p]) :
            i \in 1 .. Len(calls'[q]) => calls'[p][i] = calls'[q][i]
    <3> SUFFICES ASSUME NEW p \in Ranks, NEW q \in Ranks, NEW i \in 1 .. Len(calls'[p]),
                        i \in 1 .. Len(calls'[q])
                 PROVE  calls'[p][i] = calls'[q][i]
      OBVIOUS
    <3>1. CASE p = r /\ q = r
      BY <3>1
    <3>2. CASE p = r /\ q # r
      BY <1>5, <2>4, <3>2
    <3>3. CASE p # r /\ q = r
      BY <1>5, <2>4, <3>3
    <3>4. CASE p # r /\ q # r
      BY <1>5, <3>4 DEF SamePrefix
    <3> QED
      BY <3>1, <3>2, <3>3, <3>4
  <2> QED
    BY <2>5 DEF SamePrefix
<1>13. Made' = [Made EXCEPT ![r] = Made[r] \cup {e}]
  <2>1. {new[i] : i \in 1 .. Len(new)} = {calls[r][i] : i \in 1 .. Len(calls[r])} \cup {e}
    <3>1. \A i \in 1 .. Len(new) : i \in 1 .. n \/ i = n + 1
      BY <1>3
    <3>2. (\A i \in 1 .. n : i \in 1 .. Len(new)) /\ n + 1 \in 1 .. Len(new)
      BY <1>3
    <3> QED
      BY <1>3, <3>1, <3>2 DEF n
  <2>2. Made'[r] = Made[r] \cup {e}
    BY <1>5, <2>1 DEF Made
  <2>3. \A q \in Ranks \ {r} : Made'[q] = Made[q]
    BY <1>5 DEF Made
  <2>4. Made = [q \in Ranks |-> Made[q]] /\ Made' = [q \in Ranks |-> Made'[q]]
    BY DEF Made
  <2> QED
    BY <2>2, <2>3, <2>4
<1> QED
  BY <1>1, <1>5, <1>11, <1>12, <1>13 DEF e

\* When a call ends, the ranks it depends on have made the same call.
LEMMA Met ==
    ASSUME Typed, LockStep, SamePrefix, NEW r \in Ranks, Leave(r), NEW q \in Ranks,
           Call(r) # "bcast" \/ q = 0
    PROVE  /\ Coming[r] \in Made[q] /\ r \in inside /\ calls[q] # <<>>
           /\ inside' = inside \ {r} /\ calls' = calls
<1> DEFINE n == Len(calls[r])
<1>1. r \in inside /\ Ends(r) /\ inside' = inside \ {r} /\ calls' = calls
  BY DEF Leave
<1>2. calls \in [Ranks -> Seq(Points)] /\ calls[r] # <<>> /\ calls[r][n] = Coming[r]
  BY <1>1 DEF Typed, LockStep
<1>3. n \in 1 .. Len(calls[r])
  BY <1>2
<1>4. n \in 1 .. Len(calls[q])
  <2>1. CASE q = r
    BY <1>3, <2>1
  <2>2. CASE Call(r) # "bcast"
    <3>1. Len(calls[q]) >= n
      BY <1>1, <2>2 DEF Ends
    <3> QED
      BY <1>2, <1>3, <3>1
  <2>3. CASE Call(r) = "bcast" /\ q = 0 /\ q # r
    <3>1. Len(calls[q]) >= n
      BY <1>1, <2>3 DEF Ends
    <3> QED
      BY <1>2, <1>3, <3>1
  <2> QED
    BY <2>1, <2>2, <2>3
<1>5. calls[q][n] = Coming[r]
  BY <1>2, <1>3, <1>4 DEF SamePrefix
<1>6. calls[q] # <<>>
  BY <1>2, <1>4
<1> QED
  BY <1>1, <1>4, <1>5, <1>6 DEF Made

-----------------------------------------------------------------------------
(***************************************************************************)
(* The selection.                                                          *)
(***************************************************************************)
LEMMA LessThanWF == IsWellFoundedOn({ss \in Nat \X Nat : ss[1] < ss[2]}, Nat)
  BY NatLessThanWellFounded DEF OpToRel

LEMMA LeastNat ==
    ASSUME NEW T, T \subseteq Nat, T # {}
    PROVE  \E x \in T : \A y \in T : x <= y
<1> DEFINE R == {ss \in Nat \X Nat : ss[1] < ss[2]}
<1>1. IsWellFoundedOn(R, Nat)
  BY LessThanWF
<1> HIDE DEF R
<1>2. PICK x \in T : \A y \in T : ~(<<y, x>> \in R)
  BY <1>1, WFMin
<1>3. \A y \in T : <<y, x>> \in Nat \X Nat
  OBVIOUS
<1>4. \A y \in T : ~(y < x)
  BY <1>2, <1>3 DEF R
<1> QED
  BY <1>4

\* A nonempty set of candidates has a fastest one, and the scan finds it.
LEMMA FastestFound ==
    ASSUME NEW set, set \subseteq Candidates, set # {}, NEW time \in [Candidates -> Nat]
    PROVE  Fastest(set, time) \in set /\ \A d \in set : time[Fastest(set, time)] <= time[d]
<1> DEFINE T == {time[c] : c \in set}
<1>1. T \subseteq Nat /\ T # {}
  OBVIOUS
<1>2. PICK x \in T : \A y \in T : x <= y
  BY <1>1, LeastNat
<1> DEFINE U == {c \in set : time[c] = x}
<1>3. U \subseteq Nat /\ U # {}
  <2>1. PICK c \in set : time[c] = x
    BY <1>2
  <2>2. set \subseteq Nat
    BY DEF Candidates
  <2> QED
    BY <2>1, <2>2
<1>4. PICK c \in U : \A d \in U : c <= d
  BY <1>3, LeastNat
<1>5. c \in set /\ \A d \in set : time[c] < time[d] \/ (time[c] = time[d] /\ c <= d)
  <2> SUFFICES ASSUME NEW d \in set PROVE time[c] < time[d] \/ (time[c] = time[d] /\ c <= d)
    OBVIOUS
  <2>1. time[c] = x /\ x <= time[d] /\ x \in Nat /\ time[d] \in Nat
    BY <1>1, <1>2
  <2>2. CASE time[d] = x
    BY <1>4, <2>1, <2>2
  <2>3. CASE time[d] # x
    BY <2>1, <2>3
  <2> QED
    BY <2>2, <2>3
<1> HIDE DEF U, T
<1>6. /\ Fastest(set, time) \in set
      /\ \A d \in set : \/ time[Fastest(set, time)] < time[d]
                        \/ time[Fastest(set, time)] = time[d] /\ Fastest(set, time) <= d
  BY <1>5 DEF Fastest
<1> QED
  BY <1>6

LEMMA WinnerType ==
    ASSUME NEW set, set \subseteq Candidates, ms \in Millis
    PROVE  WinnerOf(set) \in Candidates \cup {None} /\ (WinnerOf(set) # None <=> set # {})
<1>1. ms \in [Candidates -> Nat]
  BY MeasureAssumption
<1>2. set # {} => Fastest(set, ms) \in set
  BY <1>1, FastestFound
<1> QED
  BY <1>2, CandidateIsSome DEF WinnerOf

LEMMA MeasuredTimes ==
    ASSUME cache \in Files, cache.kind = "measured"
    PROVE  cache.valid \subseteq Candidates /\ cache.ms \in [Candidates -> Nat]
<1>1. cache \in MeasuredFile
  BY DEF Files, NoFile, Partial, PolicyFiles
<1> QED
  BY <1>1, MeasureAssumption DEF MeasuredFile

LEMMA SelectionType ==
    ASSUME cache \in Files
    PROVE  Selection(cache) \in Candidates \cup {None}
<1>1. CASE cache.kind # "measured" \/ cache.valid \cap request.accept = {}
  BY <1>1 DEF Selection
<1>2. CASE cache.kind = "measured" /\ cache.valid \cap request.accept # {}
  <2>1. Fastest(cache.valid \cap request.accept, cache.ms) \in cache.valid \cap request.accept
    BY <1>2, MeasuredTimes, FastestFound
  <2> QED
    BY <1>2, <2>1, MeasuredTimes DEF Selection
<1> QED
  BY <1>1, <1>2

-----------------------------------------------------------------------------
(***************************************************************************)
(* The steps keep the invariant.                                           *)
(***************************************************************************)

\* Which call it is that a rank makes.
LEMMA WhichCall ==
    ASSUME Typed, NEW r \in Ranks, pc[r] \in CallPhases,
           pc[r] = "measure" => step[r] \in Calling \cup {Voting}
    PROVE  /\ Coming[r] = StatePoint => pc[r] = "state"
           /\ Coming[r] = WinnerPoint => pc[r] = "winner"
           /\ Coming[r] = SavedPoint => pc[r] = "saved"
           /\ Coming[r] = BarrierPoint => pc[r] = "savedBarrier"
           /\ \A c \in Candidates : Coming[r] = MeasurePoint[c][Voting] =>
                  pc[r] = "measure" /\ cand[r] = c /\ step[r] = Voting
<1>1. CASE pc[r] = "measure"
  <2> DEFINE c == cand[r]
             s == step[r]
  <2>1. c \in Candidates /\ s \in 1 .. Voting /\ (~Is4D => s # Voting)
    BY <1>1 DEF Typed
  <2>2. Coming[r] = MeasurePoint[c][s]
    <3>1. CASE s = Voting
      BY <1>1, <2>1, <3>1, OnwardEnds, NextPoints DEF Coming
    <3>2. CASE s \in Calling
      BY <1>1, <2>1, <3>2, OnwardCalling DEF Coming
    <3> QED
      BY <1>1, <3>1, <3>2
  <2>3. Coming[r].cand = c /\ Coming[r].step = s /\ c # None
    BY <2>1, <2>2, MeasurePoints, CandidateIsSome
  <2>4. \A d \in Candidates : MeasurePoint[d][Voting].cand = d /\ MeasurePoint[d][Voting].step = Voting
    BY MeasurePoints, ScriptSteps
  <2> QED
    BY <1>1, <2>3, <2>4, SharedPoints
<1>2. CASE pc[r] # "measure"
  <2>1. \A c \in Candidates : MeasurePoint[c][Voting].cand # None
    BY MeasurePoints, ScriptSteps, CandidateIsSome
  <2>2. Coming[r].cand = None /\ Coming[r].step = pc[r]
    BY <1>2, SharedPoints DEF Coming, CallPhases
  <2> QED
    BY <2>1, <2>2, SharedPoints
<1> QED
  BY <1>1, <1>2

\* What remains of the file and of the sweep's results when they do not change.
LEMMA RestFixed ==
    ASSUME UNCHANGED jobVars
    PROVE  /\ cache' = cache => Chosen' = Chosen /\ Refused' = Refused
           /\ valid' = valid => Content' = Content
           /\ \A q \in Ranks : cand'[q] = cand[q] /\ step'[q] = step[q] => Over'[q] = Over[q]
<1>1. cache' = cache => Chosen' = Chosen /\ Refused' = Refused
  BY DEF Chosen, Refused, Selection, PolicyServes, Is4D, jobVars
<1>2. valid' = valid => Content' = Content
  BY DEF Content, jobVars
<1>3. Voting' = Voting
  BY JobFixed
<1> QED
  BY <1>1, <1>2, <1>3 DEF Over

LEMMA EnterInv ==
    ASSUME MInv, NEW r \in Ranks, Enter(r)
    PROVE  MInv'
<1> USE DEF MInv
<1>1. /\ LockStep' /\ SamePrefix' /\ calls' \in [Ranks -> Seq(Points)]
      /\ Made' = [Made EXCEPT ![r] = @ \cup {Coming[r]}]
  BY EnterLockStep
<1>2. /\ pc' = pc /\ cand' = cand /\ step' = step /\ passed' = passed /\ valid' = valid
      /\ selected' = selected /\ state' = state /\ winner' = winner /\ saveError' = saveError
      /\ cache' = cache /\ tmp' = tmp /\ inside' = inside \cup {r} /\ UNCHANGED jobVars
  BY DEF Enter, rankVars, rootVars, fileVars
<1>3. fate' = fate /\ ms' = ms /\ request' = request /\ job' = job
  BY <1>2 DEF jobVars
<1>4. /\ Good' = Good /\ Usable' = Usable /\ Voting' = Voting /\ Is4D' = Is4D /\ Breaking' = Breaking
      /\ MeasurePoint' = MeasurePoint /\ Chosen' = Chosen /\ Refused' = Refused
      /\ Content' = Content /\ Points' = Points
  BY <1>2, JobFixed, RestFixed DEF Points
<1>5. Over' = Over
  BY <1>2, <1>4 DEF Over
<1>6. Typed'
  BY <1>1, <1>2, <1>3, <1>4 DEF Typed
<1>7. MadeBefore'
  <2>1. /\ pc[r] \in CallPhases /\ Point(r) = Coming[r]
        /\ pc[r] = "measure" => step[r] \in Calling \cup {Voting}
    BY PointComing DEF Enter
  <2>2. Made' = [q \in Ranks |-> IF q = r THEN Made[r] \cup {Coming[r]} ELSE Made[q]]
    BY <1>1 DEF Made
  <2>3. ASSUME NEW c \in Candidates, Coming[r] = MeasurePoint[c][Voting]
        PROVE  /\ pc[r] = "measure" /\ c = cand[r] /\ step[r] = Voting
               /\ c \in passed[r] <=> c \in Good
    <3>1. pc[r] = "measure" /\ c = cand[r] /\ step[r] = Voting
      BY <2>1, <2>3, WhichCall
    <3>2. c \in Over[r]
      BY <3>1 DEF Over
    <3> QED
      BY <3>1, <3>2 DEF Sweeping
  <2>4. /\ Coming[r] = StatePoint => pc[r] = "state"
        /\ Coming[r] = WinnerPoint => pc[r] = "winner"
        /\ Coming[r] = SavedPoint => pc[r] = "saved"
        /\ Coming[r] = BarrierPoint => pc[r] = "savedBarrier"
    BY <2>1, WhichCall
  <2> SUFFICES ASSUME NEW q \in Ranks
               PROVE  /\ StatePoint \in Made'[q] => pc[q] \notin {"inventory", "inspect"}
                      /\ WinnerPoint \in Made'[q] =>
                             pc[q] \notin {"inventory", "inspect", "state", "measure", "choose"}
                      /\ SavedPoint \in Made'[q] =>
                             pc[q] \in {"saved", "savedBarrier", "load", "returned", "failed"}
                      /\ BarrierPoint \in Made'[q] => pc[q] \in {"savedBarrier", "load", "returned", "failed"}
                      /\ \A c \in Candidates : MeasurePoint[c][Voting] \in Made'[q] =>
                             /\ pc[q] \notin {"inventory", "inspect", "state"}
                             /\ pc[q] = "measure" => c < cand[q] \/ (c = cand[q] /\ step[q] = Voting)
                             /\ c \in passed[q] <=> c \in Good
    BY <1>2, <1>4 DEF MadeBefore, StatePoint, WinnerPoint, SavedPoint, BarrierPoint
  <2>5. CASE q # r
    BY <2>2, <2>5 DEF MadeBefore
  <2>6. CASE q = r
    BY <2>2, <2>3, <2>4, <2>6 DEF MadeBefore
  <2> QED
    BY <2>5, <2>6
<1>8. Sweeping' /\ Final' /\ Saving' /\ Verdicts'
  BY <1>2, <1>3, <1>4, <1>5 DEF Sweeping, HasSwept, Final, Saving, Verdicts
<1> QED
  BY <1>1, <1>6, <1>7, <1>8

\* All but the places of the ranks and their calls stays the same, and what
\* follows from it.
RestSame ==
    /\ cand' = cand /\ step' = step /\ passed' = passed /\ valid' = valid
    /\ selected' = selected /\ state' = state /\ winner' = winner /\ saveError' = saveError
    /\ cache' = cache /\ tmp' = tmp /\ UNCHANGED jobVars
    /\ request' = request /\ fate' = fate /\ ms' = ms
    /\ Good' = Good /\ Usable' = Usable /\ Voting' = Voting /\ Breaking' = Breaking
    /\ MeasurePoint' = MeasurePoint
    /\ Onward' = Onward /\ Follows' = Follows
    /\ Over' = Over /\ Chosen' = Chosen /\ Refused' = Refused /\ Content' = Content

\* A rank goes somewhere else, and changes nothing but its own place.
LEMMA PlaceOnly ==
    ASSUME Typed, NEW r \in Ranks, NEW x \in Phases \ {"dead"}, Go(r, x), pc[r] # "dead",
           x \in RootPhases => r = 0,
           x = "measure" /\ ~Is4D => step[r] # Voting,
           calls' = calls, inside' = inside \ {r}, UNCHANGED <<rankVars, rootVars, jobVars, fileVars>>
    PROVE  /\ Typed'
           /\ pc'[r] = x /\ \A q \in Ranks \ {r} : pc'[q] = pc[q]
           /\ RestSame
<1>1. /\ pc' = [pc EXCEPT ![r] = x] /\ pc \in [Ranks -> Phases]
      /\ cand' = cand /\ step' = step /\ passed' = passed /\ valid' = valid
      /\ selected' = selected /\ state' = state /\ winner' = winner /\ saveError' = saveError
      /\ cache' = cache /\ tmp' = tmp /\ UNCHANGED jobVars
  BY DEF Go, Typed, rankVars, rootVars, fileVars
<1>2. fate' = fate /\ ms' = ms /\ request' = request /\ job' = job
  BY <1>1 DEF jobVars
<1>3. /\ Good' = Good /\ Usable' = Usable /\ Voting' = Voting /\ Is4D' = Is4D /\ Breaking' = Breaking
      /\ MeasurePoint' = MeasurePoint /\ Onward' = Onward /\ Follows' = Follows
      /\ Chosen' = Chosen /\ Refused' = Refused /\ Content' = Content /\ Points' = Points
  BY <1>1, JobFixed, RestFixed DEF Points
<1>4. Over' = Over
  BY <1>1, <1>3 DEF Over
<1>5. pc'[r] = x /\ (\A q \in Ranks \ {r} : pc'[q] = pc[q]) /\ pc' \in [Ranks -> Phases]
  BY <1>1
<1>6. \A q, p \in Ranks : pc'[q] = "dead" => pc'[p] = "dead"
  BY <1>5 DEF Typed
<1>7. \A q \in Ranks : pc'[q] \in RootPhases => q = 0
  BY <1>5 DEF Typed
<1>8. \A q \in Ranks : pc'[q] = "measure" /\ ~Is4D => step[q] # Voting
  BY <1>5 DEF Typed
<1>9. Typed'
  BY <1>1, <1>2, <1>3, <1>5, <1>6, <1>7, <1>8 DEF Typed
<1> QED
  BY <1>1, <1>2, <1>3, <1>4, <1>5, <1>9 DEF RestSame

LEMMA AfterInventoryInv ==
    ASSUME MInv, NEW r \in Ranks, AfterInventory(r)
    PROVE  MInv'
<1> USE DEF MInv
<1> DEFINE x == IF r = 0 THEN "inspect" ELSE "state"
<1>1. /\ pc[r] = "inventory" /\ Leave(r) /\ Go(r, x) /\ UNCHANGED <<rankVars, rootVars, jobVars, fileVars>>
      /\ x \in Phases \ {"dead", "measure"} /\ (x \in RootPhases => r = 0)
      /\ x = "inspect" \/ (x = "state" /\ r # 0)
  BY DEF AfterInventory, Phases, RootPhases
<1>2. r \in inside /\ inside' = inside \ {r} /\ calls' = calls
  BY <1>1 DEF Leave
<1> HIDE DEF x
<1>3. /\ Typed' /\ pc'[r] = x /\ \A q \in Ranks \ {r} : pc'[q] = pc[q]
      /\ RestSame
  BY <1>1, <1>2, PlaceOnly
<1> USE DEF RestSame
<1>4. LockStep' /\ SamePrefix' /\ Made' = Made
  <2>1. Coming'[r] = StatePoint /\ Coming[r] = InventoryPoint
    BY <1>1, <1>3 DEF Coming, StatePoint, InventoryPoint
  <2> QED
    BY <1>1, <1>2, <1>3, <2>1, CallsKept, Following
<1>5. MadeBefore'
  BY <1>1, <1>3, <1>4 DEF MadeBefore, StatePoint, WinnerPoint, SavedPoint, BarrierPoint
<1>6. Sweeping'
  BY <1>1, <1>3 DEF Sweeping, HasSwept
<1>7. Final'
  BY <1>1, <1>3, Numbers DEF Final, HasSwept
<1>8. Saving'
  BY <1>1, <1>3, Numbers DEF Saving
<1>9. Verdicts'
  BY <1>1, <1>3, Numbers DEF Verdicts
<1> QED
  BY <1>3, <1>4, <1>5, <1>6, <1>7, <1>8, <1>9

LEMMA AfterStateInv ==
    ASSUME MInv, NEW r \in Ranks, AfterState(r)
    PROVE  MInv'
<1> USE DEF MInv
<1> DEFINE x == CASE state = 0 -> "load" [] state = 1 -> "measure" [] OTHER -> "failed"
<1>1. /\ pc[r] = "state" /\ Leave(r) /\ Go(r, x) /\ UNCHANGED <<rankVars, rootVars, jobVars, fileVars>>
      /\ x \in Phases \ {"dead"} /\ x \notin RootPhases
      /\ x = "load" => state = 0
      /\ x = "measure" => state = 1
      /\ x = "failed" => state \in {2, 3}
      /\ x \in {"load", "measure", "failed"}
  BY DEF AfterState, Phases, RootPhases, Typed
<1>2. /\ r \in inside /\ inside' = inside \ {r} /\ calls' = calls
      /\ Coming[r] = StatePoint /\ StatePoint \in Made[0]
  <2>1. Call(r) = "bcast" /\ Coming[r] = StatePoint
    BY <1>1 DEF Call, Coming
  <2> QED
    BY <1>1, <2>1, Met, Numbers
<1> HIDE DEF x
<1>3. /\ passed[r] = {} /\ valid[r] = {} /\ cand[r] = 1 /\ step[r] = 1 /\ step[r] # Voting
      /\ Over[r] = {}
  <2>1. passed[r] = {} /\ valid[r] = {} /\ cand[r] = 1 /\ step[r] = 1
    BY <1>1 DEF Sweeping
  <2>2. Voting # 1
    BY ScriptSteps
  <2> QED
    BY <2>1, <2>2 DEF Over, Candidates
<1>4. /\ Typed' /\ pc'[r] = x /\ \A q \in Ranks \ {r} : pc'[q] = pc[q]
      /\ RestSame
  BY <1>1, <1>2, <1>3, PlaceOnly
<1> USE DEF RestSame
<1>5. LockStep' /\ SamePrefix' /\ Made' = Made
  <2>1. pc'[r] \in LivePhases => Coming'[r] = Follows[Coming[r]]
    <3>1. CASE x = "measure"
      <4>1. Coming'[r] = Onward[1][1]
        BY <1>3, <1>4, <3>1 DEF Coming
      <4> QED
        BY <1>2, <4>1, Following, OnwardCalling, ScriptSteps, Numbers
    <3>2. CASE x # "measure"
      BY <1>1, <1>4, <3>2 DEF LivePhases
    <3> QED
      BY <3>1, <3>2
  <2> QED
    BY <1>1, <1>2, <1>4, <2>1, CallsKept
<1>6. MadeBefore'
  BY <1>1, <1>4, <1>5 DEF MadeBefore, StatePoint, WinnerPoint, SavedPoint, BarrierPoint
<1>7. Sweeping'
  <2>1. pc'[r] = "measure" => \A i \in 1 .. step[r] - 1 : i \notin Breaking[cand[r]]
    BY <1>3
  <2>2. ~HasSwept(r)' /\ pc'[r] \notin {"inventory", "inspect", "state"}
    BY <1>1, <1>4 DEF HasSwept
  <2>3. \A q \in Ranks \ {r} : HasSwept(q)' <=> HasSwept(q)
    BY <1>4 DEF HasSwept
  <2> SUFFICES ASSUME NEW q \in Ranks
               PROVE  /\ pc'[q] \in {"inventory", "inspect", "state"} =>
                            passed[q] = {} /\ valid[q] = {} /\ cand[q] = 1 /\ step[q] = 1
                      /\ pc'[q] = "measure" =>
                            /\ passed[q] = Good \cap Over[q] /\ valid[q] = Usable \cap Over[q]
                            /\ step[q] # Voting => \A i \in 1 .. step[q] - 1 : i \notin Breaking[cand[q]]
                            /\ ~request.continue => Over[q] \subseteq Good
                      /\ HasSwept(q)' => /\ valid[q] = Usable
                                         /\ ~request.continue => Good = Candidates
    BY <1>4 DEF Sweeping
  <2>4. CASE q = r
    BY <1>1, <1>3, <1>4, <2>1, <2>2, <2>4
  <2>5. CASE q # r
    <3>1. pc'[q] = pc[q] /\ (HasSwept(q)' <=> HasSwept(q))
      BY <1>4, <2>3, <2>5
    <3> QED
      BY <3>1 DEF Sweeping
  <2> QED
    BY <2>4, <2>5
<1>8. pc[0] \notin {"inventory", "inspect"}
  BY <1>2, Numbers DEF MadeBefore
<1>9. Final'
  BY <1>1, <1>4, <1>8, Numbers DEF Final, HasSwept
<1>10. Saving'
  BY <1>1, <1>4, Numbers DEF Saving
<1>11. Verdicts'
  BY <1>1, <1>4, Numbers DEF Verdicts
<1> QED
  BY <1>4, <1>5, <1>6, <1>7, <1>9, <1>10, <1>11

LEMMA AfterWinnerInv ==
    ASSUME MInv, NEW r \in Ranks, AfterWinner(r)
    PROVE  MInv'
<1> USE DEF MInv
<1> DEFINE x == IF winner = None THEN "failed" ELSE IF r = 0 THEN "open" ELSE "saved"
<1>1. /\ pc[r] = "winner" /\ Leave(r) /\ Go(r, x) /\ UNCHANGED <<rankVars, rootVars, jobVars, fileVars>>
      /\ x \in Phases \ {"dead", "measure"} /\ (x \in RootPhases => r = 0)
      /\ \/ x = "failed" /\ winner = None
         \/ x = "open" /\ winner # None /\ r = 0
         \/ x = "saved" /\ winner # None /\ r # 0
  BY DEF AfterWinner, Phases, RootPhases
<1>2. /\ r \in inside /\ inside' = inside \ {r} /\ calls' = calls
      /\ Coming[r] = WinnerPoint /\ WinnerPoint \in Made[0]
  <2>1. Call(r) = "bcast" /\ Coming[r] = WinnerPoint
    BY <1>1 DEF Call, Coming
  <2> QED
    BY <1>1, <2>1, Met, Numbers
<1> HIDE DEF x
<1>3. /\ Typed' /\ pc'[r] = x /\ \A q \in Ranks \ {r} : pc'[q] = pc[q]
      /\ RestSame
  BY <1>1, <1>2, PlaceOnly
<1> USE DEF RestSame
<1>4. LockStep' /\ SamePrefix' /\ Made' = Made
  <2>1. pc'[r] \in LivePhases => Coming'[r] = Follows[Coming[r]]
    BY <1>1, <1>2, <1>3, Following DEF Coming, LivePhases
  <2> QED
    BY <1>1, <1>2, <1>3, <2>1, CallsKept
<1>5. MadeBefore'
  BY <1>1, <1>3, <1>4 DEF MadeBefore, StatePoint, WinnerPoint, SavedPoint, BarrierPoint
<1>6. Sweeping'
  BY <1>1, <1>3 DEF Sweeping, HasSwept
<1>7. /\ pc[0] \notin {"inventory", "inspect", "state", "measure", "choose"} /\ state = 1
      /\ winner = None => pc[0] \in {"winner", "failed"}
      /\ r = 0 => ~saveError
  <2>1. /\ pc[0] \notin {"inventory", "inspect", "state", "measure", "choose"} /\ state = 1
        /\ pc[0] # "dead" /\ pc[0] \in Phases
    BY <1>1, <1>2, Numbers DEF MadeBefore, Final, Typed
  <2>2. winner = None => pc[0] \in {"winner", "failed"}
    BY <2>1, Numbers DEF Final, HasSwept, Phases
  <2>3. r = 0 => ~saveError
    BY <1>1 DEF Saving
  <2> QED
    BY <2>1, <2>2, <2>3
<1>8. Final'
  BY <1>1, <1>3, <1>7, Numbers DEF Final, HasSwept
<1>9. Saving'
  BY <1>1, <1>3, <1>7, Numbers DEF Saving
<1>10. Verdicts'
  BY <1>1, <1>3, <1>7, Numbers DEF Verdicts
<1> QED
  BY <1>3, <1>4, <1>5, <1>6, <1>8, <1>9, <1>10

LEMMA AfterSavedInv ==
    ASSUME MInv, NEW r \in Ranks, AfterSaved(r)
    PROVE  MInv'
<1> USE DEF MInv
<1> DEFINE x == "savedBarrier"
<1>1. /\ pc[r] = "saved" /\ Leave(r) /\ Go(r, x) /\ UNCHANGED <<rankVars, rootVars, jobVars, fileVars>>
      /\ x \in Phases \ {"dead", "measure"} /\ (x \in RootPhases => r = 0)
      /\ x = "savedBarrier"
  BY DEF AfterSaved, Phases, RootPhases
<1>2. /\ r \in inside /\ inside' = inside \ {r} /\ calls' = calls
      /\ Coming[r] = SavedPoint /\ SavedPoint \in Made[0]
  <2>1. Call(r) = "bcast" /\ Coming[r] = SavedPoint
    BY <1>1 DEF Call, Coming
  <2> QED
    BY <1>1, <2>1, Met, Numbers
<1> HIDE DEF x
<1>3. /\ Typed' /\ pc'[r] = x /\ \A q \in Ranks \ {r} : pc'[q] = pc[q]
      /\ RestSame
  BY <1>1, <1>2, PlaceOnly
<1> USE DEF RestSame
<1>4. LockStep' /\ SamePrefix' /\ Made' = Made
  <2>1. pc'[r] \in LivePhases => Coming'[r] = Follows[Coming[r]]
    BY <1>1, <1>2, <1>3, Following DEF Coming, LivePhases
  <2> QED
    BY <1>1, <1>2, <1>3, <2>1, CallsKept
<1>5. MadeBefore'
  BY <1>1, <1>3, <1>4 DEF MadeBefore, StatePoint, WinnerPoint, SavedPoint, BarrierPoint
<1>6. Sweeping'
  BY <1>1, <1>3 DEF Sweeping, HasSwept
<1>7. pc[0] \in {"saved", "savedBarrier", "load", "returned", "failed"}
  BY <1>2, Numbers DEF MadeBefore
<1>8. Final'
  BY <1>1, <1>3, <1>7, Numbers DEF Final, HasSwept
<1>9. Saving'
  BY <1>1, <1>3, <1>7, Numbers DEF Saving
<1>10. Verdicts'
  BY <1>1, <1>3, <1>7, Numbers DEF Verdicts
<1> QED
  BY <1>3, <1>4, <1>5, <1>6, <1>8, <1>9, <1>10

LEMMA AfterBarrierInv ==
    ASSUME MInv, NEW r \in Ranks, AfterBarrier(r)
    PROVE  MInv'
<1> USE DEF MInv
<1> DEFINE x == IF saveError THEN "failed" ELSE "load"
<1>1. /\ pc[r] = "savedBarrier" /\ Leave(r) /\ Go(r, x) /\ UNCHANGED <<rankVars, rootVars, jobVars, fileVars>>
      /\ x \in Phases \ {"dead", "measure"} /\ (x \in RootPhases => r = 0)
      /\ \/ x = "failed" /\ saveError
         \/ x = "load" /\ ~saveError
  BY DEF AfterBarrier, Phases, RootPhases
<1>2. /\ r \in inside /\ inside' = inside \ {r} /\ calls' = calls
      /\ Coming[r] = BarrierPoint /\ BarrierPoint \in Made[0]
  <2>1. Call(r) = "barrier" /\ Coming[r] = BarrierPoint
    BY <1>1 DEF Call, Coming
  <2> QED
    BY <1>1, <2>1, Met, Numbers
<1> HIDE DEF x
<1>3. /\ Typed' /\ pc'[r] = x /\ \A q \in Ranks \ {r} : pc'[q] = pc[q]
      /\ RestSame
  BY <1>1, <1>2, PlaceOnly
<1> USE DEF RestSame
<1>4. LockStep' /\ SamePrefix' /\ Made' = Made
  <2>1. pc'[r] \in LivePhases => Coming'[r] = Follows[Coming[r]]
    BY <1>1, <1>2, <1>3, Following DEF Coming, LivePhases
  <2> QED
    BY <1>1, <1>2, <1>3, <2>1, CallsKept
<1>5. MadeBefore'
  BY <1>1, <1>3, <1>4 DEF MadeBefore, StatePoint, WinnerPoint, SavedPoint, BarrierPoint
<1>6. Sweeping'
  BY <1>1, <1>3 DEF Sweeping, HasSwept
<1>7. pc[0] \in {"savedBarrier", "load", "returned", "failed"} /\ state = 1
  BY <1>1, <1>2, Numbers DEF MadeBefore, Final
<1>8. Final'
  BY <1>1, <1>3, <1>7, Numbers DEF Final, HasSwept
<1>9. Saving'
  BY <1>1, <1>3, <1>7, Numbers DEF Saving
<1>10. Verdicts'
  BY <1>1, <1>3, <1>7, Numbers DEF Verdicts
<1> QED
  BY <1>3, <1>4, <1>5, <1>6, <1>8, <1>9, <1>10

\* A step between two calls, of rank 0 alone or the reading of the file.
LEMMA Locally ==
    ASSUME Typed, LockStep, SamePrefix, MadeBefore, NEW r \in Ranks, NEW x, Go(r, x),
           \/ pc[r] = "inspect" /\ x = "state"
           \/ pc[r] = "choose" /\ x = "winner"
           \/ pc[r] \in {"open", "write", "rename"} /\ x \in {"write", "rename", "saved"} /\ r = 0
           \/ pc[r] = "load" /\ x \in {"returned", "failed"},
           UNCHANGED <<cand, step, passed, valid, callVars, jobVars>>
    PROVE  /\ LockStep' /\ SamePrefix' /\ MadeBefore'
           /\ pc' \in [Ranks -> Phases] /\ pc'[r] = x /\ \A q \in Ranks \ {r} : pc'[q] = pc[q]
           /\ \A q, p \in Ranks : pc'[q] = "dead" => pc'[p] = "dead"
           /\ \A q \in Ranks : pc'[q] \in RootPhases => q = 0
           /\ \A q \in Ranks : pc'[q] = "measure" /\ ~Is4D' => step'[q] # Voting'
           /\ cand' = cand /\ step' = step /\ passed' = passed /\ valid' = valid
           /\ calls' = calls /\ inside' = inside /\ UNCHANGED jobVars
           /\ request' = request /\ fate' = fate /\ ms' = ms /\ job' = job
           /\ Good' = Good /\ Usable' = Usable /\ Voting' = Voting /\ Breaking' = Breaking /\ Points' = Points
           /\ Over' = Over /\ Content' = Content
           /\ cache' = cache => Chosen' = Chosen /\ Refused' = Refused
<1>1. /\ pc' = [pc EXCEPT ![r] = x] /\ pc \in [Ranks -> Phases] /\ x \in Phases
      /\ cand' = cand /\ step' = step /\ passed' = passed /\ valid' = valid
      /\ calls' = calls /\ inside' = inside /\ UNCHANGED jobVars
  BY DEF Go, Typed, callVars, Phases
<1>2. request' = request /\ fate' = fate /\ ms' = ms /\ job' = job
  BY <1>1 DEF jobVars
<1>3. /\ Good' = Good /\ Usable' = Usable /\ Voting' = Voting /\ Is4D' = Is4D /\ Breaking' = Breaking
      /\ MeasurePoint' = MeasurePoint /\ Onward' = Onward /\ Follows' = Follows
      /\ Content' = Content /\ Points' = Points
      /\ cache' = cache => Chosen' = Chosen /\ Refused' = Refused
  BY <1>1, JobFixed, RestFixed DEF Points
<1>4. Over' = Over
  BY <1>1, <1>3 DEF Over
<1>5. pc'[r] = x /\ (\A q \in Ranks \ {r} : pc'[q] = pc[q]) /\ pc' \in [Ranks -> Phases]
  BY <1>1
<1>6. \A q, p \in Ranks : pc'[q] = "dead" => pc'[p] = "dead"
  BY <1>5 DEF Typed
<1>7. \A q \in Ranks : pc'[q] \in RootPhases => q = 0
  BY <1>5 DEF Typed, RootPhases
<1>8. \A q \in Ranks : pc'[q] = "measure" /\ ~Is4D' => step'[q] # Voting'
  BY <1>1, <1>3, <1>5 DEF Typed
<1>9. LockStep' /\ SamePrefix' /\ Made' = Made
  <2>1. r \notin inside
    BY DEF LockStep, CallPhases
  <2>2. pc'[r] \in LivePhases => Coming'[r] = Coming[r] /\ pc[r] \in LivePhases
    BY <1>5 DEF Coming, LivePhases
  <2>3. inside' = inside \ {r}
    BY <1>1, <2>1
  <2>4. pc[r] # "inventory" /\ pc'[r] \notin {"inventory", "dead"}
    BY <1>5
  <2>5. \A q \in Ranks \ {r} : pc'[q] = pc[q] /\ cand'[q] = cand[q] /\ step'[q] = step[q]
    BY <1>1, <1>5
  <2> QED
    BY <1>1, <2>1, <2>2, <2>3, <2>4, <2>5, CallsKept
<1>10. MadeBefore'
  BY <1>1, <1>3, <1>5, <1>9 DEF MadeBefore, StatePoint, WinnerPoint, SavedPoint, BarrierPoint
<1> QED
  BY <1>1, <1>2, <1>3, <1>4, <1>5, <1>6, <1>7, <1>8, <1>9, <1>10

LEMMA InspectInv ==
    ASSUME MInv, Inspect
    PROVE  MInv'
<1> USE DEF MInv
<1>1. /\ pc[0] = "inspect" /\ Go(0, "state") /\ state' = Inspection
      /\ UNCHANGED <<cand, step, passed, valid, callVars, jobVars>>
      /\ selected' = selected /\ winner' = winner /\ saveError' = saveError
      /\ cache' = cache /\ tmp' = tmp
  BY DEF Inspect, rankVars, fileVars
<1>2. /\ LockStep' /\ SamePrefix' /\ MadeBefore'
      /\ pc' \in [Ranks -> Phases] /\ pc'[0] = "state" /\ \A q \in Ranks \ {0} : pc'[q] = pc[q]
      /\ \A q, p \in Ranks : pc'[q] = "dead" => pc'[p] = "dead"
      /\ \A q \in Ranks : pc'[q] \in RootPhases => q = 0
      /\ \A q \in Ranks : pc'[q] = "measure" /\ ~Is4D' => step'[q] # Voting'
      /\ cand' = cand /\ step' = step /\ passed' = passed /\ valid' = valid
      /\ calls' = calls /\ inside' = inside
      /\ request' = request /\ fate' = fate /\ ms' = ms /\ job' = job
      /\ Good' = Good /\ Usable' = Usable /\ Voting' = Voting /\ Breaking' = Breaking /\ Points' = Points
      /\ Over' = Over /\ Content' = Content /\ Chosen' = Chosen /\ Refused' = Refused
  BY <1>1, Locally, Numbers
<1>3. /\ state' \in 0 .. 3
      /\ state' = 1 /\ cache.kind = "measured" => cache.problem # request.problem
  BY <1>1 DEF Inspection, SameProblem, NoFile, Partial
<1>4. Typed'
  BY <1>1, <1>2, <1>3 DEF Typed
\* Nobody has read the state yet.
<1>5. \A q \in Ranks : pc[q] \in {"inventory", "inspect", "state", "dead"}
  BY <1>1 DEF Final
<1>6. Sweeping'
  BY <1>1, <1>2, <1>5 DEF Sweeping, HasSwept
<1>7. Final'
  BY <1>2, <1>5, Numbers DEF Final, HasSwept
<1>8. Saving'
  BY <1>1, <1>2, <1>3 DEF Saving
<1>9. Verdicts'
  BY <1>2, <1>5, Numbers DEF Verdicts
<1> QED
  BY <1>2, <1>4, <1>6, <1>7, <1>8, <1>9

LEMMA ChooseInv ==
    ASSUME MInv, Choose
    PROVE  MInv'
<1> USE DEF MInv
<1>1. /\ pc[0] = "choose" /\ Go(0, "winner") /\ winner' = WinnerOf(valid[0])
      /\ UNCHANGED <<cand, step, passed, valid, callVars, jobVars>>
      /\ selected' = selected /\ state' = state /\ saveError' = saveError
      /\ cache' = cache /\ tmp' = tmp
  BY DEF Choose, rankVars, fileVars
<1>2. /\ LockStep' /\ SamePrefix' /\ MadeBefore'
      /\ pc' \in [Ranks -> Phases] /\ pc'[0] = "winner" /\ \A q \in Ranks \ {0} : pc'[q] = pc[q]
      /\ \A q, p \in Ranks : pc'[q] = "dead" => pc'[p] = "dead"
      /\ \A q \in Ranks : pc'[q] \in RootPhases => q = 0
      /\ \A q \in Ranks : pc'[q] = "measure" /\ ~Is4D' => step'[q] # Voting'
      /\ cand' = cand /\ step' = step /\ passed' = passed /\ valid' = valid
      /\ calls' = calls /\ inside' = inside
      /\ request' = request /\ fate' = fate /\ ms' = ms /\ job' = job
      /\ Good' = Good /\ Usable' = Usable /\ Voting' = Voting /\ Breaking' = Breaking /\ Points' = Points
      /\ Over' = Over /\ Content' = Content /\ Chosen' = Chosen /\ Refused' = Refused
  BY <1>1, Locally, Numbers
<1>3. valid[0] = Usable /\ state = 1 /\ winner = None /\ saveError = FALSE
  BY <1>1, Numbers DEF Sweeping, HasSwept, Final, Saving, Typed
<1>4. winner' \in Candidates \cup {None} /\ (winner' # None => Usable # {})
  <2>1. Usable \subseteq Candidates /\ ms \in Millis
    BY DEF Good, Usable, Typed
  <2> QED
    BY <1>1, <1>3, <2>1, WinnerType
<1>5. Typed'
  BY <1>1, <1>2, <1>4 DEF Typed
<1>6. Sweeping'
  BY <1>1, <1>2 DEF Sweeping, HasSwept
<1>7. Final'
  BY <1>1, <1>2, <1>3, Numbers DEF Final, HasSwept
<1>8. Saving'
  BY <1>1, <1>2, <1>3, <1>4 DEF Saving
<1>9. Verdicts'
  BY <1>1, <1>2, <1>3, Numbers DEF Verdicts
<1> QED
  BY <1>2, <1>5, <1>6, <1>7, <1>8, <1>9

LEMMA LoadInv ==
    ASSUME MInv, NEW r \in Ranks, Load(r)
    PROVE  MInv'
<1> USE DEF MInv
<1> DEFINE x == IF Chosen # None \/ PolicyServes THEN "returned" ELSE "failed"
<1>1. /\ pc[r] = "load" /\ Go(r, x) /\ selected' = [selected EXCEPT ![r] = Chosen]
      /\ UNCHANGED <<cand, step, passed, valid, callVars, jobVars>>
      /\ state' = state /\ winner' = winner /\ saveError' = saveError
      /\ cache' = cache /\ tmp' = tmp
  BY DEF Load, rootVars, fileVars, Chosen
<1>2. x \in {"returned", "failed"} /\ (x = "failed" <=> Refused)
  BY DEF Refused
<1> HIDE DEF x
<1>3. /\ LockStep' /\ SamePrefix' /\ MadeBefore'
      /\ pc' \in [Ranks -> Phases] /\ pc'[r] = x /\ \A q \in Ranks \ {r} : pc'[q] = pc[q]
      /\ \A q, p \in Ranks : pc'[q] = "dead" => pc'[p] = "dead"
      /\ \A q \in Ranks : pc'[q] \in RootPhases => q = 0
      /\ \A q \in Ranks : pc'[q] = "measure" /\ ~Is4D' => step'[q] # Voting'
      /\ cand' = cand /\ step' = step /\ passed' = passed /\ valid' = valid
      /\ calls' = calls /\ inside' = inside
      /\ request' = request /\ fate' = fate /\ ms' = ms /\ job' = job
      /\ Good' = Good /\ Usable' = Usable /\ Voting' = Voting /\ Breaking' = Breaking /\ Points' = Points
      /\ Over' = Over /\ Content' = Content /\ Chosen' = Chosen /\ Refused' = Refused
  BY <1>1, <1>2, Locally
<1>4. Chosen \in Candidates \cup {None} /\ selected \in [Ranks -> Candidates \cup {None}]
  BY SelectionType DEF Typed, Chosen
<1>5. /\ selected' \in [Ranks -> Candidates \cup {None}] /\ selected'[r] = Chosen
      /\ \A q \in Ranks \ {r} : selected'[q] = selected[q]
  BY <1>1, <1>4
<1>6. Typed'
  BY <1>1, <1>3, <1>5 DEF Typed
<1>7. Sweeping'
  BY <1>1, <1>2, <1>3 DEF Sweeping, HasSwept
<1>8. Final'
  BY <1>1, <1>2, <1>3, Numbers DEF Final, HasSwept
<1>9. Saving'
  BY <1>1, <1>2, <1>3, Numbers DEF Saving
<1>10. state = 0 \/ (/\ state = 1 /\ winner # None
                     /\ pc[0] \in {"savedBarrier", "load", "returned", "failed"})
  BY <1>1 DEF Final, HasSwept
<1>11. Verdicts'
  BY <1>1, <1>2, <1>3, <1>5, <1>10, Numbers DEF Verdicts
<1> QED
  BY <1>3, <1>6, <1>7, <1>8, <1>9, <1>11

\* What rank 0 writes can be read back, and is not empty.
LEMMA ContentWhole ==
    ASSUME Typed, Saving, winner # None
    PROVE  /\ Content \in Files /\ Content # Partial /\ Content.kind = "measured"
           /\ Content.valid = Usable /\ Content.valid # {} /\ Content.problem = request.problem
           /\ Content.ms = ms
<1>1. /\ Content.kind = "measured" /\ Content.valid = valid[0] /\ Content.ms = ms
      /\ Content.problem = request.problem
  BY DEF Content
<1>2. request.problem \in {"A", "B"}
  BY MeasureAssumption DEF Typed, RequestType
<1>3. Content \in MeasuredFile
  BY <1>2, Numbers DEF Content, MeasuredFile, Typed
<1>4. Partial.kind # "measured"
  BY DEF Partial
<1> QED
  BY <1>1, <1>3, <1>4 DEF Files, Saving

LEMMA SaveInv ==
    ASSUME MInv, Save
    PROVE  MInv'
<1> USE DEF MInv
<1>1. /\ \/ pc[0] = "open" /\ Go(0, "write") /\ cache' = cache /\ tmp' = Partial
         \/ pc[0] = "write" /\ Go(0, "rename") /\ cache' = cache /\ tmp' = Content
         \/ pc[0] = "rename" /\ Go(0, "saved") /\ cache' = tmp /\ tmp' = NoFile
      /\ UNCHANGED <<cand, step, passed, valid, callVars, jobVars>>
      /\ selected' = selected /\ state' = state /\ winner' = winner /\ saveError' = saveError
  BY DEF Save, SaveStep, Opened, Written, Renamed, rankVars, rootVars
<1>2. PICK where \in {"write", "rename", "saved"} :
          /\ Go(0, where)
          /\ \/ pc[0] = "open" /\ where = "write" /\ cache' = cache /\ tmp' = Partial
             \/ pc[0] = "write" /\ where = "rename" /\ cache' = cache /\ tmp' = Content
             \/ pc[0] = "rename" /\ where = "saved" /\ cache' = tmp /\ tmp' = NoFile
  BY <1>1
<1>3. /\ LockStep' /\ SamePrefix' /\ MadeBefore'
      /\ pc' \in [Ranks -> Phases] /\ pc'[0] = where /\ \A q \in Ranks \ {0} : pc'[q] = pc[q]
      /\ \A q, p \in Ranks : pc'[q] = "dead" => pc'[p] = "dead"
      /\ \A q \in Ranks : pc'[q] \in RootPhases => q = 0
      /\ \A q \in Ranks : pc'[q] = "measure" /\ ~Is4D' => step'[q] # Voting'
      /\ cand' = cand /\ step' = step /\ passed' = passed /\ valid' = valid
      /\ calls' = calls /\ inside' = inside
      /\ request' = request /\ fate' = fate /\ ms' = ms /\ job' = job
      /\ Good' = Good /\ Usable' = Usable /\ Voting' = Voting /\ Breaking' = Breaking /\ Points' = Points
      /\ Over' = Over /\ Content' = Content
      /\ cache' = cache => Chosen' = Chosen /\ Refused' = Refused
  BY <1>1, <1>2, Locally, Numbers
<1>4. state = 1 /\ winner # None /\ saveError = FALSE /\ (pc[0] = "rename" => tmp = Content)
  BY <1>2, Numbers DEF Final, HasSwept, Saving, Typed
<1>5. /\ Content \in Files /\ Content # Partial /\ Content.kind = "measured" /\ Content.valid # {}
      /\ Content.problem = request.problem
  BY <1>4, ContentWhole
<1>6. Typed'
  <2>1. cache' \in Files /\ tmp' \in Files
    BY <1>2, <1>4, <1>5 DEF Files, Typed
  <2> QED
    BY <1>1, <1>3, <2>1 DEF Typed
<1>7. Sweeping'
  BY <1>1, <1>2, <1>3 DEF Sweeping, HasSwept
<1>8. Final'
  BY <1>1, <1>2, <1>3, <1>4, Numbers DEF Final, HasSwept
<1>9. Saving'
  BY <1>1, <1>2, <1>3, <1>4, <1>5 DEF Saving
\* Nobody has made anything of the file yet.
<1>10. \A q \in Ranks : pc[q] \notin {"load", "returned"}
  BY <1>2, <1>4, Numbers DEF Final
<1>11. Verdicts'
  BY <1>1, <1>2, <1>3, <1>4, <1>10, Numbers DEF Verdicts
<1> QED
  BY <1>3, <1>6, <1>7, <1>8, <1>9, <1>11

LEMMA SaveFailsInv ==
    ASSUME MInv, SaveFails
    PROVE  MInv'
<1> USE DEF MInv
<1>1. /\ pc[0] \in {"open", "rename"} /\ Go(0, "saved") /\ saveError' = TRUE /\ tmp' \in {tmp, NoFile}
      /\ UNCHANGED <<cand, step, passed, valid, callVars, jobVars>>
      /\ selected' = selected /\ state' = state /\ winner' = winner /\ cache' = cache
  BY DEF SaveFails, rankVars
<1>2. /\ LockStep' /\ SamePrefix' /\ MadeBefore'
      /\ pc' \in [Ranks -> Phases] /\ pc'[0] = "saved" /\ \A q \in Ranks \ {0} : pc'[q] = pc[q]
      /\ \A q, p \in Ranks : pc'[q] = "dead" => pc'[p] = "dead"
      /\ \A q \in Ranks : pc'[q] \in RootPhases => q = 0
      /\ \A q \in Ranks : pc'[q] = "measure" /\ ~Is4D' => step'[q] # Voting'
      /\ cand' = cand /\ step' = step /\ passed' = passed /\ valid' = valid
      /\ calls' = calls /\ inside' = inside
      /\ request' = request /\ fate' = fate /\ ms' = ms /\ job' = job
      /\ Good' = Good /\ Usable' = Usable /\ Voting' = Voting /\ Breaking' = Breaking /\ Points' = Points
      /\ Over' = Over /\ Content' = Content /\ Chosen' = Chosen /\ Refused' = Refused
  BY <1>1, Locally, Numbers
<1>3. state = 1 /\ winner # None
  BY <1>1, Numbers DEF Final, HasSwept
<1>4. Typed'
  BY <1>1, <1>2 DEF Typed, Files
<1>5. Sweeping'
  BY <1>1, <1>2 DEF Sweeping, HasSwept
<1>6. Final'
  BY <1>1, <1>2, <1>3, Numbers DEF Final, HasSwept
<1>7. Saving'
  BY <1>1, <1>2, <1>3 DEF Saving
<1>8. \A q \in Ranks : pc[q] \notin {"load", "returned"}
  BY <1>1, <1>3, Numbers DEF Final
<1>9. Verdicts'
  BY <1>1, <1>2, <1>3, <1>8, Numbers DEF Verdicts
<1> QED
  BY <1>2, <1>4, <1>5, <1>6, <1>7, <1>9

LEMMA CrashInv ==
    ASSUME MInv, Crash
    PROVE  MInv'
<1> USE DEF MInv
<1>1. /\ pc' = [r \in Ranks |-> "dead"] /\ calls' = [r \in Ranks |-> <<>>] /\ inside' = {}
      /\ cand' = cand /\ step' = step /\ passed' = passed /\ valid' = valid
      /\ selected' = selected /\ state' = state /\ winner' = winner /\ saveError' = saveError
      /\ cache' = cache /\ tmp' = tmp /\ UNCHANGED jobVars
  BY DEF Crash, rankVars, rootVars, fileVars
<1>2. /\ fate' = fate /\ ms' = ms /\ request' = request /\ job' = job
      /\ Good' = Good /\ Usable' = Usable /\ Voting' = Voting /\ Content' = Content
  BY <1>1, JobFixed, RestFixed DEF jobVars
<1>3. \A r \in Ranks : pc'[r] = "dead" /\ calls'[r] = <<>> /\ Len(calls'[r]) = 0 /\ Made'[r] = {}
  BY <1>1 DEF Made
<1>4. Typed'
  <2>1. calls' \in [Ranks -> Seq(Points')] /\ pc' \in [Ranks -> Phases]
    BY <1>1 DEF Phases
  <2> QED
    BY <1>1, <1>2, <1>3, <2>1 DEF Typed, RootPhases
<1>5. LockStep'
  BY <1>1, <1>3 DEF LockStep, LivePhases
<1>6. SamePrefix' /\ MadeBefore'
  BY <1>3 DEF SamePrefix, MadeBefore
<1>7. Sweeping' /\ Final'
  BY <1>3 DEF Sweeping, Final, HasSwept
<1>8. Saving' /\ Verdicts'
  BY <1>1, <1>2, <1>3, Numbers DEF Saving, Verdicts
<1> QED
  BY <1>4, <1>5, <1>6, <1>7, <1>8

\* The candidates up to one of them, and those before a position of a sweep.
UpTo(c) == {d \in Candidates : d <= c}
Before(c, s) == {d \in Candidates : d < c \/ (d = c /\ s = Voting)}

\* Rank r goes to the place x, the candidate c and its step s, having done with
\* the candidates of over.
Arrives(r, x, c, s, over) ==
    /\ pc' = [pc EXCEPT ![r] = x] /\ cand' = [cand EXCEPT ![r] = c] /\ step' = [step EXCEPT ![r] = s]
    /\ c \in Candidates /\ s \in 1 .. Voting
    /\ \/ /\ x = "measure" /\ over = Before(c, s) /\ (~Is4D => s # Voting)
          /\ s # Voting => \A i \in 1 .. s - 1 : i \notin Breaking[c]
       \/ x = (IF r = 0 THEN "choose" ELSE "winner") /\ over = Candidates

LEMMA Advance ==
    ASSUME MInv, NEW r \in Ranks, pc[r] = "measure",
           NEW x, NEW c, NEW s, NEW over, Arrives(r, x, c, s, over),
           over \subseteq Candidates, Over[r] \subseteq over, ~request.continue => over \subseteq Good,
           passed' = [passed EXCEPT ![r] = Good \cap over], valid' = [valid EXCEPT ![r] = Usable \cap over],
           calls' = calls, inside' = inside \ {r}, UNCHANGED <<selected, rootVars, jobVars, fileVars>>,
           Coming'[r] = IF r \in inside THEN Follows[Coming[r]] ELSE Coming[r]
    PROVE  MInv'
<1> USE DEF MInv
<1>1. /\ pc \in [Ranks -> Phases] /\ cand \in [Ranks -> Candidates] /\ step \in [Ranks -> 1 .. Voting]
      /\ passed \in [Ranks -> SUBSET Candidates] /\ valid \in [Ranks -> SUBSET Candidates]
      /\ x \in {"measure", "choose", "winner"} /\ x \in Phases /\ (x = "choose" => r = 0)
      /\ (x = "winner" => r # 0) /\ c \in Candidates /\ s \in 1 .. Voting
      /\ Good \subseteq Candidates /\ Usable \subseteq Candidates
      /\ Good \cap over \subseteq Candidates /\ Usable \cap over \subseteq Candidates
      /\ x # "measure" => over = Candidates
      /\ x = "measure" => /\ ~Is4D => s # Voting
                          /\ s # Voting => \A i \in 1 .. s - 1 : i \notin Breaking[c]
                          /\ over = Before(c, s)
  BY DEF Arrives, Typed, Phases, Good, Usable
<1>2. /\ pc' \in [Ranks -> Phases] /\ cand' \in [Ranks -> Candidates] /\ step' \in [Ranks -> 1 .. Voting]
      /\ passed' \in [Ranks -> SUBSET Candidates] /\ valid' \in [Ranks -> SUBSET Candidates]
  BY <1>1 DEF Arrives
<1>3. /\ pc'[r] = x /\ cand'[r] = c /\ step'[r] = s
      /\ passed'[r] = Good \cap over /\ valid'[r] = Usable \cap over
      /\ \A q \in Ranks \ {r} : /\ pc'[q] = pc[q] /\ cand'[q] = cand[q] /\ step'[q] = step[q]
                                /\ passed'[q] = passed[q] /\ valid'[q] = valid[q]
  BY <1>1 DEF Arrives
<1>4. /\ selected' = selected /\ state' = state /\ winner' = winner /\ saveError' = saveError
      /\ cache' = cache /\ tmp' = tmp /\ UNCHANGED jobVars
      /\ request' = request /\ fate' = fate /\ ms' = ms /\ job' = job
  BY DEF rootVars, fileVars, jobVars
<1>5. /\ Good' = Good /\ Usable' = Usable /\ Voting' = Voting /\ Is4D' = Is4D /\ Breaking' = Breaking
      /\ MeasurePoint' = MeasurePoint /\ Points' = Points /\ Chosen' = Chosen /\ Refused' = Refused
      /\ \A q \in Ranks \ {r} : Over'[q] = Over[q]
  BY <1>3, <1>4, JobFixed, RestFixed DEF Points
<1>6. /\ Over'[r] = Before(c, s) /\ Over[r] = Before(cand[r], step[r])
      /\ \A q \in Ranks : Over[q] \subseteq Candidates
  BY <1>3, <1>5 DEF Over, Before
<1>7. LockStep' /\ SamePrefix' /\ Made' = Made
  BY <1>1, <1>3, <1>4, CallsKept DEF LivePhases
<1>8. Typed'
  <2>1. ASSUME NEW q \in Ranks PROVE pc'[q] # "dead"
    <3>1. pc[q] # "dead"
      BY DEF Typed
    <3>2. pc'[q] = IF q = r THEN x ELSE pc[q]
      BY <1>3
    <3> QED
      BY <1>1, <3>1, <3>2
  <2>2. \A q \in Ranks : pc'[q] \in RootPhases => q = 0
    BY <1>1, <1>3 DEF Typed, RootPhases
  <2>3. ASSUME NEW q \in Ranks, pc'[q] = "measure", ~Is4D PROVE step'[q] # Voting
    <3>1. CASE q = r
      BY <1>1, <1>3, <2>3, <3>1
    <3>2. CASE q # r
      <4>1. pc[q] = "measure" /\ step'[q] = step[q]
        BY <1>3, <2>3, <3>2
      <4> QED
        BY <2>3, <4>1 DEF Typed
    <3> QED
      BY <3>1, <3>2
  <2> QED
    BY <1>2, <1>4, <1>5, <2>1, <2>2, <2>3 DEF Typed
<1>9. MadeBefore'
  <2>1. ASSUME NEW d \in Candidates, MeasurePoint[d][Voting] \in Made[r]
        PROVE  /\ x = "measure" => d < c \/ (d = c /\ s = Voting)
               /\ d \in passed'[r] <=> d \in Good
    <3>1. d \in Over[r]
      BY <2>1 DEF MadeBefore, Over
    <3>2. d \in over
      BY <3>1
    <3> QED
      BY <1>1, <1>3, <3>2 DEF Before
  <2> SUFFICES ASSUME NEW q \in Ranks
               PROVE  /\ StatePoint \in Made[q] => pc'[q] \notin {"inventory", "inspect"}
                      /\ WinnerPoint \in Made[q] =>
                             pc'[q] \notin {"inventory", "inspect", "state", "measure", "choose"}
                      /\ SavedPoint \in Made[q] =>
                             pc'[q] \in {"saved", "savedBarrier", "load", "returned", "failed"}
                      /\ BarrierPoint \in Made[q] => pc'[q] \in {"savedBarrier", "load", "returned", "failed"}
                      /\ \A d \in Candidates : MeasurePoint[d][Voting] \in Made[q] =>
                             /\ pc'[q] \notin {"inventory", "inspect", "state"}
                             /\ pc'[q] = "measure" => d < cand'[q] \/ (d = cand'[q] /\ step'[q] = Voting)
                             /\ d \in passed'[q] <=> d \in Good
    BY <1>5, <1>7 DEF MadeBefore, StatePoint, WinnerPoint, SavedPoint, BarrierPoint
  <2>2. CASE q # r
    BY <1>3, <2>2 DEF MadeBefore
  <2>3. CASE q = r
    BY <1>1, <1>3, <2>1, <2>3 DEF MadeBefore
  <2> QED
    BY <2>2, <2>3
<1>10. Sweeping'
  <2> SUFFICES ASSUME NEW q \in Ranks
               PROVE  /\ pc'[q] \in {"inventory", "inspect", "state"} =>
                             passed'[q] = {} /\ valid'[q] = {} /\ cand'[q] = 1 /\ step'[q] = 1
                      /\ pc'[q] = "measure" =>
                             /\ passed'[q] = Good \cap Over'[q] /\ valid'[q] = Usable \cap Over'[q]
                             /\ step'[q] # Voting => \A i \in 1 .. step'[q] - 1 : i \notin Breaking[cand'[q]]
                             /\ ~request.continue => Over'[q] \subseteq Good
                      /\ HasSwept(q)' => /\ valid'[q] = Usable
                                         /\ ~request.continue => Good = Candidates
    BY <1>4, <1>5 DEF Sweeping
  <2>1. CASE q # r
    <3>1. HasSwept(q)' <=> HasSwept(q)
      BY <1>3, <1>4, <2>1 DEF HasSwept
    <3> QED
      BY <1>3, <1>5, <2>1, <3>1 DEF Sweeping
  <2>2. CASE q = r
    <3>1. CASE x = "measure"
      <4>1. ~HasSwept(r)' /\ Over'[r] = over
        BY <1>1, <1>3, <1>6, <3>1 DEF HasSwept
      <4> QED
        BY <1>1, <1>3, <2>2, <3>1, <4>1
    <3>2. CASE x # "measure"
      <4>1. over = Candidates /\ Good \cap over = Good /\ Usable \cap over = Usable
        BY <1>1, <3>2
      <4> QED
        BY <1>1, <1>3, <2>2, <3>2, <4>1
    <3> QED
      BY <3>1, <3>2
  <2> QED
    BY <2>1, <2>2
<1>11. Final'
  BY <1>1, <1>3, <1>4, <1>5, Numbers DEF Final, HasSwept
<1>12. Saving'
  <2>1. r # 0 => valid'[0] = valid[0] /\ pc'[0] = pc[0]
    BY <1>3, Numbers
  <2>2. r = 0 => winner = None /\ ~saveError
    BY DEF Saving
  <2>3. r # 0 => Content' = Content
    BY <1>4, <2>1 DEF Content
  <2> QED
    BY <1>1, <1>3, <1>4, <1>5, <2>1, <2>2, <2>3 DEF Saving
<1>13. Verdicts'
  BY <1>1, <1>3, <1>4, <1>5, Numbers DEF Verdicts
<1> QED
  BY <1>7, <1>8, <1>9, <1>10, <1>11, <1>12, <1>13

\* Moving on to the next candidate.
LEMMA NextArrives ==
    ASSUME Typed, NEW r \in Ranks, pc[r] = "measure", NextCandidate(r), UNCHANGED jobVars
    PROVE  /\ \E x, c, s : Arrives(r, x, c, s, UpTo(cand[r]))
           /\ Coming'[r] = AfterCandidate[cand[r]]
<1> DEFINE c == cand[r]
<1>1. /\ c \in Candidates /\ step[r] \in 1 .. Voting /\ pc \in [Ranks -> Phases]
      /\ cand \in [Ranks -> Candidates] /\ step \in [Ranks -> 1 .. Voting]
  BY DEF Typed
<1>2. Onward' = Onward
  BY JobFixed
<1>3. CASE c < N
  <2>1. cand' = [cand EXCEPT ![r] = c + 1] /\ step' = [step EXCEPT ![r] = 1] /\ pc' = pc
    BY <1>3 DEF NextCandidate
  <2>2. pc' = [pc EXCEPT ![r] = "measure"]
    BY <1>1, <2>1
  <2>3. c + 1 \in Candidates /\ 1 \in 1 .. Voting /\ 1 # Voting
    BY <1>1, <1>3, NextPoints, ScriptSteps
  <2>4. UpTo(c) = Before(c + 1, 1)
    BY <1>1, <2>3 DEF UpTo, Before, Candidates
  <2>5. Arrives(r, "measure", c + 1, 1, UpTo(c))
    <3>1. \A i \in 1 .. 1 - 1 : i \notin Breaking[c + 1]
      OBVIOUS
    <3> QED
      BY <2>1, <2>2, <2>3, <2>4, <3>1 DEF Arrives
  <2>6. Coming'[r] = Onward[c + 1][1]
    BY <1>1, <1>2, <2>1 DEF Coming
  <2>7. Coming'[r] = AfterCandidate[c]
    <3>1. AfterCandidate[c] = MeasurePoint[c + 1][1]
      BY <1>1, <1>3, NextPoints
    <3> QED
      BY <2>3, <2>6, <3>1, OnwardCalling, ScriptSteps
  <2> QED
    BY <2>5, <2>7
<1>4. CASE ~(c < N)
  <2> DEFINE x == IF r = 0 THEN "choose" ELSE "winner"
  <2>1. pc' = [pc EXCEPT ![r] = x] /\ cand' = cand /\ step' = step
    BY <1>4 DEF NextCandidate, Go
  <2>2. cand' = [cand EXCEPT ![r] = c] /\ step' = [step EXCEPT ![r] = step[r]]
    BY <1>1, <2>1
  <2>3. UpTo(c) = Candidates
    BY <1>1, <1>4, Numbers DEF UpTo, Candidates
  <2>4. Arrives(r, x, c, step[r], UpTo(c))
    BY <1>1, <2>1, <2>2, <2>3 DEF Arrives
  <2>5. Coming'[r] = AfterCandidate[c]
    BY <1>1, <1>4, <2>1, NextPoints DEF Coming
  <2> QED
    BY <2>4, <2>5
<1> QED
  BY <1>3, <1>4

LEMMA EvaluatorArrives ==
    ASSUME Typed, NEW r \in Ranks, pc[r] = "measure", EvaluatorDone(r), UNCHANGED jobVars
    PROVE  /\ \E x, c, s : Arrives(r, x, c, s, UpTo(cand[r]))
           /\ Coming'[r] = AfterEvaluator[cand[r]]
<1> DEFINE c == cand[r]
<1>1. /\ c \in Candidates /\ pc \in [Ranks -> Phases] /\ cand \in [Ranks -> Candidates]
      /\ step \in [Ranks -> 1 .. Voting]
  BY DEF Typed
<1>2. CASE Is4D
  <2>1. step' = [step EXCEPT ![r] = Voting] /\ pc' = pc /\ cand' = cand
    BY <1>2 DEF EvaluatorDone
  <2>2. pc' = [pc EXCEPT ![r] = "measure"] /\ cand' = [cand EXCEPT ![r] = c]
    BY <1>1, <2>1
  <2>3. Voting \in 1 .. Voting
    BY ScriptSteps
  <2>4. UpTo(c) = Before(c, Voting)
    BY <1>1 DEF UpTo, Before, Candidates
  <2>5. Arrives(r, "measure", c, Voting, UpTo(c))
    BY <1>1, <1>2, <2>1, <2>2, <2>3, <2>4 DEF Arrives
  <2>6. Coming'[r] = Onward[c][Voting]
    <3>1. Onward' = Onward
      BY JobFixed
    <3> QED
      BY <1>1, <2>1, <3>1 DEF Coming
  <2> QED
    BY <1>1, <2>3, <2>5, <2>6, OnwardEnds
<1>3. CASE ~Is4D
  <2>1. NextCandidate(r)
    BY <1>3 DEF EvaluatorDone
  <2>2. AfterEvaluator[c] = AfterCandidate[c]
    BY <1>1, <1>3, NextPoints
  <2> QED
    BY <2>1, <2>2, NextArrives
<1> QED
  BY <1>2, <1>3

\* A step of the script that does not fail.
LEMMA PassInv ==
    ASSUME MInv, NEW r \in Ranks, pc[r] = "measure", step[r] # Voting,
           step[r] \notin Breaking[cand[r]], r \in inside <=> step[r] \in Calling, StepDone(r),
           calls' = calls, inside' = inside \ {r}, UNCHANGED <<selected, rootVars, jobVars, fileVars>>
    PROVE  MInv'
<1> USE DEF MInv
<1> DEFINE c == cand[r]
           s == step[r]
<1>1. /\ c \in Candidates /\ s \in 1 .. Len(Script) /\ s + 1 \in 1 .. Voting /\ Voting = Len(Script) + 1
      /\ Len(Script) \in Nat /\ pc \in [Ranks -> Phases] /\ cand \in [Ranks -> Candidates]
      /\ passed \in [Ranks -> SUBSET Candidates] /\ valid \in [Ranks -> SUBSET Candidates]
      /\ step \in [Ranks -> 1 .. Voting]
  BY ScriptSteps DEF Typed
<1>2. /\ passed[r] = Good \cap Over[r] /\ valid[r] = Usable \cap Over[r] /\ Over[r] = Before(c, s)
      /\ \A i \in 1 .. s - 1 : i \notin Breaking[c]
      /\ ~request.continue => Over[r] \subseteq Good
  BY DEF Sweeping, Over, Before
<1>3. \A i \in 1 .. s : i \notin Breaking[c]
  BY <1>1, <1>2
<1>4. (IF r \in inside THEN Follows[Coming[r]] ELSE Coming[r]) = Onward[c][s + 1]
  <2>1. Coming[r] = Onward[c][s]
    BY DEF Coming
  <2>2. CASE r \in inside
    <3>1. s \in Calling
      BY <2>2
    <3>2. Onward[c][s] = MeasurePoint[c][s]
      BY <1>1, <3>1, OnwardCalling
    <3>3. Follows[MeasurePoint[c][s]] = Onward[c][s + 1]
      BY <1>1, Following
    <3> QED
      BY <2>1, <2>2, <3>2, <3>3
  <2>3. CASE r \notin inside
    BY <1>1, <2>1, <2>3, OnwardPasses
  <2> QED
    BY <2>2, <2>3
<1>5. UNCHANGED jobVars
  OBVIOUS
<1>6. CASE s < Len(Script)
  <2>1. /\ step' = [step EXCEPT ![r] = s + 1] /\ pc' = pc /\ cand' = cand
        /\ passed' = passed /\ valid' = valid
    BY <1>6 DEF StepDone
  <2>2. Before(c, s + 1) = Over[r]
    BY <1>1, <1>2, <1>6 DEF Before
  <2>3. pc' = [pc EXCEPT ![r] = "measure"] /\ cand' = [cand EXCEPT ![r] = c]
    BY <1>1, <2>1
  <2>4. \A i \in 1 .. (s + 1) - 1 : i \notin Breaking[c]
    BY <1>1, <1>3
  <2>5. Arrives(r, "measure", c, s + 1, Over[r])
    <3>1. s + 1 # Voting
      BY <1>1, <1>6
    <3> QED
      BY <1>1, <2>1, <2>2, <2>3, <2>4, <3>1 DEF Arrives
  <2>6. Coming'[r] = Onward[c][s + 1]
    <3>1. Onward' = Onward
      BY <1>5, JobFixed
    <3> QED
      BY <1>1, <2>1, <3>1 DEF Coming
  <2>7. /\ passed' = [passed EXCEPT ![r] = Good \cap Over[r]]
        /\ valid' = [valid EXCEPT ![r] = Usable \cap Over[r]]
    BY <1>1, <1>2, <2>1
  <2>8. Over[r] \subseteq Candidates
    BY DEF Over
  <2> QED
    BY <1>2, <1>4, <2>5, <2>6, <2>7, <2>8, Advance
<1>7. CASE ~(s < Len(Script))
  <2>1. s = Len(Script)
    BY <1>1, <1>7
  <2>2. /\ passed' = [passed EXCEPT ![r] = @ \cup {c}]
        /\ valid' = IF Timed(c) THEN [valid EXCEPT ![r] = @ \cup {c}] ELSE valid
        /\ EvaluatorDone(r)
    BY <1>7 DEF StepDone, Measured
  <2>3. c \in Good
    <3>1. Breaking[c] \subseteq 1 .. Len(Script)
      BY <1>1 DEF Breaking
    <3>2. Breaking[c] = {}
      BY <1>3, <2>1, <3>1
    <3> QED
      BY <1>1, <3>2 DEF Good
  <2>4. UpTo(c) = Over[r] \cup {c}
    BY <1>1, <1>2 DEF UpTo, Before, Candidates
  <2>5. /\ passed' = [passed EXCEPT ![r] = Good \cap UpTo(c)]
        /\ valid' = [valid EXCEPT ![r] = Usable \cap UpTo(c)]
    <3>1. /\ passed[r] \cup {c} = Good \cap UpTo(c)
          /\ (IF Timed(c) THEN valid[r] \cup {c} ELSE valid[r]) = Usable \cap UpTo(c)
      BY <1>2, <2>3, <2>4 DEF Usable
    <3>2. /\ passed' = [passed EXCEPT ![r] = passed[r] \cup {c}]
          /\ valid' = [valid EXCEPT ![r] = IF Timed(c) THEN valid[r] \cup {c} ELSE valid[r]]
      BY <1>1, <2>2
    <3> QED
      BY <3>1, <3>2
  <2>6. PICK x, d, t : Arrives(r, x, d, t, UpTo(c))
    BY <1>5, <2>2, EvaluatorArrives
  <2>7. Coming'[r] = Onward[c][s + 1]
    <3>1. Coming'[r] = AfterEvaluator[c]
      BY <1>5, <2>2, EvaluatorArrives
    <3> QED
      BY <1>1, <2>1, <3>1, OnwardEnds
  <2>8. UpTo(c) \subseteq Candidates /\ Over[r] \subseteq UpTo(c)
    BY <2>4 DEF UpTo
  <2>9. ~request.continue => UpTo(c) \subseteq Good
    BY <1>2, <2>3, <2>4
  <2> QED
    BY <1>4, <2>5, <2>6, <2>7, <2>8, <2>9, Advance
<1> QED
  BY <1>6, <1>7

LEMMA CollectiveInv ==
    ASSUME Alone = {}, MInv, NEW r \in Ranks, Collective(r)
    PROVE  MInv'
<1> USE DEF MInv
<1>1. /\ pc[r] = "measure" /\ step[r] # Voting /\ StepDone(r)
      /\ r \in inside /\ inside' = inside \ {r} /\ calls' = calls
      /\ UNCHANGED <<selected, rootVars, jobVars, fileVars>>
  BY DEF Collective, Leave
<1>2. step[r] \in Calling
  BY <1>1 DEF LockStep
<1>3. step[r] \notin Breaking[cand[r]]
  BY <1>2, BreakingLocal DEF Typed
<1> QED
  BY <1>1, <1>2, <1>3, PassInv

\* A local step is no call.
LEMMA LocalIsNoCall ==
    ASSUME Typed, InCall, NEW r \in Ranks, pc[r] = "measure", step[r] # Voting, Call(r) = "none"
    PROVE  step[r] \in 1 .. Len(Script) /\ step[r] \notin Calling /\ r \notin inside
<1>1. step[r] \in 1 .. Len(Script) /\ step[r] < Voting
  BY ScriptSteps DEF Typed
<1>2. Script[step[r]] \in Words
  BY <1>1, ScriptSteps
<1>3. Script[step[r]] \in LocalSteps
  BY <1>1, <1>2 DEF Call, Words, LocalSteps
<1>4. step[r] \notin Calling
  BY <1>3 DEF Calling
<1> QED
  BY <1>1, <1>4 DEF InCall

\* What a rank in lock step knows of its own place.
LEMMA LockStepInCall == ASSUME Typed, LockStep PROVE InCall
  BY DEF Typed, LockStep, InCall

LEMMA LocalStepInv ==
    ASSUME Alone = {}, MInv, NEW r \in Ranks, LocalStep(r)
    PROVE  MInv'
<1> USE DEF MInv
<1>1. /\ pc[r] = "measure" /\ step[r] # Voting /\ StepDone(r) /\ Call(r) = "none"
      /\ ~Throws(r, cand[r], Script[step[r]]) /\ inside' = inside /\ calls' = calls
      /\ UNCHANGED <<selected, rootVars, jobVars, fileVars>>
  BY DEF LocalStep, callVars
<1>2. step[r] \in 1 .. Len(Script) /\ step[r] \notin Calling /\ r \notin inside
  BY <1>1, LockStepInCall, LocalIsNoCall
<1>3. step[r] \notin Breaking[cand[r]]
  BY <1>1, <1>2, BreakingShared DEF Typed
<1>4. inside' = inside \ {r}
  BY <1>1, <1>2
<1> QED
  BY <1>1, <1>2, <1>3, <1>4, PassInv

LEMMA CandidateFailsInv ==
    ASSUME Alone = {}, MInv, NEW r \in Ranks, CandidateFails(r)
    PROVE  MInv'
<1> USE DEF MInv
<1> DEFINE c == cand[r]
           s == step[r]
<1>1. /\ pc[r] = "measure" /\ s # Voting /\ Call(r) = "none" /\ Throws(r, c, Script[s])
      /\ UNCHANGED <<passed, valid, selected, callVars, rootVars, jobVars, fileVars>>
  BY DEF CandidateFails
<1>2. s \in 1 .. Len(Script) /\ s \notin Calling /\ r \notin inside
  BY <1>1, LockStepInCall, LocalIsNoCall
<1>3. c \in Candidates /\ s \in 1 .. Voting
  BY DEF Typed
<1>4. s \in Breaking[c]
  BY <1>1, <1>2, <1>3, BreakingShared
<1>5. c \notin Good /\ Coming[r] = AfterEvaluator[c] /\ UNCHANGED jobVars
      /\ inside' = inside \ {r} /\ calls' = calls
  BY <1>1, <1>2, <1>3, <1>4, OnwardEnds DEF Good, Coming, callVars
<1>6. /\ passed[r] = Good \cap Over[r] /\ valid[r] = Usable \cap Over[r] /\ Over[r] = Before(c, s)
      /\ passed \in [Ranks -> SUBSET Candidates] /\ valid \in [Ranks -> SUBSET Candidates]
      /\ passed' = passed /\ valid' = valid
  BY <1>1 DEF Sweeping, Over, Before, Typed
<1>7. CASE request.continue
  <2>1. EvaluatorDone(r)
    BY <1>7 DEF CandidateFails
  <2>2. PICK x, d, t : Arrives(r, x, d, t, UpTo(c))
    BY <1>1, <1>5, <2>1, EvaluatorArrives
  <2>3. Coming'[r] = AfterEvaluator[c]
    BY <1>1, <1>5, <2>1, EvaluatorArrives
  <2>4. UpTo(c) = Over[r] \cup {c} /\ UpTo(c) \subseteq Candidates
    BY <1>1, <1>3, <1>6 DEF UpTo, Before, Candidates
  <2>5. /\ passed' = [passed EXCEPT ![r] = Good \cap UpTo(c)]
        /\ valid' = [valid EXCEPT ![r] = Usable \cap UpTo(c)]
    <3>1. Good \cap UpTo(c) = passed[r] /\ Usable \cap UpTo(c) = valid[r]
      BY <1>5, <1>6, <2>4 DEF Usable
    <3> QED
      BY <1>6, <3>1
  <2> QED
    BY <1>1, <1>2, <1>5, <1>7, <2>2, <2>3, <2>4, <2>5, Advance
\* The exception leaves the sweep, on every rank.
<1>8. CASE ~request.continue
  <2>1. Go(r, "failed") /\ cand' = cand /\ step' = step
    BY <1>8 DEF CandidateFails
  <2>2. UNCHANGED <<rankVars, rootVars, jobVars, fileVars>>
    BY <1>1, <2>1 DEF rankVars
  <2>3. /\ Typed' /\ pc'[r] = "failed" /\ \A q \in Ranks \ {r} : pc'[q] = pc[q]
        /\ RestSame
    <3>1. "failed" \in Phases \ {"dead"} /\ "failed" \notin RootPhases
      BY DEF Phases, RootPhases
    <3> QED
      BY <1>1, <1>5, <2>1, <2>2, <3>1, PlaceOnly
  <2> USE DEF RestSame
  <2>4. LockStep' /\ SamePrefix' /\ Made' = Made
    <3>1. pc'[r] \notin LivePhases /\ pc[r] # "inventory" /\ pc'[r] \notin {"inventory", "dead"}
      BY <1>1, <2>3 DEF LivePhases
    <3>2. \A q \in Ranks \ {r} : pc'[q] = pc[q] /\ cand'[q] = cand[q] /\ step'[q] = step[q]
      BY <2>3
    <3> QED
      BY <1>2, <1>5, <3>1, <3>2, CallsKept
  <2>5. MadeBefore'
    BY <1>1, <2>3, <2>4 DEF MadeBefore, StatePoint, WinnerPoint, SavedPoint, BarrierPoint
  <2>6. Sweeping'
    BY <1>1, <2>3 DEF Sweeping, HasSwept
  <2>7. Final'
    BY <1>1, <2>3, Numbers DEF Final, HasSwept
  <2>8. Saving'
    BY <1>1, <2>3, Numbers DEF Saving
  <2>9. state = 1 /\ Good # Candidates
    BY <1>1, <1>3, <1>5 DEF Final
  <2>10. Verdicts'
    BY <1>1, <1>8, <2>3, <2>9, Numbers DEF Verdicts
  <2> QED
    BY <2>3, <2>4, <2>5, <2>6, <2>7, <2>8, <2>10
<1> QED
  BY <1>7, <1>8

\* The vote finds what each rank found: a candidate that fails fails everywhere.
LEMMA VoteInv ==
    ASSUME MInv, NEW r \in Ranks, Vote(r)
    PROVE  MInv'
<1> USE DEF MInv
<1> DEFINE c == cand[r]
<1>1. /\ pc[r] = "measure" /\ step[r] = Voting /\ Leave(r) /\ NextCandidate(r)
      /\ valid' = IF VoteValid(r) THEN valid ELSE [valid EXCEPT ![r] = @ \ {c}]
      /\ passed' = passed /\ UNCHANGED <<selected, rootVars, jobVars, fileVars>>
  BY DEF Vote
<1>2. Is4D /\ c \in Candidates /\ Voting \in 1 .. Voting
  BY <1>1, ScriptSteps DEF Typed
<1>3. Coming[r] = MeasurePoint[c][Voting] /\ Call(r) = "min"
  BY <1>1, <1>2, OnwardEnds, NextPoints DEF Coming, Call
<1>4. /\ r \in inside /\ inside' = inside \ {r} /\ calls' = calls
      /\ \A q \in Ranks : MeasurePoint[c][Voting] \in Made[q]
  BY <1>1, <1>3, Met
<1>5. VoteValid(r) <=> c \in Good
  <2>1. \A q \in Ranks : c \in passed[q] <=> c \in Good
    BY <1>2, <1>4 DEF MadeBefore
  <2> QED
    BY <2>1 DEF VoteValid
<1>6. /\ passed[r] = Good \cap Over[r] /\ valid[r] = Usable \cap Over[r] /\ Over[r] = UpTo(c)
      /\ ~request.continue => Over[r] \subseteq Good
  <2>1. Over[r] = UpTo(c)
    BY <1>1, <1>2 DEF Over, UpTo, Candidates
  <2> QED
    BY <1>1, <2>1 DEF Sweeping
<1>7. /\ passed' = [passed EXCEPT ![r] = Good \cap UpTo(c)]
      /\ valid' = [valid EXCEPT ![r] = Usable \cap UpTo(c)]
  <2>1. passed \in [Ranks -> SUBSET Candidates] /\ valid \in [Ranks -> SUBSET Candidates]
    BY DEF Typed
  <2>2. ~VoteValid(r) => valid[r] \ {c} = valid[r]
    BY <1>5, <1>6 DEF Usable
  <2> QED
    BY <1>1, <1>6, <2>1, <2>2
<1>8. PICK x, d, t : Arrives(r, x, d, t, UpTo(c))
  BY <1>1, NextArrives
<1>9. Coming'[r] = Follows[Coming[r]]
  <2>1. Coming'[r] = AfterCandidate[c]
    BY <1>1, NextArrives
  <2> QED
    BY <1>2, <1>3, <2>1, Following
<1>10. UpTo(c) \subseteq Candidates
  BY DEF UpTo
<1> QED
  <2>1. Over[r] \subseteq UpTo(c) /\ (~request.continue => UpTo(c) \subseteq Good)
    BY <1>6
  <2> HIDE DEF MInv
  <2> QED
    BY <1>1, <1>4, <1>7, <1>8, <1>9, <1>10, <2>1, Advance

LEMMA InitInv == Init => MInv
<1> SUFFICES ASSUME Init PROVE MInv
  OBVIOUS
<1>1. \A r \in Ranks : /\ pc[r] = "inventory" /\ cand[r] = 1 /\ step[r] = 1 /\ calls[r] = <<>>
                       /\ Len(calls[r]) = 0 /\ passed[r] = {} /\ valid[r] = {} /\ Made[r] = {}
  BY DEF Init, All, Made
<1>2. inside = {} /\ state = 0 /\ winner = None /\ saveError = FALSE /\ cache # Partial
      /\ cache.kind # "measured"
  BY DEF Init, NoFile, Partial, PolicyFiles
<1>3. 1 \in 1 .. Voting /\ 1 # Voting
  BY ScriptSteps
<1>4. cache \in Files /\ tmp \in Files
  BY DEF Init, Files
<1>5. Typed
  <2>1. /\ pc \in [Ranks -> Phases] /\ cand \in [Ranks -> Candidates] /\ step \in [Ranks -> 1 .. Voting]
        /\ calls \in [Ranks -> Seq(Points)] /\ passed \in [Ranks -> SUBSET Candidates]
        /\ valid \in [Ranks -> SUBSET Candidates] /\ selected \in [Ranks -> Candidates \cup {None}]
    <3>1. <<>> \in Seq(Points) /\ {} \in SUBSET Candidates /\ "inventory" \in Phases
      BY DEF Phases
    <3>2. pc \in [Ranks -> Phases] /\ cand \in [Ranks -> Candidates] /\ step \in [Ranks -> 1 .. Voting]
      BY <1>3, <3>1, Numbers DEF Init, All
    <3>3. calls \in [Ranks -> Seq(Points)]
      BY <3>1 DEF Init, All
    <3>4. /\ passed \in [Ranks -> SUBSET Candidates] /\ valid \in [Ranks -> SUBSET Candidates]
          /\ selected \in [Ranks -> Candidates \cup {None}]
      BY <3>1 DEF Init, All
    <3> QED
      BY <3>2, <3>3, <3>4
  <2>2. fate \in Fates /\ ms \in Millis /\ request \in Requests /\ job \in 1 .. Jobs
    BY MeasureAssumption DEF Init
  <2> QED
    <3>1. \A r \in Ranks : /\ pc[r] \notin RootPhases /\ pc[r] # "measure" /\ pc[r] # "dead"
      BY <1>1 DEF RootPhases
    <3>2. inside \subseteq Ranks /\ state \in 0 .. 3
      BY <1>2
    <3> QED
      BY <1>2, <1>4, <2>1, <2>2, <3>1, <3>2 DEF Typed
<1>6. LockStep /\ SamePrefix /\ MadeBefore
  BY <1>1, <1>2 DEF LockStep, SamePrefix, MadeBefore
<1>7. Sweeping /\ Final
  BY <1>1, <1>2 DEF Sweeping, Final, HasSwept
<1>8. Saving /\ Verdicts
  BY <1>1, <1>2, Numbers DEF Saving, Verdicts
<1> QED
  BY <1>5, <1>6, <1>7, <1>8 DEF MInv

\* A new job finds the file the last one left.
LEMMA NextJobInv ==
    ASSUME Typed, cache # Partial, cache.kind = "measured" => cache.valid # {}, NextJob
    PROVE  MInv'
<1>1. \A r \in Ranks : /\ pc'[r] = "inventory" /\ cand'[r] = 1 /\ step'[r] = 1 /\ calls'[r] = <<>>
                       /\ Len(calls'[r]) = 0 /\ passed'[r] = {} /\ valid'[r] = {} /\ Made'[r] = {}
  BY DEF NextJob, All, Made
<1>2. /\ inside' = {} /\ state' = 0 /\ winner' = None /\ saveError' = FALSE
      /\ cache' = cache /\ tmp' = tmp
  BY DEF NextJob, fileVars
<1>3. cache # Partial /\ (cache.kind = "measured" => cache.valid # {}) /\ cache \in Files /\ tmp \in Files
  BY DEF Typed
<1>4. 1 \in 1 .. Voting' /\ 1 # Voting'
  <2>1. Is4D' \in BOOLEAN
    BY DEF Is4D
  <2>2. Script' = ScriptOf[Is4D']
    BY <2>1 DEF Script, ScriptOf, Recovery
  <2>3. Len(Script') \in Nat /\ Len(Script') > 0
    BY <2>1, <2>2, ScriptOfSteps
  <2> QED
    BY <2>3 DEF Voting
<1>5. Typed'
  <2>1. /\ pc' \in [Ranks -> Phases] /\ cand' \in [Ranks -> Candidates]
        /\ step' \in [Ranks -> 1 .. Voting'] /\ calls' \in [Ranks -> Seq(Points')]
        /\ passed' \in [Ranks -> SUBSET Candidates] /\ valid' \in [Ranks -> SUBSET Candidates]
        /\ selected' \in [Ranks -> Candidates \cup {None}]
    <3>1. <<>> \in Seq(Points') /\ {} \in SUBSET Candidates /\ "inventory" \in Phases
      BY DEF Phases
    <3>2. /\ pc' \in [Ranks -> Phases] /\ cand' \in [Ranks -> Candidates]
          /\ step' \in [Ranks -> 1 .. Voting']
      BY <1>4, <3>1, Numbers DEF NextJob, All
    <3>3. calls' \in [Ranks -> Seq(Points')]
      BY <3>1 DEF NextJob, All
    <3>4. /\ passed' \in [Ranks -> SUBSET Candidates] /\ valid' \in [Ranks -> SUBSET Candidates]
          /\ selected' \in [Ranks -> Candidates \cup {None}]
      BY <3>1 DEF NextJob, All
    <3> QED
      BY <3>2, <3>3, <3>4
  <2>2. fate' \in Fates /\ ms' \in Millis /\ request' \in Requests
    BY DEF NextJob
  <2>3. job' \in 1 .. Jobs
    BY MeasureAssumption DEF NextJob, Typed
  <2> QED
    <3>1. \A r \in Ranks : /\ pc'[r] \notin RootPhases /\ pc'[r] # "measure" /\ pc'[r] # "dead"
      BY <1>1 DEF RootPhases
    <3>2. inside' \subseteq Ranks /\ state' \in 0 .. 3
      BY <1>2
    <3> QED
      BY <1>2, <1>3, <2>1, <2>2, <2>3, <3>1, <3>2 DEF Typed
<1>6. LockStep' /\ SamePrefix' /\ MadeBefore'
  BY <1>1, <1>2 DEF LockStep, SamePrefix, MadeBefore
<1>7. Sweeping' /\ Final'
  BY <1>1, <1>2 DEF Sweeping, Final, HasSwept
<1>8. Saving' /\ Verdicts'
  BY <1>1, <1>2, <1>3, Numbers DEF Saving, Verdicts
<1> QED
  BY <1>5, <1>6, <1>7, <1>8 DEF MInv

LEMMA StutterInv ==
    ASSUME MInv, UNCHANGED vars
    PROVE  MInv'
<1>1. /\ pc' = pc /\ cand' = cand /\ step' = step /\ passed' = passed /\ valid' = valid
      /\ selected' = selected /\ calls' = calls /\ inside' = inside /\ state' = state
      /\ winner' = winner /\ saveError' = saveError /\ cache' = cache /\ tmp' = tmp
      /\ UNCHANGED jobVars /\ request' = request /\ fate' = fate /\ ms' = ms /\ job' = job
  BY DEF vars, rankVars, callVars, rootVars, jobVars, fileVars
<1>2. /\ Good' = Good /\ Usable' = Usable /\ Voting' = Voting /\ Is4D' = Is4D /\ Breaking' = Breaking
      /\ MeasurePoint' = MeasurePoint /\ Onward' = Onward /\ Follows' = Follows
      /\ Calling' = Calling /\ Chosen' = Chosen /\ Refused' = Refused /\ Content' = Content
      /\ Points' = Points
  BY <1>1, JobFixed, RestFixed DEF Points
<1>3. Over' = Over /\ Coming' = Coming /\ Made' = Made
  BY <1>1, <1>2 DEF Over, Coming, Made
<1>4. Typed'
  BY <1>1, <1>2 DEF MInv, Typed
<1>5. LockStep' /\ SamePrefix'
  BY <1>1, <1>2, <1>3 DEF MInv, LockStep, SamePrefix, InventoryPoint
<1>6. MadeBefore'
  BY <1>1, <1>2, <1>3 DEF MInv, MadeBefore, StatePoint, WinnerPoint, SavedPoint, BarrierPoint
<1>7. Sweeping' /\ Final' /\ Saving' /\ Verdicts'
  BY <1>1, <1>2, <1>3 DEF MInv, Sweeping, HasSwept, Final, Saving, Verdicts
<1> QED
  BY <1>4, <1>5, <1>6, <1>7 DEF MInv

\* The tuner keeps the invariant where a candidate fails on every rank or on none.
THEOREM InvariantCorrect == ASSUME Alone = {} PROVE Spec => []MInv
<1>1. ASSUME MInv, [Next]_vars PROVE MInv'
  <2>1. ASSUME NEW r \in Ranks, RankStep(r) PROVE MInv'
    <3>1. CASE Enter(r)
      BY <1>1, <3>1, EnterInv
    <3>2. CASE AfterInventory(r)
      BY <1>1, <3>2, AfterInventoryInv
    <3>3. CASE AfterState(r)
      BY <1>1, <3>3, AfterStateInv
    <3>4. CASE Collective(r)
      BY <1>1, <3>4, CollectiveInv
    <3>5. CASE LocalStep(r)
      BY <1>1, <3>5, LocalStepInv
    <3>6. CASE CandidateFails(r)
      BY <1>1, <3>6, CandidateFailsInv
    <3>7. CASE Vote(r)
      BY <1>1, <3>7, VoteInv
    <3>8. CASE AfterWinner(r)
      BY <1>1, <3>8, AfterWinnerInv
    <3>9. CASE AfterSaved(r)
      BY <1>1, <3>9, AfterSavedInv
    <3>10. CASE AfterBarrier(r)
      BY <1>1, <3>10, AfterBarrierInv
    <3>11. CASE Load(r)
      BY <1>1, <3>11, LoadInv
    <3> QED
      BY <2>1, <3>1, <3>2, <3>3, <3>4, <3>5, <3>6, <3>7, <3>8, <3>9, <3>10, <3>11 DEF RankStep
  <2>2. CASE RootStep
    BY <1>1, <2>2, InspectInv, ChooseInv, SaveInv, SaveFailsInv DEF RootStep
  <2>3. CASE Crash
    BY <1>1, <2>3, CrashInv
  <2>4. CASE NextJob
    BY <1>1, <2>4, NextJobInv DEF MInv, Saving
  <2>5. CASE Finished \/ UNCHANGED vars
    BY <1>1, <2>5, StutterInv DEF Finished
  <2> QED
    BY <1>1, <2>1, <2>2, <2>3, <2>4, <2>5 DEF Next
<1> QED
  BY <1>1, InitInv, PTL DEF Spec

-----------------------------------------------------------------------------
(***************************************************************************)
(* What follows from it.                                                   *)
(***************************************************************************)

\* The order of the collectives, through the catch blocks of the sweep: the n-th
\* call of a rank is the n-th call of every other one, at the same point of the
\* same candidate.
THEOREM InStepCorrect == ASSUME Alone = {} PROVE Spec => []InStep
<1>1. MInv => InStep
  <2> SUFFICES ASSUME MInv, NEW r \in Ranks, NEW q \in Ranks,
                      NEW n \in Nat, n <= Len(calls[r]), n <= Len(calls[q])
               PROVE  SubSeq(calls[r], 1, n) = SubSeq(calls[q], 1, n)
    <3>1. \A p \in Ranks : Len(calls[p]) \in Nat
      BY DEF MInv, Typed
    <3> QED
      BY <3>1 DEF InStep
  <2>1. calls[r] \in Seq(Points) /\ calls[q] \in Seq(Points)
    BY DEF MInv, Typed
  <2>2. \A i \in 1 .. n : calls[r][i] = calls[q][i]
    BY <2>1 DEF MInv, SamePrefix
  <2>3. /\ SubSeq(calls[r], 1, n) = [i \in 1 .. n |-> calls[r][i]]
        /\ SubSeq(calls[q], 1, n) = [i \in 1 .. n |-> calls[q][i]]
    BY <2>1
  <2> QED
    BY <2>2, <2>3
<1> QED
  BY <1>1, InvariantCorrect, PTL

\* A job that ends has a plan on every rank, or an exception on every rank:
\* whatever made one rank fail makes every rank fail, the vote, the broadcast
\* values and the file being the same for all.
THEOREM AllOrNoneCorrect == ASSUME Alone = {} PROVE Spec => []AllOrNone
<1>1. MInv => AllOrNone
  <2> SUFFICES ASSUME MInv, Ended, NEW r \in Ranks, NEW q \in Ranks, pc[r] = "returned", pc[q] # "returned"
               PROVE  FALSE
    BY DEF AllOrNone
  <2>1. pc[q] = "failed" /\ pc[0] \in {"returned", "failed"}
    BY Numbers DEF MInv, Typed, Ended
  <2>2. state \in {0, 1} /\ ~Refused /\ (state = 1 => ~saveError)
    BY DEF MInv, Verdicts, Final
  <2>3. ~saveError
    BY <2>2 DEF MInv, Saving
  <2>4. state = 1 => winner # None /\ (~request.continue => Good = Candidates)
    BY DEF MInv, Sweeping, Final, HasSwept
  <2> QED
    BY <2>1, <2>2, <2>3, <2>4 DEF MInv, Verdicts
<1> QED
  BY <1>1, InvariantCorrect, PTL

\* The file after a sweep: what rank 0 measured, of the candidates that ran to
\* the end and were timed.
LEMMA FileOfSweep ==
    ASSUME MInv, winner # None, ~saveError,
           pc[0] \in {"saved", "savedBarrier", "load", "returned", "failed"}
    PROVE  /\ cache = Content /\ cache.kind = "measured" /\ cache.valid = Usable /\ cache.ms = ms
           /\ Usable \subseteq Candidates /\ ms \in [Candidates -> Nat] /\ fate \in Fates
<1>1. cache = Content
  BY DEF MInv, Saving
<1>2. Content.kind = "measured" /\ Content.valid = Usable /\ Content.ms = ms
  BY ContentWhole DEF MInv
<1>3. ms \in Millis /\ fate \in Fates
  BY DEF MInv, Typed
<1>4. ms \in [Candidates -> Nat]
  BY <1>3, MeasureAssumption
<1> QED
  BY <1>1, <1>2, <1>3, <1>4 DEF Good, Usable

\* The ranks that return have the same selection, and after a sweep the fastest
\* timed candidate that ran to the end, on every rank, and satisfies the constraints.
THEOREM FastestSelectedCorrect == ASSUME Alone = {}, Shows PROVE Spec => []FastestSelected
<1>1. MInv => FastestSelected
  <2> SUFFICES ASSUME MInv, NEW r \in Ranks, NEW q \in Ranks, pc[r] = "returned", pc[q] = "returned"
               PROVE  /\ selected[r] = selected[q]
                      /\ state = 1 => /\ fate[selected[r]] = "ok" /\ Timed(selected[r])
                                      /\ selected[r] \in request.accept
                                      /\ \A c \in request.accept :
                                             fate[c] = "ok" /\ Timed(c) => ms[selected[r]] <= ms[c]
    BY DEF FastestSelected
  <2>1. selected[r] = Chosen /\ selected[q] = Chosen /\ ~Refused
    BY DEF MInv, Verdicts
  <2>2. ASSUME state = 1
        PROVE  /\ fate[Chosen] = "ok" /\ Timed(Chosen) /\ Chosen \in request.accept
               /\ \A c \in request.accept : fate[c] = "ok" /\ Timed(c) => ms[Chosen] <= ms[c]
    <3>1. /\ winner # None /\ ~saveError
          /\ pc[0] \in {"saved", "savedBarrier", "load", "returned", "failed"}
      BY <2>2 DEF MInv, Final, HasSwept
    <3>2. /\ cache.kind = "measured" /\ cache.valid = Usable /\ cache.ms = ms
          /\ Usable \subseteq Candidates /\ ms \in [Candidates -> Nat] /\ fate \in Fates
      BY <3>1, FileOfSweep
    <3>3. Usable \cap request.accept # {} /\ Chosen = Fastest(Usable \cap request.accept, ms)
      BY <2>1, <3>2 DEF Refused, PolicyServes, Chosen, Selection
    <3>4. /\ Chosen \in Usable \cap request.accept
          /\ \A c \in Usable \cap request.accept : ms[Chosen] <= ms[c]
      BY <3>2, <3>3, FastestFound
    <3>5. \A c \in Candidates : c \in Usable <=> fate[c] = "ok" /\ Timed(c)
      BY <3>2, GoodFates DEF Usable
    <3>6. request.accept \subseteq Candidates
      BY MeasureAssumption DEF MInv, Typed, RequestType
    <3> QED
      BY <3>2, <3>4, <3>5, <3>6
  <2> QED
    BY <2>1, <2>2
<1> QED
  BY <1>1, InvariantCorrect, PTL

-----------------------------------------------------------------------------
(***************************************************************************)
(* Each rank on its own, and the cache file.  No step below looks at a     *)
(* peer's calls, so that it does not matter which candidate fails on which *)
(* rank.                                                                   *)
(***************************************************************************)

\* A rank moves: from the end of a call, or locally.
LEMMA OwnMove ==
    ASSUME Own, NEW r \in Ranks, NEW x \in Phases \ {"inventory", "inspect", "state", "dead"},
           pc[r] # "dead", UNCHANGED jobVars, calls' = calls, inside' = inside \ {r},
           NEW c \in Candidates, NEW s \in 1 .. Voting,
           pc' = [pc EXCEPT ![r] = x], cand' = [cand EXCEPT ![r] = c], step' = [step EXCEPT ![r] = s],
           x \in RootPhases => r = 0,
           x = "measure" /\ ~Is4D => s # Voting,
           passed' \in [Ranks -> SUBSET Candidates], valid' \in [Ranks -> SUBSET Candidates],
           selected' \in [Ranks -> Candidates \cup {None}],
           state' \in 0 .. 3, winner' \in Candidates \cup {None}, saveError' \in BOOLEAN,
           cache' \in Files, tmp' \in Files
    PROVE  Own'
<1>1. /\ pc \in [Ranks -> Phases] /\ cand \in [Ranks -> Candidates] /\ step \in [Ranks -> 1 .. Voting]
      /\ calls \in [Ranks -> Seq(Points)]
  BY DEF Own, Typed
<1>2. /\ pc'[r] = x /\ cand'[r] = c /\ step'[r] = s
      /\ \A q \in Ranks \ {r} : pc'[q] = pc[q] /\ cand'[q] = cand[q] /\ step'[q] = step[q]
  BY <1>1
<1>3. /\ Voting' = Voting /\ Is4D' = Is4D /\ Calling' = Calling /\ Points' = Points
      /\ fate' = fate /\ ms' = ms /\ request' = request /\ job' = job
  BY JobFixed DEF Points, jobVars
<1>4. pc' \in [Ranks -> Phases] /\ cand' \in [Ranks -> Candidates] /\ step' \in [Ranks -> 1 .. Voting]
  BY <1>1
<1>5. \A q, p \in Ranks : pc'[q] = "dead" => pc'[p] = "dead"
  BY <1>2 DEF Own, Typed
<1>6. \A q \in Ranks : pc'[q] \in RootPhases => q = 0
  BY <1>2 DEF Own, Typed
<1>7. \A q \in Ranks : pc'[q] = "measure" /\ ~Is4D => step'[q] # Voting
  BY <1>2 DEF Own, Typed
<1>8. Typed'
  <2>1. /\ fate \in Fates /\ ms \in Millis /\ request \in Requests /\ job \in 1 .. Jobs
        /\ inside' \subseteq Ranks
    BY DEF Own, Typed
  <2> QED
    BY <1>1, <1>3, <1>4, <1>5, <1>6, <1>7, <2>1 DEF Typed
<1>9. InCall'
  BY <1>2, <1>3 DEF Own, Typed, InCall
<1>10. Fresh'
  BY <1>2 DEF Own, Fresh
<1> QED
  BY <1>8, <1>9, <1>10 DEF Own

\* The moves to the first places of a job.
LEMMA OwnEarly ==
    ASSUME Own, NEW r \in Ranks, NEW x \in {"inspect", "state"}, Go(r, x),
           pc[r] \in {"inventory", "inspect"}, x = "inspect" => r = 0,
           UNCHANGED jobVars, calls' = calls, inside' = inside \ {r}, state' \in 0 .. 3,
           UNCHANGED <<cand, step, passed, valid, selected, winner, saveError, cache, tmp>>
    PROVE  Own'
<1>1. pc \in [Ranks -> Phases] /\ calls \in [Ranks -> Seq(Points)] /\ x \in Phases
  BY DEF Own, Typed, Phases
<1>2. pc'[r] = x /\ \A q \in Ranks \ {r} : pc'[q] = pc[q]
  BY <1>1 DEF Go
<1>3. /\ Voting' = Voting /\ Is4D' = Is4D /\ Calling' = Calling /\ Points' = Points
      /\ fate' = fate /\ ms' = ms /\ request' = request /\ job' = job
  BY JobFixed DEF Points, jobVars
<1>4. pc' \in [Ranks -> Phases]
  BY <1>1 DEF Go
<1>5. \A q, p \in Ranks : pc'[q] = "dead" => pc'[p] = "dead"
  BY <1>2 DEF Own, Typed
<1>6. \A q \in Ranks : pc'[q] \in RootPhases => q = 0
  BY <1>2 DEF Own, Typed, RootPhases
<1>7. \A q \in Ranks : pc'[q] = "measure" /\ ~Is4D => step'[q] # Voting
  BY <1>2 DEF Own, Typed
<1>8. Typed'
  BY <1>3, <1>4, <1>5, <1>6, <1>7 DEF Own, Typed
<1>9. InCall'
  BY <1>2, <1>3 DEF Own, Typed, InCall
<1>10. Fresh'
  BY <1>2 DEF Own, Fresh
<1> QED
  BY <1>8, <1>9, <1>10 DEF Own

\* The moves of the sweep: where the rank goes, with which candidate and step.
LEMMA OwnNext ==
    ASSUME Typed, NEW r \in Ranks, pc[r] = "measure", NextCandidate(r) \/ EvaluatorDone(r)
    PROVE  \E x \in {"measure", "choose", "winner"}, c \in Candidates, s \in 1 .. Voting :
               /\ pc' = [pc EXCEPT ![r] = x] /\ cand' = [cand EXCEPT ![r] = c]
               /\ step' = [step EXCEPT ![r] = s]
               /\ x \in RootPhases => r = 0
               /\ x = "measure" => s = 1 \/ (Is4D /\ s = Voting)
               /\ r = 0 => x # "winner"
<1> DEFINE c == cand[r]
<1>1. /\ c \in Candidates /\ step[r] \in 1 .. Voting /\ pc \in [Ranks -> Phases]
      /\ cand \in [Ranks -> Candidates] /\ step \in [Ranks -> 1 .. Voting]
      /\ pc = [pc EXCEPT ![r] = "measure"] /\ cand = [cand EXCEPT ![r] = c]
      /\ step = [step EXCEPT ![r] = step[r]]
  BY DEF Typed
<1>2. 1 \in 1 .. Voting /\ Voting \in 1 .. Voting
  BY ScriptSteps
<1>3. ASSUME NextCandidate(r), c < N
      PROVE  /\ pc' = [pc EXCEPT ![r] = "measure"] /\ cand' = [cand EXCEPT ![r] = c + 1]
             /\ step' = [step EXCEPT ![r] = 1] /\ c + 1 \in Candidates
  BY <1>1, <1>3, NextPoints DEF NextCandidate
<1>4. ASSUME NextCandidate(r), ~(c < N)
      PROVE  /\ pc' = [pc EXCEPT ![r] = IF r = 0 THEN "choose" ELSE "winner"]
             /\ cand' = [cand EXCEPT ![r] = c] /\ step' = [step EXCEPT ![r] = step[r]]
  BY <1>1, <1>4 DEF NextCandidate, Go
<1>5. ASSUME EvaluatorDone(r), Is4D
      PROVE  /\ pc' = [pc EXCEPT ![r] = "measure"] /\ cand' = [cand EXCEPT ![r] = c]
             /\ step' = [step EXCEPT ![r] = Voting]
  BY <1>1, <1>5 DEF EvaluatorDone
<1>6. NextCandidate(r) \/ (EvaluatorDone(r) /\ Is4D)
  BY DEF EvaluatorDone
<1>7. CASE NextCandidate(r) /\ c < N
  BY <1>2, <1>3, <1>7 DEF RootPhases
<1>8. CASE NextCandidate(r) /\ ~(c < N)
  <2>1. CASE r = 0
    BY <1>1, <1>4, <1>8, <2>1
  <2>2. CASE r # 0
    BY <1>1, <1>4, <1>8, <2>2 DEF RootPhases
  <2> QED
    BY <2>1, <2>2
<1>9. CASE EvaluatorDone(r) /\ Is4D
  BY <1>1, <1>2, <1>5, <1>9 DEF RootPhases
<1> QED
  BY <1>6, <1>7, <1>8, <1>9

\* A step of another rank, or of the calls alone, is none of rank 0's business.
LEMMA RootKept ==
    ASSUME Kept, UNCHANGED <<rootVars, jobVars, fileVars>>,
           pc'[0] = pc[0], cand'[0] = cand[0], step'[0] = step[0], valid'[0] = valid[0]
    PROVE  RootSweep' /\ RootFile'
<1>1. /\ state' = state /\ winner' = winner /\ saveError' = saveError /\ cache' = cache /\ tmp' = tmp
      /\ request' = request /\ ms' = ms
  BY DEF rootVars, fileVars, jobVars
<1>2. /\ Good' = Good /\ Usable' = Usable /\ Breaking' = Breaking /\ Voting' = Voting /\ Content' = Content
  BY <1>1, JobFixed DEF Content
<1>3. RootSweep'
  BY <1>2 DEF Kept, RootSweep
<1>4. RootFile'
  BY <1>1, <1>2 DEF Kept, RootFile
<1> QED
  BY <1>3, <1>4

LEMMA KeptEnter ==
    ASSUME Kept, NEW r \in Ranks, Enter(r)
    PROVE  Kept'
<1>1. /\ r \notin inside /\ inside' = inside \cup {r} /\ calls' = [calls EXCEPT ![r] = Append(@, Point(r))]
      /\ pc' = pc /\ cand' = cand /\ step' = step /\ passed' = passed /\ valid' = valid
      /\ selected' = selected /\ state' = state /\ winner' = winner /\ saveError' = saveError
      /\ cache' = cache /\ tmp' = tmp /\ UNCHANGED jobVars /\ UNCHANGED <<rootVars, fileVars>>
      /\ fate' = fate /\ ms' = ms /\ request' = request /\ job' = job
  BY DEF Enter, rankVars, rootVars, fileVars, jobVars
<1>2. /\ Voting' = Voting /\ Is4D' = Is4D /\ Calling' = Calling /\ Points' = Points
  BY <1>1, JobFixed DEF Points
<1>3. Typed
  BY DEF Kept, Own
<1>4. /\ Point(r) = Coming[r] /\ pc[r] \in CallPhases
      /\ pc[r] = "measure" => step[r] \in Calling \cup {Voting}
  BY <1>3, PointComing DEF Enter
<1>5. Coming[r] \in Points
  BY <1>3, ComingType
<1>6. calls' \in [Ranks -> Seq(Points)]
  <2>1. calls \in [Ranks -> Seq(Points)] /\ Append(calls[r], Point(r)) \in Seq(Points)
    BY <1>3, <1>4, <1>5 DEF Typed
  <2> QED
    BY <1>1, <2>1
<1>7. Typed'
  BY <1>1, <1>2, <1>3, <1>6 DEF Typed
<1>8. InCall' /\ Fresh'
  BY <1>1, <1>2, <1>4 DEF Kept, Own, InCall, Fresh
<1>9. RootSweep' /\ RootFile'
  BY <1>1, RootKept
<1> QED
  BY <1>7, <1>8, <1>9 DEF Kept, Own

\* The sweep: wherever a measuring rank goes, rank 0 calls valid only what ran to
\* the end there.
LEMMA KeptMove ==
    ASSUME Kept, NEW r \in Ranks, pc[r] = "measure",
           NEW x \in {"measure", "choose", "winner", "failed"},
           NEW c \in Candidates, NEW s \in 1 .. Voting,
           pc' = [pc EXCEPT ![r] = x], cand' = [cand EXCEPT ![r] = c], step' = [step EXCEPT ![r] = s],
           x \in RootPhases => r = 0, r = 0 => x # "winner",
           x = "measure" /\ ~Is4D => s # Voting,
           r = 0 /\ x = "measure" /\ s # Voting => \A i \in 1 .. s - 1 : i \notin Breaking[c],
           passed' \in [Ranks -> SUBSET Candidates], valid' \in [Ranks -> SUBSET Candidates],
           r # 0 => valid'[0] = valid[0], valid'[0] \subseteq Good,
           calls' = calls, inside' = inside \ {r}, UNCHANGED <<selected, rootVars, jobVars, fileVars>>
    PROVE  Kept'
<1>1. /\ selected' = selected /\ state' = state /\ winner' = winner /\ saveError' = saveError
      /\ cache' = cache /\ tmp' = tmp /\ request' = request /\ UNCHANGED jobVars
      /\ UNCHANGED <<rootVars, jobVars, fileVars>>
  BY DEF rootVars, fileVars, jobVars
<1>2. /\ selected \in [Ranks -> Candidates \cup {None}] /\ state \in 0 .. 3
      /\ winner \in Candidates \cup {None} /\ saveError \in BOOLEAN /\ cache \in Files /\ tmp \in Files
      /\ pc \in [Ranks -> Phases] /\ cand \in [Ranks -> Candidates] /\ step \in [Ranks -> 1 .. Voting]
  BY DEF Kept, Own, Typed
<1>3. Own'
  <2>1. x \in Phases \ {"inventory", "inspect", "state", "dead"} /\ Own
    BY DEF Phases, Kept
  <2> QED
    BY <1>1, <1>2, <2>1, OwnMove
<1>4. CASE r # 0
  <2>1. pc'[0] = pc[0] /\ cand'[0] = cand[0] /\ step'[0] = step[0] /\ valid'[0] = valid[0]
    BY <1>2, <1>4, Numbers
  <2>2. RootSweep' /\ RootFile'
    BY <1>1, <2>1, RootKept
  <2> QED
    BY <1>3, <2>2 DEF Kept
<1>5. CASE r = 0
  <2>1. pc'[0] = x /\ cand'[0] = c /\ step'[0] = s
    BY <1>2, <1>5
  <2>2. Good' = Good /\ Usable' = Usable /\ Breaking' = Breaking /\ Voting' = Voting
    BY <1>1, JobFixed
  <2>3. RootSweep'
    BY <1>5, <2>1, <2>2 DEF RootSweep
  <2>4. /\ state = 1 /\ cache # Partial /\ (cache.kind = "measured" => cache.valid # {})
        /\ cache.kind = "measured" => cache.problem # request.problem
    BY <1>5 DEF Kept, RootFile
  <2>5. RootFile'
    BY <1>1, <1>5, <2>1, <2>4 DEF RootFile
  <2> QED
    BY <1>3, <2>3, <2>5 DEF Kept
<1> QED
  BY <1>4, <1>5

\* A step of the script that does not fail on rank 0.
LEMMA KeptPass ==
    ASSUME Kept, NEW r \in Ranks, pc[r] = "measure", step[r] # Voting, StepDone(r),
           r = 0 => step[0] \notin Breaking[cand[0]],
           calls' = calls, inside' = inside \ {r}, UNCHANGED <<selected, rootVars, jobVars, fileVars>>
    PROVE  Kept'
<1> DEFINE c == cand[r]
           s == step[r]
<1>1. /\ c \in Candidates /\ s \in 1 .. Len(Script) /\ s + 1 \in 1 .. Voting /\ Voting = Len(Script) + 1
      /\ Len(Script) \in Nat /\ pc \in [Ranks -> Phases] /\ cand \in [Ranks -> Candidates]
      /\ passed \in [Ranks -> SUBSET Candidates] /\ valid \in [Ranks -> SUBSET Candidates]
      /\ step \in [Ranks -> 1 .. Voting]
  BY ScriptSteps DEF Kept, Own, Typed
<1>2. r = 0 => \A i \in 1 .. s : i \notin Breaking[c]
  <2>1. r = 0 => \A i \in 1 .. s - 1 : i \notin Breaking[c]
    BY DEF Kept, RootSweep
  <2> QED
    BY <1>1, <2>1
<1>3. valid[0] \subseteq Good
  BY DEF Kept, RootSweep
<1>4. CASE s < Len(Script)
  <2>1. /\ step' = [step EXCEPT ![r] = s + 1] /\ pc' = pc /\ cand' = cand
        /\ passed' = passed /\ valid' = valid
    BY <1>4 DEF StepDone
  <2>2. pc' = [pc EXCEPT ![r] = "measure"] /\ cand' = [cand EXCEPT ![r] = c]
    BY <1>1, <2>1
  <2>3. r = 0 => \A i \in 1 .. (s + 1) - 1 : i \notin Breaking[c]
    BY <1>1, <1>2
  <2>4. s + 1 # Voting /\ "measure" \notin RootPhases
    BY <1>1, <1>4 DEF RootPhases
  <2> QED
    BY <1>1, <1>3, <2>1, <2>2, <2>3, <2>4, KeptMove
<1>5. CASE ~(s < Len(Script))
  <2>1. /\ passed' = [passed EXCEPT ![r] = @ \cup {c}]
        /\ valid' = IF Timed(c) THEN [valid EXCEPT ![r] = @ \cup {c}] ELSE valid
        /\ EvaluatorDone(r)
    BY <1>5 DEF StepDone, Measured
  <2>2. r = 0 => c \in Good
    <3>1. Breaking[c] \subseteq 1 .. Len(Script) /\ s = Len(Script)
      BY <1>1, <1>5, BreakingLocal
    <3> QED
      BY <1>1, <1>2, <3>1 DEF Good
  <2>3. passed' \in [Ranks -> SUBSET Candidates] /\ valid' \in [Ranks -> SUBSET Candidates]
    BY <1>1, <2>1
  <2>4. (r # 0 => valid'[0] = valid[0]) /\ valid'[0] \subseteq Good
    <3>1. r # 0 => valid'[0] = valid[0]
      BY <1>1, <2>1, Numbers
    <3>2. r = 0 => valid'[0] \subseteq valid[0] \cup {c}
      BY <1>1, <2>1, Numbers
    <3> QED
      BY <1>3, <2>2, <3>1, <3>2
  <2>5. Typed
    BY DEF Kept, Own
  <2>6. PICK x \in {"measure", "choose", "winner"}, d \in Candidates, t \in 1 .. Voting :
               /\ pc' = [pc EXCEPT ![r] = x] /\ cand' = [cand EXCEPT ![r] = d]
               /\ step' = [step EXCEPT ![r] = t]
               /\ x \in RootPhases => r = 0
               /\ x = "measure" => t = 1 \/ (Is4D /\ t = Voting)
               /\ r = 0 => x # "winner"
    BY <2>1, <2>5, OwnNext
  <2>7. /\ x = "measure" /\ ~Is4D => t # Voting
        /\ r = 0 /\ x = "measure" /\ t # Voting => \A i \in 1 .. t - 1 : i \notin Breaking[d]
    BY <1>1, <2>6
  <2> QED
    BY <2>3, <2>4, <2>6, <2>7, KeptMove
<1> QED
  BY <1>4, <1>5

LEMMA KeptSweep ==
    ASSUME Kept, NEW r \in Ranks, Collective(r) \/ LocalStep(r) \/ CandidateFails(r) \/ Vote(r)
    PROVE  Kept'
<1> DEFINE c == cand[r]
           s == step[r]
<1>1. /\ Typed /\ InCall /\ c \in Candidates /\ s \in 1 .. Voting /\ cand \in [Ranks -> Candidates]
      /\ passed \in [Ranks -> SUBSET Candidates] /\ valid \in [Ranks -> SUBSET Candidates]
      /\ step \in [Ranks -> 1 .. Voting] /\ valid[0] \subseteq Good
  BY DEF Kept, Own, Typed, RootSweep
<1>2. CASE Collective(r)
  <2>1. /\ pc[r] = "measure" /\ s # Voting /\ StepDone(r) /\ r \in inside
        /\ inside' = inside \ {r} /\ calls' = calls /\ UNCHANGED <<selected, rootVars, jobVars, fileVars>>
    BY <1>2 DEF Collective, Leave
  <2>2. s \in Calling
    BY <1>1, <2>1 DEF InCall
  <2>3. s \notin Breaking[c]
    BY <1>1, <2>2, BreakingLocal
  <2> QED
    BY <2>1, <2>3, KeptPass
<1>3. CASE LocalStep(r)
  <2>1. /\ pc[r] = "measure" /\ s # Voting /\ StepDone(r) /\ Call(r) = "none"
        /\ ~Throws(r, c, Script[s]) /\ inside' = inside /\ calls' = calls
        /\ UNCHANGED <<selected, rootVars, jobVars, fileVars>>
    BY <1>3 DEF LocalStep, callVars
  <2>2. inside' = inside \ {r}
    BY <1>1, <2>1, LocalIsNoCall
  <2>3. r = 0 => s \notin Breaking[c]
    BY <1>1, <2>1 DEF Breaking
  <2> QED
    BY <2>1, <2>2, <2>3, KeptPass
<1>4. CASE CandidateFails(r)
  <2>1. /\ pc[r] = "measure" /\ s # Voting /\ Call(r) = "none" /\ inside' = inside /\ calls' = calls
        /\ passed' = passed /\ valid' = valid /\ UNCHANGED <<selected, rootVars, jobVars, fileVars>>
    BY <1>4 DEF CandidateFails, callVars
  <2>2. inside' = inside \ {r}
    BY <1>1, <2>1, LocalIsNoCall
  <2>3. CASE request.continue
    <3>1. EvaluatorDone(r)
      BY <1>4, <2>3 DEF CandidateFails
    <3>2. PICK x \in {"measure", "choose", "winner"}, d \in Candidates, t \in 1 .. Voting :
                 /\ pc' = [pc EXCEPT ![r] = x] /\ cand' = [cand EXCEPT ![r] = d]
                 /\ step' = [step EXCEPT ![r] = t]
                 /\ x \in RootPhases => r = 0
                 /\ x = "measure" => t = 1 \/ (Is4D /\ t = Voting)
                 /\ r = 0 => x # "winner"
      BY <1>1, <2>1, <3>1, OwnNext
    <3>3. /\ x = "measure" /\ ~Is4D => t # Voting
          /\ r = 0 /\ x = "measure" /\ t # Voting => \A i \in 1 .. t - 1 : i \notin Breaking[d]
      BY <3>2, ScriptSteps
    <3> QED
      BY <1>1, <2>1, <2>2, <3>2, <3>3, KeptMove
  <2>4. CASE ~request.continue
    <3>1. pc' = [pc EXCEPT ![r] = "failed"] /\ cand' = cand /\ step' = step
      BY <1>4, <2>4 DEF CandidateFails, Go
    <3>2. cand' = [cand EXCEPT ![r] = c] /\ step' = [step EXCEPT ![r] = s]
      BY <1>1, <3>1
    <3>3. "failed" \notin RootPhases
      BY DEF RootPhases
    <3> QED
      BY <1>1, <2>1, <2>2, <3>1, <3>2, <3>3, KeptMove
  <2> QED
    BY <2>3, <2>4
<1>5. CASE Vote(r)
  <2>1. /\ pc[r] = "measure" /\ NextCandidate(r) /\ inside' = inside \ {r} /\ calls' = calls
        /\ passed' = passed /\ valid' \in {valid, [valid EXCEPT ![r] = @ \ {c}]}
        /\ UNCHANGED <<selected, rootVars, jobVars, fileVars>>
    BY <1>5 DEF Vote, Leave
  <2>2. /\ valid' \in [Ranks -> SUBSET Candidates] /\ (r # 0 => valid'[0] = valid[0])
        /\ valid'[0] \subseteq valid[0]
    BY <1>1, <2>1, Numbers
  <2>3. PICK x \in {"measure", "choose", "winner"}, d \in Candidates, t \in 1 .. Voting :
               /\ pc' = [pc EXCEPT ![r] = x] /\ cand' = [cand EXCEPT ![r] = d]
               /\ step' = [step EXCEPT ![r] = t]
               /\ x \in RootPhases => r = 0
               /\ x = "measure" => t = 1 \/ (Is4D /\ t = Voting)
               /\ r = 0 => x # "winner"
    BY <1>1, <2>1, OwnNext
  <2>4. /\ x = "measure" /\ ~Is4D => t # Voting
        /\ r = 0 /\ x = "measure" /\ t # Voting => \A i \in 1 .. t - 1 : i \notin Breaking[d]
    BY <2>3, ScriptSteps
  <2>5. passed' \in [Ranks -> SUBSET Candidates] /\ valid'[0] \subseteq Good
    BY <1>1, <2>1, <2>2
  <2>6. x \in {"measure", "choose", "winner", "failed"}
    OBVIOUS
  <2>7. /\ pc[r] = "measure" /\ inside' = inside \ {r} /\ calls' = calls
        /\ UNCHANGED <<selected, rootVars, jobVars, fileVars>>
        /\ valid' \in [Ranks -> SUBSET Candidates] /\ (r # 0 => valid'[0] = valid[0])
    BY <2>1, <2>2
  <2> QED
    BY <1>1, <2>3, <2>4, <2>5, <2>6, <2>7, KeptMove
<1> QED
  BY <1>2, <1>3, <1>4, <1>5

\* The steps between the collectives outside the sweep, and the reading of the file.
LEMMA KeptPlace ==
    ASSUME Kept, NEW r \in Ranks,
           \/ AfterInventory(r) \/ AfterState(r) \/ AfterWinner(r) \/ AfterSaved(r) \/ AfterBarrier(r)
           \/ Load(r)
    PROVE  Kept'
<1>1. /\ Typed /\ InCall /\ Fresh /\ RootSweep /\ RootFile /\ Own
      /\ pc \in [Ranks -> Phases] /\ cand \in [Ranks -> Candidates] /\ step \in [Ranks -> 1 .. Voting]
      /\ passed \in [Ranks -> SUBSET Candidates] /\ valid \in [Ranks -> SUBSET Candidates]
      /\ selected \in [Ranks -> Candidates \cup {None}] /\ state \in 0 .. 3
      /\ winner \in Candidates \cup {None} /\ saveError \in BOOLEAN /\ cache \in Files /\ tmp \in Files
  BY DEF Kept, Own, Typed
<1>2. /\ cand' = cand /\ step' = step /\ passed' = passed /\ valid' = valid /\ calls' = calls
      /\ inside' = inside \ {r}
      /\ selected' = selected \/ (Load(r) /\ selected' = [selected EXCEPT ![r] = Selection(cache)])
      /\ UNCHANGED <<rootVars, jobVars, fileVars>>
  <2>1. CASE Load(r)
    <3>1. r \notin inside
      BY <1>1, <2>1 DEF Load, InCall, CallPhases
    <3> QED
      BY <2>1, <3>1 DEF Load, callVars
  <2>2. CASE ~Load(r)
    BY <2>2 DEF AfterInventory, AfterState, AfterWinner, AfterSaved, AfterBarrier, Leave, rankVars
  <2> QED
    BY <2>1, <2>2
<1>3. selected' \in [Ranks -> Candidates \cup {None}]
  BY <1>1, <1>2, SelectionType
<1>4. /\ state' = state /\ winner' = winner /\ saveError' = saveError /\ cache' = cache /\ tmp' = tmp
      /\ UNCHANGED jobVars /\ request' = request
  BY <1>2 DEF rootVars, fileVars, jobVars
\* Where the rank goes, and what rank 0 finds there.
<1>5. PICK x \in Phases \ {"inventory", "dead"} :
          /\ Go(r, x) /\ (x \in RootPhases => r = 0)
          /\ \/ pc[r] = "inventory" /\ x = (IF r = 0 THEN "inspect" ELSE "state")
             \/ pc[r] = "state" /\ (x = "measure" <=> state = 1) /\ x \in {"load", "measure", "failed"}
             \/ pc[r] = "winner" /\ winner # None /\ x = (IF r = 0 THEN "open" ELSE "saved")
             \/ pc[r] \in {"winner", "saved", "savedBarrier", "load"}
                /\ x \in {"failed", "savedBarrier", "load", "returned"}
  <2>1. CASE AfterInventory(r)
    <3> DEFINE x == IF r = 0 THEN "inspect" ELSE "state"
    <3>1. Go(r, x) /\ pc[r] = "inventory"
      BY <2>1 DEF AfterInventory
    <3>2. x \in Phases \ {"inventory", "dead"} /\ (x \in RootPhases => r = 0)
      BY DEF Phases, RootPhases
    <3> QED
      BY <3>1, <3>2
  <2>2. CASE AfterState(r)
    <3> DEFINE x == CASE state = 0 -> "load" [] state = 1 -> "measure" [] OTHER -> "failed"
    <3>1. Go(r, x) /\ pc[r] = "state"
      BY <2>2 DEF AfterState
    <3>2. x \in {"load", "measure", "failed"} /\ (x = "measure" <=> state = 1)
      BY <1>1
    <3> HIDE DEF x
    <3>3. x \in Phases \ {"inventory", "dead"} /\ x \notin RootPhases
      BY <3>2 DEF Phases, RootPhases
    <3> QED
      BY <3>1, <3>2, <3>3
  <2>3. CASE AfterWinner(r)
    <3> DEFINE x == IF winner = None THEN "failed" ELSE IF r = 0 THEN "open" ELSE "saved"
    <3>1. Go(r, x) /\ pc[r] = "winner"
      BY <2>3 DEF AfterWinner
    <3>2. x \in Phases \ {"inventory", "dead"} /\ (x \in RootPhases => r = 0)
      BY DEF Phases, RootPhases
    <3>3. x = "failed" \/ (winner # None /\ x = (IF r = 0 THEN "open" ELSE "saved"))
      OBVIOUS
    <3> HIDE DEF x
    <3> QED
      BY <3>1, <3>2, <3>3
  <2>4. CASE AfterSaved(r)
    BY <2>4 DEF AfterSaved, Phases, RootPhases
  <2>5. CASE AfterBarrier(r)
    BY <2>5 DEF AfterBarrier, Phases, RootPhases
  <2>6. CASE Load(r)
    BY <2>6 DEF Load, Phases, RootPhases
  <2> QED
    BY <2>1, <2>2, <2>3, <2>4, <2>5, <2>6
<1>6. pc' = [pc EXCEPT ![r] = x]
  BY <1>5 DEF Go
<1>7. pc'[r] = x /\ \A q \in Ranks \ {r} : pc'[q] = pc[q]
  BY <1>1, <1>6
<1>8. Own'
  <2>1. CASE x \in {"inspect", "state"}
    <3>1. pc[r] = "inventory" /\ (x = "inspect" => r = 0)
      BY <1>5, <2>1
    <3>2. selected' = selected
      BY <1>2, <3>1 DEF Load
    <3> QED
      BY <1>1, <1>2, <1>4, <1>5, <2>1, <3>1, <3>2, OwnEarly
  <2>2. CASE x \notin {"inspect", "state"}
    <3>1. /\ cand' = [cand EXCEPT ![r] = cand[r]] /\ step' = [step EXCEPT ![r] = step[r]]
          /\ cand[r] \in Candidates /\ step[r] \in 1 .. Voting
      BY <1>1, <1>2
    <3>2. x = "measure" => step[r] # Voting
      BY <1>1, <1>5, ScriptSteps DEF Fresh
    <3>3. x \in Phases \ {"inventory", "inspect", "state", "dead"} /\ pc[r] # "dead"
      BY <1>5, <2>2
    <3>4. x \in RootPhases => r = 0
      BY <1>5
    <3>5. /\ passed' \in [Ranks -> SUBSET Candidates] /\ valid' \in [Ranks -> SUBSET Candidates]
          /\ state' \in 0 .. 3 /\ winner' \in Candidates \cup {None} /\ saveError' \in BOOLEAN
          /\ cache' \in Files /\ tmp' \in Files
      BY <1>1, <1>2, <1>4
    <3>6. Own /\ UNCHANGED jobVars /\ calls' = calls /\ inside' = inside \ {r}
      BY <1>1, <1>2, <1>4
    <3> DEFINE c == cand[r]
               s == step[r]
    <3>7. /\ c \in Candidates /\ s \in 1 .. Voting /\ (x = "measure" => s # Voting)
          /\ cand' = [cand EXCEPT ![r] = c] /\ step' = [step EXCEPT ![r] = s]
      BY <3>1, <3>2
    <3> HIDE DEF c, s
    <3> QED
      BY <1>3, <1>6, <3>3, <3>4, <3>5, <3>6, <3>7, OwnMove
  <2> QED
    BY <2>1, <2>2
<1>9. CASE r # 0
  <2>1. pc'[0] = pc[0] /\ cand'[0] = cand[0] /\ step'[0] = step[0] /\ valid'[0] = valid[0]
    BY <1>2, <1>7, <1>9, Numbers
  <2> QED
    BY <1>2, <1>8, <2>1, RootKept DEF Kept
<1>10. CASE r = 0
  <2>1. Good' = Good /\ Usable' = Usable /\ Breaking' = Breaking /\ Voting' = Voting
    BY <1>4, JobFixed
  <2>2. RootSweep'
    <3>1. valid'[0] \subseteq Good'
      BY <1>1, <1>2, <2>1 DEF RootSweep
    <3>2. x = "measure" => step'[0] = 1
      BY <1>1, <1>2, <1>5, <1>10 DEF Fresh
    <3> QED
      BY <1>7, <1>10, <3>1, <3>2 DEF RootSweep
  <2>3. RootFile'
    <3>1. cache # Partial /\ (cache.kind = "measured" => cache.valid # {})
      BY <1>1 DEF RootFile
    <3>2. x \in {"measure", "open"} => state = 1
      BY <1>1, <1>5, <1>10 DEF RootFile
    <3>3. x = "open" => valid[0] # {}
      BY <1>1, <1>5, <1>10 DEF RootFile
    <3>4. /\ state = 1 /\ cache.kind = "measured" /\ x \in {"measure", "open"} =>
                 cache.problem # request.problem
      BY <1>1, <1>5, <1>10 DEF RootFile
    <3>5. x \in {"inspect", "measure", "open", "load", "failed", "savedBarrier", "returned"}
      BY <1>5, <1>10
    <3> QED
      BY <1>2, <1>4, <1>7, <1>10, <3>1, <3>2, <3>3, <3>4, <3>5 DEF RootFile
  <2> QED
    BY <1>8, <2>2, <2>3 DEF Kept
<1> QED
  BY <1>9, <1>10

\* Rank 0 inspects the file, chooses the winner and saves.
LEMMA KeptRoot ==
    ASSUME Kept, RootStep
    PROVE  Kept'
<1>1. /\ Typed /\ InCall /\ Fresh /\ RootSweep /\ RootFile /\ Own
      /\ pc \in [Ranks -> Phases] /\ cand \in [Ranks -> Candidates] /\ step \in [Ranks -> 1 .. Voting]
      /\ passed \in [Ranks -> SUBSET Candidates] /\ valid \in [Ranks -> SUBSET Candidates]
      /\ selected \in [Ranks -> Candidates \cup {None}] /\ state \in 0 .. 3
      /\ winner \in Candidates \cup {None} /\ saveError \in BOOLEAN /\ cache \in Files /\ tmp \in Files
      /\ ms \in Millis /\ request \in Requests
  BY DEF Kept, Own, Typed
<1>2. /\ pc[0] \in RootPhases /\ cand' = cand /\ step' = step /\ passed' = passed /\ valid' = valid
      /\ selected' = selected /\ calls' = calls /\ inside' = inside /\ UNCHANGED jobVars
      /\ request' = request
  BY DEF RootStep, Inspect, Choose, Save, SaveStep, SaveFails, RootPhases, rankVars, callVars, jobVars
<1>3. inside' = inside \ {0} /\ pc[0] # "dead"
  BY <1>1, <1>2 DEF InCall, RootPhases, CallPhases
<1>4. /\ cand' = [cand EXCEPT ![0] = cand[0]] /\ step' = [step EXCEPT ![0] = step[0]]
      /\ cand[0] \in Candidates /\ step[0] \in 1 .. Voting
  BY <1>1, <1>2, Numbers
<1>5. Good' = Good /\ Usable' = Usable /\ Breaking' = Breaking /\ Voting' = Voting /\ Content' = Content
  BY <1>2, JobFixed, RestFixed
<1>6. ASSUME NEW x, Go(0, x)
      PROVE  pc' = [pc EXCEPT ![0] = x] /\ pc'[0] = x
  BY <1>1, <1>6, Numbers DEF Go
<1>7. ASSUME NEW x \in {"winner", "write", "rename", "saved"}, Go(0, x),
             state' \in 0 .. 3, winner' \in Candidates \cup {None}, saveError' \in BOOLEAN,
             cache' \in Files, tmp' \in Files
      PROVE  Own' /\ RootSweep'
  <2>1. Own'
    <3>1. x \in Phases \ {"inventory", "inspect", "state", "dead"} /\ x # "measure"
      BY DEF Phases
    <3>2. pc' = [pc EXCEPT ![0] = x] /\ 0 \in Ranks
      BY <1>6, <1>7, Numbers
    <3>3. /\ passed' \in [Ranks -> SUBSET Candidates] /\ valid' \in [Ranks -> SUBSET Candidates]
          /\ selected' \in [Ranks -> Candidates \cup {None}]
      BY <1>1, <1>2
    <3> DEFINE c == cand[0]
               s == step[0]
    <3>4. /\ c \in Candidates /\ s \in 1 .. Voting
          /\ cand' = [cand EXCEPT ![0] = c] /\ step' = [step EXCEPT ![0] = s]
      BY <1>4
    <3>5. Own /\ pc[0] # "dead" /\ UNCHANGED jobVars /\ calls' = calls /\ inside' = inside \ {0}
      BY <1>1, <1>2, <1>3
    <3> HIDE DEF c, s
    <3> QED
      BY <1>7, <3>1, <3>2, <3>3, <3>4, <3>5, OwnMove
  <2>2. RootSweep'
    BY <1>1, <1>2, <1>5, <1>6, <1>7 DEF RootSweep
  <2> QED
    BY <2>1, <2>2
<1>8. CASE Inspect
  <2>1. /\ pc[0] = "inspect" /\ Go(0, "state") /\ state' = Inspection
        /\ winner' = winner /\ saveError' = saveError /\ cache' = cache /\ tmp' = tmp
    BY <1>8 DEF Inspect, fileVars
  <2>2. /\ state' \in 0 .. 3
        /\ state' = 1 /\ cache.kind = "measured" => cache.problem # request.problem
    BY <2>1 DEF Inspection, SameProblem, NoFile, Partial
  <2>3. Own'
    BY <1>1, <1>2, <1>3, <2>1, <2>2, Numbers, OwnEarly
  <2>4. RootSweep'
    BY <1>1, <1>2, <1>5, <1>6, <2>1 DEF RootSweep
  <2>5. RootFile'
    BY <1>1, <1>2, <1>5, <1>6, <2>1, <2>2 DEF RootFile
  <2> QED
    BY <2>3, <2>4, <2>5 DEF Kept
<1>9. CASE Choose
  <2>1. /\ pc[0] = "choose" /\ Go(0, "winner") /\ winner' = WinnerOf(valid[0])
        /\ state' = state /\ saveError' = saveError /\ cache' = cache /\ tmp' = tmp
    BY <1>9 DEF Choose, fileVars
  <2>2. winner' \in Candidates \cup {None} /\ (winner' # None <=> valid[0] # {})
    BY <1>1, <2>1, Numbers, WinnerType
  <2>3. Own' /\ RootSweep'
    BY <1>1, <1>7, <2>1, <2>2
  <2>4. RootFile'
    BY <1>1, <1>2, <1>5, <1>6, <2>1, <2>2 DEF RootFile
  <2> QED
    BY <2>3, <2>4 DEF Kept
<1>10. CASE Save
  <2>1. /\ \/ pc[0] = "open" /\ Go(0, "write") /\ cache' = cache /\ tmp' = Partial
           \/ pc[0] = "write" /\ Go(0, "rename") /\ cache' = cache /\ tmp' = Content
           \/ pc[0] = "rename" /\ Go(0, "saved") /\ cache' = tmp /\ tmp' = NoFile
        /\ state' = state /\ winner' = winner /\ saveError' = saveError
    BY <1>10 DEF Save, SaveStep, Opened, Written, Renamed, rootVars
  <2>2. state = 1 /\ valid[0] # {} /\ (pc[0] = "rename" => tmp = Content)
    BY <1>1, <2>1 DEF RootFile
  <2>3. /\ Content \in Files /\ Content # Partial /\ Content.kind = "measured"
        /\ Content.valid = valid[0]
    <3>1. request.problem \in {"A", "B"}
      BY <1>1, MeasureAssumption DEF RequestType
    <3>2. Content \in MeasuredFile /\ Content.kind = "measured" /\ Content.valid = valid[0]
      BY <1>1, <3>1, Numbers DEF Content, MeasuredFile
    <3> QED
      BY <3>2 DEF Files, Partial
  <2>4. cache' \in Files /\ tmp' \in Files
    BY <1>1, <2>1, <2>2, <2>3 DEF Files
  <2>5. PICK x \in {"write", "rename", "saved"} :
            /\ Go(0, x)
            /\ \/ pc[0] = "open" /\ x = "write" /\ cache' = cache /\ tmp' = Partial
               \/ pc[0] = "write" /\ x = "rename" /\ cache' = cache /\ tmp' = Content
               \/ pc[0] = "rename" /\ x = "saved" /\ cache' = tmp /\ tmp' = NoFile
    BY <2>1
  <2>6. Own' /\ RootSweep'
    BY <1>1, <1>7, <2>1, <2>4, <2>5
  <2>7. pc'[0] = x
    BY <1>6, <2>5
  <2>8. RootFile'
    BY <1>1, <1>2, <1>5, <2>1, <2>2, <2>3, <2>5, <2>7 DEF RootFile
  <2> QED
    BY <2>6, <2>8 DEF Kept
<1>11. CASE SaveFails
  <2>1. /\ pc[0] \in {"open", "rename"} /\ Go(0, "saved") /\ saveError' = TRUE
        /\ tmp' \in {tmp, NoFile} /\ state' = state /\ winner' = winner /\ cache' = cache
    BY <1>11 DEF SaveFails
  <2>2. tmp' \in Files
    BY <1>1, <2>1 DEF Files
  <2>3. Own' /\ RootSweep'
    BY <1>1, <1>7, <2>1, <2>2
  <2>4. RootFile'
    BY <1>1, <1>2, <1>5, <1>6, <2>1 DEF RootFile
  <2> QED
    BY <2>3, <2>4 DEF Kept
<1> QED
  BY <1>8, <1>9, <1>10, <1>11 DEF RootStep

LEMMA KeptCrash ==
    ASSUME Kept, Crash
    PROVE  Kept'
<1>1. /\ pc' = [r \in Ranks |-> "dead"] /\ calls' = [r \in Ranks |-> <<>>] /\ inside' = {}
      /\ cand' = cand /\ step' = step /\ passed' = passed /\ valid' = valid
      /\ selected' = selected /\ state' = state /\ winner' = winner /\ saveError' = saveError
      /\ cache' = cache /\ tmp' = tmp /\ UNCHANGED jobVars
  BY DEF Crash, rankVars, rootVars, fileVars
<1>2. /\ fate' = fate /\ ms' = ms /\ request' = request /\ job' = job
      /\ Good' = Good /\ Usable' = Usable /\ Breaking' = Breaking /\ Voting' = Voting
  BY <1>1, JobFixed DEF jobVars
<1>3. \A r \in Ranks : pc'[r] = "dead"
  BY <1>1
<1>4. Typed'
  <2>1. calls' \in [Ranks -> Seq(Points')] /\ pc' \in [Ranks -> Phases]
    BY <1>1 DEF Phases
  <2> QED
    BY <1>1, <1>2, <1>3, <2>1 DEF Kept, Own, Typed, RootPhases
<1>5. InCall' /\ Fresh'
  BY <1>1, <1>3 DEF InCall, Fresh
<1>6. RootSweep' /\ RootFile'
  BY <1>1, <1>2, <1>3, Numbers DEF Kept, RootSweep, RootFile
<1> QED
  BY <1>4, <1>5, <1>6 DEF Kept, Own

\* A job begins: nothing is known of its candidates, and the file is a whole one.
LEMMA KeptNextJob ==
    ASSUME Kept, NextJob
    PROVE  Kept'
<1>1. Typed /\ cache # Partial /\ (cache.kind = "measured" => cache.valid # {})
  BY DEF Kept, Own, RootFile
<1>2. Typed'
  BY <1>1, NextJobInv DEF MInv
<1>3. /\ \A r \in Ranks : pc'[r] = "inventory" /\ cand'[r] = 1 /\ step'[r] = 1 /\ valid'[r] = {}
      /\ inside' = {} /\ cache' = cache
  BY DEF NextJob, All, fileVars
<1>4. InCall' /\ Fresh'
  BY <1>3 DEF InCall, Fresh
<1>5. RootSweep' /\ RootFile'
  BY <1>1, <1>3, Numbers DEF RootSweep, RootFile
<1> QED
  BY <1>2, <1>4, <1>5 DEF Kept, Own

LEMMA KeptInit == Init => Kept
<1> SUFFICES ASSUME Init PROVE Kept
  OBVIOUS
<1>1. MInv
  BY InitInv
<1>2. pc[0] = "inventory"
  BY Numbers DEF Init, All
<1>3. Typed /\ InCall /\ Fresh
  BY <1>1, LockStepInCall DEF MInv, Sweeping, Fresh
<1>4. RootSweep
  BY <1>1, <1>2, Numbers DEF MInv, Sweeping, RootSweep
<1>5. RootFile
  BY <1>1, <1>2 DEF MInv, Saving, RootFile
<1> QED
  BY <1>3, <1>4, <1>5 DEF Kept, Own

\* Each rank keeps its place, and rank 0 the file, whatever fails on which rank.
THEOREM KeptCorrect == Spec => []Kept
<1>1. ASSUME Kept, [Next]_vars PROVE Kept'
  <2>1. ASSUME NEW r \in Ranks, RankStep(r) PROVE Kept'
    BY <1>1, <2>1, KeptEnter, KeptPlace, KeptSweep DEF RankStep
  <2>2. CASE RootStep
    BY <1>1, <2>2, KeptRoot
  <2>3. CASE Crash
    BY <1>1, <2>3, KeptCrash
  <2>4. CASE NextJob
    BY <1>1, <2>4, KeptNextJob
  <2>5. CASE Finished \/ UNCHANGED vars
    <3>1. /\ pc' = pc /\ cand' = cand /\ step' = step /\ passed' = passed /\ valid' = valid
          /\ selected' = selected /\ calls' = calls /\ inside' = inside
          /\ UNCHANGED jobVars /\ UNCHANGED <<rootVars, jobVars, fileVars>>
          /\ state' = state /\ winner' = winner /\ saveError' = saveError /\ cache' = cache /\ tmp' = tmp
          /\ request' = request /\ fate' = fate /\ ms' = ms /\ job' = job
      BY <2>5 DEF Finished, vars, rankVars, callVars, rootVars, jobVars, fileVars
    <3>2. Voting' = Voting /\ Is4D' = Is4D /\ Calling' = Calling /\ Points' = Points
      BY <3>1, JobFixed DEF Points
    <3>3. Own'
      BY <1>1, <3>1, <3>2 DEF Kept, Own, Typed, InCall, Fresh
    <3> QED
      BY <1>1, <3>1, <3>3, RootKept DEF Kept
  <2> QED
    BY <1>1, <2>1, <2>2, <2>3, <2>4, <2>5 DEF Next
<1> QED
  BY <1>1, KeptInit, PTL DEF Spec

\* Whenever the job is killed, and whatever the disk does, the cache file is a
\* whole one; and what a sweep leaves in it is of the candidates that passed.
\* (tmp_path and rename, and rank 0's own sweep: a peer that is gone, or whose
\* calls meet the wrong ones, cannot put a wrong file there.)
THEOREM CacheWholeCorrect == ASSUME Shows PROVE Spec => []CacheWhole
<1>1. Kept => CacheWhole
  <2> SUFFICES ASSUME Kept PROVE CacheWhole
    OBVIOUS
  <2>1. cache # Partial /\ (cache.kind = "measured" => cache.valid # {})
    BY DEF Kept, RootFile
  <2>2. ASSUME pc[0] = "saved", ~saveError PROVE \A c \in cache.valid : fate[c] = "ok"
    <3>1. cache.valid = valid[0] /\ valid[0] \subseteq Good /\ fate \in Fates
      BY <2>2 DEF Kept, Own, Typed, RootSweep, RootFile, Content
    <3> QED
      BY <3>1, GoodRan
  <2> QED
    BY <2>1, <2>2 DEF CacheWhole
<1> QED
  BY <1>1, KeptCorrect, PTL

\* A sweep is paid for once: no step replaces a measured cache but the rename of
\* a job for another problem, whatever failed on which rank.
THEOREM SweptOnceCorrect == Spec => SweptOnce
<1> DEFINE Replaces == cache.kind = "measured" /\ cache' # cache => request.problem # cache.problem
<1>1. ASSUME Kept, [Next]_vars PROVE [Replaces]_vars
  <2>1. CASE Save
    <3>1. cache' # cache => pc[0] = "rename"
      BY <2>1 DEF Save, SaveStep, Opened, Written
    <3>2. pc[0] = "rename" => state = 1
      BY <1>1 DEF Kept, RootFile
    <3> QED
      BY <1>1, <3>1, <3>2 DEF Kept, RootFile
  <2>2. CASE ~Save
    <3>1. cache' = cache
      <4>1. ASSUME NEW r \in Ranks, RankStep(r) PROVE cache' = cache
        BY <4>1 DEF RankStep, Enter, AfterInventory, AfterState, Collective, LocalStep, CandidateFails,
                    Vote, AfterWinner, AfterSaved, AfterBarrier, Load, fileVars
      <4>2. CASE RootStep
        BY <2>2, <4>2 DEF RootStep, Inspect, Choose, SaveFails, fileVars
      <4>3. CASE Crash \/ NextJob \/ Finished \/ UNCHANGED vars
        BY <4>3 DEF Crash, NextJob, Finished, vars, fileVars
      <4> QED
        BY <1>1, <4>1, <4>2, <4>3 DEF Next
    <3> QED
      BY <3>1
  <2> QED
    BY <2>1, <2>2
<1> QED
  BY <1>1, KeptCorrect, PTL DEF Spec, SweptOnce

-----------------------------------------------------------------------------
(***************************************************************************)
(* The number of calls, and the types.                                     *)
(***************************************************************************)

\* The calls a rank has made when it begins a candidate, and after the sweep.
SweepCalls == [c \in Candidates |-> 2 + (c - 1) * Voting]
AllCalls == 2 + N * Voting

\* The most calls that have ended where a rank is.
Called ==
    [r \in Ranks |->
        IF pc[r] = "measure" THEN SweepCalls[cand[r]] + step[r] - 1
        ELSE IF pc[r] = "inventory" THEN 0
        ELSE IF pc[r] \in {"inspect", "state"} THEN 1
        ELSE IF pc[r] \in {"choose", "winner"} THEN AllCalls
        ELSE IF pc[r] \in {"open", "write", "rename", "saved"} THEN AllCalls + 1
        ELSE IF pc[r] = "savedBarrier" THEN AllCalls + 2
        ELSE AllCalls + 3]

Pending == [r \in Ranks |-> IF r \in inside THEN 1 ELSE 0]

Counted == \A r \in Ranks : Len(calls[r]) <= Called[r] + Pending[r]

LEMMA SweepCounts ==
    /\ Voting \in Nat /\ Voting >= 2 /\ AllCalls \in Nat
    /\ \A c \in Candidates :
           /\ c \in Nat /\ SweepCalls[c] \in Nat /\ SweepCalls[c] >= 2
           /\ SweepCalls[c] + Voting <= AllCalls
           /\ c + 1 \in Candidates => SweepCalls[c + 1] = SweepCalls[c] + Voting
    /\ AllCalls <= N * (Voting + 1) + 2
<1> DEFINE V == Voting
<1>1. V \in Nat /\ V >= 2
  BY ScriptSteps
<1> HIDE DEF V
<1>2. N * V \in Nat
  BY <1>1, Numbers
<1>3. ASSUME NEW c \in Candidates
      PROVE  /\ c \in Nat /\ (c - 1) * V \in Nat /\ (c - 1) * V + V = c * V /\ c * V <= N * V
             /\ ((c + 1) - 1) * V = c * V
  <2>1. c \in Nat /\ c >= 1 /\ c <= N /\ c - 1 \in Nat /\ (c + 1) - 1 = c
    BY Numbers DEF Candidates
  <2>2. (c - 1) * V \in Nat /\ c * V \in Nat
    BY <1>1, <2>1
  <2>3. (c - 1) * V + V = c * V
    BY <1>1, <2>1
  <2>4. c * V <= N * V
    BY <1>1, <2>1, Numbers
  <2> QED
    BY <2>1, <2>2, <2>3, <2>4
<1>4. ASSUME NEW c \in Candidates
      PROVE  /\ c \in Nat /\ SweepCalls[c] \in Nat /\ SweepCalls[c] >= 2
             /\ SweepCalls[c] + V <= AllCalls
             /\ c + 1 \in Candidates => SweepCalls[c + 1] = SweepCalls[c] + V
  <2>1. SweepCalls[c] = 2 + (c - 1) * V /\ AllCalls = 2 + N * V
    BY DEF SweepCalls, AllCalls, V
  <2>2. c + 1 \in Candidates => SweepCalls[c + 1] = 2 + ((c + 1) - 1) * V
    BY DEF SweepCalls, V
  <2>3. c * V \in Nat
    BY <1>1, <1>3
  <2> QED
    BY <1>1, <1>2, <1>3, <2>1, <2>2, <2>3
<1>5. AllCalls = 2 + N * V
  BY DEF AllCalls, V
<1>6. N * V <= N * (V + 1)
  BY <1>1, Numbers
<1>7. AllCalls \in Nat
  BY <1>2, <1>5
<1>8. AllCalls <= N * (V + 1) + 2
  <2>1. N * (V + 1) \in Nat
    BY <1>1, Numbers
  <2> QED
    BY <1>2, <1>5, <1>6, <2>1
<1> HIDE DEF AllCalls, SweepCalls
<1> QED
  BY <1>1, <1>4, <1>7, <1>8 DEF V

LEMMA CalledType ==
    ASSUME Typed, NEW r \in Ranks
    PROVE  /\ Called[r] \in Nat /\ Called[r] <= AllCalls + 3
           /\ pc[r] \in CallPhases => Called[r] <= AllCalls + 2
<1>1. cand[r] \in Candidates /\ step[r] \in Nat /\ step[r] >= 1 /\ step[r] <= Voting
  BY ScriptSteps DEF Typed
<1>2. SweepCalls[cand[r]] \in Nat /\ SweepCalls[cand[r]] + Voting <= AllCalls
  BY <1>1, SweepCounts
<1>3. CASE pc[r] = "measure"
  <2>1. Called[r] = SweepCalls[cand[r]] + step[r] - 1
    BY <1>3 DEF Called
  <2> QED
    BY <1>1, <1>2, <2>1, SweepCounts
<1>4. CASE pc[r] # "measure"
  <2>1. Called[r] \in {0, 1, AllCalls, AllCalls + 1, AllCalls + 2, AllCalls + 3}
    BY <1>4 DEF Called
  <2>2. pc[r] \in CallPhases => Called[r] \in {0, 1, AllCalls, AllCalls + 1, AllCalls + 2}
    BY <1>4 DEF Called, CallPhases
  <2>3. AllCalls \in Nat /\ AllCalls >= 2
    BY <1>1, <1>2, SweepCounts
  <2> QED
    BY <2>1, <2>2, <2>3
<1> QED
  BY <1>3, <1>4

\* A rank moves on, having ended its call if it was in one.
LEMMA CountStep ==
    ASSUME Own, Counted, NEW r \in Ranks, UNCHANGED jobVars, calls' = calls, inside' = inside \ {r},
           \A q \in Ranks \ {r} : pc'[q] = pc[q] /\ cand'[q] = cand[q] /\ step'[q] = step[q],
           Called'[r] >= Called[r] + Pending[r], Called'[r] \in Nat
    PROVE  Counted'
<1>1. SweepCalls' = SweepCalls /\ AllCalls' = AllCalls
  BY JobFixed DEF SweepCalls, AllCalls
<1>2. \A q \in Ranks \ {r} : Called'[q] = Called[q] /\ Pending'[q] = Pending[q]
  BY <1>1 DEF Called, Pending
<1>3. Pending'[r] = 0 /\ Pending[r] \in Nat
  BY DEF Pending
<1>4. calls \in [Ranks -> Seq(Points)]
  BY DEF Own, Typed
<1>5. Len(calls[r]) \in Nat
  BY <1>4
<1>6. Called[r] \in Nat
  BY CalledType DEF Own
<1>7. Len(calls[r]) <= Called'[r] + Pending'[r]
  BY <1>3, <1>5, <1>6 DEF Counted
<1> QED
  BY <1>2, <1>7 DEF Counted

\* To the next candidate, or past the evaluator.
LEMMA CountNext ==
    ASSUME Own, NEW r \in Ranks, pc[r] = "measure", UNCHANGED jobVars
    PROVE  /\ NextCandidate(r) => Called'[r] \in Nat /\ Called'[r] >= SweepCalls[cand[r]] + Voting
           /\ EvaluatorDone(r) => Called'[r] \in Nat /\ Called'[r] >= SweepCalls[cand[r]] + Voting - 1
<1> DEFINE c == cand[r]
<1>1. SweepCalls' = SweepCalls /\ AllCalls' = AllCalls /\ Voting' = Voting
  BY JobFixed DEF SweepCalls, AllCalls
<1>2. /\ c \in Candidates /\ pc \in [Ranks -> Phases] /\ cand \in [Ranks -> Candidates]
      /\ step \in [Ranks -> 1 .. Voting]
  BY DEF Own, Typed
<1>3. ASSUME NextCandidate(r)
      PROVE  Called'[r] \in Nat /\ Called'[r] >= SweepCalls[c] + Voting
  <2>1. CASE c < N
    <3>1. pc'[r] = "measure" /\ cand'[r] = c + 1 /\ step'[r] = 1
      BY <1>2, <1>3, <2>1 DEF NextCandidate
    <3>2. c + 1 \in Candidates
      BY <1>2, <2>1, NextPoints
    <3>3. Called'[r] = SweepCalls[c + 1] + 1 - 1
      BY <1>1, <3>1 DEF Called
    <3> QED
      BY <1>2, <3>2, <3>3, SweepCounts
  <2>2. CASE ~(c < N)
    <3>1. pc'[r] \in {"choose", "winner"}
      BY <1>2, <1>3, <2>2 DEF NextCandidate, Go
    <3>2. Called'[r] = AllCalls
      BY <1>1, <3>1 DEF Called
    <3> QED
      BY <1>2, <3>2, SweepCounts
  <2> QED
    BY <2>1, <2>2
<1>4. ASSUME EvaluatorDone(r)
      PROVE  Called'[r] \in Nat /\ Called'[r] >= SweepCalls[c] + Voting - 1
  <2>1. CASE Is4D
    <3>1. pc'[r] = "measure" /\ cand'[r] = c /\ step'[r] = Voting
      BY <1>2, <1>4, <2>1, ScriptSteps DEF EvaluatorDone
    <3>2. Called'[r] = SweepCalls[c] + Voting - 1
      BY <1>1, <3>1 DEF Called
    <3> QED
      BY <1>2, <3>2, SweepCounts
  <2>2. CASE ~Is4D
    BY <1>2, <1>3, <1>4, <2>2, SweepCounts DEF EvaluatorDone
  <2> QED
    BY <2>1, <2>2
<1> QED
  BY <1>3, <1>4

\* A step of the sweep.
LEMMA CountSweep ==
    ASSUME Own, Counted, NEW r \in Ranks, pc[r] = "measure", UNCHANGED jobVars,
           calls' = calls, inside' = inside \ {r},
           \/ StepDone(r) /\ step[r] # Voting
           \/ NextCandidate(r)
           \/ EvaluatorDone(r) /\ step[r] # Voting /\ r \notin inside
           \/ Go(r, "failed") /\ cand' = cand /\ step' = step /\ r \notin inside
    PROVE  Counted'
<1> DEFINE c == cand[r]
           s == step[r]
<1>1. /\ c \in Candidates /\ s \in Nat /\ s >= 1 /\ s <= Voting /\ pc \in [Ranks -> Phases]
      /\ cand \in [Ranks -> Candidates] /\ step \in [Ranks -> 1 .. Voting]
  BY ScriptSteps DEF Own, Typed
<1>2. SweepCalls' = SweepCalls /\ AllCalls' = AllCalls /\ Voting' = Voting
  BY JobFixed DEF SweepCalls, AllCalls
<1>3. /\ SweepCalls[c] \in Nat /\ Voting \in Nat /\ AllCalls \in Nat
      /\ SweepCalls[c] + Voting <= AllCalls /\ Voting = Len(Script) + 1 /\ Len(Script) \in Nat
  BY <1>1, SweepCounts, ScriptSteps
<1>4. Called[r] = SweepCalls[c] + s - 1 /\ Pending[r] \in {0, 1} /\ (r \notin inside => Pending[r] = 0)
  BY DEF Called, Pending
<1>5. \A q \in Ranks \ {r} : pc'[q] = pc[q] /\ cand'[q] = cand[q] /\ step'[q] = step[q]
  BY <1>1 DEF StepDone, Measured, EvaluatorDone, NextCandidate, Go
<1>6. Called'[r] \in Nat /\ Called'[r] >= Called[r] + Pending[r]
  <2>1. CASE NextCandidate(r)
    BY <1>1, <1>3, <1>4, <2>1, CountNext
  <2>2. CASE EvaluatorDone(r) /\ s # Voting /\ r \notin inside
    BY <1>1, <1>3, <1>4, <2>2, CountNext
  <2>3. CASE Go(r, "failed") /\ cand' = cand /\ step' = step /\ r \notin inside
    <3>1. pc'[r] = "failed"
      BY <1>1, <2>3 DEF Go
    <3>2. Called'[r] = AllCalls + 3
      BY <1>2, <3>1 DEF Called
    <3> QED
      BY <1>1, <1>3, <1>4, <2>3, <3>2
  <2>4. CASE StepDone(r) /\ s # Voting /\ s < Len(Script)
    <3>1. pc'[r] = "measure" /\ cand'[r] = c /\ step'[r] = s + 1
      BY <1>1, <2>4 DEF StepDone
    <3>2. Called'[r] = SweepCalls[c] + (s + 1) - 1
      BY <1>2, <3>1 DEF Called
    <3> QED
      BY <1>1, <1>3, <1>4, <3>2
  <2>5. CASE StepDone(r) /\ s # Voting /\ ~(s < Len(Script))
    <3>1. EvaluatorDone(r)
      BY <2>5 DEF StepDone, Measured
    <3>2. s = Voting - 1
      BY <1>1, <1>3, <2>5
    <3> QED
      BY <1>1, <1>3, <1>4, <3>1, <3>2, CountNext
  <2> QED
    BY <2>1, <2>2, <2>3, <2>4, <2>5
<1> QED
  BY <1>5, <1>6, CountStep

\* A step elsewhere takes a rank from a place to one that follows it.
LEMMA CountPlaces ==
    ASSUME Own, Counted, NEW r \in Ranks, NEW x, Go(r, x), UNCHANGED jobVars, cand' = cand, step' = step,
           calls' = calls, inside' = inside \ {r},
           \/ pc[r] = "inventory" /\ x \in {"inspect", "state"}
           \/ pc[r] = "inspect" /\ x = "state" /\ r \notin inside
           \/ pc[r] = "state" /\ x = "measure" /\ cand[r] = 1 /\ step[r] = 1
           \/ pc[r] = "state" /\ x \in {"load", "failed"}
           \/ pc[r] = "choose" /\ x = "winner" /\ r \notin inside
           \/ pc[r] = "winner" /\ x \in {"open", "saved", "failed"}
           \/ pc[r] \in {"open", "write", "rename"} /\ x \in {"write", "rename", "saved"} /\ r \notin inside
           \/ pc[r] = "saved" /\ x = "savedBarrier"
           \/ pc[r] = "savedBarrier" /\ x \in {"load", "failed"}
           \/ pc[r] = "load" /\ x \in {"returned", "failed"} /\ r \notin inside
    PROVE  Counted'
<1>1. pc'[r] = x /\ \A q \in Ranks \ {r} : pc'[q] = pc[q]
  BY DEF Go, Own, Typed
<1>2. SweepCalls' = SweepCalls /\ AllCalls' = AllCalls
  BY JobFixed DEF SweepCalls, AllCalls
<1>3. AllCalls \in Nat /\ AllCalls >= 2 /\ SweepCalls[1] = 2
  <2>1. SweepCalls[1] \in Nat /\ SweepCalls[1] + Voting <= AllCalls /\ Voting \in Nat /\ AllCalls \in Nat
        /\ SweepCalls[1] >= 2
    BY SweepCounts, Numbers
  <2>2. SweepCalls[1] = 2 + (1 - 1) * Voting
    BY Numbers DEF SweepCalls
  <2> QED
    BY <2>1, <2>2
<1>4. Pending[r] \in {0, 1} /\ (r \notin inside => Pending[r] = 0)
  BY DEF Pending
<1>5. Called'[r] \in Nat /\ Called'[r] >= Called[r] + Pending[r]
  <2>1. CASE x = "measure"
    <3>1. Called'[r] = SweepCalls[1] + 1 - 1 /\ Called[r] = 1
      BY <1>1, <1>2, <2>1 DEF Called
    <3> QED
      BY <1>3, <1>4, <3>1
  <2>2. CASE x # "measure"
    BY <1>1, <1>2, <1>3, <1>4, <2>2 DEF Called
  <2> QED
    BY <2>1, <2>2
<1> QED
  BY <1>1, <1>5, CountStep

LEMMA CountRank ==
    ASSUME Own, Counted, NEW r \in Ranks, RankStep(r)
    PROVE  Counted'
<1>1. CASE Enter(r)
  <2>1. /\ r \notin inside /\ inside' = inside \cup {r} /\ calls' = [calls EXCEPT ![r] = Append(@, Point(r))]
        /\ pc' = pc /\ cand' = cand /\ step' = step /\ UNCHANGED jobVars
    BY <1>1 DEF Enter, rankVars
  <2>2. calls \in [Ranks -> Seq(Points)] /\ Point(r) \in Points
    <3>1. Point(r) = Coming[r]
      BY <1>1, PointComing DEF Own, Enter
    <3> QED
      BY <3>1, ComingType DEF Own, Typed
  <2>3. /\ Len(calls'[r]) = Len(calls[r]) + 1 /\ Len(calls[r]) \in Nat
        /\ \A q \in Ranks \ {r} : calls'[q] = calls[q]
    BY <2>1, <2>2
  <2>4. Called' = Called
    <3>1. SweepCalls' = SweepCalls /\ AllCalls' = AllCalls
      BY <2>1, JobFixed DEF SweepCalls, AllCalls
    <3> QED
      BY <2>1, <3>1 DEF Called
  <2>5. /\ Pending[r] = 0 /\ Pending'[r] = 1 /\ \A q \in Ranks \ {r} : Pending'[q] = Pending[q]
    BY <2>1 DEF Pending
  <2>6. Called[r] \in Nat
    BY CalledType DEF Own
  <2> QED
    BY <2>3, <2>4, <2>5, <2>6 DEF Counted
<1>2. CASE Collective(r) \/ Vote(r)
  <2>1. /\ pc[r] = "measure" /\ calls' = calls /\ inside' = inside \ {r} /\ UNCHANGED jobVars
        /\ (StepDone(r) /\ step[r] # Voting) \/ NextCandidate(r)
    BY <1>2 DEF Collective, Vote, Leave
  <2> QED
    BY <2>1, CountSweep
<1>3. CASE LocalStep(r) \/ CandidateFails(r)
  <2>1. /\ pc[r] = "measure" /\ step[r] # Voting /\ Call(r) = "none" /\ calls' = calls /\ inside' = inside
        /\ UNCHANGED jobVars
        /\ \/ StepDone(r)
           \/ EvaluatorDone(r)
           \/ Go(r, "failed") /\ cand' = cand /\ step' = step
    BY <1>3 DEF LocalStep, CandidateFails, callVars
  <2>2. r \notin inside /\ inside' = inside \ {r}
    BY <2>1, LocalIsNoCall DEF Own
  <2> QED
    BY <2>1, <2>2, CountSweep
<1>4. CASE AfterInventory(r) \/ AfterState(r)
  <2>1. calls' = calls /\ inside' = inside \ {r} /\ UNCHANGED jobVars /\ cand' = cand /\ step' = step
    BY <1>4 DEF AfterInventory, AfterState, Leave, rankVars
  <2>2. CASE AfterInventory(r)
    <3>1. PICK x \in {"inspect", "state"} : pc[r] = "inventory" /\ Go(r, x)
      BY <2>2 DEF AfterInventory
    <3> QED
      BY <2>1, <3>1, CountPlaces
  <2>3. CASE AfterState(r)
    <3>1. PICK x \in {"load", "measure", "failed"} : pc[r] = "state" /\ Go(r, x)
      BY <2>3 DEF AfterState, Own, Typed
    <3>2. cand[r] = 1 /\ step[r] = 1
      BY <3>1 DEF Own, Fresh
    <3> QED
      BY <2>1, <3>1, <3>2, CountPlaces
  <2> QED
    BY <1>4, <2>2, <2>3
<1>5. CASE AfterWinner(r) \/ AfterSaved(r) \/ AfterBarrier(r)
  <2>1. calls' = calls /\ inside' = inside \ {r} /\ UNCHANGED jobVars /\ cand' = cand /\ step' = step
    BY <1>5 DEF AfterWinner, AfterSaved, AfterBarrier, Leave, rankVars
  <2>2. PICK x \in {"failed", "open", "saved", "savedBarrier", "load"} :
            /\ Go(r, x)
            /\ \/ pc[r] = "winner" /\ x \in {"open", "saved", "failed"}
               \/ pc[r] = "saved" /\ x = "savedBarrier"
               \/ pc[r] = "savedBarrier" /\ x \in {"load", "failed"}
    <3>1. CASE AfterWinner(r)
      BY <3>1 DEF AfterWinner
    <3>2. CASE AfterSaved(r)
      BY <3>2 DEF AfterSaved
    <3>3. CASE AfterBarrier(r)
      BY <3>3 DEF AfterBarrier
    <3> QED
      BY <1>5, <3>1, <3>2, <3>3
  <2> QED
    BY <2>1, <2>2, CountPlaces
<1>6. CASE Load(r)
  <2>1. /\ calls' = calls /\ inside' = inside /\ UNCHANGED jobVars /\ cand' = cand /\ step' = step
        /\ pc[r] = "load" /\ r \notin inside
    BY <1>6 DEF Load, callVars, Own, InCall, CallPhases
  <2>2. PICK x \in {"returned", "failed"} : Go(r, x)
    BY <1>6 DEF Load
  <2>3. inside' = inside \ {r}
    BY <2>1
  <2> QED
    BY <2>1, <2>2, <2>3, CountPlaces
<1> QED
  BY <1>1, <1>2, <1>3, <1>4, <1>5, <1>6 DEF RankStep

LEMMA CountRoot ==
    ASSUME Own, Counted, RootStep
    PROVE  Counted'
<1>1. PICK x \in {"state", "winner", "write", "rename", "saved"} :
          /\ Go(0, x)
          /\ \/ pc[0] = "inspect" /\ x = "state"
             \/ pc[0] = "choose" /\ x = "winner"
             \/ pc[0] \in {"open", "write", "rename"} /\ x \in {"write", "rename", "saved"}
  <2>1. CASE Inspect \/ Choose
    BY <2>1 DEF Inspect, Choose
  <2>2. CASE Save
    BY <2>2 DEF Save, SaveStep
  <2>3. CASE SaveFails
    BY <2>3 DEF SaveFails
  <2> QED
    BY <2>1, <2>2, <2>3 DEF RootStep
<1>2. calls' = calls /\ inside' = inside /\ UNCHANGED jobVars /\ cand' = cand /\ step' = step
  BY DEF RootStep, Inspect, Choose, Save, SaveStep, SaveFails, rankVars, callVars
<1>3. 0 \notin inside /\ inside' = inside \ {0}
  <2>1. 0 \notin inside
    BY <1>1, Numbers DEF Own, InCall, CallPhases
  <2> QED
    BY <1>2, <2>1
<1> QED
  BY <1>1, <1>2, <1>3, Numbers, CountPlaces

\* No rank has made a call of this job yet, or any more.
LEMMA CountNone ==
    /\ Init => Counted
    /\ Crash \/ NextJob => Counted'
<1>1. ASSUME Init PROVE Counted
  <2>1. \A r \in Ranks : Len(calls[r]) = 0 /\ Called[r] = 0 /\ Pending[r] = 0
    BY <1>1 DEF Init, All, Called, Pending
  <2> QED
    BY <2>1 DEF Counted
<1>2. ASSUME Crash PROVE Counted'
  <2>1. \A r \in Ranks : Len(calls'[r]) = 0 /\ pc'[r] = "dead" /\ Pending'[r] = 0
    BY <1>2 DEF Crash, Pending
  <2>2. AllCalls' = AllCalls /\ AllCalls \in Nat
    BY <1>2, JobFixed, SweepCounts DEF AllCalls, Crash
  <2>3. \A r \in Ranks : Called'[r] = AllCalls + 3
    BY <2>1, <2>2 DEF Called
  <2> QED
    BY <2>1, <2>2, <2>3 DEF Counted
<1>3. ASSUME NextJob PROVE Counted'
  <2>1. \A r \in Ranks : Len(calls'[r]) = 0 /\ Called'[r] = 0 /\ Pending'[r] = 0
    BY <1>3 DEF NextJob, All, Called, Pending
  <2> QED
    BY <2>1 DEF Counted
<1> QED
  BY <1>1, <1>2, <1>3

\* The types, and with them the number of collectives of a job: one per call of
\* the script and one vote for each candidate, and five besides.
THEOREM TypeCorrect == Spec => []TypeOK
<1>1. Init => Counted
  BY CountNone
<1>2. ASSUME Own, Counted, [Next]_vars PROVE Counted'
  <2>1. ASSUME UNCHANGED vars PROVE Counted'
    <3>1. /\ calls' = calls /\ pc' = pc /\ cand' = cand /\ step' = step /\ inside' = inside
          /\ UNCHANGED jobVars
      BY <2>1 DEF vars, callVars, rankVars
    <3>2. SweepCalls' = SweepCalls /\ AllCalls' = AllCalls
      BY <3>1, JobFixed DEF SweepCalls, AllCalls
    <3>3. Called' = Called /\ Pending' = Pending
      BY <3>1, <3>2 DEF Called, Pending
    <3> QED
      BY <1>2, <3>1, <3>3 DEF Counted
  <2>2. Finished => UNCHANGED vars
    BY DEF Finished
  <2> QED
    BY <1>2, <2>1, <2>2, CountRank, CountRoot, CountNone DEF Next
<1>3. Kept => Own
  BY DEF Kept
<1>4. Own /\ Counted => TypeOK
  <2> SUFFICES ASSUME Own, Counted PROVE TypeOK
    OBVIOUS
  <2>1. ASSUME NEW r \in Ranks PROVE Len(calls[r]) <= (Voting + 1) * N + 5
    <3>1. /\ Called[r] \in Nat /\ Called[r] <= AllCalls + 3
          /\ pc[r] \in CallPhases => Called[r] <= AllCalls + 2
      BY CalledType DEF Own
    <3>2. Called[r] + Pending[r] <= AllCalls + 3
      <4>1. r \in inside => pc[r] \in CallPhases
        BY DEF Own, InCall
      <4> QED
        BY <3>1, <4>1, SweepCounts DEF Pending
    <3>3. Pending[r] \in Nat /\ Len(calls[r]) \in Nat
      BY DEF Pending, Own, Typed
    <3>4. Len(calls[r]) <= AllCalls + 3
      BY <3>1, <3>2, <3>3, SweepCounts DEF Counted
    <3>5. N * (Voting + 1) = (Voting + 1) * N /\ (Voting + 1) * N \in Nat
      BY Numbers, SweepCounts
    <3> QED
      BY <3>3, <3>4, <3>5, SweepCounts
  <2>2. pc \in [Ranks -> {"inventory", "inspect", "state", "measure", "choose", "winner",
                          "open", "write", "rename", "saved", "savedBarrier", "load",
                          "returned", "failed", "dead"}]
    BY DEF Own, Typed, Phases
  <2>3. {cache, tmp} \subseteq {NoFile, Partial} \cup PolicyFiles \cup MeasuredFile
    BY DEF Own, Typed, Files
  <2> QED
    BY <2>1, <2>2, <2>3 DEF Own, Typed, TypeOK
<1> QED
  BY <1>1, <1>2, <1>3, <1>4, KeptCorrect, PTL DEF Spec

=============================================================================
