--------------------------- MODULE AutotuneMeasure ---------------------------
(***************************************************************************)
(* The measured autotuner (fftm_autotune_measure.hpp and its 4D twin): all *)
(* ranks agree through rank 0 whether the cache file can be used, measure  *)
(* every candidate plan together, let rank 0 choose and save the winner,   *)
(* and then read the file back, each on its own.                           *)
(*                                                                         *)
(* The ranks share one communicator and MPI pairs their collective calls   *)
(* in the order each rank makes them: what keeps the ranks in step is the  *)
(* control flow alone.  calls[r] is the sequence of points at which rank r *)
(* has called a collective.  A plan's transform, which needs every peer,   *)
(* counts as a collective.  Jobs follow one another on the same cache file *)
(* and may crash at any step.                                              *)
(***************************************************************************)
EXTENDS Integers, Sequences, FiniteSets

CONSTANTS
    P,          \* the number of ranks
    N,          \* the number of candidates, in the order they are measured
    FourD,      \* the problems of four axes: load_or_measure_4d_config, else the 3D one
    Warmup, Iterations,
    Verify,     \* verify_candidate_memory_recovery, free memory being known
    Fates,      \* what a sweep may find: the outcome of each candidate
    Millis,     \* and its median wall time; 0 stands for one that is not positive and finite
    Alone,      \* the <<rank, candidate>> that fail on that rank only
    DiskFails,  \* TRUE: saving the file may fail
    Requests,   \* what a job may ask for
    Jobs        \* bound: the number of jobs that use the cache file

Ranks == 0 .. P - 1
Candidates == 1 .. N
None == 0

AllFates == {"ok", "unsupported", "inaccurate", "retains"}
RequestType == [problem : {"A", "B"},       \* all that a measured file has to match: see SameProblem
                accept : SUBSET Candidates, \* constraints_3d, constraints_4d
                continue : BOOLEAN,         \* continue_on_candidate_error
                create : BOOLEAN,           \* create_if_missing
                replace : BOOLEAN,          \* replace_policy_cache
                overwrite : BOOLEAN]        \* mismatch_policy

ASSUME MeasureAssumption ==
    /\ P \in Nat \ {0} /\ N \in Nat \ {0} /\ Jobs \in Nat \ {0}
    /\ Warmup \in Nat /\ Iterations \in Nat \ {0}
    /\ FourD \subseteq {"A", "B"}
    /\ {Verify, DiskFails} \subseteq BOOLEAN
    /\ Fates \subseteq [Candidates -> AllFates] /\ Fates # {}
    /\ Millis \subseteq [Candidates -> Nat] /\ Millis # {}
    /\ Alone \subseteq Ranks \X Candidates
    /\ Requests \subseteq RequestType /\ Requests # {}

VARIABLES
    pc,        \* where each rank is in load_or_measure
    cand,      \* the candidate each rank measures
    step,      \* its position in the candidate's script
    calls,     \* the points at which each rank called a collective
    inside,    \* the ranks that have not returned from their last call
    passed,    \* the candidates whose evaluator returned, per rank
    valid,     \* candidates[i].measurement.valid, per rank
    selected,  \* what each rank returns
    state, winner, saveError,  \* the values rank 0 broadcasts
    fate, ms,  \* what the job's measurements will find
    request, job,
    cache, tmp \* the cache file and the file it is renamed from

fileVars == <<cache, tmp>>
jobVars  == <<fate, ms, request, job>>
rootVars == <<state, winner, saveError>>
rankVars == <<cand, step, passed, valid, selected>>
callVars == <<calls, inside>>
vars     == <<pc, rankVars, callVars, rootVars, jobVars, fileVars>>

NoFile  == [kind |-> "absent"]
Partial == [kind |-> "partial"]
PolicyFiles == [kind : {"policy"}, problem : {"A", "B"},
                fits : BOOLEAN]   \* its spectral layout is the one that problem asks for
MeasuredFile == [kind : {"measured"}, problem : {"A", "B"},
                 valid : SUBSET Candidates, ms : Millis]
-----------------------------------------------------------------------------
(* The script of a candidate: collectives and the local steps that may     *)
(* throw ("plan", "arrays", "check", "verify").                            *)

Is4D == request.problem \in FourD

Boundary == <<"barrier", "barrier">>

Repeat(n, s) == [i \in 1 .. n * Len(s) |-> s[((i - 1) % Len(s)) + 1]]

Recovery ==
    CASE ~Verify -> <<>>
      [] Verify /\ Is4D -> <<"max", "verify">>
      [] OTHER -> <<"max", "max", "max", "verify">>

\* evaluate_strategy_body_
Body ==
    <<"plan", "split", "arrays">>
    \o Repeat(Warmup, <<"barrier", "transform">>)
    \o Repeat(Iterations, <<"barrier", "transform", "max">>)
    \o <<"max", "check">>
    \o Boundary

\* evaluate_strategy_, and in 4D the vote that follows the evaluator.
Script == Boundary \o Body \o Boundary \o Recovery

Voting == Len(Script) + 1

\* Mutant: the round-trip check reads the rank's own error.
ThrowsOwnError(r, c, what) ==
    \/ what = "plan" /\ fate[c] = "unsupported"
    \/ what = "arrays" /\ <<r, c>> \in Alone
    \/ what = "check" /\ fate[c] = "inaccurate" /\ r # 0
    \/ what = "verify" /\ fate[c] = "retains"

\* Whether the local step of the script throws on this rank.
Throws(r, c, what) ==
    \/ what = "plan" /\ fate[c] = "unsupported"
    \/ what = "arrays" /\ <<r, c>> \in Alone
    \/ what = "check" /\ fate[c] = "inaccurate"
    \/ what = "verify" /\ fate[c] = "retains"
-----------------------------------------------------------------------------
(* Selection and the file.                                                 *)

\* The first of the fastest, the order in which the code scans.
Fastest(set, time) ==
    CHOOSE c \in set : \A d \in set :
                            time[c] < time[d] \/ (time[c] = time[d] /\ c <= d)

WinnerOf(set) == IF set = {} THEN None ELSE Fastest(set, ms)

\* Mutant: the constraints are not applied.
SelectionAnyCandidate(file) ==
    IF file.kind # "measured" \/ file.valid = {} THEN None
    ELSE Fastest(file.valid, file.ms)

\* select_measured_candidate_config on a file that matches; None: it throws.
Selection(file) ==
    IF file.kind # "measured" \/ file.valid \cap request.accept = {}
    THEN None
    ELSE Fastest(file.valid \cap request.accept, file.ms)

\* A policy file that select_measured_candidate_config takes as it is.
PolicyServes ==
    /\ cache.kind = "policy" /\ request.accept = Candidates
    /\ Is4D => cache.fits

\* validate_match and validate_hardware_match; for a measured file of four axes also
\* the device-aware MPI request and the set of accepted spectral layouts.
SameProblem == cache.problem = request.problem

\* Mutant: replace_policy_cache replaces measured caches.
InspectionReplacesAll ==
    CASE cache = NoFile -> IF request.create THEN 1 ELSE 2
      [] cache = Partial -> IF request.overwrite THEN 1 ELSE 3
      [] cache \notin {NoFile, Partial} ->
           IF ~SameProblem
           THEN IF request.overwrite THEN 1 ELSE 3
           ELSE IF request.replace THEN 1 ELSE 0

\* 0: use the cache, 1: measure, 2: missing, 3: mismatched.
Inspection ==
    CASE cache = NoFile -> IF request.create THEN 1 ELSE 2
      [] cache = Partial -> IF request.overwrite THEN 1 ELSE 3
      [] cache \notin {NoFile, Partial} ->
           IF ~SameProblem
           THEN IF request.overwrite THEN 1 ELSE 3
           ELSE IF request.replace /\ cache.kind = "policy" THEN 1 ELSE 0
-----------------------------------------------------------------------------
All(value) == [r \in Ranks |-> value]

Init ==
    /\ pc = All("inventory")
    /\ cand = All(1) /\ step = All(1)
    /\ calls = All(<<>>) /\ inside = {}
    /\ passed = All({}) /\ valid = All({}) /\ selected = All(None)
    /\ state = 0 /\ winner = None /\ saveError = FALSE
    /\ request \in Requests /\ job = 1
    /\ fate \in Fates /\ ms \in Millis
    /\ cache \in {NoFile} \cup {file \in PolicyFiles : file.problem \in FourD \/ file.fits}
    /\ tmp = NoFile

Go(r, where) == pc' = [pc EXCEPT ![r] = where]

\* The collective rank r is about to call, "none" at a local step.
Call(r) ==
    CASE pc[r] = "inventory" -> "gather"
      [] pc[r] \in {"state", "winner", "saved"} -> "bcast"
      [] pc[r] = "savedBarrier" -> "barrier"
      [] pc[r] = "measure" /\ step[r] = Voting -> IF Is4D THEN "min" ELSE "none"
      [] pc[r] = "measure" /\ step[r] < Voting ->
           IF Script[step[r]] \in {"plan", "arrays", "check", "verify"}
           THEN "none" ELSE Script[step[r]]
      [] OTHER -> "none"

Point(r) ==
    IF pc[r] = "measure" THEN [what |-> Call(r), cand |-> cand[r], step |-> step[r]]
    ELSE [what |-> Call(r), cand |-> None, step |-> pc[r]]

Enter(r) ==
    /\ r \notin inside
    /\ Call(r) # "none"
    /\ calls' = [calls EXCEPT ![r] = Append(@, Point(r))]
    /\ inside' = inside \cup {r}
    /\ UNCHANGED <<pc, rankVars, rootVars, jobVars, fileVars>>

\* MPI: call n of rank r ends when the ranks it depends on made their call n,
\* if that is a call of the same kind.
Ends(r) ==
    LET n == Len(calls[r])
        others == CASE Call(r) # "bcast" -> Ranks
                    [] Call(r) = "bcast" -> IF r = 0 THEN {} ELSE {0}
    IN  \A q \in others : Len(calls[q]) >= n /\ calls[q][n].what = Call(r)

\* The caller's step after the call has ended.
Leave(r) == r \in inside /\ Ends(r) /\ inside' = inside \ {r} /\ UNCHANGED calls
-----------------------------------------------------------------------------
AfterInventory(r) ==
    /\ pc[r] = "inventory" /\ Leave(r)
    /\ Go(r, IF r = 0 THEN "inspect" ELSE "state")
    /\ UNCHANGED <<rankVars, rootVars, jobVars, fileVars>>

Inspect ==
    /\ pc[0] = "inspect"
    /\ state' = Inspection
    /\ Go(0, "state")
    /\ UNCHANGED <<rankVars, callVars, winner, saveError, jobVars, fileVars>>

AfterState(r) ==
    /\ pc[r] = "state" /\ Leave(r)
    /\ Go(r, CASE state = 0 -> "load" [] state = 1 -> "measure" [] OTHER -> "failed")
    /\ UNCHANGED <<rankVars, rootVars, jobVars, fileVars>>

\* Mutant: one candidate too many.
NextCandidatePast(r) ==
    IF cand[r] <= N
    THEN /\ cand' = [cand EXCEPT ![r] = @ + 1]
         /\ step' = [step EXCEPT ![r] = 1]
         /\ UNCHANGED pc
    ELSE /\ Go(r, IF r = 0 THEN "choose" ELSE "winner")
         /\ UNCHANGED <<cand, step>>

\* Move on to the next candidate, or to the choice of the winner.
NextCandidate(r) ==
    IF cand[r] < N
    THEN /\ cand' = [cand EXCEPT ![r] = @ + 1]
         /\ step' = [step EXCEPT ![r] = 1]
         /\ UNCHANGED pc
    ELSE /\ Go(r, IF r = 0 THEN "choose" ELSE "winner")
         /\ UNCHANGED <<cand, step>>

\* After the evaluator: 4D votes on the validity, 3D keeps its own verdict.
EvaluatorDone(r) ==
    IF Is4D THEN step' = [step EXCEPT ![r] = Voting] /\ UNCHANGED <<pc, cand>>
    ELSE NextCandidate(r)

\* The median can be compared: std::isfinite and greater than zero.
Timed(c) == ms[c] > 0

Measured(r, c) ==
    /\ passed' = [passed EXCEPT ![r] = @ \cup {c}]
    /\ valid' = IF Timed(c) THEN [valid EXCEPT ![r] = @ \cup {c}] ELSE valid
    /\ EvaluatorDone(r)

\* One step of the script has been done.
StepDone(r) ==
    IF step[r] < Len(Script)
    THEN step' = [step EXCEPT ![r] = @ + 1] /\ UNCHANGED <<pc, cand, passed, valid>>
    ELSE Measured(r, cand[r])

Collective(r) ==
    /\ pc[r] = "measure" /\ step[r] # Voting /\ Leave(r)
    /\ StepDone(r)
    /\ UNCHANGED <<selected, rootVars, jobVars, fileVars>>

LocalStep(r) ==
    /\ pc[r] = "measure" /\ step[r] # Voting /\ Call(r) = "none"
    /\ ~Throws(r, cand[r], Script[step[r]])
    /\ StepDone(r)
    /\ UNCHANGED <<selected, callVars, rootVars, jobVars, fileVars>>

CandidateFails(r) ==
    /\ pc[r] = "measure" /\ step[r] # Voting /\ Call(r) = "none"
    /\ Throws(r, cand[r], Script[step[r]])
    /\ IF request.continue THEN EvaluatorDone(r)
       ELSE Go(r, "failed") /\ UNCHANGED <<cand, step>>
    /\ UNCHANGED <<passed, valid, selected, callVars, rootVars, jobVars, fileVars>>

\* The vote comm.all_reduce_min( valid ) of the 4D function.
VoteValid(r) == \A q \in Ranks : cand[r] \in passed[q]

Vote(r) ==
    /\ pc[r] = "measure" /\ step[r] = Voting /\ Leave(r)
    /\ valid' = IF VoteValid(r) THEN valid ELSE [valid EXCEPT ![r] = @ \ {cand[r]}]
    /\ NextCandidate(r)
    /\ UNCHANGED <<passed, selected, rootVars, jobVars, fileVars>>

Choose ==
    /\ pc[0] = "choose"
    /\ winner' = WinnerOf(valid[0])
    /\ Go(0, "winner")
    /\ UNCHANGED <<rankVars, callVars, state, saveError, jobVars, fileVars>>

AfterWinner(r) ==
    /\ pc[r] = "winner" /\ Leave(r)
    /\ Go(r, IF winner = None THEN "failed" ELSE IF r = 0 THEN "open" ELSE "saved")
    /\ UNCHANGED <<rankVars, rootVars, jobVars, fileVars>>

\* save_key_value_file: the next state of <<cache, tmp>> at each of its steps.
Content == [kind |-> "measured", problem |-> request.problem,
            valid |-> valid[0], ms |-> ms]
\* Mutant: the cache file is written in place.
OpenedInPlace == <<Partial, tmp>>

Opened  == <<cache, Partial>>
Written == <<cache, Content>>
Renamed == <<tmp, NoFile>>

SaveStep(from, to, files) ==
    /\ pc[0] = from
    /\ Go(0, to)
    /\ cache' = files[1] /\ tmp' = files[2]
    /\ UNCHANGED <<rankVars, callVars, rootVars, jobVars>>

Save ==
    \/ SaveStep("open", "write", Opened)
    \/ SaveStep("write", "rename", Written)
    \/ SaveStep("rename", "saved", Renamed)

SaveFails ==
    /\ DiskFails
    /\ pc[0] \in {"open", "rename"}
    /\ tmp' = IF pc[0] = "rename" THEN NoFile ELSE tmp
    /\ saveError' = TRUE
    /\ Go(0, "saved")
    /\ UNCHANGED <<rankVars, callVars, state, winner, jobVars, cache>>

AfterSaved(r) ==
    /\ pc[r] = "saved" /\ Leave(r)
    /\ Go(r, "savedBarrier")
    /\ UNCHANGED <<rankVars, rootVars, jobVars, fileVars>>

\* Mutant: only rank 0 looks at the broadcast error.
AfterBarrierRootOnly(r) ==
    /\ pc[r] = "savedBarrier" /\ Leave(r)
    /\ Go(r, IF saveError /\ r = 0 THEN "failed" ELSE "load")
    /\ UNCHANGED <<rankVars, rootVars, jobVars, fileVars>>

AfterBarrier(r) ==
    /\ pc[r] = "savedBarrier" /\ Leave(r)
    /\ Go(r, IF saveError THEN "failed" ELSE "load")
    /\ UNCHANGED <<rankVars, rootVars, jobVars, fileVars>>

\* Every rank reads the file on its own, from the cache or after the sweep.
Load(r) ==
    /\ pc[r] = "load"
    /\ LET c == Selection(cache)
       IN  /\ selected' = [selected EXCEPT ![r] = c]
           /\ Go(r, IF c # None \/ PolicyServes THEN "returned" ELSE "failed")
    /\ UNCHANGED <<cand, step, passed, valid, callVars, rootVars, jobVars, fileVars>>

RankStep(r) ==
    \/ Enter(r)
    \/ AfterInventory(r)
    \/ AfterState(r)
    \/ Collective(r)
    \/ LocalStep(r)
    \/ CandidateFails(r)
    \/ Vote(r)
    \/ AfterWinner(r)
    \/ AfterSaved(r)
    \/ AfterBarrier(r)
    \/ Load(r)

RootStep == Inspect \/ Choose \/ Save \/ SaveFails
-----------------------------------------------------------------------------
Ended == \A r \in Ranks : pc[r] \in {"returned", "failed", "dead"}

\* The job is killed: nothing of the ranks survives, the files do.
Crash ==
    /\ ~Ended
    /\ pc' = [r \in Ranks |-> "dead"]
    /\ calls' = [r \in Ranks |-> <<>>]
    /\ inside' = {}
    /\ UNCHANGED <<rankVars, rootVars, jobVars, fileVars>>

NextJob ==
    /\ Ended
    /\ job < Jobs
    /\ job' = job + 1
    /\ pc' = All("inventory")
    /\ cand' = All(1) /\ step' = All(1)
    /\ calls' = All(<<>>) /\ inside' = {}
    /\ passed' = All({}) /\ valid' = All({}) /\ selected' = All(None)
    /\ state' = 0 /\ winner' = None /\ saveError' = FALSE
    /\ request' \in Requests
    /\ fate' \in Fates /\ ms' \in Millis
    /\ UNCHANGED fileVars

AllDone == Ended /\ job = Jobs

Finished == AllDone /\ UNCHANGED vars

Next ==
    \/ \E r \in Ranks : RankStep(r)
    \/ RootStep
    \/ Crash
    \/ NextJob
    \/ Finished

Spec == Init /\ [][Next]_vars

\* MPI progress and a running process: a rank that can move does; a job that
\* ended is followed by the next.  Nobody has to kill a job.
Fairness ==
    /\ \A r \in Ranks : WF_vars(RankStep(r))
    /\ WF_vars(RootStep)
    /\ WF_vars(NextJob)

FairSpec == Spec /\ Fairness
-----------------------------------------------------------------------------
(* What the tuner promises.                                               *)

\* Every variable keeps its type.
TypeOK ==
    /\ pc \in [Ranks -> {"inventory", "inspect", "state", "measure", "choose", "winner",
                         "open", "write", "rename", "saved", "savedBarrier", "load",
                         "returned", "failed", "dead"}]
    /\ cand \in [Ranks -> Candidates]
    /\ step \in [Ranks -> 1 .. Voting]
    /\ \A r \in Ranks : Len(calls[r]) <= (Voting + 1) * N + 5
    /\ inside \subseteq Ranks
    /\ passed \in [Ranks -> SUBSET Candidates]
    /\ valid \in [Ranks -> SUBSET Candidates]
    /\ selected \in [Ranks -> Candidates \cup {None}]
    /\ state \in 0 .. 3 /\ winner \in Candidates \cup {None} /\ saveError \in BOOLEAN
    /\ fate \in Fates /\ ms \in Millis
    /\ request \in Requests /\ job \in 1 .. Jobs
    /\ {cache, tmp} \subseteq {NoFile, Partial} \cup PolicyFiles \cup MeasuredFile

\* The n-th collective a rank calls is the n-th every other rank calls, at the
\* same point of the same candidate: a barrier of one candidate never meets a
\* barrier of the next, and no timing is reduced with another candidate's.
\* (The order of calls through the catch blocks of the sweep, :511-553.)
InStep ==
    \A r, q \in Ranks :
        LET n == IF Len(calls[r]) < Len(calls[q]) THEN Len(calls[r]) ELSE Len(calls[q])
        IN  SubSeq(calls[r], 1, n) = SubSeq(calls[q], 1, n)

\* Every rank that returns has the same selection; after a sweep it is the
\* fastest of the candidates that ran to the end, were timed and satisfy the constraints.
\* (The winner passes through the file: stored by rank 0, selected again by
\* every rank under its constraints.)
FastestSelected ==
    \A r, q \in Ranks :
        pc[r] = "returned" /\ pc[q] = "returned" =>
            /\ selected[r] = selected[q]
            /\ state = 1 =>
                 /\ fate[selected[r]] = "ok" /\ Timed(selected[r])
                 /\ selected[r] \in request.accept
                 /\ \A c \in request.accept :
                        fate[c] = "ok" /\ Timed(c) => ms[selected[r]] <= ms[c]

\* A job never ends with a plan on some ranks and an exception on others.
AllOrNone ==
    Ended => \A r, q \in Ranks : pc[r] = "returned" => pc[q] = "returned"

\* Whatever the moment of a crash, the cache file is never a partial one, and
\* a measured cache holds no candidate that failed. (tmp_path and rename.)
CacheWhole ==
    /\ cache # Partial
    /\ cache.kind = "measured" =>
           /\ cache.valid # {}
           /\ pc[0] = "saved" /\ ~saveError => \A c \in cache.valid : fate[c] = "ok"

\* A sweep is paid for once: a measured cache is replaced only by a job that it
\* does not match in sizes, ranks, hardware or (four axes) the MPI request and the
\* accepted layouts, whatever jobs came between and however they died.
SweptOnce ==
    [][cache.kind = "measured" /\ cache' # cache => request.problem # cache.problem]_vars

\* Every job ends on every rank.
EveryRankEnds == <>AllDone
=============================================================================
