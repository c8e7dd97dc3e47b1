-------------------------- MODULE MCAutotuneMeasure --------------------------
(***************************************************************************)
(* Instances of AutotuneMeasure for TLC, of two candidates.                *)
(***************************************************************************)
EXTENDS AutotuneMeasure

Everywhere == {}
FirstOfRankOne == {<<1, 1>>}

\* Every way a candidate can fail, the first one or the second; the second is the
\* faster one, or its median cannot be compared.
Outcomes == {<<"ok", "ok">>, <<"unsupported", "ok">>, <<"ok", "inaccurate">>,
             <<"retains", "inaccurate">>}
Times == {<<2, 1>>, <<1, 0>>}

NoFailure == {<<"ok", "ok">>}
SameTime == {<<1, 1>>}

\* A sweep, unless the file answers; "A" has three axes, "B" four.
Sweep(problem, accept, continue) ==
    [problem |-> problem, accept |-> accept, continue |-> continue,
     create |-> TRUE, replace |-> TRUE, overwrite |-> TRUE]

\* A job that keeps what it finds.
Careful ==
    [problem |-> "B", accept |-> Candidates, continue |-> TRUE,
     create |-> FALSE, replace |-> FALSE, overwrite |-> FALSE]

OneSweep == {Sweep("A", Candidates, TRUE)}
MixedJobs ==
    {Sweep("A", Candidates, TRUE), Sweep("B", Candidates, TRUE), Sweep("B", Candidates, FALSE),
     Sweep("A", {2}, TRUE), Careful}
=============================================================================
