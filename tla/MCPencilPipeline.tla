------------------------- MODULE MCPencilPipeline -------------------------
(***************************************************************************)
(* Small instances of PencilPipeline on the smallest grid that uses the    *)
(* executor.                                                               *)
(***************************************************************************)
EXTENDS PencilPipeline

Plain == [kind |-> "opt0", deferred |-> TRUE, stable |-> FALSE, landing |-> FALSE,
          alias |-> FALSE, paired |-> TRUE, chunks |-> 1, span |-> 1, compact |-> {},
          calls |-> <<"forward">>, eager |-> FALSE, failing |-> {}]

Topology == [Plain EXCEPT !.kind = "topology", !.alias = TRUE]
Opt1     == [Plain EXCEPT !.kind = "opt1", !.landing = TRUE]

\* Configurations in which no scratch space covers the send buffer while a send is
\* deferred.
MCSetups ==
    {[Topology EXCEPT !.compact = {0, 3}],
     [Topology EXCEPT !.calls = <<"backward">>, !.span = 2, !.failing = {0}],
     [Plain EXCEPT !.chunks = 2, !.paired = FALSE, !.deferred = FALSE],
     [Opt1 EXCEPT !.calls = <<"backward", "forward">>, !.deferred = FALSE, !.eager = TRUE,
                  !.stable = TRUE, !.landing = FALSE],
     Opt1}

\* Deferred sends with the opt1 layout and an FFT library that needs scratch space.
MCOverlapping == {[Opt1 EXCEPT !.calls = <<"backward">>]}
=============================================================================
