--------------------------- MODULE TransferSteps ---------------------------
(***************************************************************************)
(* The vocabulary of the generic transposes.  A function of the code that  *)
(* moves the blocks of one call between the ranks of a line communicator   *)
(* is written as a script: the sequence of the steps its thread takes,     *)
(* given the configuration c and the rank me it runs on.  Transfers runs   *)
(* the scripts.                                                            *)
(*                                                                         *)
(* A buffer has one block per rank of the communicator.  Contents are      *)
(* abstracted to a form: "source" is the piece as it lies in the caller's  *)
(* input array, "packed" the piece as a contiguous run in the order both   *)
(* ends agree on, "final" the piece as it must lie in the output array.    *)
(***************************************************************************)
EXTENDS Naturals, Sequences, SequencesExt

RanksOf(c) == 0 .. c.P - 1
All(c) == [i \in 1 .. c.P |-> i - 1]
Peers(c, me) == SelectSeq(All(c), LAMBDA p : p # me)
Each(ps, Steps(_)) == FlattenSeq([i \in DOMAIN ps |-> Steps(ps[i])])

When(condition, steps) == IF condition THEN steps ELSE <<>>

\* The switch of a transpose: one function for each way to exchange.
ByMode(c, waitall, waitany, alltoallv, alltoallw) ==
    CASE c.mode = "p2p_waitall" -> waitall
      [] c.mode = "p2p_waitany" -> waitany
      [] c.mode = "alltoallv" -> alltoallv
      [] c.mode = "alltoallw" -> alltoallw

-----------------------------------------------------------------------------
(* Device work: asynchronous on stream s, in the order of enqueueing.      *)

\* Block p of "from", which must have the form "want", to block p of "to".
CopyOn(s, p, from, to, want, make) ==
    <<[op |-> "copy", s |-> s, p |-> p, from |-> from, to |-> to, want |-> want, make |-> make]>>
Copy(p, from, to, want, make) == CopyOn(p, p, from, to, want, make)
Move(p, from, to) == Copy(p, from, to, "any", "same")

\* A kernel or copy the thread waits for.
Now(p, from, to, want, make) ==
    <<[op |-> "now", p |-> p, from |-> from, to |-> to, want |-> want, make |-> make]>>
MoveNow(p, from, to) == Now(p, from, to, "any", "same")

\* launch_host_func: peer p is ready for its send.
Ready(p) == <<[op |-> "ready", s |-> p, p |-> p]>>

\* A synchronous memcpy of a whole buffer, not ordered with the streams.
HostCopy(from, to) == <<[op |-> "host", from |-> from, to |-> to]>>

Sync(ss) == <<[op |-> "sync", ss |-> ss]>>
SyncAllButFirst(c) == Sync(RanksOf(c) \ {0})   \* mutant
SyncAll(c) == Sync(RanksOf(c))

-----------------------------------------------------------------------------
(* Messages.  "how" is "plain", "byte" (split into requests of at most     *)
(* INT_MAX bytes) or "kept" (a persistent request that is started again).  *)

Irecv(how, p, buf, tag, count, form) ==
    <<[op |-> "irecv", how |-> how, p |-> p, buf |-> buf, tag |-> tag, count |-> count, form |-> form]>>
Isend(how, p, buf, tag, count, form) ==
    <<[op |-> "isend", how |-> how, p |-> p, buf |-> buf, tag |-> tag, count |-> count, form |-> form]>>

WaitRecvs == <<[op |-> "waitrecvs"]>>
WaitSends == <<[op |-> "waitsends"]>>

ForPeers(c, me, F(_)) == [p \in RanksOf(c) \ {me} |-> F(p)]

\* The waitany loop: body[p] runs once all requests of p are complete.
WaitAny(body) == <<[op |-> "any", body |-> body]>>

\* A loop of testany: body[p] for those peers whose requests are found complete.
Drain(body) == <<[op |-> "drain", body |-> body]>>

\* start[p], a send, once p's block is ready, on a thread of its own or here.
PostReady(thread, start) ==
    <<[op |-> "post", thread |-> thread, sends |-> [p \in DOMAIN start |-> start[p][1]]]>>
Join == <<[op |-> "join"]>>

\* A blocking MPI_Alltoallv or MPI_Alltoallw, the rank's own block included.
Alltoall(c, from, sendcounts, need, to, recvcounts, make) ==
    Each(All(c), LAMBDA p : Irecv("plain", p, to, c.P, recvcounts[p], make))
    \o Each(All(c), LAMBDA p : Isend("plain", p, from, c.P, sendcounts[p], need))
    \o WaitRecvs \o WaitSends

-----------------------------------------------------------------------------
(* fft_partitioning: the first n % parts ranks have one element more.      *)

Share(n, parts, r) == n \div parts + (IF r < n % parts THEN 1 ELSE 0)
=============================================================================
