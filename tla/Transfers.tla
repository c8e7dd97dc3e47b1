----------------------------- MODULE Transfers -----------------------------
(***************************************************************************)
(* One rank of a line communicator that runs the generic transposes: its   *)
(* main thread takes the steps of a script, its streams execute what was   *)
(* enqueued, a posting thread may send what is ready, and MPI moves the    *)
(* messages.  The other ranks are the environment: they run the same       *)
(* functions, so what they send and expect is read off their scripts, and  *)
(* they may be arbitrarily early or late.                                  *)
(***************************************************************************)
EXTENDS TransferSteps, Integers, FiniteSets

CONSTANTS
    Jobs,       \* the configurations: the function, its options, the sizes
    Script(_, _)    \* Script(c, r): the script rank r runs in configuration c

(***************************************************************************)
(* A job is a record with at least P, the number of ranks, me, the rank    *)
(* that is modelled, calls, how many times the function is called, each    *)
(* time on other arrays, chunks, the requests a byte transfer to one peer  *)
(* takes, and alias: the receive buffer is the send buffer.                *)
(***************************************************************************)
ASSUME TransfersAssumption ==
    \A c \in Jobs : /\ c.P \in Nat \ {0} /\ c.me \in RanksOf(c)
                    /\ c.calls \in {1, 2} /\ c.chunks \in {1, 2} /\ c.alias \in BOOLEAN

VARIABLES
    job,        \* fixed: the configuration
    plan,       \* fixed: its script, what the others send to this rank and expect from it
    call,       \* the call of the function, from 1
    pc,         \* the next step of the main thread
    streams,    \* what each stream has not executed yet
    ready,      \* ready_peers: blocks whose callback ran
    toPost,     \* peers whose send waits for its block
    recvs,      \* posted and incomplete receives from each rank, oldest first
    sends,      \* posted and incomplete sends to each rank, oldest first
    got,        \* messages taken from each rank in this call
    given,      \* messages handed to each rank in this call
    spoiled,    \* ranks that were sent wrong data
    handled,    \* peers the waitany loop has seen
    kept,       \* persistent_send_requests, persistent_recv_requests
    mem         \* mem[buffer][rank][chunk]: a form and the call it is of

vars == <<job, plan, call, pc, streams, ready, toPost, recvs, sends, got, given, spoiled,
          handled, kept, mem>>

-----------------------------------------------------------------------------
Me == job.me            \* the rank
Main == plan.main
Ended == pc > Len(Main)
Step == Main[pc]
At(name) == ~Ended /\ Step.op = name
Ranks == RanksOf(job)
Others == Ranks \ {Me}
Chunks == 1 .. job.chunks

Buffers == {"in1", "in2", "out1", "out2", "send", "recv", "hsend", "hrecv"}

\* Each call gets arrays of its own.
Array(buf) ==
    CASE buf = "in" -> IF call = 1 THEN "in1" ELSE "in2"
      [] buf = "out" -> IF call = 1 THEN "out1" ELSE "out2"
      [] buf = "recv" /\ job.alias -> "send"
      [] OTHER -> buf

Junk == <<"junk", 0>>

\* What a copy makes of a cell.
Result(step, cell) ==
    IF step.make = "same" THEN cell
    ELSE IF cell[1] = step.want THEN <<step.make, cell[2]>> ELSE Junk

\* The requests a posted message is made of; part 0 is the whole block.
Requests(step) ==
    LET one(k) == [buf |-> Array(step.buf), p |-> step.p, part |-> k, tag |-> step.tag,
                   count |-> step.count, form |-> step.form]
    IN  IF step.how = "byte" /\ job.chunks > 1 THEN [k \in Chunks |-> one(k)] ELSE <<one(0)>>

PartCells(part) == IF part = 0 THEN Chunks ELSE {part}

KeptAnyBuffer(old, new) ==   \* mutant
    IF old = <<>> THEN <<new>> ELSE IF old[1].count # new.count THEN <<new>> ELSE old
\* needs_init: a persistent request is made anew when anything about it differs.
Kept(old, new) ==
    IF old = <<>> THEN <<new>>
    ELSE IF old[1].buf # new.buf \/ old[1].count # new.count \/ old[1].tag # new.tag
            \/ old[1].form # new.form
         THEN <<new>> ELSE old

\* The messages script s passes between its rank and rank q, in order.
Posts(c, s, name, q) ==
    LET of(step) == CASE step.op = name /\ step.p = q -> <<step>>
                      [] step.op = "post" /\ name = "isend" /\ q \in DOMAIN step.sends -> <<step.sends[q]>>
                      [] OTHER -> <<>>
        parts(step) == IF step.how = "byte" /\ c.chunks > 1 THEN [k \in 1 .. c.chunks |-> k] ELSE <<0>>
        messages(step) == [i \in DOMAIN parts(step) |->
                              [tag |-> step.tag, count |-> step.count, part |-> parts(step)[i]]]
    IN  FlattenSeq([i \in DOMAIN s |-> FlattenSeq([j \in DOMAIN of(s[i]) |-> messages(of(s[i])[j])])])

Fits(request, message) ==
    /\ request.tag = message.tag
    /\ request.count = message.count
    /\ request.part = message.part

-----------------------------------------------------------------------------
Init ==
    /\ job \in Jobs
    /\ plan = [main |-> Script(job, Me),
               offered |-> [p \in Ranks |-> Posts(job, Script(job, p), "isend", Me)],
               expected |-> [p \in Ranks |-> Posts(job, Script(job, p), "irecv", Me)]]
    /\ call = 1
    /\ pc = 1
    /\ streams = [r \in Ranks |-> <<>>]
    /\ ready = {}
    /\ toPost = {}
    /\ recvs = [r \in Ranks |-> <<>>]
    /\ sends = [r \in Ranks |-> <<>>]
    /\ got = [r \in Ranks |-> 0]
    /\ given = [r \in Ranks |-> 0]
    /\ spoiled = {}
    /\ handled = {}
    /\ kept = [dir \in {"irecv", "isend"} |-> [r \in Ranks |-> <<>>]]
    /\ mem = [b \in Buffers |-> [r \in Ranks |-> [k \in Chunks |->
                 CASE b = "in1" -> <<"source", 1>>
                   [] b = "in2" -> <<"source", 2>>
                   [] OTHER -> Junk]]]

Advance == pc' = pc + 1

Enqueue ==
    /\ At("copy") \/ At("ready")
    /\ LET work == IF Step.op = "ready" THEN Step
                   ELSE [Step EXCEPT !.from = Array(@), !.to = Array(@)]
       IN  streams' = [streams EXCEPT ![Step.s] = Append(@, work)]
    /\ Advance
    /\ UNCHANGED <<job, plan, call, ready, toPost, recvs, sends, got, given, spoiled, handled, kept, mem>>

HostCopies ==
    /\ At("host")
    /\ mem' = [mem EXCEPT ![Array(Step.to)] = mem[Array(Step.from)]]
    /\ Advance
    /\ UNCHANGED <<job, plan, call, streams, ready, toPost, recvs, sends, got, given, spoiled, handled, kept>>

\* What a synchronous copy or kernel leaves in memory.
Applied(m, step) ==
    [m EXCEPT ![Array(step.to)][step.p] =
        [k \in Chunks |-> Result(step, m[Array(step.from)][step.p][k])]]

RunNow ==
    /\ At("now")
    /\ mem' = Applied(mem, Step)
    /\ Advance
    /\ UNCHANGED <<job, plan, call, streams, ready, toPost, recvs, sends, got, given, spoiled, handled, kept>>

Synchronize ==
    /\ At("sync")
    /\ \A s \in Step.ss : streams[s] = <<>>
    /\ Advance
    /\ UNCHANGED <<job, plan, call, streams, ready, toPost, recvs, sends, got, given, spoiled, handled, kept, mem>>

\* The requests started for a step, through the persistent ones where it uses them.
Started(step) ==
    IF step.how = "kept" THEN Kept(kept[step.op][step.p], Requests(step)[1]) ELSE Requests(step)

Remember(step) ==
    kept' = IF step.how = "kept" THEN [kept EXCEPT ![step.op][step.p] = Started(step)] ELSE kept

PostReceive ==
    /\ At("irecv")
    /\ recvs' = [recvs EXCEPT ![Step.p] = @ \o Started(Step)]
    /\ Remember(Step)
    /\ Advance
    /\ UNCHANGED <<job, plan, call, streams, ready, toPost, sends, got, given, spoiled, handled, mem>>

PostSend ==
    /\ At("isend")
    /\ sends' = [sends EXCEPT ![Step.p] = @ \o Started(Step)]
    /\ Remember(Step)
    /\ Advance
    /\ UNCHANGED <<job, plan, call, streams, ready, toPost, recvs, got, given, spoiled, handled, mem>>

\* From here on the sends of all peers are posted as their blocks get ready.
BeginPosting ==
    /\ At("post")
    /\ toPost' = Others
    /\ Advance
    /\ UNCHANGED <<job, plan, call, streams, ready, recvs, sends, got, given, spoiled, handled, kept, mem>>

\* The step that began the posting in progress.
Posting == CHOOSE i \in DOMAIN Main : Main[i].op = "post"

\* The posting thread, or the main thread in the same loop.
PostWhenReady(p) ==
    /\ p \in toPost
    /\ p \in ready
    /\ LET step == Main[Posting].sends[p]
       IN  /\ sends' = [sends EXCEPT ![p] = @ \o Started(step)]
           /\ Remember(step)
    /\ toPost' = toPost \ {p}
    /\ ready' = ready \ {p}
    /\ UNCHANGED <<job, plan, call, pc, streams, recvs, got, given, spoiled, handled, mem>>

JoinPosting ==
    /\ At("join")
    /\ toPost = {}
    /\ Advance
    /\ UNCHANGED <<job, plan, call, streams, ready, toPost, recvs, sends, got, given, spoiled, handled, kept, mem>>

WaitForRecvs ==
    /\ At("waitrecvs")
    /\ \A r \in Ranks : recvs[r] = <<>>
    /\ Advance
    /\ UNCHANGED <<job, plan, call, streams, ready, toPost, recvs, sends, got, given, spoiled, handled, kept, mem>>

WaitForSends ==
    /\ At("waitsends")
    /\ \A r \in Ranks : sends[r] = <<>>
    /\ Advance
    /\ UNCHANGED <<job, plan, call, streams, ready, toPost, recvs, sends, got, given, spoiled, handled, kept, mem>>

\* All requests of p are complete: remaining_by_peer[p] is zero.
Arrived(p) == recvs[p] = <<>>

Asynchronous(body) == SelectSeq(body, LAMBDA step : step.op = "copy")
Synchronous(body) == SelectSeq(body, LAMBDA step : step.op = "now")

\* The waitany or testany loop finds the requests of p complete and deals with its block.
TakeArrived(p) ==
    /\ At("any") \/ At("drain")
    /\ p \in Others \ handled
    /\ Arrived(p)
    /\ handled' = handled \cup {p}
    /\ LET work == Asynchronous(Step.body[p])
       IN  streams' = [streams EXCEPT ![p] = @ \o
                          [i \in DOMAIN work |->
                              [work[i] EXCEPT !.from = Array(@), !.to = Array(@)]]]
    /\ mem' = FoldLeft(Applied, mem, Synchronous(Step.body[p]))
    /\ UNCHANGED <<job, plan, call, pc, ready, toPost, recvs, sends, got, given, spoiled, kept>>

\* A waitany loop ends when all peers were seen, a testany loop when it finds none.
LeaveLoop ==
    /\ \/ At("any") /\ handled = Others
       \/ At("drain")
    /\ Advance
    /\ UNCHANGED <<job, plan, call, streams, ready, toPost, recvs, sends, got, given, spoiled, handled, kept, mem>>

\* The program calls the function again, with other arrays.
NextCall ==
    /\ Ended
    /\ call < job.calls
    /\ call' = call + 1
    /\ pc' = 1
    /\ handled' = {}
    /\ got' = [r \in Ranks |-> 0]
    /\ given' = [r \in Ranks |-> 0]
    /\ UNCHANGED <<job, plan, streams, ready, toPost, recvs, sends, spoiled, kept, mem>>

-----------------------------------------------------------------------------
(* The streams and MPI (external).                                         *)

Execute(s) ==
    /\ streams[s] # <<>>
    /\ streams' = [streams EXCEPT ![s] = Tail(@)]
    /\ LET step == Head(streams[s])
       IN  IF step.op = "ready"
           THEN /\ ready' = ready \cup {step.p}
                /\ UNCHANGED mem
           ELSE /\ mem' = [mem EXCEPT ![step.to][step.p] =
                              [k \in Chunks |-> Result(step, mem[step.from][step.p][k])]]
                /\ UNCHANGED ready
    /\ UNCHANGED <<job, plan, call, pc, toPost, recvs, sends, got, given, spoiled, handled, kept>>

\* The next message of rank p meets the oldest receive posted for it.
Deliver(p) ==
    /\ recvs[p] # <<>>
    /\ got[p] < Len(plan.offered[p])
    /\ LET request == Head(recvs[p])
           message == plan.offered[p][got[p] + 1]
       IN  /\ request.tag = message.tag
           /\ mem' = [mem EXCEPT ![request.buf][p] =
                  [k \in Chunks |->
                      IF k \notin PartCells(request.part) THEN @[k]
                      ELSE IF Fits(request, message) THEN <<request.form, call>> ELSE Junk]]
    /\ recvs' = [recvs EXCEPT ![p] = Tail(@)]
    /\ got' = [got EXCEPT ![p] = @ + 1]
    /\ UNCHANGED <<job, plan, call, pc, streams, ready, toPost, sends, given, spoiled, handled, kept>>

\* Rank p takes the oldest message sent to it.
HandOver(p) ==
    /\ sends[p] # <<>>
    /\ LET request == Head(sends[p])
       IN  spoiled' = IF \A k \in PartCells(request.part) : mem[request.buf][p][k] = <<request.form, call>>
                      THEN spoiled ELSE spoiled \cup {p}
    /\ sends' = [sends EXCEPT ![p] = Tail(@)]
    /\ given' = [given EXCEPT ![p] = @ + 1]
    /\ UNCHANGED <<job, plan, call, pc, streams, ready, toPost, recvs, got, handled, kept, mem>>

-----------------------------------------------------------------------------
MainNext ==
    \/ Enqueue \/ HostCopies \/ RunNow \/ Synchronize
    \/ PostReceive \/ PostSend \/ BeginPosting \/ JoinPosting
    \/ WaitForRecvs \/ WaitForSends \/ LeaveLoop
    \/ \E p \in Others : TakeArrived(p)
    \/ NextCall

Next ==
    \/ MainNext
    \/ \E p \in Others : PostWhenReady(p)
    \/ \E s \in Ranks : Execute(s)
    \/ \E p \in Ranks : Deliver(p) \/ HandOver(p)

(***************************************************************************)
(* Threads and streams keep running, and MPI completes what both ends have *)
(* posted.                                                                 *)
(***************************************************************************)
Fairness ==
    /\ WF_vars(MainNext)
    /\ WF_vars(\E p \in Others : PostWhenReady(p))
    /\ WF_vars(\E s \in Ranks : Execute(s))
    /\ WF_vars(\E p \in Ranks : Deliver(p))
    /\ WF_vars(\E p \in Ranks : HandOver(p))

Spec == Init /\ [][Next]_vars /\ Fairness

-----------------------------------------------------------------------------
(* Properties.                                                             *)

\* Memory in use, by whom (work that is ordered has one user), as cells read and written.
Cells(buf, p, ks) == {<<buf, p, k>> : k \in ks}
StreamUses ==
    {[user |-> <<"stream", s>>,
      reads |-> Cells(streams[s][i].from, streams[s][i].p, Chunks),
      writes |-> Cells(streams[s][i].to, streams[s][i].p, Chunks)] :
         <<s, i>> \in {<<s, i>> \in Ranks \X (1 .. 4) : i \in DOMAIN streams[s] /\ streams[s][i].op = "copy"}}
RecvUses ==
    {[user |-> <<"recv", p, recvs[p][i].part>>, reads |-> {},
      writes |-> Cells(recvs[p][i].buf, p, PartCells(recvs[p][i].part))] :
         <<p, i>> \in {<<p, i>> \in Ranks \X Chunks : i \in DOMAIN recvs[p]}}
SendUses ==
    {[user |-> <<"send", p, sends[p][i].part>>, writes |-> {},
      reads |-> Cells(sends[p][i].buf, p, PartCells(sends[p][i].part))] :
         <<p, i>> \in {<<p, i>> \in Ranks \X Chunks : i \in DOMAIN sends[p]}}
\* The synchronous work the main thread may be at.
MainWork ==
    IF At("now") THEN {Step}
    ELSE IF At("any") \/ At("drain")
    THEN UNION {{Step.body[p][i] : i \in {i \in DOMAIN Step.body[p] : Step.body[p][i].op = "now"}} :
                   p \in {p \in Others \ handled : Arrived(p)}}
    ELSE {}
MainUses ==
    {[user |-> <<"main">>, reads |-> Cells(Array(step.from), step.p, Chunks),
      writes |-> Cells(Array(step.to), step.p, Chunks)] : step \in MainWork}
    \cup
    IF At("host")
    THEN {[user |-> <<"main">>,
           reads |-> UNION {Cells(Array(Step.from), p, Chunks) : p \in Ranks},
           writes |-> UNION {Cells(Array(Step.to), p, Chunks) : p \in Ranks}]}
    ELSE {}

(***************************************************************************)
(* No two unordered users of memory, streams, requests in flight and the   *)
(* synchronous copy of the main thread, touch the same cell when one of    *)
(* them writes it.                                                         *)
(***************************************************************************)
NoRace ==
    LET uses == StreamUses \cup RecvUses \cup SendUses \cup MainUses
    IN  \A a, b \in uses : a.user # b.user => a.writes \cap (b.reads \cup b.writes) = {}

(***************************************************************************)
(* The two ends of every message agree: what this rank has posted fits, in *)
(* order, tag, count and number of requests, what the peer's script posts. *)
(***************************************************************************)
EndsAgree ==
    \A p \in Ranks :
        /\ \A i \in DOMAIN recvs[p] : /\ got[p] + i \in DOMAIN plan.offered[p]
                                      /\ Fits(recvs[p][i], plan.offered[p][got[p] + i])
        /\ \A i \in DOMAIN sends[p] : /\ given[p] + i \in DOMAIN plan.expected[p]
                                      /\ Fits(sends[p][i], plan.expected[p][given[p] + i])

(***************************************************************************)
(* When the function returns, the caller's output array is complete, no    *)
(* peer was ever sent anything but its block of this call, and nothing is  *)
(* left behind that could still touch either array: no work on a stream,   *)
(* no request in flight, no block waiting to be posted.                    *)
(***************************************************************************)
ResultRight ==
    /\ spoiled = {}
    /\ Ended => /\ \A p \in Ranks, k \in Chunks : mem[Array("out")][p][k] = <<"final", call>>
                /\ toPost = {} /\ ready = {}
                /\ \A r \in Ranks : streams[r] = <<>> /\ recvs[r] = <<>> /\ sends[r] = <<>>

(***************************************************************************)
(* A rank never blocks on MPI before it has posted all its receives.  That *)
(* is why waiting for each other cannot close a cycle, and why it is sound *)
(* to assume here that the peers take and send messages in the end.        *)
(***************************************************************************)
ReceivesFirst ==
    At("waitrecvs") \/ At("waitsends") \/ At("any") \/ At("join") =>
        \A i \in DOMAIN Main : Main[i].op = "irecv" => i < pc

\* Every call returns.
Returns == <>[](Ended /\ call = job.calls)
=============================================================================
