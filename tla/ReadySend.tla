------------------------------ MODULE ReadySend ------------------------------
(***************************************************************************)
(* One optimized point-to-point transpose of a rank (same_x; same_z has    *)
(* the same protocol).  Each peer's chunk is packed on that peer's GPU     *)
(* stream; a host callback behind the copy reports the peer as ready; the  *)
(* send is posted by a second thread, or by the calling thread itself.     *)
(* The callback and the thread work on objects of the caller's stack       *)
(* frame, so that neither may outlive the call.  The rank's own block, on  *)
(* a stream of its own, is left out.                                       *)
(***************************************************************************)
EXTENDS Integers, Sequences

CONSTANT N      \* expected_sends: the other members of the row communicator

ASSUME PeersAssumption == N \in Nat \ {0}

Peers == 1 .. N

VARIABLES
    call,       \* how this call was configured; fixed from the start
    pc,         \* the calling thread
    next,       \* the peer packed, or sent to directly, next
    thread,     \* send_thread
    joinable,   \* send_thread.joinable()
    held,       \* the peer taken from ready, not posted yet; 0 when none
    left,       \* sends still to be taken by the posting loop
    ready,      \* send_ready.ready_peers, a stack
    cancel,     \* send_ready.cancel
    sendError,  \* send_exception
    stream,     \* what the GPU still has to do on each peer's stream
    posted,     \* how often the send to each peer was posted
    sent,       \* MPI: the peers whose send request is complete
    arrived,    \* MPI: the peers whose receive request is complete
    got,        \* the peers whose receive the calling thread has waited for
    output      \* the peers whose chunk is in the output array

mainVars   == <<pc, next, joinable>>
threadVars == <<thread, held, left, sendError>>
sharedVars == <<ready, cancel>>
mpiVars    == <<posted, sent, arrived>>
dataVars   == <<got, output>>
vars       == <<call, mainVars, threadVars, sharedVars, stream, mpiVars, dataVars>>

Settings == [direct : BOOLEAN,       \* use_direct_send: nothing is packed
             option : BOOLEAN,       \* use_p2p_send_thread_
             multiple : BOOLEAN,     \* provided_threads >= MPI_THREAD_MULTIPLE
             unpack : BOOLEAN,       \* ~use_direct_recv
             any : BOOLEAN]          \* waitany instead of waitall

\* A setting the call does not look at counts as off.
Calls == {c \in Settings : (c.direct => ~c.option) /\ (~c.option => ~c.multiple)}

MainPhases == {"begin", "direct", "pack", "post", "asleep", "send", "waitRecv", "sync",
               "join", "waitSend", "returned",
               "catch", "notifyAll", "cancelSync", "cancelJoin", "failed", "terminated"}
ThreadPhases == {"none", "check", "asleep", "send", "exited"}

\* !use_direct_send && p2p_send_thread_enabled_
Threaded(c) == ~c.direct /\ c.option /\ c.multiple

Init ==
    /\ call \in Calls
    /\ pc = "begin"
    /\ next = 1
    /\ thread = "none"
    /\ joinable = FALSE
    /\ held = 0
    /\ left = N
    /\ ready = <<>>
    /\ cancel = FALSE
    /\ sendError = FALSE
    /\ stream = [p \in Peers |-> <<>>]
    /\ posted = [p \in Peers |-> 0]
    /\ sent = {}
    /\ arrived = {}
    /\ got = {}
    /\ output = {}

-----------------------------------------------------------------------------
(***************************************************************************)
(* The calling thread.                                                     *)
(***************************************************************************)

\* The receives are posted, the send thread is started if there is one.
Begin ==
    /\ pc = "begin"
    /\ pc' = IF call.direct THEN "direct" ELSE "pack"
    /\ thread' = IF Threaded(call) THEN "check" ELSE thread
    /\ joinable' = Threaded(call)
    /\ UNCHANGED <<call, next, held, left, sendError, sharedVars, stream, mpiVars, dataVars>>

\* start_send in the order of the peers, straight from the input.
SendDirect ==
    /\ pc = "direct"
    /\ IF next <= N
       THEN /\ posted' = [posted EXCEPT ![next] = @ + 1]
            /\ next' = next + 1
            /\ UNCHANGED pc
       ELSE /\ pc' = "waitRecv"
            /\ UNCHANGED <<posted, next>>
    /\ UNCHANGED <<call, joinable, threadVars, sharedVars, stream, sent, arrived, dataVars>>

\* Mutants: the callback wakes the poster before it has pushed the peer; it runs
\* ahead of the copy; it is launched once more after the copy.
NotifyFirst == <<"pack", "notify", "push">>
PushFirst   == <<"push", "notify", "pack">>
PushTwice   == <<"pack", "push", "notify", "push", "notify">>

\* pack_..._chunk_async_ and launch_host_func(send_ready_callback_) on one stream.
PackAndReport == <<"pack", "push", "notify">>

Pack ==
    /\ pc = "pack"
    /\ IF next <= N
       THEN /\ stream' = [stream EXCEPT ![next] = @ \o PackAndReport]
            /\ next' = next + 1
            /\ UNCHANGED pc
       ELSE /\ pc' = IF Threaded(call) THEN "waitRecv" ELSE "post"
            /\ UNCHANGED <<stream, next>>
    /\ UNCHANGED <<call, joinable, threadVars, sharedVars, mpiVars, dataVars>>

\* Popping the last ready peer, under the mutex.
Take ==
    /\ ready # <<>>
    /\ held' = ready[Len(ready)]
    /\ ready' = SubSeq(ready, 1, Len(ready) - 1)
    /\ left' = left - 1

\* start_send of the peer in hand.
PostHeld ==
    /\ posted' = [posted EXCEPT ![held] = @ + 1]
    /\ held' = 0

\* wait_ready_and_post_sends_: the calling thread waits on the condition.
PostInline ==
    /\ \/ /\ pc = "post"
          /\ left > 0
          /\ Take
          /\ pc' = "send"
          /\ UNCHANGED posted
       \/ /\ pc = "post"
          /\ left > 0
          /\ ready = <<>>
          /\ pc' = "asleep"
          /\ UNCHANGED <<held, left, ready, posted>>
       \/ /\ pc = "post"
          /\ left = 0
          /\ pc' = "waitRecv"
          /\ UNCHANGED <<held, left, ready, posted>>
       \/ /\ pc = "send"
          /\ PostHeld
          /\ pc' = "post"
          /\ UNCHANGED <<left, ready>>
    /\ UNCHANGED <<call, next, joinable, thread, sendError, cancel, stream, sent, arrived, dataVars>>

\* waitall and every chunk is unpacked, or waitany and the chunk that came is.
WaitRecv ==
    /\ pc = "waitRecv"
    /\ got # Peers
    /\ \E peers \in SUBSET (arrived \ got) :
           /\ IF call.any THEN \E p \in Peers : peers = {p} ELSE peers = Peers
           /\ got' = got \cup peers
           /\ stream' = [p \in Peers |-> IF call.unpack /\ p \in peers
                                         THEN Append(stream[p], "unpack") ELSE stream[p]]
    /\ UNCHANGED <<call, mainVars, threadVars, sharedVars, mpiVars, output>>

EndRecv ==
    /\ pc = "waitRecv"
    /\ got = Peers
    /\ pc' = "sync"
    /\ UNCHANGED <<call, next, joinable, threadVars, sharedVars, stream, mpiVars, dataVars>>

\* Mutant: only one stream is waited for.
OneStreamIdle == stream[1] = <<>>

\* synchronize_streams_ returns.
StreamsIdle == \A p \in Peers : stream[p] = <<>>

Sync ==
    /\ pc = "sync"
    /\ StreamsIdle
    /\ pc' = IF joinable THEN "join" ELSE "waitSend"
    /\ UNCHANGED <<call, next, joinable, threadVars, sharedVars, stream, mpiVars, dataVars>>

\* Mutant: the calling thread goes on while the posting is under way.
MayJoinEarly == thread # "none"

\* std::thread::join returns.
MayJoin == thread = "exited"

\* The exception of the send thread is thrown again here.
AfterJoin == IF sendError THEN "catch" ELSE "waitSend"

Join ==
    /\ pc = "join"
    /\ MayJoin
    /\ joinable' = FALSE
    /\ pc' = AfterJoin
    /\ UNCHANGED <<call, next, threadVars, sharedVars, stream, mpiVars, dataVars>>

\* waitall over the send requests: those never posted are null and complete.
WaitSend ==
    /\ pc = "waitSend"
    /\ \A p \in Peers : posted[p] > 0 => p \in sent
    /\ pc' = "returned"
    /\ UNCHANGED <<call, next, joinable, threadVars, sharedVars, stream, mpiVars, dataVars>>

\* A call to the GPU runtime or to MPI fails in the calling thread; where that is
\* the clean-up itself, the exception meets a thread nobody joined: std::terminate.
Throw ==
    /\ pc \in {"direct", "pack", "send", "waitRecv", "sync", "waitSend", "cancelSync"}
    /\ pc' = IF pc = "cancelSync" THEN "terminated" ELSE "catch"
    /\ UNCHANGED <<call, next, joinable, threadVars, sharedVars, stream, mpiVars, dataVars>>

\* Mutant: the streams are not waited for.
AfterNotifyJoin == "cancelJoin"

AfterNotify == "cancelSync"

\* cancel_ready_send_thread_, then the exception leaves the call.
CancelThread ==
    /\ \/ /\ pc = "catch"
          /\ cancel' = joinable
          /\ pc' = IF joinable THEN "notifyAll" ELSE "failed"
          /\ UNCHANGED <<thread, joinable>>
       \/ /\ pc = "notifyAll"
          /\ thread' = IF thread = "asleep" THEN "check" ELSE thread
          /\ pc' = AfterNotify
          /\ UNCHANGED <<cancel, joinable>>
       \/ /\ pc = "cancelSync"
          /\ StreamsIdle
          /\ pc' = "cancelJoin"
          /\ UNCHANGED <<thread, cancel, joinable>>
       \/ /\ pc = "cancelJoin"
          /\ MayJoin
          /\ joinable' = FALSE
          /\ pc' = "failed"
          /\ UNCHANGED <<thread, cancel>>
    /\ UNCHANGED <<call, next, held, left, sendError, ready, stream, mpiVars, dataVars>>

MainStep ==
    \/ Begin
    \/ SendDirect
    \/ Pack
    \/ PostInline
    \/ WaitRecv
    \/ EndRecv
    \/ Sync
    \/ Join
    \/ WaitSend
    \/ CancelThread

-----------------------------------------------------------------------------
(***************************************************************************)
(* The send thread.                                                        *)
(***************************************************************************)

ThreadStep ==
    /\ \/ /\ thread = "check"
          /\ left > 0
          /\ Take
          /\ thread' = "send"
          /\ UNCHANGED posted
       \/ /\ thread = "check"
          /\ left > 0
          /\ ready = <<>>
          /\ thread' = IF cancel THEN "exited" ELSE "asleep"
          /\ UNCHANGED <<held, left, ready, posted>>
       \/ /\ thread = "check"
          /\ left = 0
          /\ thread' = "exited"
          /\ UNCHANGED <<held, left, ready, posted>>
       \/ /\ thread = "send"
          /\ PostHeld
          /\ thread' = "check"
          /\ UNCHANGED <<left, ready>>
    /\ UNCHANGED <<call, mainVars, sendError, cancel, stream, sent, arrived, dataVars>>

\* start_send throws in the send thread.
ThreadFails ==
    /\ thread = "send"
    /\ thread' = "exited"
    /\ held' = 0
    /\ sendError' = TRUE
    /\ UNCHANGED <<call, mainVars, left, sharedVars, stream, mpiVars, dataVars>>

\* A wait on a condition variable may return without a notification.
WakeUp ==
    /\ \/ thread = "asleep" /\ thread' = "check" /\ UNCHANGED pc
       \/ pc = "asleep" /\ pc' = "post" /\ UNCHANGED thread
    /\ UNCHANGED <<call, next, joinable, held, left, sendError, sharedVars, stream, mpiVars, dataVars>>

-----------------------------------------------------------------------------
(***************************************************************************)
(* The GPU and MPI (external), send_ready_callback_.                       *)
(***************************************************************************)

\* The head of p's stream: a copy, or one half of the callback.
GpuStep(p) ==
    /\ stream[p] # <<>>
    /\ stream' = [stream EXCEPT ![p] = Tail(@)]
    /\ ready' = IF Head(stream[p]) = "push" THEN Append(ready, p) ELSE ready
    /\ thread' = IF Head(stream[p]) = "notify" /\ thread = "asleep" THEN "check" ELSE thread
    /\ pc' = IF Head(stream[p]) = "notify" /\ pc = "asleep" THEN "post" ELSE pc
    /\ output' = IF Head(stream[p]) = "unpack" THEN output \cup {p} ELSE output
    /\ UNCHANGED <<call, next, joinable, held, left, sendError, cancel, mpiVars, got>>

Arrive(p) ==
    /\ pc # "begin"
    /\ p \notin arrived
    /\ arrived' = arrived \cup {p}
    /\ output' = IF call.unpack THEN output ELSE output \cup {p}
    /\ UNCHANGED <<call, mainVars, threadVars, sharedVars, stream, posted, sent, got>>

CompleteSend(p) ==
    /\ posted[p] > 0
    /\ p \notin sent
    /\ sent' = sent \cup {p}
    /\ UNCHANGED <<call, mainVars, threadVars, sharedVars, stream, posted, arrived, dataVars>>

-----------------------------------------------------------------------------

EnvironmentStep == \E p \in Peers : GpuStep(p) \/ Arrive(p) \/ CompleteSend(p)

Ended == pc \in {"returned", "failed", "terminated"}

Finished == Ended /\ UNCHANGED vars

Next ==
    \/ MainStep
    \/ Throw
    \/ ThreadStep
    \/ ThreadFails
    \/ WakeUp
    \/ EnvironmentStep
    \/ Finished

Spec == Init /\ [][Next]_vars

\* Both threads are scheduled, the GPU and MPI finish what they were given (it is
\* finite, so that one fairness condition covers all of it); no failure and no
\* spurious wake-up has to happen.
Fairness ==
    /\ WF_vars(MainStep)
    /\ WF_vars(ThreadStep)
    /\ WF_vars(EnvironmentStep)

FairSpec == Spec /\ Fairness

-----------------------------------------------------------------------------

\* The variables range over what the code can hold; the stack of ready peers
\* never outgrows the row (it is reserved once).
TypeOK ==
    /\ call \in Calls
    /\ pc \in MainPhases
    /\ next \in 1 .. N + 1
    /\ thread \in ThreadPhases
    /\ joinable \in BOOLEAN
    /\ held \in 0 .. N
    /\ left \in 0 .. N
    /\ ready \in Seq(Peers) /\ Len(ready) <= N
    /\ cancel \in BOOLEAN
    /\ sendError \in BOOLEAN
    /\ stream \in [Peers -> Seq({"pack", "push", "notify", "unpack"})]
    /\ posted \in [Peers -> 0 .. N]
    /\ sent \subseteq Peers
    /\ arrived \subseteq Peers
    /\ got \subseteq arrived
    /\ output \subseteq Peers

\* Each send is posted once, and a packed one only when its copy is done.
SentOncePacked ==
    \A p \in Peers :
        /\ posted[p] <= 1
        /\ posted[p] = 1 \/ held = p =>
               /\ p < next
               /\ \A i \in 1 .. Len(stream[p]) : stream[p][i] # "pack"

\* A call that returns was not failed by its send thread, every send was posted
\* and is complete, every chunk is in the output: the caller may reuse both arrays.
CompleteOnReturn ==
    pc = "returned" =>
        /\ ~sendError
        /\ \A p \in Peers : posted[p] = 1 /\ p \in sent
        /\ output = Peers

\* No thread and no callback outlives the call whose stack frame they use.  A
\* call without a send thread that fails is the exception: nothing waits for
\* the callbacks of the peers it had packed.
QuietAtEnd ==
    pc = "returned" \/ (pc = "failed" /\ Threaded(call)) =>
        /\ thread \in {"none", "exited"}
        /\ StreamsIdle

\* Every call ends, be it with the process: no wake-up of the poster is lost.
CallEnds == <>Ended
=============================================================================
