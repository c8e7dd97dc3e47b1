---------------------------- MODULE MCTransposes ----------------------------
(***************************************************************************)
(* The generic transposes in both views: a call with its blocks taken      *)
(* whole (Transfers), or the same transposes cell by cell (Layouts).  A    *)
(* behaviour is of one view from its first state on, and the variables of  *)
(* the other view keep a value that stands for no call.                    *)
(***************************************************************************)
EXTENDS MCTransfers

CONSTANTS Empty, Clash

VARIABLES
    block,      \* the job of Layouts
    packed, send, recv, out, carried, unpacked   \* its variables

cellVars == <<block, packed, send, recv, out, carried, unpacked>>

NoCall == [P |-> 0, me |-> 0, calls |-> 1, chunks |-> 1, alias |-> FALSE]
NoBlock == [self |-> {}, land |-> <<>>, result |-> <<>>]

Blocks == INSTANCE MCLayouts

\* The invariants look at both views: without a call a rank has no memory.
Packing(c, r) == Blocks!Packing(c, r)
Landing(c, r) == IF c = NoCall THEN NoBlock ELSE Blocks!Landing(c, r)

Layout == INSTANCE Layouts WITH
    Jobs <- Blocks!MCJobs, SenderOf <- Packing, ReceiverOf <- Landing, job <- block

NoSchedule ==
    /\ job = NoCall
    /\ plan = [main |-> <<>>, offered |-> <<>>, expected |-> <<>>]
    /\ call = 1 /\ pc = 1
    /\ streams = <<>> /\ recvs = <<>> /\ sends = <<>> /\ got = <<>> /\ given = <<>>
    /\ ready = {} /\ toPost = {} /\ spoiled = {} /\ handled = {}
    /\ kept = <<>>
    /\ mem = <<>>

NoCells ==
    /\ block = NoCall
    /\ packed = <<>> /\ send = <<>> /\ recv = <<>> /\ out = <<>>
    /\ carried = {} /\ unpacked = {}

TransposeSpec ==
    /\ (Init /\ NoCells) \/ (NoSchedule /\ Layout!Init)
    /\ [][\/ Next /\ UNCHANGED cellVars
          \/ Layout!Next /\ UNCHANGED vars]_<<vars, cellVars>>
    /\ Fairness

\* Blocks are disjoint: no two work items of a kernel, copies or messages write one
\* address of a buffer or of the result, whatever tails the extents leave.
NoOverlap == Layout!NoOverlap

\* A message carries the cells packed for it, every slot written, and the receive
\* takes as many elements: the counts of both ends and the kernels agree.
MessageWhole == Layout!MessageWhole

\* When all blocks are unpacked the local result is the transposed array, whatever
\* kernel, layout and order of messages there was.
Transposed == Layout!Transposed
=============================================================================
