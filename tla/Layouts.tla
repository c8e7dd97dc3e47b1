------------------------------ MODULE Layouts ------------------------------
(***************************************************************************)
(* One transpose of a line communicator, element by element: every rank    *)
(* packs the blocks of its array, the rank c.me receives them, in whatever *)
(* order they come, and unpacks them into its result.  The order of posts, *)
(* streams and completions is that of Transfers; here every cell counts.   *)
(*                                                                         *)
(* Jobs are the transposes to check; SenderOf(c, r) and ReceiverOf(c, r)   *)
(* are the two ends of c on rank r, as IndexMaps describes them.           *)
(***************************************************************************)
EXTENDS IndexMaps

CONSTANTS Jobs, SenderOf(_, _), ReceiverOf(_, _), Empty, Clash

VARIABLES job, packed, send, recv, out, carried, unpacked
vars == <<job, packed, send, recv, out, carried, unpacked>>

Ranks == RanksOf(job)
Out == ReceiverOf(job, job.me)
Blank(addresses) == [a \in addresses |-> Empty]
Slots(runs) == Blank(0 .. MapThenSumSet(LAMBDA p : Cardinality(DOMAIN runs[p]), DOMAIN runs) - 1)

Fetch(memory, a) == IF a \in DOMAIN memory THEN memory[a] ELSE Clash

\* An address holds what the one write to it brought.  A second write, a write
\* outside the memory, or a read outside it leaves Clash.
Store(memory, from, writes) ==
    LET written == {w[1] : w \in writes}
        Held(a) == LET ws == {w \in writes : w[1] = a} IN
                   IF Fetch(memory, a) = Empty /\ Cardinality(ws) = 1
                   THEN Fetch(from, (CHOOSE w \in ws : TRUE)[2]) ELSE Clash
    IN  [a \in DOMAIN memory \cup written |-> IF a \in written THEN Held(a) ELSE memory[a]]

-----------------------------------------------------------------------------
Init ==
    /\ job \in Jobs
    /\ packed = [r \in RanksOf(job) |-> 0]
    /\ send = [r \in RanksOf(job) |-> Slots(SenderOf(job, r).take)]
    /\ recv = Slots(ReceiverOf(job, job.me).land)
    /\ out = Blank(DOMAIN ReceiverOf(job, job.me).result)
    /\ carried = {} /\ unpacked = {}

AllPacked == \A r \in Ranks : packed[r] = job.P

\* Rank r packs for its next peer.  The ranks share nothing yet: one order of
\* theirs stands for all.
Pack(r) ==
    /\ packed[r] < job.P
    /\ \A q \in Ranks : q < r => packed[q] = job.P
    /\ LET s == SenderOf(job, r) IN
       send' = [send EXCEPT ![r] = Store(@, s.in, s.pack[packed[r]])]
    /\ packed' = [packed EXCEPT ![r] = @ + 1]
    /\ UNCHANGED <<job, recv, out, carried, unpacked>>

Message(src) ==
    LET s == SenderOf(job, src)
        from == IF s.from = "in" THEN s.in ELSE send[src]
    IN  [k \in DOMAIN s.take[job.me] |-> Fetch(from, s.take[job.me][k])]

\* The message of src arrives: its elements go where the receive has them land.
Carry(src) ==
    /\ AllPacked /\ src \notin carried
    /\ src = job.me => Out.self = {}
    /\ LET land == Out.land[src]
           writes == {<<land[k], k, k>> : k \in DOMAIN land}
       IN  IF Out.into = "out"
           THEN out' = Store(out, Message(src), writes) /\ UNCHANGED recv
           ELSE recv' = Store(recv, Message(src), writes) /\ UNCHANGED out
    /\ carried' = carried \cup {src}
    /\ UNCHANGED <<job, packed, send, unpacked>>

Unpack(src) ==
    /\ src \in carried /\ src \notin unpacked
    /\ out' = Store(out, recv, Out.unpack[src])
    /\ unpacked' = unpacked \cup {src}
    /\ UNCHANGED <<job, packed, send, recv, carried>>

\* The rank's own block, from its array to its result.
CopySelf ==
    /\ AllPacked /\ Out.self # {} /\ job.me \notin unpacked
    /\ out' = Store(out, SenderOf(job, job.me).in, Out.self)
    /\ unpacked' = unpacked \cup {job.me}
    /\ UNCHANGED <<job, packed, send, recv, carried>>

Next == (\E r \in Ranks : Pack(r) \/ Carry(r) \/ Unpack(r)) \/ CopySelf

Spec == Init /\ [][Next]_vars

-----------------------------------------------------------------------------
\* No two work items, blocks or messages write one address of a buffer or of the
\* result, none writes or reads beyond the memory it is given: the blocks that
\* init_layouts_ lays out are disjoint, and so are the cells of a kernel's items.
NoOverlap ==
    /\ \A r \in Ranks : \A a \in DOMAIN send[r] : send[r][a] # Clash
    /\ \A a \in DOMAIN recv : recv[a] # Clash
    /\ \A a \in DOMAIN out : out[a] # Clash

\* A message carries what was packed for it and nothing else: every slot of the
\* block that is sent has been written, and the receive takes as many elements.
MessageWhole ==
    AllPacked =>
        \A src \in Ranks :
            (src = job.me => Out.self = {}) =>
                /\ DOMAIN Out.land[src] = DOMAIN Message(src)
                /\ \A k \in DOMAIN Message(src) : Message(src)[k] # Empty

\* The transposition: in the end each cell of the local result holds the cell of
\* the global grid that belongs there, whatever kernels and layout were chosen.
Transposed == unpacked = Ranks => out = Out.result
=============================================================================
