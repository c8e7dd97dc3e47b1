-------------------------- MODULE PackedTransfers --------------------------
(***************************************************************************)
(* The shape the plain functions of same_z, same_xy, same_zw and same_xw   *)
(* share: all blocks are packed, and only then exchanged, through the host *)
(* where MPI is not device-aware.  What tells the functions apart is a     *)
(* record d:                                                               *)
(*   sent, received  the elements of each rank's block                     *)
(*   tags            "source" when a message has its sender's rank as tag, *)
(*                   "dest" when it has the receiver's                     *)
(*   async           whether kernels and copies go to the streams          *)
(*   order           the form of a message                                 *)
(***************************************************************************)
EXTENDS TransferSteps

RecvTag(d, me, p) == IF d.tags = "source" THEN p ELSE me
SendTag(d, me, p) == IF d.tags = "source" THEN me ELSE p

Do(d, p, from, to, want, make) ==
    IF d.async THEN Copy(p, from, to, want, make) ELSE Now(p, from, to, want, make)
DoMove(d, p, from, to) == Do(d, p, from, to, "any", "same")
Finish(c, d) == When(d.async, SyncAll(c))

PackAll(c, d) == Each(All(c), LAMBDA p : Do(d, p, "in", "send", "source", d.order)) \o Finish(c, d)
UnpackOf(d, p) == Do(d, p, "recv", "out", d.order, "final")
ToDevice(d, p) == DoMove(d, p, "hrecv", "recv")

SendBuf(c) == IF c.aware THEN "send" ELSE "hsend"
RecvBuf(c) == IF c.aware THEN "recv" ELSE "hrecv"

\* The messages with one peer.
Messages(c, me, d, p) ==
    Irecv("plain", p, RecvBuf(c), RecvTag(d, me, p), d.received[p], d.order)
    \o Isend("plain", p, SendBuf(c), SendTag(d, me, p), d.sent[p], d.order)
MessagesInTurn(c, me, d, p) == Messages(c, me, d, p) \o WaitRecvs   \* mutant
PeerMessages(c, me, d, p) == Messages(c, me, d, p)

\* The messages of both p2p functions, and the block that stays.
Exchange(c, me, d) ==
    When(~c.aware, HostCopy("send", "hsend"))
    \o Each(Peers(c, me), LAMBDA p : PeerMessages(c, me, d, p))
    \o DoMove(d, me, "send", "recv")

Close(c, d) == Finish(c, d) \o WaitSends

Waitall(c, me, d) ==
    PackAll(c, d)
    \o Exchange(c, me, d)
    \o WaitRecvs
    \o When(~c.aware, Each(Peers(c, me), LAMBDA p : ToDevice(d, p)))
    \o Each(All(c), LAMBDA p : UnpackOf(d, p))
    \o Close(c, d)

Waitany(c, me, d) ==
    PackAll(c, d)
    \o Exchange(c, me, d)
    \o UnpackOf(d, me)
    \o WaitAny(ForPeers(c, me, LAMBDA p : When(~c.aware, ToDevice(d, p)) \o UnpackOf(d, p)))
    \o Close(c, d)

Collective(c, d) ==
    LET exchange(from, to) ==
            Alltoall(c, from, d.sent, d.order, to, d.received, d.order)
    IN  PackAll(c, d)
        \o (IF c.aware THEN exchange("send", "recv")
            ELSE HostCopy("send", "hsend") \o exchange("hsend", "hrecv") \o HostCopy("hrecv", "recv"))
        \o Each(All(c), LAMBDA p : UnpackOf(d, p)) \o Finish(c, d)

\* Receives first; then each block is packed and sent, and what has arrived unpacked.
PeerPaired(c, me, d) ==
    LET unpack(p) == UnpackOf(d, p)
    IN  Each(Peers(c, me), LAMBDA p :
            Irecv("plain", p, "recv", RecvTag(d, me, p), d.received[p], d.order))
        \o Each(All(c), LAMBDA p :
               Do(d, p, "in", "send", "source", d.order)
               \o (IF p = me THEN DoMove(d, me, "send", "recv") \o unpack(me)
                   ELSE Isend("plain", p, "send", SendTag(d, me, p), d.sent[p], d.order))
               \o Drain(ForPeers(c, me, unpack)))
        \o WaitAny(ForPeers(c, me, unpack)) \o WaitSends
=============================================================================
