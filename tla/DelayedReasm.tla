---------------------------- MODULE DelayedReasm ----------------------------
(***************************************************************************)
(* Delaying a TLS ClientHello that spans several TCP segments: the client  *)
(* payload path of dpi_desync_tcp_packet_play (nfq2/desync.c) for one      *)
(* tracked connection.  Segments are held back while the reassembler       *)
(* fills, replayed together when the record is complete, and sent on       *)
(* unprocessed when the reassembly fails or is given up.                   *)
(*                                                                         *)
(* Segments arrive in any order, with any overlap, any number of times.    *)
(* The client's stream carries one hello record, at HelloStart; the other  *)
(* end, lookup of the track and Lua processing of a packet are elsewhere.  *)
(***************************************************************************)
EXTENDS Reassemble, Sequences

CONSTANTS
    Segment,          \* [off, len] of the segments a client sends (bound)
    HelloStart,       \* stream offset of the hello record
    HelloLen,         \* TLSRecordLen of it, header included
    MinHello,         \* bytes needed to recognise a partial hello
    MaxReasm,         \* TCP_MAX_REASM
    ServerWindow,     \* windows the server may last have told, 0: none seen
    MaxPackets        \* payload packets of a run (bound)

ASSUME DelayedReasmAssumption ==
    /\ Segment \subseteq [off : Nat, len : Nat \ {0}]
    /\ HelloStart \in Nat /\ HelloLen \in Nat /\ MinHello \in Nat
    /\ 0 < MinHello /\ MinHello < HelloLen
    /\ MaxReasm \in Nat
    /\ ServerWindow \subseteq Nat
    /\ MaxPackets \in Nat

\* No client sends as far ahead of a hello under way as would bring the
\* sequence numbers round to it again.
ASSUME NoAliasing ==
    /\ MaxNeg < SeqMod /\ HelloStart + HelloLen < SeqMod
    /\ \A s \in Segment : s.off < HelloStart + MinHello + (SeqMod - MaxNeg)

VARIABLES
    client,           \* ctrack.pos.client
    reasm,            \* ctrack.reasm_client
    delayed,          \* ctrack.delayed
    arrived,          \* payload packets seen, numbers the packets
    out,              \* what was sent on, with the way it took
    lost              \* numbers of packets freed with their track

vars == <<client, reasm, delayed, arrived, out, lost>>

Packet == [id : Nat \ {0}, off : Nat, len : Nat \ {0}]
Reasm == [size : {0, HelloLen}, present : 0 .. HelloLen, seq : Seq32,
          buf : Seq(Nat)]
Outcome == [id : Nat \ {0}, off : Nat, len : Nat \ {0},
            way : {"raw", "played", "replayed"},
            piece : Nat, count : Nat, offset : Nat]

NewPacket(s) == [id |-> arrived + 1, off |-> s.off, len |-> s.len]

Sent(p, way, piece, count, offset) ==
    [id |-> p.id, off |-> p.off, len |-> p.len, way |-> way,
     piece |-> piece, count |-> count, offset |-> offset]

Raw(p)    == Sent(p, "raw", 0, 0, 0)
Played(p) == Sent(p, "played", 0, 0, 0)

\* rawsend_queue
AllRaw(q) == [i \in 1 .. Len(q) |-> Raw(q[i])]

\* The running sum of payload lengths that replay_queue passes along.
Offset(q) ==
    LET sum[i \in 0 .. Len(q)] == IF i < 2 THEN 0 ELSE sum[i - 1] + q[i - 1].len
    IN  sum

\* replay_queue: each packet in turn as piece i of the whole.
AllReplayed(q) ==
    [i \in 1 .. Len(q) |-> Sent(q[i], "replayed", i, Len(q), Offset(q)[i])]

-----------------------------------------------------------------------------
InSession == ~ ReasmIsEmpty(reasm)

FeedFails(s) == InSession /\ ~ FeedOk(reasm, s)

\* What reasm_client_feed leaves behind: a failed session sends on at once
\* what it held.
FedReasm(s) ==
    IF InSession /\ FeedOk(reasm, s) THEN Fed(reasm, s) ELSE NoReasm

Mut_FedQueue_Leaks(s) == delayed
FedQueue(s) == IF FeedFails(s) THEN <<>> ELSE delayed

FedOut(s) == IF FeedFails(s) THEN out \o AllRaw(delayed) ELSE out

\* rdata_payload: the buffer when the feed succeeded, else the segment.
\* The hello is looked for at its start.
DataStart(s) == IF ReasmIsEmpty(FedReasm(s)) THEN s.off ELSE FedReasm(s).buf[1]
DataLen(s)   == IF ReasmIsEmpty(FedReasm(s)) THEN s.len ELSE FedReasm(s).present

IsTLSClientHello(s) == DataStart(s) = HelloStart /\ DataLen(s) >= MinHello
IsTLSRecordFull(s)  == DataLen(s) >= HelloLen

\* The client's position with the segment counted in.
Counted(s) == ApplyDirect(client, FALSE, SeqOf(s.off), s.len)

Mut_WantsStart_Retrans(s) ==
    /\ IsTLSClientHello(s) /\ ~ IsTLSRecordFull(s)
    /\ ReasmIsEmpty(FedReasm(s))

\* A partial hello that is no retransmission begins a reassembly.
WantsStart(s) ==
    /\ IsTLSClientHello(s) /\ ~ IsTLSRecordFull(s)
    /\ ReasmIsEmpty(FedReasm(s))
    /\ ~ IsRetransmission(Counted(s))

\* reasm_client_start and reasm_start: the server's window, where known,
\* admits the whole record, and the record is not too large.
CanStart == /\ \E w \in ServerWindow : w = 0 \/ w >= HelloLen
            /\ HelloLen <= MaxReasm

Mut_Assembled_Longer(s) ==
    IF WantsStart(s) THEN Fed(ReasmInit(HelloLen + 1, SeqOf(s.off)), s)
    ELSE FedReasm(s)

\* The reassembler once a start has succeeded where one was wanted.
Assembled(s) ==
    IF WantsStart(s) THEN Fed(ReasmInit(HelloLen, SeqOf(s.off)), s)
    ELSE FedReasm(s)

\* The packet is to be queued: a session is open, or one can be opened.
Queues(s) == /\ IsTLSClientHello(s)
             /\ ~ ReasmIsEmpty(Assembled(s))

\* The packet waits with the others.
Hold(s) ==
    /\ Queues(s) /\ ~ ReasmIsFull(Assembled(s))
    /\ WantsStart(s) => CanStart
    /\ reasm' = Assembled(s)
    /\ delayed' = Append(FedQueue(s), NewPacket(s))
    /\ out' = FedOut(s)

Mut_Complete_NoFin(s) ==
    /\ Queues(s) /\ ReasmIsFull(Assembled(s))
    /\ reasm' = Assembled(s)
    /\ delayed' = <<>>
    /\ out' = FedOut(s) \o AllReplayed(Append(FedQueue(s), NewPacket(s)))

\* The packet completes the record: replay_queue, reasm_client_fin.
Complete(s) ==
    /\ Queues(s) /\ ReasmIsFull(Assembled(s))
    /\ reasm' = NoReasm
    /\ delayed' = <<>>
    /\ out' = FedOut(s) \o AllReplayed(Append(FedQueue(s), NewPacket(s)))

\* pass_reasm_cancel: no reassembly can be started (memory included), or
\* the packet cannot be queued.  Whatever waited goes first.
GiveUp(s) ==
    /\ Queues(s)
    /\ reasm' = NoReasm
    /\ delayed' = <<>>
    /\ out' = Append(FedOut(s) \o AllRaw(FedQueue(s)), Raw(NewPacket(s)))

\* No session and no cause to open one: the packet is processed by itself.
Alone(s) ==
    /\ ~ Queues(s)
    /\ reasm' = FedReasm(s)
    /\ delayed' = FedQueue(s)
    /\ out' = Append(FedOut(s), Played(NewPacket(s)))

\* The same, but HTTP, a negative host list check or the lack of a profile
\* cancels whatever reassembly there is.
Exempt(s) ==
    /\ ~ Queues(s)
    /\ reasm' = NoReasm
    /\ delayed' = <<>>
    /\ \E p \in {Raw(NewPacket(s)), Played(NewPacket(s))} :
           out' = Append(FedOut(s) \o AllRaw(FedQueue(s)), p)

Payload(s) ==
    /\ arrived < MaxPackets
    /\ client' = Counted(s)
    /\ arrived' = arrived + 1
    /\ \/ Hold(s) \/ Complete(s) \/ GiveUp(s) \/ Alone(s) \/ Exempt(s)
    /\ UNCHANGED lost

\* A track as the handshake leaves it; stream offset 0 is the SYN's.
Fresh == ApplyDirect([ZeroPosition EXCEPT !.seq0 = Isn], TRUE, Isn, 0)

\* The track is purged or restarted by a new handshake: ConntrackClearTrack.
Reopen ==
    /\ arrived < MaxPackets
    /\ client' = Fresh /\ reasm' = NoReasm /\ delayed' = <<>>
    /\ lost' = lost \cup {delayed[i].id : i \in 1 .. Len(delayed)}
    /\ UNCHANGED <<arrived, out>>

Init == /\ client = Fresh /\ reasm = NoReasm
        /\ delayed = <<>> /\ arrived = 0 /\ out = <<>> /\ lost = {}

Next == Reopen \/ \E s \in Segment : Payload(s)

Spec == Init /\ [][Next]_vars

-----------------------------------------------------------------------------
(* The types of the variables.                                             *)
TypeOK ==
    /\ client \in Position
    /\ reasm \in Reasm
    /\ delayed \in Seq(Packet) /\ out \in Seq(Outcome)
    /\ arrived \in Nat /\ lost \subseteq Nat \ {0}

(* Packets wait exactly while a reassembly is open: none is left behind in *)
(* the queue when a session ends, whichever way it ends, and no session    *)
(* takes bytes of a packet it does not hold.                               *)
HeldWhileOpen == InSession <=> delayed # <<>>

(* The buffer holds consecutive bytes of the stream from the start of the  *)
(* hello, not all of them, and its position is the stream's.  Overlaps and *)
(* retransmissions never shift what desync sees.                           *)
BufferIsStream ==
    InSession =>
        /\ reasm.size = HelloLen
        /\ reasm.present \in MinHello .. HelloLen - 1
        /\ reasm.buf = [i \in 1 .. reasm.present |-> HelloStart + i - 1]
        /\ reasm.seq = SeqOf(HelloStart + reasm.present)

IdsOf(q) == [i \in 1 .. Len(q) |-> q[i].id]

Line == INSTANCE DelayLine
            WITH held <- IdsOf(delayed), left <- IdsOf(out), forgotten <- lost

(* Delaying loses, duplicates and reorders nothing: the connection's       *)
(* packets go through a delay line.                                        *)
IsDelayLine == Line!LineSpec

(* No packet of the connection overtakes another one, and none is dropped  *)
(* except with the track.                                                  *)
KeepsOrder == Line!InOrder
LosesNone  == Line!NoneLost

\* The pieces of the replay whose last piece is out[n].
Replay(n) == n - out[n].count + 1 .. n
Replays   == {n \in 1 .. Len(out) : out[n].way = "replayed" /\ out[n].piece = out[n].count}
Covered(ps) == UNION {out[i].off .. out[i].off + out[i].len - 1 : i \in ps}

(* A replay is of a complete record: its pieces are numbered in order,     *)
(* the first begins the hello, together they carry every byte of it and    *)
(* nothing after it.  Lua code that acts on the first piece and drops the  *)
(* rest (manual.md, multipacket payloads) then loses no client byte.       *)
ReplayIsWholeHello ==
    \A n \in Replays :
        /\ out[n].count <= n
        /\ \A i \in Replay(n) : /\ out[i].way = "replayed"
                                 /\ out[i].count = out[n].count
                                 /\ out[i].piece = out[n].count - (n - i)
        /\ out[n - out[n].count + 1].off = HelloStart
        /\ Covered(Replay(n)) \ (0 .. HelloStart - 1)
              = HelloStart .. HelloStart + HelloLen - 1

=============================================================================
