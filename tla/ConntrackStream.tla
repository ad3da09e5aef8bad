-------------------------- MODULE ConntrackStream --------------------------
(***************************************************************************)
(* The connection tracker on the packets of an honest TCP conversation:    *)
(* the composition of Conntrack with a client and a server that number     *)
(* their bytes as TCP does, with losses and retransmissions on both sides  *)
(* of the tracker and a tuple that is used again.  Auxiliary variables     *)
(* count in unbounded integers what the tracker counts modulo SeqMod, and  *)
(* the properties compare the two.                                         *)
(***************************************************************************)
EXTENDS Conntrack

CONSTANTS
    Client, Server,   \* the two ends
    Isn,              \* initial sequence numbers in play (bound)
    MaxRequest,       \* bytes the client sends in a connection (bound)
    MaxResponse,      \* and the server (bound)
    Window,           \* bytes a segment may be ahead of, or behind, what the
                      \*   tracker saw before it
    MaxInc,           \* connections that use the tuple in turn (bound)
    SynSeen,          \* whether every SYN passes through the queue
    SynAgain          \* whether a SYN is sent again after the SYN,ACK passed

\* No two packets in a row, and no payload, span half of the sequence space.
ASSUME StreamAssumption ==
    /\ Client \in Endpoint /\ Server \in Endpoint /\ Client # Server
    /\ "tcp" \in L4Proto
    /\ Isn \subseteq Seq32
    /\ MaxRequest \in Nat /\ MaxResponse \in Nat /\ MaxInc \in Nat
    /\ Window \in Nat \ {0} /\ 2 * Window < SeqMod
    /\ \A n \in Lengths : n <= Window
    /\ SynSeen \in BOOLEAN /\ SynAgain \in BOOLEAN

VARIABLES
    phase,            \* "closed", "syn", "synack" or "open"
    inc,              \* which connection on the tuple this is
    isn,              \* initial sequence number of each side
    top,              \* per side, end of the payload seen so far
    last,             \* per side, stream offset of the tracker's seq_last
    cnt,              \* per side, packets of this connection seen
    fresh             \* was the last packet client payload: "none", or did
                      \*   it bring bytes not seen before: "new", "old"

aux == <<phase, inc, isn, top, last, cnt, fresh>>
svars == <<vars, aux>>

flow == [src |-> Client, dst |-> Server, l4proto |-> "tcp"]

Sides == {"client", "server"}
Other(s) == IF s = "client" THEN "server" ELSE "client"
MaxStream(s) == IF s = "client" THEN MaxRequest ELSE MaxResponse
FlowOf(s) == IF s = "client" THEN flow ELSE Swap(flow)

Max2(a, b) == IF a > b THEN a ELSE b

\* Offset 0 of a stream is its SYN, payload starts at offset 1.
SeqAt(s, off) == Plus(isn[s], off)

Tracked == flow \in DOMAIN pool
track == pool[flow]

StreamInit ==
    /\ Init
    /\ phase = "closed" /\ inc = 0
    /\ isn = [s \in Sides |-> 0]
    /\ top = [s \in Sides |-> 0] /\ last = top /\ cnt = top
    /\ fresh = "none"

\* Bookkeeping of one packet: side s sends len bytes at off, acknowledging
\* the other side up to ackoff.
Saw(s, off, len, ackoff) ==
    /\ top'  = IF len = 0 THEN top ELSE [top EXCEPT ![s] = Max2(@, off + len)]
    /\ last' = [last EXCEPT ![s] = off, ![Other(s)] = ackoff]
    /\ cnt'  = [cnt EXCEPT ![s] = @ + 1]
    /\ fresh' = IF s = "server" \/ len = 0 THEN "none"
                ELSE IF off + len > top.client THEN "new" ELSE "old"

Send(s, kind, seq, ack, len) ==
    HandlePacket([conn |-> FlowOf(s), kind |-> kind, seq |-> seq, ack |-> ack,
                  len |-> len, host |-> NoHost, cached |-> NoHost])

\* A new connection; the tuple may have been used before.
Open ==
    /\ phase = "closed" /\ inc < MaxInc
    /\ inc' = inc + 1 /\ phase' = "syn"
    /\ \E c, s \in Isn :
          /\ inc > 0 => c # isn.client
          /\ isn' = [client |-> c, server |-> s]
    /\ top' = [x \in Sides |-> 0] /\ last' = top'
    /\ cnt' = top' /\ fresh' = "none"
    /\ UNCHANGED vars

\* The client's SYN; sent again as long as no answer came.
ClientSyn ==
    /\ phase = "syn" \/ (phase = "synack" /\ SynAgain)
    /\ Send("client", "syn", isn.client, 0, 0)
    /\ cnt' = [cnt EXCEPT !.client = @ + 1]
    /\ fresh' = "none"
    /\ UNCHANGED <<phase, inc, isn, top, last>>

ServerSynAck ==
    /\ phase \in {"syn", "synack"} \/ (phase = "open" /\ top.server = 0)
    /\ SynSeen => cnt.client > 0
    /\ Send("server", "synack", isn.server, SeqAt("client", 1), 0)
    /\ phase' = IF phase = "syn" THEN "synack" ELSE phase
    /\ Saw("server", 0, 0, 1)
    /\ UNCHANGED <<inc, isn>>

\* What a side acknowledges: all it saw, or one byte less if that was lost
\* behind the tracker.
AckOff(s) == {Max2(1, top[Other(s)]), Max2(1, top[Other(s)] - 1)}

\* Two packets in a row are never half the sequence space apart.
Near(a, b) == a - b \in -Window .. Window

\* A segment of side s that carries len bytes at off: new, retransmitted or
\* past a hole.
Segment(s) ==
    \E off \in 1 .. MaxStream(s) + 1, len \in Lengths, ackoff \in AckOff(s) :
        /\ phase = "open" \/ (phase = "synack" /\ s = "client")
        /\ off + len <= MaxStream(s) + 1
        /\ Near(off + len, top[s]) /\ Near(off, last[s])
        /\ Near(ackoff, last[Other(s)])
        /\ Send(s, "ack", SeqAt(s, off), SeqAt(Other(s), ackoff), len)
        /\ phase' = "open"
        /\ Saw(s, off, len, ackoff)
        /\ UNCHANGED <<inc, isn>>

Fin(s) ==
    /\ phase = "open"
    /\ LET off == Max2(top[s], 1)
           ackoff == Max2(top[Other(s)], 1)
       IN  /\ Send(s, "fin", SeqAt(s, off), SeqAt(Other(s), ackoff), 0)
           /\ Saw(s, off, 0, ackoff)
    /\ UNCHANGED <<phase, inc, isn>>

\* Both ends forget the connection, with or without the tracker seeing why.
Close == phase # "closed" /\ phase' = "closed"
         /\ UNCHANGED <<vars, inc, isn, top, last, cnt, fresh>>

StreamNext ==
    \/ Open \/ ClientSyn \/ ServerSynAck \/ Close
    \/ \E s \in Sides : Segment(s) \/ Fin(s)

StreamSpec == StreamInit /\ [][StreamNext]_svars

-----------------------------------------------------------------------------
\* From the client's first segment on, tracker and ends mean the same
\* connection.
Underway == phase = "open" /\ Tracked

(* A client payload is taken for a retransmission exactly when it brings   *)
(* no byte past what was seen before, through every wrap of the sequence   *)
(* space: what the reassembler and the failure detector rely on.           *)
RetransmissionIsExact ==
    Underway /\ fresh # "none" => (IsRetransmission(track.client) <=> fresh = "old")

(* A relative sequence number that is not flagged as out of range is the   *)
(* true stream offset of the last segment or acknowledgement: the range    *)
(* filters of both directions never compare a wrapped value.               *)
PositionExactOrFlagged ==
    Underway => \A s \in Sides :
        \/ track[s].rseq_over_2G
        \/ Diff(track[s].seq_last, track[s].seq0) = last[s]

=============================================================================
