-------------------------- MODULE DelayedReasmTcp ---------------------------
(***************************************************************************)
(* DelayedReasm closed with the client's TCP: segments held back are not   *)
(* acknowledged, so the reassembly waits for a client that waits for the   *)
(* reassembly.  The client (RFC 5681 and 6298) sends within its congestion *)
(* window, goes back to the first unacknowledged byte with a window of one *)
(* segment when its timer fires, and gives the connection up after MaxRto  *)
(* timeouts in a row.  It may also probe the tail of a flight before that  *)
(* (RFC 8985).  Whatever leaves the queue reaches the server, which        *)
(* acknowledges it.                                                        *)
(***************************************************************************)
EXTENDS DelayedReasm

CONSTANTS
    StreamLen,        \* bytes the client sends, at offsets 1 .. StreamLen
    Mss,              \* longest segment, no longer than one that Segment has
    Cwnd,             \* the client's congestion window before any timeout
    TailProbe,        \* whether the client probes the tail
    MaxLoss,          \* segments lost on the way to the queue (bound)
    MaxRto            \* timeouts in a row after which the client gives up

VARIABLES
    una,              \* first byte not acknowledged
    nxt,              \* next byte to send
    cwnd,             \* congestion window, in bytes
    wire,             \* segments on their way to the queue
    losses, rtos,     \* segments lost so far; timeouts since the last progress
    probe             \* last segment sent, or NoProbe when it was sent again

NoProbe == [off |-> 0, len |-> 0]

tcp  == <<una, nxt, cwnd, wire, losses, rtos, probe>>
vars2 == <<vars, tcp>>

End == StreamLen + 1
TcpSegment == {s \in [off : 1 .. End, len : 1 .. Mss] : s.off + s.len <= End}

ASSUME TcpAssumption ==
    /\ StreamLen \in Nat /\ Mss \in Nat \ {0} /\ Cwnd \in Nat
    /\ MaxLoss \in Nat /\ MaxRto \in Nat
    /\ TcpSegment \subseteq Segment

Smaller(a, b) == IF a < b THEN a ELSE b

\* The first byte the server lacks.
Reached ==
    LET got == Covered(1 .. Len(out))
    IN  CHOOSE n \in 1 .. End : n \notin got /\ \A k \in 1 .. n - 1 : k \in got

TcpInit == /\ Init
           /\ una = 1 /\ nxt = 1 /\ cwnd = Cwnd /\ wire = <<>>
           /\ losses = 0 /\ rtos = 0 /\ probe = NoProbe

Send == \E len \in 1 .. Mss :
    /\ nxt + len <= Smaller(End, una + cwnd)
    /\ wire' = Append(wire, [off |-> nxt, len |-> len])
    /\ nxt' = nxt + len
    /\ probe' = [off |-> nxt, len |-> len]
    /\ UNCHANGED <<vars, una, cwnd, losses, rtos>>

\* The segment is lost before it comes to the queue.
Lose == /\ wire # <<>> /\ losses < MaxLoss
        /\ wire' = Tail(wire) /\ losses' = losses + 1
        /\ UNCHANGED <<vars, una, nxt, cwnd, rtos, probe>>

Deliver == /\ wire # <<>>
           /\ Payload(Head(wire))
           /\ wire' = Tail(wire)
           /\ UNCHANGED <<una, nxt, cwnd, losses, rtos, probe>>

Ack == /\ Reached > una
       /\ una' = Reached
       /\ nxt' = IF nxt < una' THEN una' ELSE nxt
       /\ cwnd' = Smaller(Cwnd, cwnd + una' - una)
       /\ rtos' = 0
       /\ UNCHANGED <<vars, wire, losses, probe>>

\* Nothing is on its way in either direction, and all that may be sent was:
\* the application hands over its stream before a timer of the stack fires.
Silent == /\ wire = <<>> /\ Reached = una /\ una < nxt
          /\ nxt = Smaller(End, una + cwnd)

Probe == /\ TailProbe /\ Silent /\ probe # NoProbe
         /\ wire' = <<probe>> /\ probe' = NoProbe
         /\ UNCHANGED <<vars, una, nxt, cwnd, losses, rtos>>

Rto == /\ Silent /\ rtos < MaxRto
       /\ TailProbe => probe = NoProbe
       /\ rtos' = rtos + 1
       /\ nxt' = una /\ cwnd' = Mss
       /\ UNCHANGED <<vars, una, wire, losses, probe>>

TcpNext == Send \/ Lose \/ Deliver \/ Ack \/ Probe \/ Rto

(* The client's stack and its application go on, packets the kernel hands  *)
(* to the queue are processed, the server acknowledges.  Nothing is said   *)
(* of losses.                                                              *)
TcpSpec == /\ TcpInit /\ [][TcpNext]_vars2
           /\ WF_vars2(Send) /\ WF_vars2(Deliver) /\ WF_vars2(Ack)
           /\ WF_vars2(Probe) /\ WF_vars2(Rto)

-----------------------------------------------------------------------------
(* The delay does not starve the connection: the client gets its whole     *)
(* stream to the server (desync.c cancels the reassembly where the client  *)
(* "will not send all pieces" and one "will see nothing but                *)
(* retransmissions").                                                      *)
StreamDelivered == <>(una = End)

(* No packet waits for ever.                                               *)
DelayedDrains == []<>(delayed = <<>>)
=============================================================================
