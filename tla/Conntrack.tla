----------------------------- MODULE Conntrack -----------------------------
(***************************************************************************)
(* The connection tracker of nfqws2 (nfq2/conntrack.c): a pool of tracks   *)
(* keyed by the connection tuple, fed by every packet the queue delivers,  *)
(* restarted by a new handshake on the same tuple and purged by inactivity *)
(* timeouts.  The handler is one thread's run to completion, so a packet   *)
(* is one action: purge, feed, and what the caller in nfq2/desync.c then   *)
(* hangs on the track: the name that the IP cache has for the server when  *)
(* a profile is first searched for, and a host name found in a payload of  *)
(* the client.                                                             *)
(***************************************************************************)
EXTENDS TrackPos

CONSTANTS
    Endpoint,         \* addresses with their ports
    Host,             \* host names a client payload can carry
    NoHost,           \* no host name
    TimeoutSyn,       \* seconds of inactivity after which a track goes,
    TimeoutEst,       \*   one per state of a TCP track
    TimeoutFin,
    TimeoutUdp,       \*   and one for UDP
    PurgeInterval,    \* least number of seconds between two purges
    L4Proto,          \* transport protocols in play (bound)
    Lengths,          \* payload lengths (bound)
    SeqSample,        \* sequence and acknowledgement numbers sent (bound)
    ClockSet,         \* whether the wall clock is ever set back
    MaxNow,           \* the clock stops here (bound)
    MaxPackets        \* packets counted in a track (bound)

ASSUME ConntrackAssumption ==
    /\ NoHost \notin Host
    /\ TimeoutSyn \in Nat /\ TimeoutEst \in Nat
    /\ TimeoutFin \in Nat /\ TimeoutUdp \in Nat
    /\ PurgeInterval \in Nat \ {0}
    /\ L4Proto \subseteq {"tcp", "udp"}
    /\ ClockSet \in BOOLEAN
    /\ Lengths \subseteq Nat /\ SeqSample \subseteq Seq32
    /\ MaxNow \in Nat /\ MaxPackets \in Nat

VARIABLES
    pool,             \* conntrack.pool: tuple -> track
    t_last_purge,     \* conntrack.t_last_purge
    now               \* the wall clock, in seconds

vars == <<pool, t_last_purge, now>>

Conn == {c \in [src : Endpoint, dst : Endpoint, l4proto : L4Proto] :
            c.src # c.dst}

\* connswap
Swap(c) == [c EXCEPT !.src = c.dst, !.dst = c.src]

State == {"SYN", "ESTABLISHED", "FIN"}

\* The kinds of packet the tracker tells apart; "ack" is every other segment.
TcpKind == {"syn", "synack", "fin", "ack"}

\* host is the name in the payload, cached the one that ipcache_get_hostname
\* would give now for the server of the packet (none without the cache).
Packet == [conn : Conn, kind : TcpKind \cup {"udp"}, seq : SeqSample,
           ack : SeqSample, len : Lengths, host : Host \cup {NoHost},
           cached : Host \cup {NoHost}]

\* A packet as the dissector hands it over; a datagram has no numbers.  A host
\* name is only looked for in a payload, of a packet that carries no SYN, and
\* in the cache at the first packet of a track, which one of these begins.
WellFormed(p) ==
    /\ (p.kind = "udp") = (p.conn.l4proto = "udp")
    /\ p.kind = "udp" => p.seq = p.ack
    /\ p.host # NoHost => p.len > 0 /\ p.kind \notin {"syn", "synack"}
    /\ p.cached # NoHost => p.kind \in {"syn", "synack", "udp"}

\* searched is dp_search_complete, discovered is hostname_discovered.
Track == [state : State, client : Position, server : Position,
          t_start : Nat, t_last : Nat, hostname : Host \cup {NoHost},
          searched : BOOLEAN, discovered : BOOLEAN]

\* ConntrackInitTrack
InitTrack == [state |-> "SYN", client |-> ZeroPosition, server |-> ZeroPosition,
              t_start |-> 0, t_last |-> 0, hostname |-> NoHost,
              searched |-> FALSE, discovered |-> FALSE]

Side(rev) == IF rev THEN "server" ELSE "client"

-----------------------------------------------------------------------------
(* ConntrackFeedPacket, step by step.                                      *)

\* The packet is counted first; a restart then forgets it with the rest.
Counted(t, rev, p) == [t EXCEPT ![Side(rev)] = CountPacket(@, p.len)]

Mut_Restarts_NotAfterFin(t, p) ==
    t.state = "ESTABLISHED" /\ p.kind = "syn"

\* A SYN, or a SYN,ACK that answers another SYN, on a track past the
\* handshake starts the connection anew.
Restarts(t, p) ==
    /\ t.state # "SYN"
    /\ \/ p.kind = "syn"
       \/ p.kind = "synack" /\ t.client.seq0 # Diff(p.ack, 1)

Mut_ReInitTrack_KeepsHost(t, p) ==
    IF Restarts(t, p) THEN [InitTrack EXCEPT !.hostname = t.hostname] ELSE t

\* ConntrackReInitTrack
ReInitTrack(t, p) == IF Restarts(t, p) THEN InitTrack ELSE t

\* A SYN,ACK tells both starting sequence numbers.
OnSynAck(t, p) ==
    [t EXCEPT !.client.seq0 = IF @ = 0 THEN Diff(p.ack, 1) ELSE @,
              !.server.seq0 = p.seq]

\* The first other segment ends the handshake; the client's own first one
\* tells the server's number if no SYN,ACK did.
OnSegment(t, rev, p) ==
    IF t.state # "SYN" THEN t
    ELSE [t EXCEPT !.state = "ESTABLISHED",
                   !.server.seq0 = IF ~ rev /\ @ = 0 THEN Diff(p.ack, 1) ELSE @]

\* Starting sequence numbers, and the state of the connection.
Handshake(t, rev, p) ==
    CASE p.kind = "syn"    -> [t EXCEPT !.client.seq0 = p.seq]
      [] p.kind = "synack" -> OnSynAck(t, p)
      [] p.kind = "fin"    -> [t EXCEPT !.state = "FIN"]
      [] p.kind = "ack"    -> OnSegment(t, rev, p)

ApplyPos(t, rev, p) ==
    [t EXCEPT ![Side(rev)]   = ApplyDirect(@, t.state = "SYN", p.seq, p.len),
              ![Side(~ rev)] = ApplyReverse(@, p.ack)]

Stamp(t) == [t EXCEPT !.t_last  = now,
                      !.t_start = IF @ = 0 THEN now ELSE @]

FeedTcp(t, rev, p) == ApplyPos(Handshake(ReInitTrack(t, p), rev, p), rev, p)

FeedPacket(t, rev, p) ==
    LET counted == Counted(t, rev, p)
    IN  Stamp(IF p.kind = "udp" THEN counted ELSE FeedTcp(counted, rev, p))

\* The caller searches for a profile once in the life of a track, and asks the
\* IP cache for a name then, if the packet is the client's.
FirstSearch(t, rev, p) ==
    IF t.searched THEN t
    ELSE [t EXCEPT !.searched = TRUE,
                   !.hostname = IF ~ rev /\ @ = NoHost THEN p.cached ELSE @]

\* The first host name in a payload of the client takes that one's place.
Discover(t, rev, p) ==
    IF ~ rev /\ p.host # NoHost /\ ~ t.discovered
    THEN [t EXCEPT !.hostname = p.host, !.discovered = TRUE] ELSE t

Play(t, rev, p) == Discover(FirstSearch(FeedPacket(t, rev, p), rev, p), rev, p)

-----------------------------------------------------------------------------
(* The pool.                                                               *)

Idle(c) == now - pool[c].t_last

Timeout(c) ==
    IF c.l4proto = "udp" THEN TimeoutUdp
    ELSE CASE pool[c].state = "SYN"         -> TimeoutSyn
           [] pool[c].state = "ESTABLISHED" -> TimeoutEst
           [] pool[c].state = "FIN"         -> TimeoutFin

Expired(c) == Idle(c) >= Timeout(c)

PurgeDue == now - t_last_purge >= PurgeInterval

Mut_LastPurge_EveryPacket == now

LastPurge == IF PurgeDue THEN now ELSE t_last_purge

\* ConntrackPoolPurge runs before the packet is looked up.
Survivors == {c \in DOMAIN pool : ~ (PurgeDue /\ Expired(c))}

With(S, c, t) == [k \in S \cup {c} |-> IF k = c THEN t ELSE pool[k]]

\* ConntrackPoolFeed on the tracks S that the purge left: the tuple as it is,
\* the tuple swapped, or a new track if the packet can open one.
FoundDirect(S, p)  == p.conn \in S
FoundReverse(S, p) == p.conn \notin S /\ Swap(p.conn) \in S
NotFound(S, p)     == p.conn \notin S /\ Swap(p.conn) \notin S
Opens(p) == p.kind \in {"syn", "synack", "udp"}

Mut_FeedPool_NoReverse(S, p) ==
    IF p.conn \in S THEN With(S, p.conn, Play(pool[p.conn], FALSE, p))
    ELSE IF Opens(p) THEN With(S, p.conn, Play(InitTrack, FALSE, p))
    ELSE [k \in S |-> pool[k]]

FeedPool(S, p) ==
    CASE FoundDirect(S, p)  -> With(S, p.conn, Play(pool[p.conn], FALSE, p))
      [] FoundReverse(S, p) ->
            With(S, Swap(p.conn), Play(pool[Swap(p.conn)], TRUE, p))
      [] NotFound(S, p) /\ Opens(p) ->
            LET rev == p.kind = "synack"
            IN  With(S, IF rev THEN Swap(p.conn) ELSE p.conn, Play(InitTrack, rev, p))
      [] OTHER -> [k \in S |-> pool[k]]

-----------------------------------------------------------------------------
Init ==
    /\ pool = [c \in {} |-> InitTrack]
    /\ now = 1
    /\ t_last_purge = now

\* One packet, from the queue to the end of its processing.
HandlePacket(p) ==
    /\ WellFormed(p)
    /\ \A c \in {p.conn, Swap(p.conn)} \cap Survivors :
           pool[c].client.pcounter + pool[c].server.pcounter < MaxPackets
    /\ pool' = FeedPool(Survivors, p)
    /\ t_last_purge' = LastPurge
    /\ UNCHANGED now

\* The clock is CLOCK_REALTIME: it advances, and an administrator or NTP may
\* set it back.
Tick     == now < MaxNow /\ now' = now + 1 /\ UNCHANGED <<pool, t_last_purge>>
SetClock ==
    /\ ClockSet
    /\ \E t \in 1 .. now - 1 : now' = t
    /\ UNCHANGED <<pool, t_last_purge>>

Next == (\E p \in Packet : HandlePacket(p)) \/ Tick \/ SetClock

Spec == Init /\ [][Next]_vars

-----------------------------------------------------------------------------
TypeOK ==
    /\ DOMAIN pool \subseteq Conn
    /\ pool \in [DOMAIN pool -> Track]
    /\ t_last_purge \in Nat
    /\ now \in Nat \ {0}

(* A conversation has one track: the lookup of the swapped tuple keeps a   *)
(* tuple and its mirror image from both being in the pool, so no reply is  *)
(* ever taken for a request.                                               *)
OneTrackPerFlow ==
    \A c \in DOMAIN pool : Swap(c) \notin DOMAIN pool

(* The byte, data-packet and packet counters of a direction stay in step:  *)
(* a restart clears all three together.                                    *)
CountersAgree ==
    \A c \in DOMAIN pool : \A s \in {"client", "server"} :
        /\ pool[c][s].pdcounter <= pool[c][s].pcounter
        /\ pool[c][s].pdcounter <= pool[c][s].pbcounter

(* A track that a packet leaves in the pool has been idle for less than    *)
(* its timeout plus one purge interval: ConntrackPoolPurge is rate limited *)
(* and driven by packets.                                                  *)
IdleWithin ==
    now' = now => \A c \in DOMAIN pool' : (Idle(c) < Timeout(c) + PurgeInterval)'

=============================================================================
