--------------------------- MODULE ConntrackProofs ---------------------------
(***************************************************************************)
(* The connection tracker, for every pool, packet, timeout and word: what  *)
(* its tracks are, how long they stay, and, for every honest conversation  *)
(* on a tuple that is used again and again, that words tell what the       *)
(* unbounded offsets in the streams would.                                  *)
(***************************************************************************)
EXTENDS MCConntrack, ConntrackStream, Lemmas

\* A packet with any numbers, of any length.
Fed == [conn : Conn, kind : TcpKind \cup {"udp"}, seq : Seq32, ack : Seq32,
        len : Nat, host : Host \cup {NoHost}, cached : Host \cup {NoHost}]

LEMMA PacketsAreFed == Packet \subseteq Fed
  BY ConntrackAssumption DEF Packet, Fed

-----------------------------------------------------------------------------
(* Sequence-number arithmetic stays within the word.                        *)

LEMMA ModRange == \A a \in Int : a % SeqMod \in Seq32
BY SeqModAssumption DEF Seq32

LEMMA DiffRange == \A a, b \in Int : Diff(a, b) \in Seq32
<1>. TAKE a, b \in Int
<1>1. a - b \in Int  OBVIOUS
<1>. QED BY <1>1, ModRange DEF Diff

LEMMA PlusRange == \A a, b \in Int : Plus(a, b) \in Seq32
<1>. TAKE a, b \in Int
<1>1. a + b \in Int  OBVIOUS
<1>. QED BY <1>1, ModRange DEF Plus

LEMMA SeqIsInt == Seq32 \subseteq Int /\ 0 \in Seq32
BY SeqModAssumption DEF Seq32

LEMMA ZeroPositionType == ZeroPosition \in Position
BY SeqIsInt DEF ZeroPosition, Position

LEMMA CountPacketType ==
    ASSUME NEW d \in Position, NEW n \in Nat
    PROVE  CountPacket(d, n) \in Position
<1>. DEFINE k == IF n > 0 THEN 1 ELSE 0
<1>1. k \in Nat  OBVIOUS
<1>2. d.pcounter \in Nat /\ d.pdcounter \in Nat /\ d.pbcounter \in Nat
  BY DEF Position
<1>3. d.pcounter + 1 \in Nat /\ d.pdcounter + k \in Nat /\ d.pbcounter + n \in Nat
  BY <1>1, <1>2
<1>. HIDE DEF k
<1>4. \A x, y, z \in Nat : [d EXCEPT !.pcounter = x, !.pdcounter = y, !.pbcounter = z]
                             \in Position
  BY DEF Position
<1>. QED BY <1>3, <1>4 DEF CountPacket, k

LEMMA Latch2GType ==
    ASSUME NEW d \in Position
    PROVE  Latch2G(d) \in Position
BY DEF Latch2G, Position, TopBit

LEMMA ApplyDirectType ==
    ASSUME NEW d \in Position, NEW syn \in BOOLEAN, NEW seq \in Seq32, NEW n \in Nat
    PROVE  ApplyDirect(d, syn, seq, n) \in Position
<1>. DEFINE end == Plus(seq, n)
            fwd == ~ TopBit(Diff(end, d.uppos))
            prv == IF syn THEN end ELSE IF n > 0 THEN d.uppos ELSE d.uppos_prev
            upp == IF syn \/ (n > 0 /\ fwd) THEN end ELSE d.uppos
<1>1. end \in Seq32  BY PlusRange, SeqIsInt
<1>2. d.uppos \in Seq32 /\ d.uppos_prev \in Seq32  BY DEF Position
<1>. HIDE DEF end, fwd
<1>3. prv \in Seq32 /\ upp \in Seq32  BY <1>1, <1>2
<1>. HIDE DEF prv, upp
<1>4. [d EXCEPT !.seq_last = seq, !.pos = end, !.uppos_prev = prv, !.uppos = upp]
        \in Position
  BY <1>1, <1>3 DEF Position
<1>. QED BY <1>4, Latch2GType DEF ApplyDirect, end, fwd, prv, upp

LEMMA ApplyReverseType ==
    ASSUME NEW d \in Position, NEW ack \in Seq32
    PROVE  ApplyReverse(d, ack) \in Position
<1>1. [d EXCEPT !.seq_last = ack, !.pos = ack] \in Position  BY DEF Position
<1>. QED BY <1>1, Latch2GType DEF ApplyReverse

-----------------------------------------------------------------------------
(* One step of the handler at a time, a track stays a track.                *)

LEMMA TrackSides ==
    ASSUME NEW t \in Track
    PROVE  t.client \in Position /\ t.server \in Position
BY DEF Track

LEMMA PutSide ==
    ASSUME NEW t \in Track, NEW rev \in BOOLEAN, NEW d \in Position
    PROVE  [t EXCEPT ![Side(rev)] = d] \in Track
<1>1. CASE rev  BY <1>1 DEF Side, Track
<1>2. CASE ~ rev  BY <1>2 DEF Side, Track
<1>. QED BY <1>1, <1>2

LEMMA GetSide ==
    ASSUME NEW t \in Track, NEW rev \in BOOLEAN
    PROVE  t[Side(rev)] \in Position
BY TrackSides DEF Side

LEMMA InitTrackType == InitTrack \in Track
BY ZeroPositionType DEF InitTrack, Track, State

LEMMA CountedType ==
    ASSUME NEW t \in Track, NEW rev \in BOOLEAN, NEW p \in Fed
    PROVE  Counted(t, rev, p) \in Track
<1>1. p.len \in Nat  BY DEF Fed
<1>2. CountPacket(t[Side(rev)], p.len) \in Position
  BY <1>1, GetSide, CountPacketType
<1>. QED BY <1>2, PutSide DEF Counted

LEMMA PacketNumbers ==
    ASSUME NEW p \in Fed
    PROVE  /\ p.seq \in Seq32 /\ p.ack \in Seq32 /\ Diff(p.ack, 1) \in Seq32
           /\ p.len \in Nat
<1>1. p.seq \in Seq32 /\ p.ack \in Seq32 /\ p.len \in Nat
  BY DEF Fed
<1>2. p.ack \in Int /\ 1 \in Int  BY <1>1, SeqModAssumption DEF Seq32
<1>3. Diff(p.ack, 1) \in Seq32  BY <1>2, DiffRange
<1>. QED BY <1>1, <1>3

LEMMA PutSeq0 ==
    ASSUME NEW t \in Track, NEW x \in Seq32
    PROVE  /\ [t EXCEPT !.client.seq0 = x] \in Track
           /\ [t EXCEPT !.server.seq0 = x] \in Track
<1>1. [t.client EXCEPT !.seq0 = x] \in Position  BY TrackSides DEF Position
<1>2. [t.server EXCEPT !.seq0 = x] \in Position  BY TrackSides DEF Position
<1>. QED BY <1>1, <1>2 DEF Track

LEMMA PutState ==
    ASSUME NEW t \in Track, NEW s \in State
    PROVE  [t EXCEPT !.state = s] \in Track
BY DEF Track

LEMMA HandshakeType ==
    ASSUME NEW t \in Track, NEW rev \in BOOLEAN, NEW p \in Fed, p.kind # "udp"
    PROVE  Handshake(t, rev, p) \in Track
<1>1. p.kind \in TcpKind  BY DEF Fed
<1>2. t.client.seq0 \in Seq32 /\ t.server.seq0 \in Seq32
  BY TrackSides DEF Position
<1>3. CASE p.kind = "syn"
  BY <1>3, PutSeq0, PacketNumbers DEF Handshake
<1>4. CASE p.kind = "synack"
  <2>. DEFINE x == IF t.client.seq0 = 0 THEN Diff(p.ack, 1) ELSE t.client.seq0
  <2>1. x \in Seq32  BY <1>2, PacketNumbers
  <2>. HIDE DEF x
  <2>2. [t EXCEPT !.client.seq0 = x] \in Track  BY <2>1, PutSeq0
  <2>3. [[t EXCEPT !.client.seq0 = x] EXCEPT !.server.seq0 = p.seq] \in Track
    BY <2>2, PutSeq0, PacketNumbers
  <2>4. Handshake(t, rev, p) = [[t EXCEPT !.client.seq0 = x] EXCEPT !.server.seq0 = p.seq]
    BY <1>4 DEF Handshake, OnSynAck, OnSegment, x
  <2>. QED BY <2>3, <2>4
<1>5. CASE p.kind = "fin"
  BY <1>5, PutState DEF Handshake, State
<1>6. CASE p.kind = "ack"
  <2>. DEFINE x == IF ~ rev /\ t.server.seq0 = 0 THEN Diff(p.ack, 1) ELSE t.server.seq0
  <2>1. x \in Seq32  BY <1>2, PacketNumbers
  <2>. HIDE DEF x
  <2>2. [[t EXCEPT !.state = "ESTABLISHED"] EXCEPT !.server.seq0 = x] \in Track
    BY <2>1, PutSeq0, PutState DEF State
  <2>3. t.state # "SYN" => Handshake(t, rev, p) = t
    BY <1>6 DEF Handshake, OnSegment
  <2>4. t.state = "SYN" => Handshake(t, rev, p)
                = [[t EXCEPT !.state = "ESTABLISHED"] EXCEPT !.server.seq0 = x]
    BY <1>6 DEF Handshake, OnSynAck, OnSegment, x
  <2>. QED BY <2>2, <2>3, <2>4
<1>. QED BY <1>1, <1>3, <1>4, <1>5, <1>6 DEF TcpKind

LEMMA ApplyPosType ==
    ASSUME NEW t \in Track, NEW rev \in BOOLEAN, NEW p \in Fed
    PROVE  ApplyPos(t, rev, p) \in Track
<1>. DEFINE d == ApplyDirect(t[Side(rev)], t.state = "SYN", p.seq, p.len)
            r == ApplyReverse(t[Side(~ rev)], p.ack)
            u == [t EXCEPT ![Side(rev)] = d]
<1>1. d \in Position  BY GetSide, PacketNumbers, ApplyDirectType
<1>2. r \in Position  BY GetSide, PacketNumbers, ApplyReverseType
<1>3. u \in Track  BY <1>1, PutSide
<1>. HIDE DEF d, r, u
<1>4. [u EXCEPT ![Side(~ rev)] = r] \in Track  BY <1>2, <1>3, PutSide
<1>5. u[Side(~ rev)] = t[Side(~ rev)]  BY DEF u, Side, Track
<1>6. ApplyPos(t, rev, p) = [u EXCEPT ![Side(~ rev)] = r]
  BY <1>5 DEF ApplyPos, d, r, u
<1>. QED BY <1>4, <1>6

LEMMA FeedTcpType ==
    ASSUME NEW t \in Track, NEW rev \in BOOLEAN, NEW p \in Fed, p.kind # "udp"
    PROVE  FeedTcp(t, rev, p) \in Track
<1>1. ReInitTrack(t, p) \in Track  BY InitTrackType DEF ReInitTrack
<1>. QED BY <1>1, HandshakeType, ApplyPosType DEF FeedTcp

LEMMA StampType ==
    ASSUME NEW t \in Track, now \in Nat
    PROVE  Stamp(t) \in Track
<1>. DEFINE x == IF t.t_start = 0 THEN now ELSE t.t_start
<1>1. x \in Nat  BY DEF Track
<1>. HIDE DEF x
<1>2. [t EXCEPT !.t_last = now, !.t_start = x] \in Track  BY <1>1 DEF Track
<1>. QED BY <1>2 DEF Stamp, x

LEMMA FeedPacketType ==
    ASSUME NEW t \in Track, NEW rev \in BOOLEAN, NEW p \in Fed, now \in Nat
    PROVE  FeedPacket(t, rev, p) \in Track
<1>1. Counted(t, rev, p) \in Track  BY CountedType
<1>2. p.kind # "udp" => FeedTcp(Counted(t, rev, p), rev, p) \in Track
  BY <1>1, FeedTcpType
<1>. QED BY <1>1, <1>2, StampType DEF FeedPacket

\* What the caller hangs on a track is a name and whether it was looked for.
Hung(t, rev, p) == Discover(FirstSearch(t, rev, p), rev, p)

LEMMA HungKeeps ==
    ASSUME NEW t \in Track, NEW rev \in BOOLEAN, NEW p \in Fed
    PROVE  LET u == Hung(t, rev, p) IN
           /\ u \in Track /\ u.state = t.state /\ u.client = t.client /\ u.server = t.server
           /\ u.t_last = t.t_last
           /\ u.searched
           /\ u.discovered <=> (t.discovered \/ (~ rev /\ p.host # NoHost))
           /\ u.hostname = IF ~ rev /\ p.host # NoHost /\ ~ t.discovered THEN p.host
                           ELSE IF ~ t.searched /\ ~ rev /\ t.hostname = NoHost THEN p.cached
                           ELSE t.hostname
<1>. DEFINE name == IF ~ rev /\ t.hostname = NoHost THEN p.cached ELSE t.hostname
            f == FirstSearch(t, rev, p)
<1>1. /\ name \in Host \cup {NoHost} /\ p.host \in Host \cup {NoHost}
      /\ t.searched \in BOOLEAN /\ t.discovered \in BOOLEAN
  BY DEF Fed, Track
<1>2. f = IF t.searched THEN t ELSE [t EXCEPT !.searched = TRUE, !.hostname = name]
  BY DEF FirstSearch
<1>. HIDE DEF name, f
<1>3. /\ f \in Track /\ f.state = t.state /\ f.client = t.client /\ f.server = t.server
      /\ f.t_last = t.t_last /\ f.discovered = t.discovered /\ f.searched
      /\ f.hostname = IF t.searched THEN t.hostname ELSE name
  BY <1>1, <1>2 DEF Track
<1>4. PICK g : g = [f EXCEPT !.hostname = p.host, !.discovered = TRUE]
  OBVIOUS
<1>5. /\ g \in Track /\ g.state = f.state /\ g.client = f.client /\ g.server = f.server
      /\ g.t_last = f.t_last /\ g.discovered /\ g.searched = f.searched
      /\ g.hostname = p.host
  BY <1>1, <1>3, <1>4 DEF Track
<1>6. Hung(t, rev, p) = IF ~ rev /\ p.host # NoHost /\ ~ f.discovered THEN g ELSE f
  BY <1>4 DEF Hung, Discover, f
<1>. QED BY <1>1, <1>3, <1>5, <1>6 DEF name

LEMMA PlayType ==
    ASSUME NEW t \in Track, NEW rev \in BOOLEAN, NEW p \in Fed, now \in Nat
    PROVE  Play(t, rev, p) \in Track
<1>1. FeedPacket(t, rev, p) \in Track  BY FeedPacketType
<1>. QED BY <1>1, HungKeeps DEF Play, Hung

-----------------------------------------------------------------------------
(* The counters of a direction and the names of a track through one packet. *)

CountersOf(t) ==
    \A s \in {"client", "server"} : /\ t[s].pdcounter <= t[s].pcounter
                                   /\ t[s].pdcounter <= t[s].pbcounter

SameNames(t, u) ==
    t.hostname = u.hostname /\ t.searched = u.searched /\ t.discovered = u.discovered

LEMMA InitTrackGood == CountersOf(InitTrack)
BY DEF CountersOf, InitTrack, ZeroPosition

LEMMA CountPacketAgrees ==
    ASSUME NEW d \in Position, NEW n \in Nat,
           d.pdcounter <= d.pcounter, d.pdcounter <= d.pbcounter
    PROVE  /\ CountPacket(d, n).pdcounter <= CountPacket(d, n).pcounter
           /\ CountPacket(d, n).pdcounter <= CountPacket(d, n).pbcounter
<1>. DEFINE k == IF n > 0 THEN 1 ELSE 0
<1>1. d.pcounter \in Nat /\ d.pdcounter \in Nat /\ d.pbcounter \in Nat
  BY DEF Position
<1>2. /\ CountPacket(d, n).pcounter = d.pcounter + 1
      /\ CountPacket(d, n).pdcounter = d.pdcounter + k
      /\ CountPacket(d, n).pbcounter = d.pbcounter + n
  BY DEF CountPacket, Position
<1>3. k \in Nat /\ k <= 1 /\ k <= n  OBVIOUS
<1>. HIDE DEF k
<1>. QED BY <1>1, <1>2, <1>3

LEMMA ApplyKeepsCounters ==
    ASSUME NEW d \in Position, NEW syn, NEW seq, NEW n, NEW ack
    PROVE  /\ ApplyDirect(d, syn, seq, n).pcounter = d.pcounter
           /\ ApplyDirect(d, syn, seq, n).pdcounter = d.pdcounter
           /\ ApplyDirect(d, syn, seq, n).pbcounter = d.pbcounter
           /\ ApplyReverse(d, ack).pcounter = d.pcounter
           /\ ApplyReverse(d, ack).pdcounter = d.pdcounter
           /\ ApplyReverse(d, ack).pbcounter = d.pbcounter
BY DEF ApplyDirect, ApplyReverse, Latch2G, Position

LEMMA CountedAgrees ==
    ASSUME NEW t \in Track, NEW rev \in BOOLEAN, NEW p \in Fed, CountersOf(t)
    PROVE  CountersOf(Counted(t, rev, p))
<1>1. p.len \in Nat  BY PacketNumbers
<1>. DEFINE d == CountPacket(t[Side(rev)], p.len)
<1>2. d.pdcounter <= d.pcounter /\ d.pdcounter <= d.pbcounter
  BY <1>1, GetSide, CountPacketAgrees DEF CountersOf, Side
<1>3. Counted(t, rev, p) = [t EXCEPT ![Side(rev)] = d]  BY DEF Counted
<1>. HIDE DEF d
<1>. QED BY <1>2, <1>3 DEF CountersOf, Side, Track

LEMMA HandshakeKeeps ==
    ASSUME NEW t \in Track, NEW rev \in BOOLEAN, NEW p \in Fed, p.kind # "udp"
    PROVE  /\ CountersOf(t) => CountersOf(Handshake(t, rev, p))
           /\ SameNames(Handshake(t, rev, p), t)
           /\ Handshake(t, rev, p).state =
                 CASE p.kind = "fin" -> "FIN"
                   [] p.kind = "ack" /\ t.state = "SYN" -> "ESTABLISHED"
                   [] OTHER -> t.state
<1>1. p.kind \in TcpKind  BY DEF Fed
<1>2. CASE p.kind = "syn"
  BY <1>2 DEF Handshake, OnSynAck, OnSegment, CountersOf, SameNames, Track, Position
<1>3. CASE p.kind = "synack"
  BY <1>3 DEF Handshake, OnSynAck, OnSegment, CountersOf, SameNames, Track, Position
<1>4. CASE p.kind = "fin"
  BY <1>4 DEF Handshake, OnSynAck, OnSegment, CountersOf, SameNames, Track, Position
<1>5. CASE p.kind = "ack"
  BY <1>5 DEF Handshake, OnSynAck, OnSegment, CountersOf, SameNames, Track, Position
<1>. QED BY <1>1, <1>2, <1>3, <1>4, <1>5 DEF TcpKind

LEMMA ApplyPosKeeps ==
    ASSUME NEW t \in Track, NEW rev \in BOOLEAN, NEW p
    PROVE  /\ CountersOf(t) => CountersOf(ApplyPos(t, rev, p))
           /\ SameNames(ApplyPos(t, rev, p), t)
           /\ ApplyPos(t, rev, p).state = t.state
<1>. DEFINE d == ApplyDirect(t[Side(rev)], t.state = "SYN", p.seq, p.len)
            r == ApplyReverse(t[Side(~ rev)], p.ack)
<1>1. /\ d.pcounter = t[Side(rev)].pcounter
      /\ d.pdcounter = t[Side(rev)].pdcounter
      /\ d.pbcounter = t[Side(rev)].pbcounter
      /\ r.pcounter = t[Side(~ rev)].pcounter
      /\ r.pdcounter = t[Side(~ rev)].pdcounter
      /\ r.pbcounter = t[Side(~ rev)].pbcounter
  <2>1. t[Side(rev)] \in Position /\ t[Side(~ rev)] \in Position  BY GetSide
  <2>. QED BY <2>1, ApplyKeepsCounters
<1>. HIDE DEF d, r
<1>2. CASE rev
  <2>1. ApplyPos(t, rev, p) = [t EXCEPT !.server = d, !.client = r]
    BY <1>2 DEF ApplyPos, Side, d, r, Track
  <2>. QED BY <1>1, <1>2, <2>1 DEF CountersOf, SameNames, Track, Side
<1>3. CASE ~ rev
  <2>1. ApplyPos(t, rev, p) = [t EXCEPT !.client = d, !.server = r]
    BY <1>3 DEF ApplyPos, Side, d, r, Track
  <2>. QED BY <1>1, <1>3, <2>1 DEF CountersOf, SameNames, Track, Side
<1>. QED BY <1>2, <1>3

\* ConntrackFeedPacket keeps the counters in step, and the names unless the
\* connection begins anew; a track that it leaves in the handshake was in it,
\* or begins.
LEMMA FeedKeeps ==
    ASSUME NEW t \in Track, NEW rev \in BOOLEAN, NEW p \in Fed, now \in Nat, CountersOf(t)
    PROVE  LET f == FeedPacket(t, rev, p) IN
           /\ f \in Track /\ CountersOf(f)
           /\ SameNames(f, IF Restarts(t, p) THEN InitTrack ELSE t)
           /\ p.kind # "udp" /\ f.state = "SYN" =>
                 p.kind \in {"syn", "synack"} /\ (Restarts(t, p) \/ t.state = "SYN")
<1>. DEFINE c == Counted(t, rev, p)
            i == ReInitTrack(c, p)
            h == Handshake(i, rev, p)
            a == ApplyPos(h, rev, p)
            x == IF p.kind = "udp" THEN c ELSE a
            o == IF Restarts(t, p) THEN InitTrack ELSE t
<1>1. c \in Track /\ CountersOf(c)  BY CountedType, CountedAgrees
<1>2. c.state = t.state /\ SameNames(c, t) /\ c.client.seq0 = t.client.seq0
  <2>1. PICK d : d = CountPacket(t[Side(rev)], p.len)  OBVIOUS
  <2>2. d.seq0 = t[Side(rev)].seq0  BY <2>1, GetSide DEF CountPacket, Position
  <2>3. c = [t EXCEPT ![Side(rev)] = d]  BY <2>1 DEF Counted
  <2>. HIDE DEF c
  <2>. QED BY <2>2, <2>3 DEF Side, Track, SameNames
<1>3. Restarts(c, p) <=> Restarts(t, p)  BY <1>2 DEF Restarts
<1>. HIDE DEF c
<1>4. /\ i \in Track /\ CountersOf(i) /\ SameNames(i, o)
      /\ i.state = "SYN" => Restarts(t, p) \/ t.state = "SYN"
  BY <1>1, <1>2, <1>3, InitTrackType, InitTrackGood DEF ReInitTrack, SameNames
<1>. HIDE DEF i
<1>5. ASSUME p.kind # "udp"
      PROVE  /\ a \in Track /\ CountersOf(a) /\ SameNames(a, o)
             /\ a.state = "SYN" =>
                   p.kind \in {"syn", "synack"} /\ (Restarts(t, p) \/ t.state = "SYN")
  <2>1. /\ h \in Track /\ CountersOf(h) /\ SameNames(h, i)
        /\ h.state = CASE p.kind = "fin" -> "FIN"
                       [] p.kind = "ack" /\ i.state = "SYN" -> "ESTABLISHED"
                       [] OTHER -> i.state
    BY <1>4, <1>5, HandshakeType, HandshakeKeeps
  <2>2. p.kind \in TcpKind  BY <1>5 DEF Fed
  <2>3. h.state = "SYN" => p.kind \in {"syn", "synack"} /\ i.state = "SYN"
    BY <2>1, <2>2 DEF TcpKind
  <2>. HIDE DEF h
  <2>4. a \in Track /\ CountersOf(a) /\ SameNames(a, h) /\ a.state = h.state
    BY <2>1, ApplyPosType, ApplyPosKeeps
  <2>. QED BY <1>4, <2>1, <2>3, <2>4 DEF SameNames
<1>6. /\ x \in Track /\ CountersOf(x) /\ SameNames(x, o)
      /\ p.kind # "udp" /\ x.state = "SYN" =>
            p.kind \in {"syn", "synack"} /\ (Restarts(t, p) \/ t.state = "SYN")
  <2>1. p.kind = "udp" => ~ Restarts(t, p)  BY DEF Restarts
  <2>. QED BY <1>1, <1>2, <1>5, <2>1
<1>7. FeedPacket(t, rev, p) = Stamp(x)
  BY DEF FeedPacket, FeedTcp, a, h, i, c, x
<1>. HIDE DEF x, a, h, o
<1>8. /\ Stamp(x) \in Track /\ CountersOf(Stamp(x)) /\ Stamp(x).state = x.state
      /\ SameNames(Stamp(x), x)
  BY <1>6, StampType DEF Stamp, CountersOf, SameNames, Track
<1>. QED BY <1>6, <1>7, <1>8 DEF SameNames, o

LEMMA PlayKeeps ==
    ASSUME NEW t \in Track, NEW rev \in BOOLEAN, NEW p \in Fed, now \in Nat, CountersOf(t)
    PROVE  CountersOf(Play(t, rev, p))
<1>1. PICK f : f = FeedPacket(t, rev, p)  OBVIOUS
<1>2. f \in Track /\ CountersOf(f)  BY <1>1, FeedKeeps
<1>3. Play(t, rev, p) = Hung(f, rev, p)  BY <1>1 DEF Play, Hung
<1>. QED BY <1>2, <1>3, HungKeeps DEF CountersOf

-----------------------------------------------------------------------------
(* The invariant of the pool, and the theorems.                             *)

\* What every track of the pool satisfies.
TracksGood == \A c \in DOMAIN pool : CountersOf(pool[c])

PoolInv == TypeOK /\ OneTrackPerFlow /\ TracksGood

LEMMA InitPoolInv == Init => PoolInv
BY DEF Init, PoolInv, TypeOK, OneTrackPerFlow, TracksGood

LEMMA SwapConn ==
    ASSUME NEW c \in Conn
    PROVE  /\ Swap(c) \in Conn /\ Swap(Swap(c)) = c /\ Swap(c) # c
           /\ Swap(c).l4proto = c.l4proto
BY DEF Swap, Conn

\* A track of the pool fed a packet of its flow is as good as it was.
LEMMA PlayGood ==
    ASSUME PoolInv, NEW p \in Fed, NEW rev \in BOOLEAN, NEW t,
           \/ t = InitTrack
           \/ \E c \in DOMAIN pool : t = pool[c]
    PROVE  /\ Play(t, rev, p) \in Track
           /\ CountersOf(Play(t, rev, p))
<1>1. t \in Track  BY InitTrackType DEF PoolInv, TypeOK
<1>2. now \in Nat  BY DEF PoolInv, TypeOK
<1>3. CountersOf(t)
  BY InitTrackGood DEF PoolInv, TracksGood
<1>. QED BY <1>1, <1>2, <1>3, PlayType, PlayKeeps

\* Storing a good track under a tuple whose mirror image is absent.
LEMMA WithGood ==
    ASSUME PoolInv, NEW S \in SUBSET DOMAIN pool, NEW c \in Conn, NEW t \in Track,
           Swap(c) \notin S, CountersOf(t),
           pool' = With(S, c, t), t_last_purge' \in Nat, now' = now
    PROVE  PoolInv'
<1>1. DOMAIN pool' = S \cup {c}  BY DEF With
<1>2. /\ \A k \in S \cup {c} : pool'[k] = IF k = c THEN t ELSE pool[k]
  BY DEF With
<1>3. \A k \in S : k \in Conn /\ k \in DOMAIN pool /\ pool[k] \in Track
  BY DEF PoolInv, TypeOK
<1>4. TypeOK'
  <2>1. pool' \in [S \cup {c} -> Track]  BY <1>2, <1>3 DEF With
  <2>. QED BY <1>1, <1>3, <2>1 DEF PoolInv, TypeOK
<1>5. OneTrackPerFlow'
  <2>1. SUFFICES ASSUME NEW k \in S \cup {c}
                 PROVE  Swap(k) \notin S \cup {c}
    BY <1>1 DEF OneTrackPerFlow
  <2>2. k \in Conn  BY <1>3
  <2>3. Swap(k) \notin S
    BY <1>3 DEF PoolInv, OneTrackPerFlow
  <2>4. Swap(k) # c
    BY <2>2, SwapConn
  <2>. QED BY <2>3, <2>4
<1>6. TracksGood'
  BY <1>1, <1>2, <1>3 DEF PoolInv, TracksGood
<1>. QED BY <1>4, <1>5, <1>6 DEF PoolInv

LEMMA HandlePacketInv ==
    ASSUME PoolInv, NEW p \in Fed, HandlePacket(p)
    PROVE  PoolInv'
<1>. DEFINE S == Survivors
<1>1. S \in SUBSET DOMAIN pool  BY DEF Survivors
<1>2. /\ WellFormed(p) /\ pool' = FeedPool(S, p) /\ now' = now
      /\ t_last_purge' \in Nat
  BY DEF HandlePacket, LastPurge, PoolInv, TypeOK
<1>3. /\ p.conn \in Conn /\ Swap(p.conn) \in Conn /\ Swap(Swap(p.conn)) = p.conn
      /\ Swap(p.conn).l4proto = p.conn.l4proto
  BY SwapConn DEF Fed
<1>. HIDE DEF S
<1>4. CASE FoundDirect(S, p)
  <2>. DEFINE t == Play(pool[p.conn], FALSE, p)
  <2>1. p.conn \in DOMAIN pool /\ p.conn \in S  BY <1>1, <1>4 DEF FoundDirect
  <2>2. pool' = With(S, p.conn, t)
    BY <1>2, <1>4 DEF FeedPool, FoundDirect, FoundReverse, NotFound
  <2>3. Swap(p.conn) \notin S
    BY <1>1, <2>1 DEF PoolInv, OneTrackPerFlow
  <2>4. t \in Track /\ CountersOf(t)
    BY <2>1, PlayGood
  <2>. QED BY <1>1, <1>2, <1>3, <2>2, <2>3, <2>4, WithGood
<1>5. CASE FoundReverse(S, p)
  <2>. DEFINE c == Swap(p.conn)
              t == Play(pool[Swap(p.conn)], TRUE, p)
  <2>1. c \in DOMAIN pool /\ c \in S  BY <1>1, <1>5 DEF FoundReverse
  <2>2. pool' = With(S, c, t)
    BY <1>2, <1>5 DEF FeedPool, FoundDirect, FoundReverse, NotFound
  <2>3. Swap(c) \notin S
    BY <1>1, <1>3, <2>1 DEF PoolInv, OneTrackPerFlow
  <2>4. t \in Track /\ CountersOf(t)
    BY <2>1, PlayGood
  <2>. QED BY <1>1, <1>2, <1>3, <2>2, <2>3, <2>4, WithGood
<1>6. CASE NotFound(S, p) /\ Opens(p)
  <2>. DEFINE rev == p.kind = "synack"
              c == IF rev THEN Swap(p.conn) ELSE p.conn
              t == Play(InitTrack, rev, p)
  <2>1. pool' = With(S, c, t)
    BY <1>2, <1>6 DEF FeedPool, FoundDirect, FoundReverse, NotFound
  <2>2. c \in Conn  BY <1>3
  <2>3. Swap(c) \notin S  BY <1>3, <1>6 DEF NotFound
  <2>4. t \in Track /\ CountersOf(t)
    BY PlayGood
  <2>. HIDE DEF c, t
  <2>. QED BY <1>1, <1>2, <2>1, <2>2, <2>3, <2>4, WithGood
<1>7. CASE NotFound(S, p) /\ ~ Opens(p)
  <2>1. pool' = [k \in S |-> pool[k]]
    BY <1>2, <1>7 DEF FeedPool, FoundDirect, FoundReverse, NotFound
  <2>2. TypeOK'
    BY <1>1, <1>2, <2>1 DEF PoolInv, TypeOK
  <2>3. OneTrackPerFlow' /\ TracksGood'
    BY <1>1, <2>1 DEF PoolInv, OneTrackPerFlow, TracksGood
  <2>. QED BY <2>2, <2>3 DEF PoolInv
<1>. QED BY <1>4, <1>5, <1>6, <1>7 DEF FoundDirect, FoundReverse, NotFound

LEMMA NextPoolInv == PoolInv /\ [Next]_vars => PoolInv'
<1>. SUFFICES ASSUME PoolInv, [Next]_vars  PROVE PoolInv'
  OBVIOUS
<1>1. ASSUME NEW p \in Packet, HandlePacket(p)  PROVE PoolInv'
  BY <1>1, PacketsAreFed, HandlePacketInv
<1>2. CASE Tick \/ SetClock
  <2>1. pool' = pool /\ t_last_purge' = t_last_purge /\ now' \in Nat \ {0}
    BY <1>2 DEF Tick, SetClock, PoolInv, TypeOK
  <2>. QED BY <2>1 DEF PoolInv, TypeOK, OneTrackPerFlow, TracksGood
<1>3. CASE UNCHANGED vars
  BY <1>3 DEF vars, PoolInv, TypeOK, OneTrackPerFlow, TracksGood
<1>. QED BY <1>1, <1>2, <1>3 DEF Next

LEMMA PoolInvariant == Spec => []PoolInv
<1>. QED BY InitPoolInv, NextPoolInv, PTL DEF Spec

(* The pool only ever holds well-formed tracks under well-formed tuples:    *)
(* no packet, restart or purge of conntrack.c leaves anything else behind.  *)
THEOREM TypeCorrect == Spec => []TypeOK
<1>1. PoolInv => TypeOK  BY DEF PoolInv
<1>. QED BY <1>1, PoolInvariant, PTL

(* However packets of both directions, restarts and purges interleave, a    *)
(* conversation never ends up with a track per direction.                   *)
THEOREM FlowHasOneTrack == Spec => []OneTrackPerFlow
<1>1. PoolInv => OneTrackPerFlow  BY DEF PoolInv
<1>. QED BY <1>1, PoolInvariant, PTL

(* The three counters of a direction stay in step through every restart.    *)
THEOREM CountersAgreeAlways == Spec => []CountersAgree
<1>1. PoolInv => CountersAgree
  BY DEF PoolInv, TracksGood, CountersAgree, CountersOf
<1>. QED BY <1>1, PoolInvariant, PTL

-----------------------------------------------------------------------------
(* How long a silent track stays.                                           *)

LEMMA PlayStamps ==
    ASSUME NEW t \in Track, NEW rev \in BOOLEAN, NEW p \in Fed, now \in Nat
    PROVE  Play(t, rev, p).t_last = now
<1>. DEFINE f == IF p.kind = "udp" THEN Counted(t, rev, p) ELSE FeedTcp(Counted(t, rev, p), rev, p)
            g == Stamp(f)
<1>1. f \in Track  BY CountedType, FeedTcpType
<1>2. Play(t, rev, p) = Hung(g, rev, p)  BY DEF Play, Hung, FeedPacket
<1>. HIDE DEF f
<1>3. g.t_last = now /\ g \in Track  BY <1>1, StampType DEF Stamp, Track
<1>. HIDE DEF g
<1>. QED BY <1>2, <1>3, HungKeeps

\* What a packet leaves in the pool: the track it is of, stamped, and others
\* as they were.
LEMMA LeftInPool ==
    ASSUME PoolInv, NEW p \in Fed, HandlePacket(p), NEW c \in DOMAIN pool'
    PROVE  pool'[c].t_last = now \/ (c \in Survivors /\ pool'[c] = pool[c])
<1>. DEFINE S == Survivors
<1>1. S \in SUBSET DOMAIN pool /\ pool' = FeedPool(S, p) /\ now \in Nat
  BY DEF Survivors, HandlePacket, PoolInv, TypeOK
<1>2. /\ InitTrack \in Track /\ \A k \in S : pool[k] \in Track
  BY <1>1, InitTrackType DEF PoolInv, TypeOK
<1>. HIDE DEF S
<1>3. ASSUME NEW k, NEW t \in Track, NEW rev \in BOOLEAN, pool' = With(S, k, Play(t, rev, p))
      PROVE  pool'[c].t_last = now \/ (c \in S /\ pool'[c] = pool[c])
  <2>1. Play(t, rev, p).t_last = now  BY <1>1, PlayStamps
  <2>. QED BY <1>3, <2>1 DEF With
<1>4. CASE FoundDirect(S, p)
  <2>1. pool' = With(S, p.conn, Play(pool[p.conn], FALSE, p)) /\ pool[p.conn] \in Track
    BY <1>1, <1>2, <1>4 DEF FeedPool, FoundDirect, FoundReverse, NotFound
  <2>. QED BY <1>3, <2>1 DEF S
<1>5. CASE FoundReverse(S, p)
  <2>1. /\ pool' = With(S, Swap(p.conn), Play(pool[Swap(p.conn)], TRUE, p))
        /\ pool[Swap(p.conn)] \in Track
    BY <1>1, <1>2, <1>5 DEF FeedPool, FoundDirect, FoundReverse, NotFound
  <2>. QED BY <1>3, <2>1 DEF S
<1>6. CASE NotFound(S, p) /\ Opens(p)
  <2>1. pool' = With(S, IF p.kind = "synack" THEN Swap(p.conn) ELSE p.conn,
                     Play(InitTrack, p.kind = "synack", p))
    BY <1>1, <1>6 DEF FeedPool, FoundDirect, FoundReverse, NotFound
  <2>2. (p.kind = "synack") \in BOOLEAN  OBVIOUS
  <2>. QED BY <1>2, <1>3, <2>1, <2>2 DEF S
<1>7. CASE NotFound(S, p) /\ ~ Opens(p)
  <2>1. pool' = [k \in S |-> pool[k]]
    BY <1>1, <1>7 DEF FeedPool, FoundDirect, FoundReverse, NotFound
  <2>. QED BY <2>1 DEF S
<1>. QED BY <1>4, <1>5, <1>6, <1>7 DEF FoundDirect, FoundReverse, NotFound

\* Every track was fed since the last purge, or was not due at it.
Kept(c) ==
    t_last_purge <= pool[c].t_last \/ t_last_purge - pool[c].t_last < Timeout(c)

IdleInv == PoolInv /\ (~ set_back => t_last_purge <= now /\ \A c \in DOMAIN pool : Kept(c))

LEMMA TimeoutIsNat ==
    ASSUME PoolInv, NEW c \in DOMAIN pool
    PROVE  Timeout(c) \in Nat /\ pool[c].t_last \in Nat
<1>1. pool[c] \in Track /\ c \in Conn  BY DEF PoolInv, TypeOK
<1>2. pool[c].state \in State /\ pool[c].t_last \in Nat  BY <1>1 DEF Track
<1>. QED BY <1>2, ConntrackAssumption DEF Timeout, State

LEMMA IdleInit == MCInit => IdleInv
<1>. SUFFICES ASSUME MCInit PROVE IdleInv
  OBVIOUS
<1>1. PoolInv  BY InitPoolInv DEF MCInit
<1>2. t_last_purge <= now /\ DOMAIN pool = {}  BY DEF MCInit, Init
<1>. QED BY <1>1, <1>2 DEF IdleInv

LEMMA HandledKept ==
    ASSUME IdleInv, NEW p \in Fed, HandlePacket(p), ~ set_back
    PROVE  /\ (t_last_purge <= now)' /\ \A c \in DOMAIN pool' : Kept(c)'
           /\ \A c \in DOMAIN pool' : (Idle(c) < Timeout(c) + PurgeInterval)'
<1>1. /\ PoolInv /\ t_last_purge <= now /\ now \in Nat /\ t_last_purge \in Nat
      /\ \A c \in DOMAIN pool : Kept(c)
  BY DEF IdleInv, PoolInv, TypeOK
<1>2. now' = now /\ t_last_purge' = LastPurge /\ PurgeInterval \in Nat \ {0}
  BY ConntrackAssumption DEF HandlePacket
<1>3. PoolInv'  BY <1>1, HandlePacketInv
<1>4. t_last_purge' <= now /\ t_last_purge' \in Nat  BY <1>1, <1>2 DEF LastPurge
<1>5. now - t_last_purge' < PurgeInterval \/ PurgeDue
  BY <1>1, <1>2 DEF LastPurge, PurgeDue
<1>6. ASSUME NEW c \in DOMAIN pool'
      PROVE  Kept(c)' /\ (Idle(c) < Timeout(c) + PurgeInterval)'
  <2>1. PICK t : t = pool'[c]  OBVIOUS
  <2>2. PICK m \in Nat : m = Timeout(c)' /\ t.t_last \in Nat
    <3>1. pool'[c] \in Track /\ c \in Conn  BY <1>3 DEF PoolInv, TypeOK
    <3>2. pool'[c].state \in State /\ pool'[c].t_last \in Nat  BY <3>1 DEF Track
    <3>3. Timeout(c)' \in Nat  BY <3>1, <3>2, ConntrackAssumption DEF Timeout, State
    <3>. QED BY <2>1, <3>2, <3>3
  <2>3. SUFFICES /\ t_last_purge' <= t.t_last \/ t_last_purge' - t.t_last < m
                 /\ now - t.t_last < m + PurgeInterval
    BY <1>2, <2>1, <2>2 DEF Kept, Idle
  <2>4. CASE t.t_last = now
    BY <1>1, <1>2, <1>4, <2>2, <2>4
  <2>5. CASE c \in Survivors /\ t = pool[c]
    <3>1. c \in DOMAIN pool /\ ~ (PurgeDue /\ Expired(c))  BY <2>5 DEF Survivors
    <3>2. Timeout(c) = m  BY <2>1, <2>2, <2>5 DEF Timeout
    <3>3. t_last_purge <= t.t_last \/ t_last_purge - t.t_last < m
      BY <1>1, <2>5, <3>1, <3>2 DEF Kept
    <3>4. CASE PurgeDue
      <4>1. now - t.t_last < m
        BY <1>1, <2>2, <2>5, <3>1, <3>2, <3>4 DEF Expired, Idle
      <4>2. t_last_purge' = now  BY <1>2, <3>4 DEF LastPurge
      <4>. QED BY <1>1, <1>2, <2>2, <4>1, <4>2
    <3>5. CASE ~ PurgeDue
      <4>1. t_last_purge' = t_last_purge /\ now - t_last_purge < PurgeInterval
        BY <1>1, <1>2, <3>5 DEF LastPurge, PurgeDue
      <4>. QED BY <1>1, <1>2, <2>2, <3>3, <4>1
    <3>. QED BY <3>4, <3>5
  <2>. QED BY <1>1, <2>1, <2>4, <2>5, LeftInPool
<1>. QED BY <1>2, <1>4, <1>6

LEMMA IdleStep == IdleInv /\ [MCNext]_MCVars => IdleInv' /\ [~ set_back' => IdleWithin]_MCVars
<1>. SUFFICES ASSUME IdleInv, [MCNext]_MCVars
              PROVE  IdleInv' /\ [~ set_back' => IdleWithin]_MCVars
  OBVIOUS
<1>1. PoolInv'
  BY NextPoolInv DEF IdleInv, MCNext, Handle, Advance, SetBack, MCVars, Next
<1>2. CASE Handle
  <2>1. PICK p \in Packet : HandlePacket(p)  BY <1>2 DEF Handle
  <2>2. p \in Fed /\ set_back' = set_back  BY <1>2, PacketsAreFed DEF Handle
  <2>. QED BY <1>1, <2>1, <2>2, HandledKept DEF IdleInv, IdleWithin
<1>3. CASE Advance
  <2>1. now' = now + 1 /\ pool' = pool /\ t_last_purge' = t_last_purge /\ set_back' = set_back
    BY <1>3 DEF Advance, Tick
  <2>2. now \in Nat /\ t_last_purge \in Nat  BY DEF IdleInv, PoolInv, TypeOK
  <2>3. \A c : Kept(c)' <=> Kept(c)  BY <2>1 DEF Kept, Timeout
  <2>4. now' # now  BY <2>1, <2>2
  <2>. QED BY <1>1, <2>1, <2>2, <2>3, <2>4 DEF IdleInv, IdleWithin
<1>4. CASE SetBack
  BY <1>1, <1>4 DEF SetBack, IdleInv
<1>5. CASE UNCHANGED MCVars
  <2>1. UNCHANGED <<pool, t_last_purge, now, set_back>>  BY <1>5 DEF MCVars, vars
  <2>2. \A c : Kept(c)' <=> Kept(c)  BY <2>1 DEF Kept, Timeout
  <2>. QED BY <1>1, <1>5, <2>1, <2>2 DEF IdleInv
<1>. QED BY <1>2, <1>3, <1>4, <1>5 DEF MCNext

(* Rate limiting and the packets that drive it delay a purge and forget     *)
(* none: as long as the clock is not set back, a track that a packet leaves *)
(* was silent for less than its timeout and one interval.                   *)
THEOREM SilentTracksGo == MCSpec => IdleIsBounded
<1>1. IdleInv /\ [MCNext]_MCVars => IdleInv'  BY IdleStep
<1>2. IdleInv /\ [MCNext]_MCVars => [~ set_back' => IdleWithin]_MCVars  BY IdleStep
<1>. QED BY IdleInit, <1>1, <1>2, PTL DEF MCSpec, IdleIsBounded

-----------------------------------------------------------------------------
(* What a track knows of the host its connection goes to.                   *)

Names == [cache : Host \cup {NoHost}, payload : Host \cup {NoHost}]

\* A track t under the tuple c has the names that w says it was told.
Named(t, w, c) ==
    /\ t.searched
    /\ t.discovered <=> w.payload # NoHost
    /\ t.hostname = FirstOf(w.payload, w.cache)
    /\ c.l4proto = "tcp" /\ t.state = "SYN" => w.payload = NoHost

\* What a packet tells on its own, and to one that knows w.
Told(c, p) ==
    [cache |-> IF p.conn = c THEN p.cached ELSE NoHost,
     payload |-> IF p.conn = c THEN p.host ELSE NoHost]

ToldMore(w, c, p) == [w EXCEPT !.payload = FirstOf(@, Told(c, p).payload)]

NamesInv ==
    /\ PoolInv
    /\ DOMAIN told = DOMAIN pool
    /\ \A c \in DOMAIN pool : told[c] \in Names /\ Named(pool[c], told[c], c)

LEMMA PlayNamed ==
    ASSUME NEW p \in Fed, WellFormed(p), NEW c \in Conn, c.l4proto = p.conn.l4proto,
           NEW rev \in BOOLEAN, rev <=> p.conn # c, now \in Nat,
           NEW t \in Track, CountersOf(t), NEW w, NEW v,
           \/ t = InitTrack /\ v = Told(c, p)
           \/ /\ w \in Names /\ Named(t, w, c)
              /\ v = IF Restarts(t, p) THEN Told(c, p) ELSE ToldMore(w, c, p)
    PROVE  v \in Names /\ Named(Play(t, rev, p), v, c)
<1>. DEFINE f == FeedPacket(t, rev, p)
            u == Play(t, rev, p)
            o == IF Restarts(t, p) THEN InitTrack ELSE t
<1>1. /\ f \in Track /\ SameNames(f, o)
      /\ p.kind # "udp" /\ f.state = "SYN" =>
            p.kind \in {"syn", "synack"} /\ (Restarts(t, p) \/ t.state = "SYN")
  BY FeedKeeps
<1>2. u = Hung(f, rev, p)  BY DEF Play, Hung
<1>. HIDE DEF f, u
<1>3. /\ u.state = f.state /\ u.searched
      /\ u.discovered <=> (f.discovered \/ (~ rev /\ p.host # NoHost))
      /\ u.hostname = IF ~ rev /\ p.host # NoHost /\ ~ f.discovered THEN p.host
                      ELSE IF ~ f.searched /\ ~ rev /\ f.hostname = NoHost THEN p.cached
                      ELSE f.hostname
  BY <1>1, <1>2, HungKeeps
<1>4. p.host \in Host \cup {NoHost} /\ p.cached \in Host \cup {NoHost}  BY DEF Fed
<1>5. Told(c, p) \in Names  BY <1>4 DEF Told, Names
<1>6. p.kind \in {"syn", "synack"} => p.host = NoHost  BY DEF WellFormed
<1>7. c.l4proto = "tcp" => p.kind # "udp"  BY DEF WellFormed
<1>8. CASE o = InitTrack /\ v = Told(c, p)
  <2>1. f.hostname = NoHost /\ ~ f.searched /\ ~ f.discovered
    BY <1>1, <1>8 DEF SameNames, InitTrack
  <2>2. /\ v.cache = IF rev THEN NoHost ELSE p.cached
        /\ v.payload = IF rev THEN NoHost ELSE p.host
    BY <1>8 DEF Told
  <2>3. u.hostname = FirstOf(v.payload, v.cache) /\ (u.discovered <=> v.payload # NoHost)
    BY <1>3, <2>1, <2>2 DEF FirstOf
  <2>4. c.l4proto = "tcp" /\ u.state = "SYN" => v.payload = NoHost
    BY <1>1, <1>3, <1>6, <1>7, <2>2
  <2>. QED BY <1>3, <1>5, <1>8, <2>3, <2>4 DEF Named, u
<1>9. CASE o = t /\ ~ Restarts(t, p) /\ w \in Names /\ Named(t, w, c) /\ v = ToldMore(w, c, p)
  <2>1. /\ f.hostname = FirstOf(w.payload, w.cache) /\ f.searched
        /\ f.discovered <=> w.payload # NoHost
    BY <1>1, <1>9 DEF SameNames, Named
  <2>2. /\ v \in Names /\ v.cache = w.cache
        /\ v.payload = FirstOf(w.payload, IF rev THEN NoHost ELSE p.host)
    BY <1>4, <1>9 DEF Told, ToldMore, Names, FirstOf
  <2>3. u.hostname = FirstOf(v.payload, v.cache) /\ (u.discovered <=> v.payload # NoHost)
    BY <1>3, <2>1, <2>2 DEF FirstOf
  <2>4. c.l4proto = "tcp" /\ u.state = "SYN" => v.payload = NoHost
    <3>1. SUFFICES ASSUME c.l4proto = "tcp", u.state = "SYN" PROVE v.payload = NoHost
      OBVIOUS
    <3>2. p.host = NoHost /\ t.state = "SYN"  BY <1>1, <1>3, <1>6, <1>7, <1>9, <3>1
    <3>. QED BY <1>9, <2>2, <3>1, <3>2 DEF Named, FirstOf
  <2>. QED BY <1>3, <2>2, <2>3, <2>4 DEF Named, u
<1>10. ~ Restarts(InitTrack, p)  BY DEF Restarts, InitTrack
<1>. QED BY <1>8, <1>9, <1>10

\* The track of one connection with the packet, and the others as they were.
LEMMA WithNamed ==
    ASSUME NamesInv, PoolInv', NEW p \in Fed, NEW S \in SUBSET DOMAIN pool, S = Survivors,
           NEW c \in {p.conn, Swap(p.conn)}, NEW u,
           \A k \in S \cap {p.conn, Swap(p.conn)} : k = c,
           pool' = With(S, c, u), Telling(p),
           Tells(c, p) \in Names /\ Named(u, Tells(c, p), c)
    PROVE  NamesInv'
<1>1. DOMAIN pool' = S \cup {c} /\ \A k \in S \cup {c} : pool'[k] = IF k = c THEN u ELSE pool[k]
  BY DEF With
<1>2. /\ DOMAIN told' = DOMAIN pool'
      /\ \A k \in DOMAIN pool' :
            told'[k] = IF k \in {p.conn, Swap(p.conn)} THEN Tells(k, p) ELSE told[k]
  BY DEF Telling
<1>3. ASSUME NEW k \in S \cup {c} PROVE told'[k] \in Names /\ Named(pool'[k], told'[k], k)
  <2>1. CASE k = c
    BY <1>1, <1>2, <2>1
  <2>2. CASE k # c
    <3>1. k \in DOMAIN pool /\ k \notin {p.conn, Swap(p.conn)}  BY <1>3, <2>2
    <3>. QED BY <1>1, <1>2, <1>3, <2>2, <3>1 DEF NamesInv
  <2>. QED BY <2>1, <2>2
<1>. QED BY <1>1, <1>2, <1>3 DEF NamesInv

LEMMA HandleNamed ==
    ASSUME NamesInv, NEW p \in Fed, HandlePacket(p), Telling(p)
    PROVE  NamesInv'
<1>. DEFINE S == Survivors
<1>0. PoolInv /\ PoolInv'  BY HandlePacketInv DEF NamesInv
<1>1. S \in SUBSET DOMAIN pool /\ S = Survivors  BY DEF Survivors
<1>2. WellFormed(p) /\ pool' = FeedPool(S, p) /\ now \in Nat
  BY <1>0 DEF HandlePacket, PoolInv, TypeOK
<1>3. /\ p.conn \in Conn /\ Swap(p.conn) \in Conn /\ Swap(Swap(p.conn)) = p.conn
      /\ Swap(p.conn) # p.conn /\ Swap(p.conn).l4proto = p.conn.l4proto
  BY SwapConn DEF Fed
<1>4. \A k \in S : pool[k] \in Track /\ CountersOf(pool[k]) /\ Swap(k) \notin S
  BY <1>0, <1>1 DEF PoolInv, TypeOK, TracksGood, OneTrackPerFlow
<1>5. ASSUME NEW c \in {p.conn, Swap(p.conn)}
      PROVE  Tells(c, p) = IF Begins(c, p) THEN Told(c, p) ELSE ToldMore(told[c], c, p)
  BY DEF Tells, Told, ToldMore
<1>6. \A c : Begins(c, p) <=> (c \notin S \/ Restarts(pool[c], p))
  BY <1>1 DEF Begins
<1>. HIDE DEF S
<1>7. ASSUME NEW c \in S \cap {p.conn, Swap(p.conn)}, NEW rev \in BOOLEAN, rev <=> p.conn # c,
             pool' = With(S, c, Play(pool[c], rev, p))
      PROVE  NamesInv'
  <2>. DEFINE v == Tells(c, p)
  <2>1. v = IF Restarts(pool[c], p) THEN Told(c, p) ELSE ToldMore(told[c], c, p)
    BY <1>5, <1>6, <1>7
  <2>2. c \in Conn /\ c.l4proto = p.conn.l4proto /\ pool[c] \in Track /\ CountersOf(pool[c])
    BY <1>3, <1>4, <1>7
  <2>3. told[c] \in Names /\ Named(pool[c], told[c], c)
    BY <1>1, <1>7 DEF NamesInv
  <2>. HIDE DEF v
  <2>4. v \in Names /\ Named(Play(pool[c], rev, p), v, c)
    BY <1>2, <1>7, <2>1, <2>2, <2>3, PlayNamed
  <2>5. \A k \in S \cap {p.conn, Swap(p.conn)} : k = c
    BY <1>3, <1>4, <1>7
  <2>. QED BY <1>0, <1>1, <1>7, <2>4, <2>5, WithNamed DEF v
<1>8. CASE FoundDirect(S, p)
  <2>1. pool' = With(S, p.conn, Play(pool[p.conn], FALSE, p)) /\ p.conn \in S
    BY <1>2, <1>8 DEF FeedPool, FoundDirect, FoundReverse, NotFound
  <2>. QED BY <1>7, <2>1
<1>9. CASE FoundReverse(S, p)
  <2>1. /\ pool' = With(S, Swap(p.conn), Play(pool[Swap(p.conn)], TRUE, p))
        /\ Swap(p.conn) \in S
    BY <1>2, <1>9 DEF FeedPool, FoundDirect, FoundReverse, NotFound
  <2>. QED BY <1>3, <1>7, <2>1
<1>10. CASE NotFound(S, p) /\ Opens(p)
  <2>. DEFINE rev == p.kind = "synack"
              c == IF rev THEN Swap(p.conn) ELSE p.conn
              v == Tells(c, p)
  <2>1. pool' = With(S, c, Play(InitTrack, rev, p))
    BY <1>2, <1>10 DEF FeedPool, FoundDirect, FoundReverse, NotFound
  <2>2. c \in Conn /\ c.l4proto = p.conn.l4proto /\ c \in {p.conn, Swap(p.conn)}
        /\ (rev <=> p.conn # c) /\ rev \in BOOLEAN
    BY <1>3
  <2>3. \A k \in S \cap {p.conn, Swap(p.conn)} : k = c
    BY <1>10 DEF NotFound
  <2>. HIDE DEF rev, c
  <2>4. c \notin S  BY <1>10, <2>2 DEF NotFound
  <2>5. v = Told(c, p)  BY <1>5, <1>6, <2>2, <2>4
  <2>. HIDE DEF v
  <2>6. v \in Names /\ Named(Play(InitTrack, rev, p), v, c)
    BY <1>2, <2>2, <2>5, InitTrackType, InitTrackGood, PlayNamed
  <2>. QED BY <1>0, <1>1, <2>1, <2>2, <2>3, <2>6, WithNamed DEF v
<1>11. CASE NotFound(S, p) /\ ~ Opens(p)
  <2>1. pool' = [k \in S |-> pool[k]]
    BY <1>2, <1>11 DEF FeedPool, FoundDirect, FoundReverse, NotFound
  <2>2. \A k \in S : k \notin {p.conn, Swap(p.conn)}  BY <1>11 DEF NotFound
  <2>3. /\ DOMAIN told' = S
        /\ \A k \in S : told'[k] = told[k] /\ pool'[k] = pool[k] /\ k \in DOMAIN pool
    BY <1>1, <2>1, <2>2 DEF Telling
  <2>. QED BY <1>0, <2>1, <2>3 DEF NamesInv
<1>. QED BY <1>8, <1>9, <1>10, <1>11 DEF FoundDirect, FoundReverse, NotFound

LEMMA NamesStep == NamesInv /\ [MCNext]_MCVars => NamesInv'
<1>. SUFFICES ASSUME NamesInv, [MCNext]_MCVars PROVE NamesInv'
  OBVIOUS
<1>1. PoolInv'
  BY NextPoolInv DEF NamesInv, MCNext, Handle, Advance, SetBack, MCVars, Next
<1>2. CASE Handle
  <2>1. PICK p \in Packet : HandlePacket(p) /\ Telling(p)  BY <1>2 DEF Handle
  <2>2. p \in Fed  BY <2>1, PacketsAreFed
  <2>. QED BY <2>1, <2>2, HandleNamed
<1>3. CASE Advance \/ SetBack \/ UNCHANGED MCVars
  <2>1. pool' = pool /\ told' = told
    BY <1>3 DEF Advance, SetBack, Tick, SetClock, MCVars, vars
  <2>. QED BY <1>1, <2>1 DEF NamesInv
<1>. QED BY <1>2, <1>3 DEF MCNext

(* However packets, restarts and purges interleave on a tuple that one      *)
(* connection uses after the other: the name on its track is the first one  *)
(* that the client's payloads told in this connection, else what the IP     *)
(* cache said at its first packet, and in a handshake only the latter.      *)
THEOREM HandshakeForgetsHost == MCSpec => []HandshakeForgets
<1>1. MCInit => NamesInv
  BY InitPoolInv DEF MCInit, Init, NamesInv
<1>2. NamesInv => HandshakeForgets
  BY DEF NamesInv, HandshakeForgets, Named
<1>. QED BY <1>1, <1>2, NamesStep, PTL DEF MCSpec


-----------------------------------------------------------------------------
(* What one TCP packet makes of the two positions of a track.               *)

Moved(x, y, syn, seq, n) ==
    LET end == Plus(seq, n) IN
    /\ y.seq0 = x.seq0 /\ y.seq_last = seq /\ y.pos = end
    /\ y.uppos = IF syn \/ (n > 0 /\ ~ TopBit(Diff(end, x.uppos))) THEN end ELSE x.uppos
    /\ y.uppos_prev = IF syn THEN end ELSE IF n > 0 THEN x.uppos ELSE x.uppos_prev
    /\ y.rseq_over_2G = (x.rseq_over_2G \/ TopBit(Diff(seq, x.seq0)))

Acked(x, y, ack) ==
    /\ y.seq0 = x.seq0 /\ y.seq_last = ack /\ y.pos = ack
    /\ y.uppos = x.uppos /\ y.uppos_prev = x.uppos_prev
    /\ y.rseq_over_2G = (x.rseq_over_2G \/ TopBit(Diff(ack, x.seq0)))

LEMMA DirectMoves ==
    ASSUME NEW d \in Position, NEW syn \in BOOLEAN, NEW seq \in Seq32, NEW n \in Nat
    PROVE  Moved(d, ApplyDirect(d, syn, seq, n), syn, seq, n)
<1>. DEFINE end == Plus(seq, n)
            fwd == ~ TopBit(Diff(end, d.uppos))
            prv == IF syn THEN end ELSE IF n > 0 THEN d.uppos ELSE d.uppos_prev
            upp == IF syn \/ (n > 0 /\ fwd) THEN end ELSE d.uppos
            e == [d EXCEPT !.seq_last = seq, !.pos = end, !.uppos_prev = prv, !.uppos = upp]
<1>1. ApplyDirect(d, syn, seq, n) = Latch2G(e)  BY DEF ApplyDirect
<1>2. /\ e.seq0 = d.seq0 /\ e.seq_last = seq /\ e.pos = end /\ e.uppos_prev = prv
      /\ e.uppos = upp /\ e.rseq_over_2G = d.rseq_over_2G /\ DOMAIN e = DOMAIN d
  <2>. HIDE DEF end, prv, upp
  <2>. QED BY DEF Position
<1>3. DOMAIN d = {"pcounter", "pdcounter", "pbcounter", "pos", "uppos", "uppos_prev",
                  "seq_last", "seq0", "rseq_over_2G"}
  BY DEF Position
<1>. HIDE DEF e, upp, prv
<1>4. /\ Latch2G(e).seq0 = e.seq0 /\ Latch2G(e).seq_last = e.seq_last /\ Latch2G(e).pos = e.pos
      /\ Latch2G(e).uppos = e.uppos /\ Latch2G(e).uppos_prev = e.uppos_prev
      /\ Latch2G(e).rseq_over_2G = (e.rseq_over_2G \/ TopBit(Diff(e.seq_last, e.seq0)))
  BY <1>2, <1>3 DEF Latch2G
<1>. QED BY <1>1, <1>2, <1>4 DEF Moved, upp, prv

LEMMA ReverseAcks ==
    ASSUME NEW d \in Position, NEW ack \in Seq32
    PROVE  Acked(d, ApplyReverse(d, ack), ack)
BY DEF Acked, ApplyReverse, Latch2G, Position

\* The track as ConntrackFeedPacket hands it to ConntrackApplyPos.
Shaken(t, rev, p) == Handshake(ReInitTrack(Counted(t, rev, p), p), rev, p)

LEMMA PlayMoves ==
    ASSUME NEW t \in Track, NEW rev \in BOOLEAN, NEW p \in Fed, p.kind # "udp", now \in Nat
    PROVE  LET h == Shaken(t, rev, p)
               u == Play(t, rev, p)
           IN  /\ h \in Track /\ u \in Track /\ u.state = h.state
               /\ Moved(h[Side(rev)], u[Side(rev)], h.state = "SYN", p.seq, p.len)
               /\ Acked(h[Side(~ rev)], u[Side(~ rev)], p.ack)
<1>. DEFINE c == Counted(t, rev, p)
            h == Shaken(t, rev, p)
            d == ApplyDirect(h[Side(rev)], h.state = "SYN", p.seq, p.len)
            r == ApplyReverse(h[Side(~ rev)], p.ack)
            a == ApplyPos(h, rev, p)
            u == Play(t, rev, p)
<1>1. c \in Track  BY CountedType
<1>2. ReInitTrack(c, p) \in Track  BY <1>1, InitTrackType DEF ReInitTrack
<1>3. h \in Track  BY <1>2, HandshakeType DEF Shaken
<1>4. u \in Track  BY PlayType
<1>5. u = Hung(Stamp(a), rev, p)
  BY DEF Play, Hung, FeedPacket, FeedTcp, Shaken
<1>6. p.seq \in Seq32 /\ p.ack \in Seq32 /\ p.len \in Nat  BY PacketNumbers
<1>. HIDE DEF h, c
<1>7. h[Side(rev)] \in Position /\ h[Side(~ rev)] \in Position  BY <1>3, GetSide
<1>8. Moved(h[Side(rev)], d, h.state = "SYN", p.seq, p.len)
  <2>1. (h.state = "SYN") \in BOOLEAN  OBVIOUS
  <2>. QED BY <1>6, <1>7, <2>1, DirectMoves
<1>9. Acked(h[Side(~ rev)], r, p.ack)  BY <1>6, <1>7, ReverseAcks
<1>10. a \in Track  BY <1>3, ApplyPosType
<1>11. a[Side(rev)] = d /\ a[Side(~ rev)] = r /\ a.state = h.state
  <2>1. a = [h EXCEPT ![Side(rev)] = d, ![Side(~ rev)] = r]
    BY <1>3 DEF ApplyPos, Side, Track
  <2>. HIDE DEF a, d, r
  <2>. QED BY <1>3, <2>1 DEF Track, Side
<1>. HIDE DEF a, d, r
<1>12. /\ Stamp(a).client = a.client /\ Stamp(a).server = a.server /\ Stamp(a).state = a.state
       /\ Stamp(a) \in Track
  BY <1>10, StampType DEF Stamp, Track
<1>. DEFINE b == Stamp(a)
<1>. HIDE DEF b, u
<1>13. u.client = b.client /\ u.server = b.server /\ u.state = b.state
  <2>1. b \in Track /\ u = Hung(b, rev, p)  BY <1>5, <1>12 DEF b
  <2>. QED BY <2>1, HungKeeps
<1>14. u[Side(rev)] = d /\ u[Side(~ rev)] = r /\ u.state = h.state
  BY <1>11, <1>12, <1>13 DEF Side, b
<1>. QED BY <1>3, <1>4, <1>8, <1>9, <1>14 DEF h, u

\* What the handshake leaves in the fields that the ends know.
LEMMA ShakenBy ==
    ASSUME NEW t \in Track, NEW rev \in BOOLEAN, NEW p \in Fed
    PROVE  LET h == Shaken(t, rev, p) IN
           /\ p.kind = "syn" =>
                 /\ h.state = "SYN" /\ h.client.seq0 = p.seq
                 /\ t.state = "SYN" => h.server.seq0 = t.server.seq0
           /\ p.kind = "synack" /\ ~ Restarts(t, p) =>
                 /\ h.state = t.state
                 /\ h.client.seq0 = (IF t.client.seq0 = 0 THEN Diff(p.ack, 1) ELSE t.client.seq0)
                 /\ h.server.seq0 = p.seq
                 /\ \A s \in Sides : h[s].uppos = t[s].uppos /\ h[s].rseq_over_2G = t[s].rseq_over_2G
           /\ p.kind \in {"fin", "ack"} =>
                 /\ h.state # "SYN"
                 /\ h.client.seq0 = t.client.seq0
                 /\ h.server.seq0 = (IF p.kind = "ack" /\ t.state = "SYN" /\ ~ rev /\ t.server.seq0 = 0
                                     THEN Diff(p.ack, 1) ELSE t.server.seq0)
                 /\ \A s \in Sides : h[s].uppos = t[s].uppos /\ h[s].rseq_over_2G = t[s].rseq_over_2G
<1>. DEFINE c == Counted(t, rev, p)
            i == ReInitTrack(c, p)
<1>1. c \in Track  BY CountedType
<1>2. /\ c.state = t.state
      /\ \A s \in Sides : /\ c[s].seq0 = t[s].seq0 /\ c[s].uppos = t[s].uppos
                          /\ c[s].rseq_over_2G = t[s].rseq_over_2G
  <2>1. /\ CountPacket(t[Side(rev)], p.len).seq0 = t[Side(rev)].seq0
        /\ CountPacket(t[Side(rev)], p.len).uppos = t[Side(rev)].uppos
        /\ CountPacket(t[Side(rev)], p.len).rseq_over_2G = t[Side(rev)].rseq_over_2G
    BY GetSide DEF CountPacket, Position
  <2>2. PICK x : x = CountPacket(t[Side(rev)], p.len)  OBVIOUS
  <2>3. c = [t EXCEPT ![Side(rev)] = x]  BY <2>2 DEF Counted
  <2>. HIDE DEF c
  <2>. QED BY <2>1, <2>2, <2>3 DEF Track, Side, Sides
<1>3. Restarts(c, p) <=> Restarts(t, p)
  BY <1>2 DEF Restarts, Sides
<1>4. i = IF Restarts(t, p) THEN InitTrack ELSE c
  BY <1>3 DEF ReInitTrack
<1>5. i \in Track  BY <1>1, <1>4, InitTrackType
<1>6. Shaken(t, rev, p) = Handshake(i, rev, p)  BY DEF Shaken
<1>. HIDE DEF c, i
<1>7. CASE p.kind = "syn"
  <2>1. i.state = "SYN"
    BY <1>2, <1>4, <1>7 DEF Restarts, InitTrack
  <2>2. Handshake(i, rev, p) = [i EXCEPT !.client.seq0 = p.seq]
    BY <1>7 DEF Handshake
  <2>3. t.state = "SYN" => i.server.seq0 = t.server.seq0
    BY <1>2, <1>4 DEF Restarts, Sides
  <2>. QED BY <1>5, <1>6, <1>7, <2>1, <2>2, <2>3 DEF Track, Position
<1>8. CASE p.kind = "synack" /\ ~ Restarts(t, p)
  <2>1. i = c  BY <1>4, <1>8
  <2>2. PICK x : x = IF c.client.seq0 = 0 THEN Diff(p.ack, 1) ELSE c.client.seq0
    OBVIOUS
  <2>3. Handshake(i, rev, p) = [c EXCEPT !.client.seq0 = x, !.server.seq0 = p.seq]
    BY <1>8, <2>1, <2>2 DEF Handshake, OnSynAck
  <2>. QED BY <1>1, <1>2, <1>6, <1>8, <2>2, <2>3 DEF Track, Position, Sides
<1>9. CASE p.kind = "fin"
  <2>1. i = c  BY <1>4, <1>9 DEF Restarts
  <2>2. Handshake(i, rev, p) = [c EXCEPT !.state = "FIN"]
    BY <1>9, <2>1 DEF Handshake
  <2>. QED BY <1>1, <1>2, <1>6, <1>9, <2>2 DEF Track, Position, Sides
<1>10. CASE p.kind = "ack"
  <2>1. i = c  BY <1>4, <1>10 DEF Restarts
  <2>2. PICK x : x = IF ~ rev /\ c.server.seq0 = 0 THEN Diff(p.ack, 1) ELSE c.server.seq0
    OBVIOUS
  <2>3. Handshake(i, rev, p) = IF c.state # "SYN" THEN c
                               ELSE [c EXCEPT !.state = "ESTABLISHED", !.server.seq0 = x]
    BY <1>10, <2>1, <2>2 DEF Handshake, OnSegment
  <2>4. CASE c.state # "SYN"
    BY <1>1, <1>2, <1>6, <1>10, <2>3, <2>4 DEF Sides
  <2>5. CASE c.state = "SYN"
    BY <1>1, <1>2, <1>6, <1>10, <2>2, <2>3, <2>5 DEF Track, Position, Sides
  <2>. QED BY <2>4, <2>5
<1>. QED BY <1>7, <1>8, <1>9, <1>10 DEF Shaken

-----------------------------------------------------------------------------
(* Words that stand for offsets in a stream.                                *)

LEMMA WordsOfStream ==
    ASSUME NEW a \in Seq32, NEW x \in Nat, NEW y \in Nat
    PROVE  /\ Plus(a, x) \in Seq32
           /\ Plus(a, 0) = a
           /\ Plus(Plus(a, x), y) = Plus(a, x + y)
           /\ Diff(Plus(a, x), Plus(a, y)) = (x - y) % SeqMod
           /\ Diff(Plus(a, x), a) = x % SeqMod
           /\ Diff(Plus(a, 1), 1) = a
<1>1. SeqMod \in Nat /\ SeqMod > 1 /\ a \in Int /\ a >= 0 /\ a < SeqMod
  BY SeqModAssumption DEF Seq32
<1>2. a % SeqMod = a /\ 1 % SeqMod = 1  BY <1>1, SmallMod
<1>3. /\ \A u, v \in Int : Diff(u % SeqMod, v % SeqMod) = Diff(u, v)
      /\ \A u, v \in Int : Plus(u % SeqMod, v) = Plus(u, v)
  BY <1>1, ModOfDiff, ModOfSum DEF Diff, Plus
<1>4. PICK b \in Int, c \in Int, d \in Int : b = a + x /\ c = a + y /\ d = a + 1
  BY <1>1
<1>5. Plus(a, x) = b % SeqMod /\ Plus(a, y) = c % SeqMod /\ Plus(a, 1) = d % SeqMod
  BY <1>4 DEF Plus
<1>6. Plus(a, x) \in Seq32 /\ Plus(a, 0) = a
  <2>1. a + 0 = a  BY <1>1
  <2>. QED BY <1>1, <1>2, <2>1, PlusRange DEF Plus
<1>7. Plus(Plus(a, x), y) = Plus(a, x + y)
  <2>1. b + y = a + (x + y)  BY <1>1, <1>4
  <2>2. Plus(b % SeqMod, y) = Plus(b, y)  BY <1>3, <1>4
  <2>. QED BY <1>5, <2>1, <2>2 DEF Plus
<1>8. Diff(Plus(a, x), Plus(a, y)) = (x - y) % SeqMod
  <2>1. b - c = x - y  BY <1>1, <1>4
  <2>2. Diff(b % SeqMod, c % SeqMod) = Diff(b, c)  BY <1>3, <1>4
  <2>. QED BY <1>5, <2>1, <2>2 DEF Diff
<1>9. Diff(Plus(a, x), a) = x % SeqMod
  <2>1. b - a = x  BY <1>1, <1>4
  <2>2. Diff(b % SeqMod, a % SeqMod) = Diff(b, a)  BY <1>1, <1>3, <1>4
  <2>. QED BY <1>2, <1>5, <2>1, <2>2 DEF Diff
<1>10. Diff(Plus(a, 1), 1) = a
  <2>1. d - 1 = a  BY <1>1, <1>4
  <2>2. Diff(d % SeqMod, 1 % SeqMod) = Diff(d, 1)  BY <1>3, <1>4
  <2>. QED BY <1>2, <1>5, <2>1, <2>2 DEF Diff
<1>. QED BY <1>6, <1>7, <1>8, <1>9, <1>10

\* Of two offsets that are near, the top bit of the difference of their words
\* tells which is ahead.
LEMMA NearInOrder ==
    ASSUME NEW x \in Nat, NEW y \in Nat, Near(x, y)
    PROVE  /\ TopBit((x - y) % SeqMod) <=> x < y
           /\ TopBit((y - x) % SeqMod) <=> y < x
<1>1. /\ SeqMod \in Nat /\ SeqMod > 1 /\ Window \in Nat /\ 2 * Window < SeqMod
  BY SeqModAssumption, StreamAssumption
<1>2. x - y \in Int /\ -Window <= x - y /\ x - y <= Window  BY <1>1 DEF Near
<1>3. PICK d \in Int : d = x - y  BY <1>2
<1>4. -Window <= d /\ d <= Window /\ y - x = -d /\ (x < y <=> d < 0) /\ (y < x <=> d > 0)
  BY <1>2, <1>3
<1>5. \A e \in Int : -Window <= e /\ e <= Window => (TopBit(e % SeqMod) <=> e < 0)
  <2>. SUFFICES ASSUME NEW e \in Int, -Window <= e, e <= Window
                PROVE  TopBit(e % SeqMod) <=> e < 0
    OBVIOUS
  <2>1. CASE e >= 0
    <3>1. e % SeqMod = e  BY <1>1, <2>1, SmallMod
    <3>. QED BY <1>1, <2>1, <3>1 DEF TopBit
  <2>2. CASE e < 0
    <3>1. e % SeqMod = e + SeqMod  BY <1>1, <2>2, SmallMod
    <3>. QED BY <1>1, <2>2, <3>1 DEF TopBit
  <2>. QED BY <2>1, <2>2
<1>6. TopBit(d % SeqMod) <=> d < 0  BY <1>4, <1>5
<1>7. TopBit((-d) % SeqMod) <=> d > 0
  <2>1. -d \in Int /\ -Window <= -d /\ -d <= Window /\ (-d < 0 <=> d > 0)  BY <1>1, <1>4
  <2>. QED BY <1>5, <2>1
<1>. QED BY <1>3, <1>4, <1>6, <1>7

-----------------------------------------------------------------------------
(* A packet of the conversation, to the one track of it.                    *)

SentPacket(s, kind, seq, ack, n) ==
    [conn |-> FlowOf(s), kind |-> kind, seq |-> seq, ack |-> ack, len |-> n, host |-> NoHost,
     cached |-> NoHost]

OwnPool == PoolInv /\ DOMAIN pool \subseteq {flow} /\ t_last_purge = now

LEMMA Flows ==
    /\ flow \in Conn /\ Swap(flow) \in Conn /\ Swap(flow) # flow /\ Swap(Swap(flow)) = flow
    /\ \A s \in Sides : FlowOf(s) \in Conn /\ Other(s) \in Sides /\ Other(s) # s
<1>1. flow \in Conn  BY StreamAssumption DEF flow, Conn
<1>2. Swap(flow) \in Conn /\ Swap(flow) # flow /\ Swap(Swap(flow)) = flow  BY <1>1, SwapConn
<1>. QED BY <1>1, <1>2 DEF FlowOf, Sides, Other

LEMMA Sent ==
    ASSUME OwnPool, NEW s \in Sides, NEW kind \in TcpKind, NEW seq \in Seq32, NEW ack \in Seq32,
           NEW n \in Nat, Send(s, kind, seq, ack, n), Tracked \/ (s = "client" /\ kind = "syn")
    PROVE  /\ OwnPool' /\ Tracked'
           /\ track' = Play(IF Tracked THEN track ELSE InitTrack, s = "server",
                            SentPacket(s, kind, seq, ack, n))
<1>. DEFINE p == SentPacket(s, kind, seq, ack, n)
<1>1. p.conn = FlowOf(s) /\ p.kind = kind /\ HandlePacket(p)
  BY DEF SentPacket, Send
<1>2. p \in Fed  BY Flows DEF SentPacket, Fed
<1>3. PoolInv'  BY <1>1, <1>2, HandlePacketInv DEF OwnPool
<1>4. now \in Nat /\ PurgeInterval \in Nat \ {0} /\ now - t_last_purge = 0
  BY ConntrackAssumption DEF OwnPool, PoolInv, TypeOK
<1>5. ~ PurgeDue  BY <1>4 DEF PurgeDue
<1>6. t_last_purge' = now' /\ now' = now /\ Survivors = DOMAIN pool
  BY <1>1, <1>5 DEF HandlePacket, LastPurge, Survivors, OwnPool
<1>7. pool' = FeedPool(DOMAIN pool, p)  BY <1>1, <1>6 DEF HandlePacket
<1>. HIDE DEF p
<1>8. ASSUME NEW t, NEW rev, pool' = With(DOMAIN pool, flow, Play(t, rev, p))
      PROVE  DOMAIN pool' = {flow} /\ track' = Play(t, rev, p)
  BY <1>8 DEF With, track, OwnPool
<1>9. CASE Tracked /\ s = "client"
  <2>1. p.conn = flow /\ FoundDirect(DOMAIN pool, p)  BY <1>1, <1>9 DEF FlowOf, FoundDirect, Tracked
  <2>2. pool' = With(DOMAIN pool, flow, Play(track, FALSE, p))
    BY <1>7, <2>1 DEF FeedPool, track, FoundDirect, FoundReverse, NotFound
  <2>. QED BY <1>3, <1>6, <1>8, <1>9, <2>2 DEF OwnPool, Tracked, p
<1>10. CASE Tracked /\ s = "server"
  <2>1. /\ p.conn = Swap(flow) /\ Swap(p.conn) = flow /\ p.conn \notin DOMAIN pool
        /\ flow \in DOMAIN pool
    BY <1>1, <1>10, Flows DEF FlowOf, Tracked, OwnPool
  <2>2. pool' = With(DOMAIN pool, flow, Play(track, TRUE, p))
    BY <1>7, <2>1 DEF FeedPool, track, FoundDirect, FoundReverse, NotFound
  <2>. QED BY <1>3, <1>6, <1>8, <1>10, <2>2 DEF OwnPool, Tracked, p
<1>11. CASE ~ Tracked
  <2>1. s = "client" /\ kind = "syn"  BY <1>11
  <2>2. DOMAIN pool = {} /\ p.conn = flow /\ p.kind = "syn"
    BY <1>1, <1>11, <2>1 DEF OwnPool, Tracked, FlowOf
  <2>3. pool' = With(DOMAIN pool, flow, Play(InitTrack, FALSE, p))
    BY <1>7, <2>2 DEF FeedPool, FoundDirect, FoundReverse, NotFound, Opens
  <2>. QED BY <1>3, <1>6, <1>8, <1>11, <2>1, <2>3 DEF OwnPool, Tracked, p
<1>. QED BY <1>9, <1>10, <1>11 DEF Sides

\* What the packet makes of the fields that the properties are about.
LEMMA SentMoves ==
    ASSUME OwnPool, NEW s \in Sides, NEW kind \in TcpKind, NEW seq \in Seq32, NEW ack \in Seq32,
           NEW n \in Nat, Send(s, kind, seq, ack, n), Tracked \/ (s = "client" /\ kind = "syn"),
           NEW t, t = IF Tracked THEN track ELSE InitTrack
    PROVE  /\ OwnPool' /\ Tracked' /\ t \in Track /\ track' \in Track
           /\ \E h \in Track :
                 /\ track'.state = h.state
                 /\ Moved(h[s], track'[s], h.state = "SYN", seq, n)
                 /\ Acked(h[Other(s)], track'[Other(s)], ack)
                 /\ kind = "syn" =>
                       /\ h.state = "SYN" /\ h.client.seq0 = seq
                       /\ t.state = "SYN" => h.server.seq0 = t.server.seq0
                 /\ kind = "synack" /\ t.client.seq0 = Diff(ack, 1) =>
                       /\ h.state = t.state
                       /\ h.client.seq0 = t.client.seq0
                       /\ h.server.seq0 = seq
                       /\ \A x \in Sides : /\ h[x].uppos = t[x].uppos
                                            /\ h[x].rseq_over_2G = t[x].rseq_over_2G
                 /\ kind \in {"fin", "ack"} =>
                       /\ h.state # "SYN"
                       /\ h.client.seq0 = t.client.seq0
                       /\ h.server.seq0 = (IF kind = "ack" /\ t.state = "SYN" /\ s = "client" /\ t.server.seq0 = 0
                                           THEN Diff(ack, 1) ELSE t.server.seq0)
                       /\ \A x \in Sides : /\ h[x].uppos = t[x].uppos
                                            /\ h[x].rseq_over_2G = t[x].rseq_over_2G
<1>. DEFINE p == SentPacket(s, kind, seq, ack, n)
            rev == s = "server"
            h == Shaken(t, rev, p)
<1>1. OwnPool' /\ Tracked' /\ track' = Play(t, rev, p)  BY Sent
<1>2. t \in Track /\ now \in Nat
  BY InitTrackType DEF OwnPool, PoolInv, TypeOK, Tracked, track
<1>3. track' \in Track  BY <1>1 DEF OwnPool, PoolInv, TypeOK, Tracked, track
<1>4. p.kind = kind /\ p.seq = seq /\ p.ack = ack /\ p.len = n  BY DEF SentPacket
<1>5. p \in Fed  BY Flows DEF SentPacket, Fed
<1>6. rev \in BOOLEAN /\ Side(rev) = s /\ Side(~ rev) = Other(s) /\ kind # "udp"
  BY DEF Side, Sides, Other, TcpKind
<1>. HIDE DEF p, rev
<1>7. /\ h \in Track /\ track'.state = h.state
      /\ Moved(h[s], track'[s], h.state = "SYN", seq, n)
      /\ Acked(h[Other(s)], track'[Other(s)], ack)
  BY <1>1, <1>2, <1>4, <1>5, <1>6, PlayMoves
<1>8. kind = "synack" /\ t.client.seq0 = Diff(ack, 1) => ~ Restarts(t, p)
  BY <1>4 DEF Restarts
<1>9. /\ kind = "syn" =>
           /\ h.state = "SYN" /\ h.client.seq0 = seq
           /\ t.state = "SYN" => h.server.seq0 = t.server.seq0
      /\ kind = "synack" /\ ~ Restarts(t, p) =>
           /\ h.state = t.state
           /\ h.client.seq0 = (IF t.client.seq0 = 0 THEN Diff(ack, 1) ELSE t.client.seq0)
           /\ h.server.seq0 = seq
           /\ \A x \in Sides : h[x].uppos = t[x].uppos /\ h[x].rseq_over_2G = t[x].rseq_over_2G
      /\ kind \in {"fin", "ack"} =>
           /\ h.state # "SYN"
           /\ h.client.seq0 = t.client.seq0
           /\ h.server.seq0 = (IF kind = "ack" /\ t.state = "SYN" /\ ~ rev /\ t.server.seq0 = 0
                               THEN Diff(ack, 1) ELSE t.server.seq0)
           /\ \A x \in Sides : h[x].uppos = t[x].uppos /\ h[x].rseq_over_2G = t[x].rseq_over_2G
  BY <1>2, <1>4, <1>5, <1>6, ShakenBy
<1>10. ~ rev <=> s = "client"  BY DEF rev, Sides
<1>. HIDE DEF h
<1>. QED BY <1>1, <1>2, <1>3, <1>7, <1>8, <1>9, <1>10

-----------------------------------------------------------------------------
(* The invariant of the conversation.                                       *)

\* The track is of this connection: its first SYN came by.
Mine == phase \in {"synack", "open"} \/ (phase = "syn" /\ cnt.client > 0)

Ends ==
    /\ phase \in {"closed", "syn", "synack", "open"} /\ inc \in Nat
    /\ isn \in [Sides -> Seq32] /\ top \in [Sides -> Nat] /\ last \in [Sides -> Nat]
    /\ cnt \in [Sides -> Nat] /\ fresh \in {"none", "new", "old"}
    /\ phase \in {"syn", "synack"} => top.client = 0 /\ top.server = 0
    /\ phase = "synack" => last.client = 1 /\ last.server = 0

Begun(t) == t.client.seq0 = isn.client /\ t.client.uppos = SeqAt("client", top.client)

Greeted(t) == phase = "synack" => t.server.seq0 = isn.server

\* Not past the first half of the space by more than a window.
AtMostAhead(t) == 2 * t < SeqMod + 2 * Window

\* The words of a side are those of its offsets, and a direction that is not
\* flagged never left the first half of the space by more than a window.
InPlace(t, s) ==
    /\ t[s].seq0 = isn[s] /\ t[s].seq_last = SeqAt(s, last[s])
    /\ t[s].rseq_over_2G \/ (2 * last[s] < SeqMod /\ AtMostAhead(top[s]))

Judged(t) == fresh # "none" => (IsRetransmission(t.client) <=> fresh = "old")

StreamInv ==
    /\ OwnPool /\ Ends
    /\ Mine => Tracked /\ Begun(track)
    /\ Mine /\ phase # "open" => track.state = "SYN" /\ Greeted(track)
    /\ phase = "open" => /\ track.state # "SYN" /\ Judged(track)
                         /\ \A s \in Sides : InPlace(track, s)

LEMMA LatchTells ==
    ASSUME NEW a \in Seq32, NEW off \in Nat, off < SeqMod
    PROVE  TopBit(Diff(Plus(a, off), a)) <=> 2 * off >= SeqMod
<1>1. SeqMod \in Nat /\ SeqMod > 1  BY SeqModAssumption
<1>2. Diff(Plus(a, off), a) = off % SeqMod  BY WordsOfStream
<1>3. off % SeqMod = off  BY <1>1, SmallMod
<1>. QED BY <1>2, <1>3 DEF TopBit

\* What a segment or a FIN makes of the side that sent it, and of the other.
LEMMA SenderInPlace ==
    ASSUME NEW a \in Seq32, NEW d \in Position, NEW e \in Position,
           NEW off \in Nat, NEW n \in Nat, NEW t \in Nat,
           n <= Window, d.seq0 = a, Moved(d, e, FALSE, Plus(a, off), n),
           ~ d.rseq_over_2G => off < SeqMod /\ AtMostAhead(t)
    PROVE  /\ e.seq0 = a /\ e.seq_last = Plus(a, off)
           /\ e.rseq_over_2G \/ (/\ 2 * off < SeqMod
                                 /\ AtMostAhead(t)
                                 /\ AtMostAhead(off + n))
<1>1. /\ e.seq0 = a /\ e.seq_last = Plus(a, off)
      /\ e.rseq_over_2G = (d.rseq_over_2G \/ TopBit(Diff(Plus(a, off), a)))
  BY DEF Moved
<1>2. SeqMod \in Nat /\ Window \in Nat  BY SeqModAssumption, StreamAssumption
<1>3. ASSUME ~ e.rseq_over_2G
      PROVE  /\ 2 * off < SeqMod /\ AtMostAhead(t)
             /\ AtMostAhead(off + n)
  <2>1. ~ d.rseq_over_2G /\ ~ TopBit(Diff(Plus(a, off), a))  BY <1>1, <1>3
  <2>2. off < SeqMod /\ AtMostAhead(t)  BY <2>1
  <2>3. 2 * off < SeqMod  BY <1>2, <2>1, <2>2, LatchTells
  <2>. QED BY <1>2, <2>2, <2>3 DEF AtMostAhead
<1>. QED BY <1>1, <1>3

LEMMA OtherInPlace ==
    ASSUME NEW a \in Seq32, NEW d \in Position, NEW e \in Position,
           NEW off \in Nat, NEW flag \in BOOLEAN,
           d.seq0 = a, d.rseq_over_2G = flag, Acked(d, e, Plus(a, off)), ~ flag => off < SeqMod
    PROVE  /\ e.seq0 = a /\ e.seq_last = Plus(a, off)
           /\ e.rseq_over_2G \/ (~ flag /\ 2 * off < SeqMod)
<1>1. /\ e.seq0 = a /\ e.seq_last = Plus(a, off)
      /\ e.rseq_over_2G = (flag \/ TopBit(Diff(Plus(a, off), a)))
  BY DEF Acked
<1>2. SeqMod \in Nat  BY SeqModAssumption
<1>3. ASSUME ~ e.rseq_over_2G  PROVE ~ flag /\ 2 * off < SeqMod
  <2>1. ~ flag /\ ~ TopBit(Diff(Plus(a, off), a))  BY <1>1, <1>3
  <2>. QED BY <1>2, <2>1, LatchTells
<1>. QED BY <1>1, <1>3

\* The upper position follows the end of the stream, and the judgement on the
\* last payload is right.
LEMMA UpperFollows ==
    ASSUME NEW a \in Seq32, NEW d \in Position, NEW e \in Position,
           NEW off \in Nat, NEW n \in Nat, NEW t \in Nat,
           d.uppos = Plus(a, t), Moved(d, e, FALSE, Plus(a, off), n), n > 0 => Near(off + n, t)
    PROVE  /\ e.uppos = Plus(a, IF n = 0 THEN t ELSE Max2(t, off + n))
           /\ n > 0 => (IsRetransmission(e) <=> ~ (off + n > t))
<1>1. CASE n = 0
  BY <1>1 DEF Moved
<1>2. CASE n > 0
  <2>1. PICK f \in Nat : f = off + n  OBVIOUS
  <2>2. Near(f, t)  BY <1>2, <2>1
  <2>3. Plus(Plus(a, off), n) = Plus(a, f)  BY <2>1, WordsOfStream
  <2>4. /\ Diff(Plus(a, f), Plus(a, t)) = (f - t) % SeqMod
        /\ Diff(Plus(a, t), Plus(a, f)) = (t - f) % SeqMod
    <3>1. \A x, y \in Nat : Diff(Plus(a, x), Plus(a, y)) = (x - y) % SeqMod
      BY WordsOfStream
    <3>. QED BY <3>1
  <2>5. /\ TopBit(Diff(Plus(a, f), Plus(a, t))) <=> f < t
        /\ TopBit(Diff(Plus(a, t), Plus(a, f))) <=> t < f
    BY <2>2, <2>4, NearInOrder
  <2>6. /\ e.pos = Plus(a, f) /\ e.uppos_prev = Plus(a, t)
        /\ e.uppos = IF f < t THEN Plus(a, t) ELSE Plus(a, f)
    BY <1>2, <2>3, <2>5 DEF Moved
  <2>7. e.uppos = Plus(a, Max2(t, f))  BY <2>6 DEF Max2
  <2>8. IsRetransmission(e) <=> ~ (t < f)  BY <2>5, <2>6 DEF IsRetransmission
  <2>. QED BY <1>2, <2>1, <2>7, <2>8
<1>. QED BY <1>1, <1>2

LEMMA Carried ==
    ASSUME StreamInv, NEW s \in Sides, NEW kind \in {"ack", "fin"},
           NEW off \in Nat, NEW ackoff \in Nat, NEW n \in Nat, n <= Window,
           \/ phase = "open"
           \/ phase = "synack" /\ s = "client" /\ kind = "ack" /\ ackoff = 1,
           n > 0 => Near(off + n, top[s]),
           ~ track[s].rseq_over_2G => off < SeqMod,
           ~ track[Other(s)].rseq_over_2G => ackoff < SeqMod,
           Send(s, kind, SeqAt(s, off), SeqAt(Other(s), ackoff), n),
           phase' = "open", Saw(s, off, n, ackoff), UNCHANGED <<inc, isn>>
    PROVE  StreamInv'
<1>. DEFINE o == Other(s)
<1>1. o \in Sides /\ o # s /\ Sides = {s, o}  BY DEF Other, Sides
<1>2. /\ OwnPool /\ Ends /\ Tracked /\ Begun(track)
      /\ phase = "open" => /\ track.state # "SYN"
                           /\ \A x \in Sides : InPlace(track, x)
      /\ phase # "open" => track.state = "SYN" /\ track.server.seq0 = isn.server
  BY DEF StreamInv, Mine, Greeted
<1>3. /\ \A x \in Sides : isn[x] \in Seq32 /\ top[x] \in Nat
      /\ phase # "open" => \A x \in Sides : top[x] = 0
  BY <1>2 DEF Ends, Sides
<1>4. /\ SeqMod \in Nat /\ Window \in Nat \ {0} /\ 2 * Window < SeqMod
  BY SeqModAssumption, StreamAssumption
<1>5. /\ \A x \in Sides, k \in Nat : SeqAt(x, k) = Plus(isn[x], k) /\ SeqAt(x, k) \in Seq32
  BY <1>3, WordsOfStream DEF SeqAt
<1>6. PICK u : u = track'  OBVIOUS
<1>. HIDE DEF o
<1>7. /\ OwnPool' /\ Tracked' /\ track \in Track /\ u \in Track
      /\ \E h \in Track :
            /\ u.state = h.state
            /\ Moved(h[s], u[s], h.state = "SYN", SeqAt(s, off), n)
            /\ Acked(h[o], u[o], SeqAt(o, ackoff))
            /\ h.state # "SYN"
            /\ h.client.seq0 = track.client.seq0
            /\ h.server.seq0 = (IF kind = "ack" /\ track.state = "SYN" /\ s = "client" /\ track.server.seq0 = 0
                                THEN Diff(SeqAt(o, ackoff), 1) ELSE track.server.seq0)
            /\ \A x \in Sides : h[x].uppos = track[x].uppos /\ h[x].rseq_over_2G = track[x].rseq_over_2G
  <2>1. kind \in TcpKind /\ SeqAt(s, off) \in Seq32 /\ SeqAt(o, ackoff) \in Seq32
        /\ kind # "syn" /\ kind # "synack"
    BY <1>1, <1>5 DEF TcpKind
  <2>2. Send(s, kind, SeqAt(s, off), SeqAt(o, ackoff), n)  BY DEF o
  <2>. QED BY <1>2, <1>6, <2>1, <2>2, SentMoves DEF o
<1>8. PICK h \in Track :
            /\ u.state = h.state
            /\ Moved(h[s], u[s], h.state = "SYN", SeqAt(s, off), n)
            /\ Acked(h[o], u[o], SeqAt(o, ackoff))
            /\ h.state # "SYN"
            /\ h.client.seq0 = track.client.seq0
            /\ h.server.seq0 = (IF kind = "ack" /\ track.state = "SYN" /\ s = "client" /\ track.server.seq0 = 0
                                THEN Diff(SeqAt(o, ackoff), 1) ELSE track.server.seq0)
            /\ \A x \in Sides : h[x].uppos = track[x].uppos /\ h[x].rseq_over_2G = track[x].rseq_over_2G
  BY <1>7
<1>9. h.client.seq0 = isn.client /\ h.server.seq0 = isn.server
  <2>1. h.client.seq0 = isn.client  BY <1>2, <1>8 DEF Begun
  <2>2. CASE phase = "open"
    <3>1. track.server.seq0 = isn.server  BY <1>2, <2>2 DEF InPlace, Sides
    <3>. QED BY <1>2, <1>8, <2>1, <2>2, <3>1
  <2>3. CASE phase # "open"
    <3>1. ackoff = 1 /\ o = "server" /\ track.server.seq0 = isn.server
      BY <1>2, <2>3 DEF o, Other
    <3>2. isn.server \in Seq32 /\ SeqAt(o, 1) = Plus(isn.server, 1)
      BY <1>3, <1>5, <3>1 DEF Sides
    <3>3. Diff(SeqAt(o, ackoff), 1) = isn.server  BY <3>1, <3>2, WordsOfStream
    <3>. QED BY <1>8, <2>1, <3>1, <3>3
  <2>. QED BY <2>2, <2>3
<1>10. /\ \A x \in Sides : /\ h[x].seq0 = isn[x] /\ h[x].uppos = track[x].uppos
                            /\ h[x].rseq_over_2G = track[x].rseq_over_2G
                            /\ h[x] \in Position /\ u[x] \in Position
                            /\ track[x].rseq_over_2G \in BOOLEAN
  BY <1>7, <1>8, <1>9 DEF Sides, Track, Position
<1>11. \A x \in Sides : ~ track[x].rseq_over_2G => AtMostAhead(top[x])
  BY <1>2, <1>3, <1>4 DEF InPlace, AtMostAhead
<1>12. /\ u[s].seq0 = isn[s] /\ u[s].seq_last = Plus(isn[s], off)
       /\ u[s].rseq_over_2G \/ (/\ 2 * off < SeqMod
                                /\ AtMostAhead(top[s])
                                /\ AtMostAhead(off + n))
  <2>1. Moved(h[s], u[s], FALSE, Plus(isn[s], off), n)  BY <1>5, <1>8
  <2>2. ~ h[s].rseq_over_2G => off < SeqMod /\ AtMostAhead(top[s])
    BY <1>10, <1>11
  <2>3. /\ isn[s] \in Seq32 /\ top[s] \in Nat /\ h[s] \in Position /\ u[s] \in Position
        /\ h[s].seq0 = isn[s]
    BY <1>3, <1>10
  <2>4. PICK a \in Seq32, d \in Position, e \in Position, t \in Nat :
             a = isn[s] /\ d = h[s] /\ e = u[s] /\ t = top[s]
    BY <2>3
  <2>5. Moved(d, e, FALSE, Plus(a, off), n)  BY <2>1, <2>4
  <2>6. d.seq0 = a /\ (~ d.rseq_over_2G => off < SeqMod /\ AtMostAhead(t))
    BY <2>2, <2>3, <2>4
  <2>7. /\ e.seq0 = a /\ e.seq_last = Plus(a, off)
        /\ e.rseq_over_2G \/ (2 * off < SeqMod /\ AtMostAhead(t) /\ AtMostAhead(off + n))
    BY <1>4, <2>5, <2>6, SenderInPlace
  <2>. QED BY <2>4, <2>7
<1>13. /\ u[o].seq0 = isn[o] /\ u[o].seq_last = Plus(isn[o], ackoff)
       /\ u[o].rseq_over_2G \/ (2 * ackoff < SeqMod /\ AtMostAhead(top[o]))
  <2>1. Acked(h[o], u[o], Plus(isn[o], ackoff))  BY <1>1, <1>5, <1>8
  <2>2. ~ track[o].rseq_over_2G => ackoff < SeqMod  BY DEF o
  <2>3. u[o].seq0 = isn[o] /\ u[o].seq_last = Plus(isn[o], ackoff)
        /\ (u[o].rseq_over_2G \/ (~ track[o].rseq_over_2G /\ 2 * ackoff < SeqMod))
    BY <1>1, <1>3, <1>10, <2>1, <2>2, OtherInPlace
  <2>. QED BY <1>1, <1>11, <2>3
<1>14. /\ isn' = isn /\ inc' = inc /\ phase' = "open"
       /\ top' = [top EXCEPT ![s] = IF n = 0 THEN @ ELSE Max2(@, off + n)]
       /\ last' = [last EXCEPT ![s] = off, ![o] = ackoff]
       /\ cnt' = [cnt EXCEPT ![s] = @ + 1]
       /\ fresh' = IF s = "server" \/ n = 0 THEN "none"
                   ELSE IF off + n > top.client THEN "new" ELSE "old"
  <2>1. top \in [Sides -> Nat]  BY <1>2 DEF Ends
  <2>. QED BY <2>1 DEF Saw, o
<1>15. /\ top' \in [Sides -> Nat] /\ last' \in [Sides -> Nat] /\ cnt' \in [Sides -> Nat]
       /\ top'[s] = (IF n = 0 THEN top[s] ELSE Max2(top[s], off + n)) /\ top'[o] = top[o]
       /\ last'[s] = off /\ last'[o] = ackoff
  <2>1. /\ top \in [Sides -> Nat] /\ last \in [Sides -> Nat] /\ cnt \in [Sides -> Nat]
    BY <1>2 DEF Ends
  <2>2. PICK m \in Nat : m = IF n = 0 THEN top[s] ELSE Max2(top[s], off + n)
    BY <1>3 DEF Max2
  <2>3. top' = [top EXCEPT ![s] = m]  BY <1>14, <2>1, <2>2
  <2>4. PICK k \in Nat : k = cnt[s] + 1  BY <2>1
  <2>5. cnt' = [cnt EXCEPT ![s] = k]  BY <1>14, <2>4
  <2>. QED BY <1>1, <1>14, <2>1, <2>2, <2>3, <2>5
<1>16. Ends'
  BY <1>2, <1>14, <1>15 DEF Ends
<1>17. InPlace(track, s)' /\ InPlace(track, o)'
  <2>1. \A x \in Sides : InPlace(track, x)' <=>
           /\ u[x].seq0 = isn[x] /\ u[x].seq_last = Plus(isn[x], last'[x])
           /\ u[x].rseq_over_2G \/ (2 * last'[x] < SeqMod /\ AtMostAhead(top'[x]))
    BY <1>6, <1>14 DEF InPlace, SeqAt
  <2>2. top'[s] = top[s] \/ top'[s] = off + n  BY <1>15 DEF Max2
  <2>. QED BY <1>1, <1>12, <1>13, <1>15, <2>1, <2>2
<1>18. Begun(track)' /\ Judged(track)'
  <2>1. u.client.seq0 = isn.client
    BY <1>1, <1>12, <1>13 DEF Sides
  <2>2. track.client.uppos = Plus(isn.client, top.client)
    BY <1>2 DEF Begun, SeqAt
  <2>3. CASE s = "client"
    <3>1. Moved(h.client, u.client, FALSE, Plus(isn.client, off), n)
      BY <1>5, <1>8, <2>3
    <3>2. /\ h.client \in Position /\ u.client \in Position /\ isn.client \in Seq32
          /\ h.client.uppos = Plus(isn.client, top.client) /\ top.client \in Nat
          /\ n > 0 => Near(off + n, top.client)
      BY <1>3, <1>10, <2>2, <2>3 DEF Sides
    <3>3. /\ u.client.uppos = Plus(isn.client, IF n = 0 THEN top.client ELSE Max2(top.client, off + n))
          /\ n > 0 => (IsRetransmission(u.client) <=> ~ (off + n > top.client))
      BY <3>1, <3>2, UpperFollows
    <3>4. fresh' # "none" => n > 0 /\ (fresh' = "old" <=> ~ (off + n > top.client))
      BY <1>14, <2>3
    <3>5. u.client.uppos = Plus(isn.client, top'.client)  BY <1>15, <2>3, <3>3
    <3>. QED BY <1>6, <1>14, <2>1, <3>3, <3>4, <3>5 DEF Begun, Judged, SeqAt
  <2>4. CASE s = "server"
    <3>1. o = "client" /\ fresh' = "none"  BY <1>14, <2>4 DEF o, Other
    <3>2. u.client.uppos = Plus(isn.client, top'.client)
      BY <1>8, <1>10, <1>15, <2>2, <3>1 DEF Acked, Sides
    <3>. QED BY <1>6, <1>14, <2>1, <3>1, <3>2 DEF Begun, Judged, SeqAt
  <2>. QED BY <2>3, <2>4 DEF Sides
<1>19. (track.state # "SYN")'  BY <1>6, <1>8
<1>. QED BY <1>1, <1>7, <1>14, <1>16, <1>17, <1>18, <1>19 DEF StreamInv, Mine

LEMMA StreamStarts == StreamInit => StreamInv
<1>. SUFFICES ASSUME StreamInit PROVE StreamInv
  OBVIOUS
<1>1. PoolInv /\ DOMAIN pool = {} /\ t_last_purge = now
  BY InitPoolInv DEF StreamInit, Init
<1>2. 0 \in Seq32 /\ phase = "closed"  BY SeqIsInt DEF StreamInit
<1>3. Ends
  <2>1. /\ isn \in [Sides -> Seq32] /\ top \in [Sides -> Nat] /\ last \in [Sides -> Nat]
        /\ cnt \in [Sides -> Nat]
    BY <1>2 DEF StreamInit
  <2>. QED BY <1>2, <2>1 DEF StreamInit, Ends
<1>. QED BY <1>1, <1>2, <1>3 DEF StreamInv, OwnPool, Mine

LEMMA OpenKeeps == StreamInv /\ Open => StreamInv'
<1>. SUFFICES ASSUME StreamInv, Open PROVE StreamInv'
  OBVIOUS
<1>1. OwnPool'
  <2>1. OwnPool /\ UNCHANGED <<pool, t_last_purge, now>>  BY DEF StreamInv, Open, vars
  <2>. QED BY <2>1 DEF OwnPool, PoolInv, TypeOK, OneTrackPerFlow, TracksGood
<1>2. /\ phase' = "syn" /\ inc' = inc + 1 /\ fresh' = "none"
      /\ top' = [x \in Sides |-> 0] /\ last' = [x \in Sides |-> 0] /\ cnt' = [x \in Sides |-> 0]
  BY DEF Open
<1>3. isn' \in [Sides -> Seq32]
  <2>1. PICK c \in Isn, d \in Isn : isn' = [client |-> c, server |-> d]  BY DEF Open
  <2>2. c \in Seq32 /\ d \in Seq32  BY StreamAssumption
  <2>. QED BY <2>1, <2>2 DEF Sides
<1>4. Ends'
  BY <1>2, <1>3 DEF StreamInv, Ends, Sides
<1>5. ~ Mine'  BY <1>2 DEF Mine, Sides
<1>. QED BY <1>1, <1>2, <1>4, <1>5 DEF StreamInv

LEMMA CloseKeeps == StreamInv /\ Close => StreamInv'
<1>. SUFFICES ASSUME StreamInv, Close PROVE StreamInv'
  OBVIOUS
<1>1. OwnPool'
  <2>1. OwnPool /\ UNCHANGED <<pool, t_last_purge, now>>  BY DEF StreamInv, Close, vars
  <2>. QED BY <2>1 DEF OwnPool, PoolInv, TypeOK, OneTrackPerFlow, TracksGood
<1>2. Ends' /\ phase' = "closed"  BY DEF StreamInv, Close, Ends
<1>. QED BY <1>1, <1>2 DEF StreamInv, Mine

\* One more packet counted.
LEMMA CountedOne ==
    ASSUME NEW s \in Sides, cnt \in [Sides -> Nat]
    PROVE  /\ [cnt EXCEPT ![s] = @ + 1] \in [Sides -> Nat]
           /\ [cnt EXCEPT ![s] = @ + 1][s] > 0
<1>1. PICK k \in Nat : k = cnt[s] + 1 /\ k > 0  OBVIOUS
<1>2. [cnt EXCEPT ![s] = @ + 1] = [cnt EXCEPT ![s] = k]  BY <1>1
<1>. QED BY <1>1, <1>2

LEMMA SynKeeps == StreamInv /\ ClientSyn => StreamInv'
<1>. SUFFICES ASSUME StreamInv, ClientSyn PROVE StreamInv'
  OBVIOUS
<1>. DEFINE t == IF Tracked THEN track ELSE InitTrack
<1>1. /\ OwnPool /\ Ends /\ isn.client \in Seq32 /\ 0 \in Seq32
      /\ phase \in {"syn", "synack"} /\ top.client = 0
  BY SeqIsInt DEF StreamInv, Ends, ClientSyn, Sides
<1>2. PICK u : u = track'  OBVIOUS
<1>3. /\ OwnPool' /\ Tracked' /\ u \in Track
      /\ \E h \in Track :
            /\ u.state = h.state
            /\ Moved(h.client, u.client, h.state = "SYN", isn.client, 0)
            /\ Acked(h.server, u.server, 0)
            /\ h.state = "SYN" /\ h.client.seq0 = isn.client
            /\ t.state = "SYN" => h.server.seq0 = t.server.seq0
  <2>1. "syn" \in TcpKind /\ "client" \in Sides /\ Other("client") = "server"
    BY DEF TcpKind, Sides, Other
  <2>2. Send("client", "syn", isn.client, 0, 0)  BY DEF ClientSyn
  <2>. QED BY <1>1, <1>2, <2>1, <2>2, SentMoves
<1>. HIDE DEF t
<1>4. PICK h \in Track :
            /\ u.state = h.state
            /\ Moved(h.client, u.client, h.state = "SYN", isn.client, 0)
            /\ Acked(h.server, u.server, 0)
            /\ h.state = "SYN" /\ h.client.seq0 = isn.client
            /\ t.state = "SYN" => h.server.seq0 = t.server.seq0
  BY <1>3
<1>5. u.state = "SYN" /\ u.client.seq0 = isn.client /\ u.client.uppos = Plus(isn.client, 0)
  BY <1>4 DEF Moved
<1>6. /\ UNCHANGED <<phase, inc, isn, top, last>> /\ fresh' = "none"
      /\ cnt' \in [Sides -> Nat]
  BY <1>1, CountedOne DEF ClientSyn, Ends, Sides
<1>7. Ends'  BY <1>1, <1>6 DEF Ends
<1>8. Begun(track)'
  BY <1>1, <1>2, <1>5, <1>6 DEF Begun, SeqAt
<1>9. Greeted(track)'
  <2>. SUFFICES ASSUME phase = "synack"  PROVE u.server.seq0 = isn.server
    BY <1>2, <1>6 DEF Greeted
  <2>1. Tracked /\ track.state = "SYN" /\ track.server.seq0 = isn.server
    BY DEF StreamInv, Mine, Greeted
  <2>. QED BY <1>4, <2>1 DEF t, Acked
<1>. QED BY <1>1, <1>2, <1>3, <1>5, <1>6, <1>7, <1>8, <1>9 DEF StreamInv

LEMMA SynAckKeeps == StreamInv /\ ServerSynAck /\ SynSeen => StreamInv'
<1>. SUFFICES ASSUME StreamInv, ServerSynAck, SynSeen PROVE StreamInv'
  OBVIOUS
<1>. DEFINE ack == SeqAt("client", 1)
<1>1. /\ OwnPool /\ Ends /\ isn.client \in Seq32 /\ isn.server \in Seq32
      /\ phase \in {"syn", "synack", "open"} /\ cnt.client > 0
  BY DEF StreamInv, Ends, ServerSynAck, Sides
<1>2. Mine /\ Tracked /\ Begun(track)  BY <1>1 DEF StreamInv, Mine
<1>3. ack \in Seq32 /\ Diff(ack, 1) = isn.client /\ ack = Plus(isn.client, 1)
  BY <1>1, WordsOfStream DEF SeqAt
<1>4. /\ SeqAt("server", 0) = isn.server /\ Plus(isn.server, 0) = isn.server
      /\ SeqAt("client", 1) = Plus(isn.client, 1)
  BY <1>1, WordsOfStream DEF SeqAt
<1>5. PICK u : u = track'  OBVIOUS
<1>. HIDE DEF ack
<1>6. /\ OwnPool' /\ Tracked' /\ u \in Track /\ track \in Track
      /\ \E h \in Track :
            /\ u.state = h.state
            /\ Moved(h.server, u.server, h.state = "SYN", isn.server, 0)
            /\ Acked(h.client, u.client, ack)
            /\ h.state = track.state
            /\ h.client.seq0 = track.client.seq0 /\ h.server.seq0 = isn.server
            /\ \A x \in Sides : h[x].uppos = track[x].uppos /\ h[x].rseq_over_2G = track[x].rseq_over_2G
  <2>1. "synack" \in TcpKind /\ "server" \in Sides /\ Other("server") = "client"
    BY DEF TcpKind, Sides, Other
  <2>2. Send("server", "synack", isn.server, ack, 0)  BY DEF ServerSynAck, ack
  <2>3. track.client.seq0 = Diff(ack, 1)  BY <1>2, <1>3 DEF Begun
  <2>. QED BY <1>1, <1>2, <1>3, <1>5, <2>1, <2>2, <2>3, SentMoves
<1>7. PICK h \in Track :
            /\ u.state = h.state
            /\ Moved(h.server, u.server, h.state = "SYN", isn.server, 0)
            /\ Acked(h.client, u.client, ack)
            /\ h.state = track.state
            /\ h.client.seq0 = track.client.seq0 /\ h.server.seq0 = isn.server
            /\ \A x \in Sides : h[x].uppos = track[x].uppos /\ h[x].rseq_over_2G = track[x].rseq_over_2G
  BY <1>6
<1>8. /\ phase' = (IF phase = "syn" THEN "synack" ELSE phase)
      /\ top' = top /\ isn' = isn /\ inc' = inc /\ fresh' = "none"
      /\ last' = [last EXCEPT !["server"] = 0, !["client"] = 1]
      /\ cnt' = [cnt EXCEPT !["server"] = @ + 1]
  BY DEF ServerSynAck, Saw, Other
<1>9. /\ cnt' \in [Sides -> Nat] /\ last' \in [Sides -> Nat]
      /\ last'.client = 1 /\ last'.server = 0
  BY <1>1, <1>8, CountedOne DEF Ends, Sides
<1>10. Ends'  BY <1>1, <1>8, <1>9 DEF Ends
<1>11. /\ u.client.seq0 = isn.client /\ u.server.seq0 = isn.server
       /\ u.client.uppos = track.client.uppos
       /\ u.client.seq_last = ack /\ u.server.seq_last = isn.server
  BY <1>2, <1>7 DEF Moved, Acked, Begun, Sides
<1>12. Begun(track)'
  BY <1>2, <1>5, <1>8, <1>11 DEF Begun, SeqAt
<1>13. Greeted(track)'
  BY <1>5, <1>8, <1>11 DEF Greeted
<1>14. ASSUME phase = "open"
       PROVE  track'.state # "SYN" /\ Judged(track)' /\ \A s \in Sides : InPlace(track, s)'
  <2>1. track.state # "SYN" /\ \A s \in Sides : InPlace(track, s)  BY <1>14 DEF StreamInv
  <2>2. SeqMod \in Nat /\ SeqMod > 2  BY SeqModAssumption, StreamAssumption
  <2>3. \A s \in Sides : u[s].rseq_over_2G \/ (2 * last'[s] < SeqMod /\ AtMostAhead(top[s]))
    <3>1. \A s \in Sides : ~ u[s].rseq_over_2G => AtMostAhead(top[s])
      BY <1>7, <2>1 DEF Moved, Acked, InPlace, Sides
    <3>2. \A s \in Sides : 2 * last'[s] < SeqMod  BY <1>9, <2>2 DEF Sides
    <3>. QED BY <3>1, <3>2
  <2>4. \A s \in Sides : u[s].seq_last = SeqAt(s, last'[s])
    BY <1>3, <1>4, <1>9, <1>11 DEF Sides
  <2>5. \A s \in Sides : InPlace(track, s)'
    BY <1>5, <1>8, <1>11, <2>3, <2>4 DEF InPlace, SeqAt, Sides
  <2>6. Judged(track)'  BY <1>8 DEF Judged
  <2>. QED BY <1>5, <1>7, <2>1, <2>5, <2>6
<1>15. phase # "open" => phase' # "open" /\ track'.state = "SYN"
  BY <1>2, <1>5, <1>7, <1>8 DEF StreamInv
<1>16. phase' = "open" => phase = "open"  BY <1>8
<1>. QED BY <1>6, <1>8, <1>10, <1>12, <1>13, <1>14, <1>15, <1>16 DEF StreamInv

\* No offset of a direction that is not flagged, near the last or the end of
\* the stream, wraps.
LEMMA NoWrap ==
    ASSUME StreamInv, phase = "open", NEW s \in Sides, ~ track[s].rseq_over_2G
    PROVE  /\ \A x \in Nat : Near(x, last[s]) => x < SeqMod
           /\ Max2(top[s], 1) < SeqMod
<1>1. /\ SeqMod \in Nat /\ Window \in Nat \ {0} /\ 2 * Window < SeqMod
  BY SeqModAssumption, StreamAssumption
<1>2. /\ last[s] \in Nat /\ top[s] \in Nat
      /\ 2 * last[s] < SeqMod /\ 2 * top[s] < SeqMod + 2 * Window
  BY DEF StreamInv, Ends, InPlace, AtMostAhead
<1>3. \A x \in Nat : Near(x, last[s]) => x < SeqMod
  <2>. SUFFICES ASSUME NEW x \in Nat, Near(x, last[s]) PROVE x < SeqMod
    OBVIOUS
  <2>1. x - last[s] <= Window  BY <1>1, <1>2 DEF Near
  <2>. QED BY <1>1, <1>2, <2>1
<1>4. Max2(top[s], 1) < SeqMod  BY <1>1, <1>2 DEF Max2
<1>. QED BY <1>3, <1>4

LEMMA SegmentKeeps == ASSUME NEW s \in Sides PROVE StreamInv /\ Segment(s) => StreamInv'
<1>. SUFFICES ASSUME StreamInv, Segment(s) PROVE StreamInv'
  OBVIOUS
<1>1. PICK off \in 1 .. MaxStream(s) + 1, n \in Lengths, ackoff \in AckOff(s) :
        /\ phase = "open" \/ (phase = "synack" /\ s = "client")
        /\ Near(off + n, top[s]) /\ Near(off, last[s]) /\ Near(ackoff, last[Other(s)])
        /\ Send(s, "ack", SeqAt(s, off), SeqAt(Other(s), ackoff), n)
        /\ phase' = "open"
        /\ Saw(s, off, n, ackoff)
        /\ UNCHANGED <<inc, isn>>
  BY DEF Segment
<1>2. Other(s) \in Sides /\ (s = "client" => Other(s) = "server")  BY DEF Other, Sides
<1>3. top[Other(s)] \in Nat /\ last[s] \in Nat  BY <1>2 DEF StreamInv, Ends
<1>4. /\ off \in Nat /\ n \in Nat /\ n <= Window /\ ackoff \in Nat
  <2>1. MaxStream(s) \in Nat  BY StreamAssumption DEF MaxStream
  <2>2. ackoff \in Nat  BY <1>3 DEF AckOff, Max2
  <2>. QED BY <2>1, <2>2, ConntrackAssumption, StreamAssumption
<1>5. ASSUME phase # "open"
      PROVE  ackoff = 1 /\ off < SeqMod /\ ackoff < SeqMod
  <2>1. phase = "synack" /\ s = "client" /\ top.server = 0 /\ last.client = 1
    BY <1>1, <1>5 DEF StreamInv, Ends
  <2>2. ackoff = 1  BY <1>2, <2>1 DEF AckOff, Max2
  <2>3. SeqMod \in Nat /\ Window \in Nat \ {0} /\ 2 * Window < SeqMod /\ SeqMod > 2
    BY SeqModAssumption, StreamAssumption
  <2>4. off - 1 <= Window  BY <1>1, <1>4, <2>1, <2>3 DEF Near
  <2>. QED BY <1>4, <2>2, <2>3, <2>4
<1>6. /\ ~ track[s].rseq_over_2G => off < SeqMod
      /\ ~ track[Other(s)].rseq_over_2G => ackoff < SeqMod
  BY <1>1, <1>2, <1>4, <1>5, NoWrap
<1>. QED BY <1>1, <1>4, <1>5, <1>6, Carried

LEMMA FinKeeps == ASSUME NEW s \in Sides PROVE StreamInv /\ Fin(s) => StreamInv'
<1>. SUFFICES ASSUME StreamInv, Fin(s) PROVE StreamInv'
  OBVIOUS
<1>1. PICK off, ackoff : off = Max2(top[s], 1) /\ ackoff = Max2(top[Other(s)], 1)
  OBVIOUS
<1>2. Other(s) \in Sides  BY DEF Other, Sides
<1>3. off \in Nat /\ ackoff \in Nat /\ 0 \in Nat /\ 0 <= Window
  BY <1>1, <1>2, StreamAssumption DEF StreamInv, Ends, Max2
<1>4. /\ phase = "open" /\ phase' = "open" /\ UNCHANGED <<inc, isn>>
      /\ Send(s, "fin", SeqAt(s, off), SeqAt(Other(s), ackoff), 0)
      /\ Saw(s, off, 0, ackoff)
  BY <1>1 DEF Fin
<1>5. /\ ~ track[s].rseq_over_2G => off < SeqMod
      /\ ~ track[Other(s)].rseq_over_2G => ackoff < SeqMod
  BY <1>1, <1>2, <1>4, NoWrap
<1>. QED BY <1>3, <1>4, <1>5, Carried

LEMMA StreamKeeps == SynSeen /\ StreamInv /\ [StreamNext]_svars => StreamInv'
<1>. SUFFICES ASSUME SynSeen, StreamInv, [StreamNext]_svars PROVE StreamInv'
  OBVIOUS
<1>1. CASE UNCHANGED svars
  <2>1. UNCHANGED <<pool, t_last_purge, now>> /\ UNCHANGED aux  BY <1>1 DEF svars, vars
  <2>2. OwnPool'
    BY <2>1 DEF StreamInv, OwnPool, PoolInv, TypeOK, OneTrackPerFlow, TracksGood
  <2>3. Ends' /\ (Mine' <=> Mine) /\ (Tracked' <=> Tracked) /\ track' = track
    BY <2>1 DEF aux, StreamInv, Ends, Mine, Tracked, track
  <2>. QED BY <2>1, <2>2, <2>3 DEF aux, StreamInv, Begun, Greeted, InPlace, Judged, SeqAt
<1>. QED BY <1>1, OpenKeeps, SynKeeps, SynAckKeeps, CloseKeeps, SegmentKeeps, FinKeeps
         DEF StreamNext

LEMMA StreamInvariant == ASSUME SynSeen PROVE StreamSpec => []StreamInv
<1>1. StreamInv /\ [StreamNext]_svars => StreamInv'  BY StreamKeeps
<1>. QED BY <1>1, StreamStarts, PTL DEF StreamSpec

(* Where every SYN passes through the queue, a payload of the client is      *)
(* taken for a retransmission exactly when it brings no new byte, in every   *)
(* conversation of every length and after every wrap of the sequence space,  *)
(* as long as two packets in a row are less than half of it apart.           *)
THEOREM RetransmissionsAreKnown == ASSUME SynSeen PROVE StreamSpec => []RetransmissionIsExact
<1>1. StreamInv => RetransmissionIsExact
  BY DEF StreamInv, RetransmissionIsExact, Underway, Judged
<1>. QED BY <1>1, StreamInvariant, PTL

(* And the relative number of either direction is the true offset of its     *)
(* last segment or acknowledgement, or is flagged: none has wrapped unseen.  *)
THEOREM PositionsAreTrue == ASSUME SynSeen PROVE StreamSpec => []PositionExactOrFlagged
<1>1. StreamInv => PositionExactOrFlagged
  <2>. SUFFICES ASSUME StreamInv, Underway, NEW s \in Sides, ~ track[s].rseq_over_2G
                PROVE  Diff(track[s].seq_last, track[s].seq0) = last[s]
    BY DEF PositionExactOrFlagged
  <2>1. /\ isn[s] \in Seq32 /\ last[s] \in Nat /\ 2 * last[s] < SeqMod
        /\ track[s].seq0 = isn[s] /\ track[s].seq_last = Plus(isn[s], last[s])
    BY DEF StreamInv, Ends, Underway, InPlace, SeqAt
  <2>2. SeqMod \in Nat /\ SeqMod > 1  BY SeqModAssumption
  <2>3. last[s] % SeqMod = last[s]  BY <2>1, <2>2, SmallMod
  <2>. QED BY <2>1, <2>3, WordsOfStream
<1>. QED BY <1>1, StreamInvariant, PTL

=============================================================================
