------------------------------- MODULE Packet -------------------------------
(***************************************************************************)
(* Packets taken apart (nfq2/darkmagic.c, and as tables in nfq2/lua.c) and  *)
(* put together again (nfq2/lua.c), whole or as one fragment.               *)
(***************************************************************************)
EXTENDS Bytes, SequencesExt, FiniteSets, FiniteSetsExt

CONSTANT WrongSums   \* what a spoiled sum may be by chance (bound)
ASSUME PacketAssumption == WrongSums \subseteq 0 .. 65535

-----------------------------------------------------------------------------
(***************************************************************************)
(* Checksums: nfq2/checksum.c, of bytes that begin at the address at,      *)
(* modulo 8, on a host that has the high byte of a number first, if big,   *)
(* or last.  A number of 64 bits is its four digits of 16 bits, the highest *)
(* first.                                                                  *)
(***************************************************************************)

W16 == 65536

\* The sum, and what is carried out of it.
Add(a, b) ==
    LET d4 == a[4] + b[4]
        d3 == a[3] + b[3] + (d4 \div W16)
        d2 == a[2] + b[2] + (d3 \div W16)
        d1 == a[1] + b[1] + (d2 \div W16)
    IN  [sum |-> <<d1 % W16, d2 % W16, d3 % W16, d4 % W16>>, carry |-> d1 \div W16]
Plus(a, b) == Add(a, b).sum

\* The number that up to eight bytes of memory are, and a number of 16 bits there.
Word(big, b) ==
    LET n == Len(b)
        Low(k) == IF k >= n THEN 0 ELSE IF big THEN b[n - k] ELSE b[k + 1]
        Digit(k) == (256 * Low(k + 1)) + Low(k)
    IN  [i \in 1 .. 4 |-> Digit(8 - (2 * i))]
Stored(big, v) == IF big THEN N16(v) ELSE Reverse(N16(v))

\* The sum of the digits is folded once, to the width of one.
from64to16(x) ==
    LET u == x[1] + x[2] + x[3] + x[4]
    IN  ((u % W16) + (u \div W16)) % W16

\* Words of eight bytes, each added with the carry of the last.
AroundSum(b, start, big) ==
    LET n == Len(b) \div 8
        add[k \in 0 .. n + 1] ==
            IF k = 0 THEN [sum |-> start, carry |-> 0]
            ELSE LET r == add[k - 1]
                 IN  Add(Plus(r.sum, <<0, 0, 0, r.carry>>), Word(big, Cut(b, 8 * (k - 1), IF k > n THEN 0 ELSE 8)))
    IN  add[n + 1].sum

Fold32(x) == Plus(<<0, 0, x[1], x[2]>>, <<0, 0, x[3], x[4]>>)

\* One byte, two and four up to an address of a multiple of eight, words of
\* eight, and four, two and one; a single byte is half a word.
Summed(d, at, big) ==
    LET Size(k, o) ==
            LET left == Len(d) - o
            IN  CASE k = 1 -> at % 2
                  [] k = 2 -> IF (at + o) % 4 = 2 /\ left >= 2 THEN 2 ELSE 0
                  [] k = 3 -> IF (at + o) % 8 = 4 /\ left >= 4 THEN 4 ELSE 0
                  [] k = 4 -> left - (left % 8)
                  [] k = 5 -> IF left >= 4 THEN 4 ELSE 0
                  [] k = 6 -> IF left >= 2 THEN 2 ELSE 0
                  [] k = 7 -> left
        With(sum, k, b) ==
            IF b = <<>> THEN sum ELSE IF k = 4 THEN Fold32(AroundSum(b, sum, big))
            ELSE Plus(sum, Word(big, CASE k = 1 -> <<0>> \o b [] k = 7 -> b \o <<0>> [] OTHER -> b))
        part[k \in 0 .. 7] ==
            IF k = 0 THEN [end |-> 0, sum |-> <<0, 0, 0, 0>>]
            ELSE LET p == part[k - 1]  n == Size(k, p.end)
                 IN  [end |-> p.end + n, sum |-> With(p.sum, k, Cut(d, p.end, n))]
    IN  from64to16(part[7].sum)

Mut_do_csum_Unswapped(d, at, big) == IF d = <<>> THEN 0 ELSE Summed(d, at, big)

\* The bytes of words from an odd address on are in each other's place.
do_csum(d, at, big) ==
    LET sum == Summed(d, at, big)
    IN  IF d = <<>> THEN 0 ELSE IF at % 2 = 1 THEN (sum % 256) * 256 + (sum \div 256) ELSE sum

Not16(v) == W16 - 1 - v

\* The sum of the addresses, in words of four bytes, the length, the protocol
\* and the sum of the segment.
Pseudo(src, dst, len, proto, sum, big) ==
    LET Fours(a) == [i \in 1 .. Len(a) \div 4 |-> Word(big, Cut(a, (i - 1) * 4, 4))]
    IN  Not16(from64to16(FoldLeft(Plus, <<0, 0, 0, sum>>,
                                  Fours(src) \o Fours(dst) \o <<Word(big, <<0, 0>> \o N16(len + proto))>>)))

\* ip4_fix_checksum: the sum in a header is written over.
ip4_fix_checksum(hdr, at, big) ==
    LET clear == Write(hdr, 10, <<0, 0>>)
    IN  Write(clear, 10, Stored(big, Not16(from64to16(<<0, 0, 0, do_csum(clear, at, big)>>))))

SumAt(proto) == IF proto = 6 THEN 16 ELSE 6

\* tcp_fix_checksum, udp_fix_checksum, of a segment between two addresses.
fix_checksum(segment, proto, src, dst, at, big) ==
    LET clear == Write(segment, SumAt(proto), <<0, 0>>)
    IN  Write(clear, SumAt(proto),
              Stored(big, Pseudo(src, dst, Len(clear), proto, do_csum(clear, at, big), big)))

IpBase == 20
Ip6Base == 40
TcpBase == 20
UdpBase == 8
IPPROTO_TCP == 6
IPPROTO_UDP == 17
IPPROTO_NONE == 59
IPPROTO_FRAGMENT == 44
IPPROTO_AH == 51
\* hop by hop, routing, destination, mobility, HIP, SHIM6.
Option8 == {0, 43, 60, 135, 139, 140}

Round4(n) == ((n + 3) \div 4) * 4

-----------------------------------------------------------------------------
(* Extension headers.                                                      *)

\* The length of the header of a type at o, of none if it is no such header or
\* is cut.
HdrLen(d, o, type) ==
    LET n == CASE type \in Option8 /\ o + 2 <= Len(d)      -> 8 + (8 * At(d, o + 1))
               [] type = IPPROTO_FRAGMENT                  -> 8
               [] type = IPPROTO_AH /\ o + 2 <= Len(d)     -> 8 + (4 * At(d, o + 1))
               [] OTHER                                    -> 0
    IN  IF o + n <= Len(d) THEN n ELSE 0

IsExt(type) == type \in Option8 \cup {IPPROTO_FRAGMENT, IPPROTO_AH}

\* The headers one after the other: where the type of the next thing stands,
\* where it is, and those passed.
Walk(d) ==
    LET walk[k \in 0 .. Len(d) \div 8] ==
            IF k = 0 THEN [nxt |-> 6, at |-> Ip6Base, hdrs |-> <<>>]
            ELSE LET w == walk[k - 1]
                     n == IF w.at < Len(d) THEN HdrLen(d, w.at, At(d, w.nxt)) ELSE 0
                 IN  IF n = 0 THEN w
                     ELSE [nxt |-> w.at, at |-> w.at + n,
                           hdrs |-> Append(w.hdrs, [type |-> At(d, w.nxt), next |-> At(d, w.at),
                                                    at |-> w.at, data |-> Cut(d, w.at + 2, n - 2)])]
    IN  walk[Len(d) \div 8]

\* proto_skip_ipv6: the protocol behind them, 0 if there is none or a header is cut.
L4Proto(d, w) ==
    LET type == At(d, w.nxt)
    IN  IF w.at >= Len(d) \/ type = IPPROTO_NONE \/ IsExt(type) THEN 0 ELSE type

\* proto_set_last_ip6_proto, as the set of the packet it gives.
SetLastProto(d, proto) ==
    LET w == Walk(d)
    IN  IF Len(d) < Ip6Base \/ (w.at < Len(d) /\ IsExt(At(d, w.nxt))) THEN {}
        ELSE {Write(d, w.nxt, <<proto>>)}

\* proto_find_ip6_exthdr
FindExt(d, type) ==
    LET hdrs == Walk(d).hdrs
        is   == {i \in DOMAIN hdrs : hdrs[i].type = type}
    IN  IF is = {} THEN {} ELSE {hdrs[Min(is)].at}

-----------------------------------------------------------------------------
(* Taking apart.                                                           *)

IsIp4(d) == Len(d) >= IpBase /\ At(d, 0) \div 16 = 4 /\ Len(d) >= 4 * (At(d, 0) % 16)
IsIp6(d) == Len(d) >= Ip6Base /\ At(d, 0) \div 16 = 6 /\ Len(d) - Ip6Base >= U16(d, 4)
IsTcp(s) == Len(s) >= TcpBase /\ Len(s) >= 4 * (At(s, 12) \div 16)
IsUdp(s) == Len(s) >= UdpBase /\ Len(s) >= U16(s, 4)

\* lua_pushf_iphdr, lua_pushf_ip6hdr: addresses and what only the network reads
\* stay bytes.
Ip4Table(d) ==
    LET hl == 4 * (At(d, 0) % 16)
    IN  [v |-> 4, tos |-> At(d, 1), len |-> U16(d, 2), id |-> Cut(d, 4, 2), off |-> U16(d, 6),
         ttl |-> At(d, 8), p |-> At(d, 9), src |-> Cut(d, 12, 4), dst |-> Cut(d, 16, 4),
         options |-> Cut(d, IpBase, hl - IpBase)]

Ip6Table(d) ==
    [v |-> 6, flow |-> Cut(d, 0, 4), plen |-> U16(d, 4), nxt |-> At(d, 6), hlim |-> At(d, 7),
     src |-> Cut(d, 8, 16), dst |-> Cut(d, 24, 16),
     exthdr |-> LET hdrs == Walk(d).hdrs
                IN  [i \in DOMAIN hdrs |-> [type |-> hdrs[i].type, next |-> hdrs[i].next, data |-> hdrs[i].data]]]

KIND_END == 0
KIND_NOOP == 1
NoData == {KIND_END, KIND_NOOP}

\* lua_pushf_tcphdr_options: one after the other, to the end or to one that is
\* malformed.
TcpOptions(s, end) ==
    LET read[o \in TcpBase .. end] ==
            IF o = end THEN <<>>
            ELSE IF At(s, o) = KIND_END THEN <<[kind |-> KIND_END, data |-> <<>>]>>
            ELSE IF At(s, o) = KIND_NOOP THEN <<[kind |-> KIND_NOOP, data |-> <<>>]>> \o read[o + 1]
            ELSE IF o + 1 = end \/ At(s, o + 1) < 2 \/ o + At(s, o + 1) > end THEN <<>>
            ELSE <<[kind |-> At(s, o), data |-> Cut(s, o + 2, At(s, o + 1) - 2)]>> \o read[o + At(s, o + 1)]
    IN  read[TcpBase]

\* tcp_find_option, for the timestamps, the scale and the size of segments: the
\* data of the first option of the kind, if it has that size.
FindOption(s, kind, size) ==
    LET opts == TcpOptions(s, 4 * (At(s, 12) \div 16))
        is   == {i \in DOMAIN opts : opts[i].kind = kind}
    IN  IF is = {} THEN {} ELSE {o \in {opts[Min(is)].data} : Len(o) = size - 2}

TcpTable(s) ==
    [p |-> IPPROTO_TCP, ports |-> Cut(s, 0, 4), seq |-> Cut(s, 4, 4), ack |-> Cut(s, 8, 4),
     x2 |-> At(s, 12) % 16, flags |-> At(s, 13), win |-> Cut(s, 14, 2), urp |-> Cut(s, 18, 2),
     options |-> TcpOptions(s, 4 * (At(s, 12) \div 16))]
UdpTable(s) == [p |-> IPPROTO_UDP, ports |-> Cut(s, 0, 4), ulen |-> U16(s, 4)]

None == [p |-> 0]

\* proto_dissect_l3l4 and lua_push_dissect: as the set of the table it gives.
dissect(d) ==
    LET w     == Walk(d)
        at    == IF IsIp4(d) THEN 4 * (At(d, 0) % 16) ELSE w.at
        proto == IF IsIp4(d) THEN At(d, 9) ELSE L4Proto(d, w)
        s     == From(d, at)
        hl    == IF proto = IPPROTO_TCP THEN 4 * (At(s, 12) \div 16) ELSE UdpBase
        l4    == IF proto = IPPROTO_TCP /\ IsTcp(s) THEN TcpTable(s)
                 ELSE IF proto = IPPROTO_UDP /\ IsUdp(s) THEN UdpTable(s) ELSE None
    IN  IF ~ IsIp4(d) /\ ~ IsIp6(d) THEN {}
        ELSE {[l3 |-> IF IsIp4(d) THEN Ip4Table(d) ELSE Ip6Table(d), l4 |-> l4,
               payload |-> IF l4 = None THEN <<>> ELSE From(s, hl)]}

-----------------------------------------------------------------------------
(* Putting together.                                                       *)

\* lua_reconstruct_iphdr
Ip4Header(ip, room) ==
    LET n == IpBase + Round4(Len(ip.options))
    IN  IF Len(ip.options) > 40 \/ n > room THEN {}
        ELSE {<<64 + (n \div 4), ip.tos>> \o N16(ip.len) \o ip.id \o N16(ip.off)
              \o <<ip.ttl, ip.p, 0, 0>> \o ip.src \o ip.dst
              \o ip.options \o Zeros(n - IpBase - Len(ip.options))}

\* The length that an extension header has in it.
ExtBytes(h) ==
    LET n == Len(h.data) + 2
    IN  <<h.next, IF h.type = IPPROTO_AH THEN (n \div 4) - 2 ELSE (n \div 8) - 1>> \o h.data
ExtFits(h) ==
    h.data # <<>> /\ (IF h.type = IPPROTO_AH THEN Len(h.data) >= 6 /\ (Len(h.data) + 2) % 4 = 0
                      ELSE (Len(h.data) + 2) % 8 = 0)

\* Each header gets the type of the one behind it.
Chained(hdrs, last) ==
    [i \in DOMAIN hdrs |-> [hdrs[i] EXCEPT !.next = IF i = Len(hdrs) THEN last ELSE hdrs[i + 1].type]]

\* lua_reconstruct_ip6hdr, lua_reconstruct_ip6exthdr: the bytes and how many of
\* them are counted, in a number of eight bits.
Ip6Header(ip6, room, last, preserve) ==
    LET hdrs == IF preserve THEN ip6.exthdr ELSE Chained(ip6.exthdr, last)
        exts == FlattenSeq([i \in DOMAIN hdrs |-> ExtBytes(hdrs[i])])
        nxt  == IF preserve THEN ip6.nxt ELSE IF hdrs = <<>> THEN last ELSE hdrs[1].type
    IN  IF Ip6Base + Len(exts) > room \/ \E i \in DOMAIN hdrs : ~ ExtFits(hdrs[i]) THEN {}
        ELSE {[bytes |-> ip6.flow \o N16(ip6.plen) \o <<nxt, ip6.hlim>> \o ip6.src \o ip6.dst \o exts,
               filled |-> (Ip6Base + Len(exts)) % 256]}

OptBytes(o) == IF o.kind \in NoData THEN <<o.kind>> ELSE <<o.kind, Len(o.data) + 2>> \o o.data

\* lua_reconstruct_tcphdr_options: nothing is put behind the end, the rest is
\* filled with what does nothing.
OptionBytes(opts, room) ==
    LET ends == {i \in DOMAIN opts : opts[i].kind = KIND_END}
        put  == IF ends = {} THEN opts ELSE SubSeq(opts, 1, Min(ends))
        b    == FlattenSeq([i \in DOMAIN put |-> OptBytes(put[i])])
        fill == Round4(Len(b)) - Len(b)
    IN  IF Len(b) + fill > Min({40, room}) THEN {} ELSE {b \o [i \in 1 .. fill |-> KIND_NOOP]}

\* lua_reconstruct_tcphdr, lua_reconstruct_udphdr
L4Header(l4, room, payload) ==
    IF l4.p = IPPROTO_TCP
    THEN {l4.ports \o l4.seq \o l4.ack \o <<((TcpBase + Len(o)) \div 4) * 16 + l4.x2, l4.flags>>
          \o l4.win \o <<0, 0>> \o l4.urp \o o
                : o \in IF room < TcpBase THEN {} ELSE OptionBytes(l4.options, room - TcpBase)}
    ELSE IF l4.p = IPPROTO_UDP /\ room >= UdpBase
    THEN {l4.ports \o N16(UdpBase + Len(payload)) \o <<0, 0>>} ELSE {}

\* The sum is changed by chance, to any other number of 16 bits.
Spoiled(segment, p) ==
    {Write(segment, SumAt(p), N16(v)) : v \in WrongSums \ {U16(segment, SumAt(p))}}

IP_MF == 8192
Offset4(ip) == (ip.off % 8192) * 8
IsFragment4(ip) == ip.off % 16384 # 0

\* A fragment is made of a whole packet: what is in front of its offset is taken
\* out, and what is behind its length; the caller gave both.
Fragment4(d, l3, ip) ==
    IF ip.len \notin l3 .. Len(d) \/ l3 + Offset4(ip) > Len(d) THEN {}
    ELSE {Cut(d, 0, l3) \o Cut(d, l3 + Offset4(ip), ip.len - l3)}

Fragment6(d, frag, plen) ==
    LET end == frag + 8
        off == U16(d, frag + 2) - (U16(d, frag + 2) % 8)
        n   == plen - (end - Ip6Base)
    IN  IF n < 0 \/ end + off + n > Len(d) THEN {} ELSE {Cut(d, 0, end) \o Cut(d, end + off, n)}

\* The lengths of the network header, and the fragment if it says it is one.
Finish(d, l3, dis, mem) ==
    IF dis.l3.v = 4
    THEN {ip4_fix_checksum(Cut(f, 0, l3), mem.at, mem.big) \o From(f, l3) :
              f \in IF IsFragment4(dis.l3) THEN Fragment4(d, l3, dis.l3) ELSE {Write(d, 2, N16(Len(d)))}}
    ELSE LET frags == FindExt(d, IPPROTO_FRAGMENT)
         IN  IF frags = {} THEN {Write(d, 4, N16(Len(d) - Ip6Base))}
             ELSE UNION {Fragment6(d, f, dis.l3.plen) : f \in frags}

\* lua_reconstruct_dissect into a buffer of size bytes that is at mem.at: as the
\* set of the packets it may give.  Where the headers are counted wrong, what
\* follows is put over them.
lua_reconstruct_dissect(dis, size, badsum, preserve, mem) ==
    UNION {UNION {
        LET l3  == h.filled
            seg == fix_checksum(t \o dis.payload, dis.l4.p, dis.l3.src, dis.l3.dst, (mem.at + l3) % 8, mem.big)
        IN  IF l3 + Len(seg) > size THEN {}
            ELSE UNION {Finish(Cut(h.bytes, 0, l3) \o s, l3, dis, mem) :
                            s \in IF badsum THEN Spoiled(seg, dis.l4.p) ELSE {seg}}
            : t \in L4Header(dis.l4, size - h.filled, dis.payload)}
        : h \in IF dis.l3.v = 4 THEN {[bytes |-> b, filled |-> Len(b)] : b \in Ip4Header(dis.l3, size)}
                ELSE Ip6Header(dis.l3, size, IF dis.l4.p = 0 THEN IPPROTO_NONE ELSE dis.l4.p, preserve)}

-----------------------------------------------------------------------------
(* The two fragments of a packet, as tables (ipfrag2 of lua/zapret-lib.lua). *)

ExtLen(h) == Len(h.data) + 2
ExtsLen(hdrs) == FoldLeft(LAMBDA n, h : n + ExtLen(h), 0, hdrs)

\* The fragment header goes behind those that every router reads, and the first
\* of the destination's.
frag_idx(hdrs) ==
    LET first == Min({i \in DOMAIN hdrs : hdrs[i].type = 60} \cup {99})
    IN  1 + Max({0} \cup {i \in DOMAIN hdrs : hdrs[i].type \in {0, 43} \/ i = first})

insert_ip6_exthdr(ip6, idx, type, data) ==
    LET prev == IF idx = 1 THEN ip6.nxt ELSE ip6.exthdr[idx - 1].next
        hdrs == IF idx = 1 THEN ip6.exthdr ELSE [ip6.exthdr EXCEPT ![idx - 1].next = type]
    IN  [ip6 EXCEPT !.nxt = IF idx = 1 THEN type ELSE @,
                    !.exthdr = InsertAt(hdrs, idx, [type |-> type, next |-> prev, data |-> data])]

ipfrag2(dis, l3, plen, pos, ident) ==
    IF pos % 8 # 0 \/ pos + l3 >= plen THEN <<>>
    ELSE IF dis.l3.v = 4
    THEN <<[dis EXCEPT !.l3.len = l3 + pos, !.l3.off = IP_MF],
           [dis EXCEPT !.l3.len = plen - pos, !.l3.off = pos \div 8]>>
    ELSE LET idx == frag_idx(dis.l3.exthdr)
             With(off) == insert_ip6_exthdr(dis.l3, idx, IPPROTO_FRAGMENT, N16(off) \o ident)
             extra == ExtsLen(SubSeq(dis.l3.exthdr, 1, idx - 1)) + 8
         IN  <<[dis EXCEPT !.l3 = [With(1) EXCEPT !.plen = extra + pos]],
               [dis EXCEPT !.l3 = [With(pos) EXCEPT !.plen = plen - Ip6Base + 8 - pos]]>>

=============================================================================
