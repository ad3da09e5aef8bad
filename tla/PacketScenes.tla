---------------------------- MODULE PacketScenes ----------------------------
(* Packets as their senders make them, taken apart and sent on, whole and   *)
(* in two fragments; what scripts do with numbers.                          *)
EXTENDS Packet, LuaNumbers, Scene

\* A sum of 16 bits that the sender leaves right; a receiver adds all words up.
SumOf(b) ==
    LET sum[i \in 0 .. Len(b)] == IF i = 0 THEN 0 ELSE sum[i - 1] + (IF i % 2 = 1 THEN b[i] * 256 ELSE b[i])
    IN  sum[Len(b)]
Around(n) == IF n > 0 /\ n % 65535 = 0 THEN 65535 ELSE n % 65535
SumField(b) == N16(65535 - Around(SumOf(b)))
Agrees(b) == SumOf(b) % 65535 = 0
PseudoHeader(p, seg) == p.src \o p.dst \o N16(Len(seg)) \o <<0, p.proto>>

SegmentOf(p, sum) ==
    IF p.proto = 6
    THEN N16(4660) \o N16(443) \o Zeros(3) \o <<7>> \o Zeros(3) \o <<9>>
         \o <<((20 + Len(p.opts)) \div 4) * 16, 24>> \o N16(63750) \o sum \o <<0, 0>> \o p.opts \o p.payload
    ELSE N16(4660) \o N16(443) \o N16(8 + Len(p.payload)) \o sum \o p.payload
SegLen(p) == Len(SegmentOf(p, <<>>)) + 2

\* All that the sum of a segment is of, and the sum.  That of a datagram is sent
\* as 65535 if it is 0: one with 0 is not checked over IPv4 and dropped over IPv6.
SummedUp(p) == PseudoHeader(p, SegmentOf(p, <<0, 0>>)) \o SegmentOf(p, <<0, 0>>)
RightSum(p) ==
    LET sum == SumField(SummedUp(p))
    IN  IF p.proto = 17 /\ sum = <<0, 0>> THEN <<255, 255>> ELSE sum
Segment(p) == SegmentOf(p, RightSum(p))
Received(p, seg) ==
    IF p.proto = 17 /\ U16(seg, SumAt(17)) = 0 THEN p.v = 4 ELSE Agrees(PseudoHeader(p, seg) \o seg)

\* Extension headers by type: 8, 16, 12 and 256 bytes.
ExtOf(type, next) ==
    CASE type = 0  -> <<next, 0>> \o <<1, 4>> \o Zeros(4)
      [] type = 60 -> <<next, 1>> \o <<1, 12>> \o Zeros(12)
      [] type = 51 -> <<next, 1>> \o <<0, 0, 5, 5, 5, 5>> \o Zeros(4)
      [] type = 43 -> <<next, 31>> \o Zeros(254)
Exts(p) == FlattenSeq([i \in DOMAIN p.exts |->
              ExtOf(p.exts[i], IF i < Len(p.exts) THEN p.exts[i + 1] ELSE p.proto)])

Header4(p, sum) ==
    <<64 + 5 + (Len(p.options) \div 4), 16>> \o N16(20 + Len(p.options) + SegLen(p)) \o <<9, 9>>
    \o <<64, 0, 57, p.proto>> \o sum \o p.src \o p.dst \o p.options
NetHeader(p) ==
    IF p.v = 4 THEN Header4(p, SumField(Header4(p, <<0, 0>>)))
    ELSE <<96, 0, 1, 2>> \o N16(Len(Exts(p)) + SegLen(p))
         \o <<IF p.exts = <<>> THEN p.proto ELSE p.exts[1], 61>> \o p.src \o p.dst \o Exts(p)
PacketOf(p) == NetHeader(p) \o Segment(p)

Mss == <<2, 4, 5, 180>>
Timestamps == <<1, 1, 8, 10, 0, 0, 0, 1, 0, 0, 0, 2>>
OptLists == {<<>>, Mss, Mss \o Timestamps, <<3, 3, 7, 1>>, <<3, 3, 7, 0>>, <<254, 3, 9, 1>> \o Mss, <<1, 0, 9, 9>>}
Net4 == [v : {4}, src : {<<10, 0, 0, 1>>, <<255, 254, 1, 2>>}, dst : {<<192, 168, 1, 1>>},
         options : {<<>>, <<148, 4, 0, 0>>}, exts : {<<>>}]
Net6 == [v : {6}, src : {<<253>> \o Zeros(14) \o <<1>>}, dst : {[i \in 1 .. 16 |-> 251 - i]},
         options : {<<>>}, exts : {<<>>, <<0>>, <<60>>, <<0, 60>>, <<60, 51>>, <<0, 51, 60>>}]
Long6 == {[net EXCEPT !.exts = <<43>>] : net \in Net6}

\* Bytes of all values; and what makes up all ones with the header of a
\* datagram, and one more, first or last: such a sum loses a carry.
Counted(n, step) == [i \in 1 .. n |-> (i * step) % 256]
Losing == {<<237, 203, 254, 68, 255, 235, 255, 255>> \o one : one \in {<<0, 0, 0, 1>>, <<1, 0, 0, 0>>}}
Loads(sizes) == {Counted(n, step) : n \in sizes, step \in {7, 255}} \cup {<<0, 0>>}
Transport ==
    [proto : {6}, opts : OptLists, payload : Loads({0, 1, 2, 7, 24})]
    \cup [proto : {17}, opts : {<<>>}, payload : Loads({0, 1, 6, 24, 35}) \cup Losing]

\* The two bytes that make the sum of the segment 0.
Zeroed(p) == IF p.payload = <<0, 0>> THEN [p EXCEPT !.payload = SumField(SummedUp(p))] ELSE p

Buffer == 1600

\* The buffer is of bytes, at any address; hosts are of two kinds.
Mems == [at : 0 .. 7, big : BOOLEAN]
Aligned == [at |-> 0, big |-> TRUE]
Plain(net, t) == net.options = <<>> /\ net.exts \in {<<>>, <<60, 51>>} /\ t.opts \in {<<>>, Mss}

Rebuild ==
    /\ Idle
    /\ \E net \in Net4 \cup Net6 \cup Long6, t \in Transport, mem \in Mems :
          /\ mem = Aligned \/ Plain(net, t)
          /\ net \in Long6 => Len(t.payload) = 24
          /\ \E p \in {net @@ t, Zeroed(net @@ t)} : scene' = [kind |-> "packet", p |-> p, mem |-> mem]

\* Nothing behind the end of the options is read.
Cleaned(p) == [p EXCEPT !.opts = IF @ = <<1, 0, 9, 9>> THEN <<1, 0, 1, 1>> ELSE @]

\* Where the host may lose a carry of the sum of bytes: where it is 1 or 2, in
\* either order.
MayLose(b) == Around(SumOf(b)) \in {1, 2, 256, 512}
HeaderMayLose(p) == p.v = 4 /\ MayLose(Header4(p, <<0, 0>>))
SegmentMayLose(p) == MayLose(SegmentOf(p, <<0, 0>>)) \/ MayLose(SummedUp(p))
SumPlaces(at) == {at + 1, at + 2}

\* A packet that is taken apart and put together, at any address and on any
\* host, is byte for byte what its sender made, sums and lengths included; only
\* what stands behind the end of the options is lost, and what has no room is
\* not made.  With a sum spoiled on purpose nothing but the sum of the segment
\* is wrong, and a receiver drops the packet, unless chance gave a datagram over
\* IPv4 the sum 0, which is not checked, or the other form of the right sum.
\* Three kinds of packets are excepted.  Where MayLose, sums may be wrong, and
\* spoiled ones right.  A datagram whose sum is 0 gets 0, and not 65535.  And
\* network headers of 256 bytes or more are counted wrong: such a packet never
\* comes out as it went in.
PacketSurvives ==
    scene.kind = "packet" =>
        LET p    == Cleaned(scene.p)
            same == PacketOf(p)
            l3   == Len(NetHeader(p))
            net  == IF HeaderMayLose(p) THEN SumPlaces(10) ELSE {}
            sum  == SumPlaces(l3 + SumAt(p.proto))
            NoSum == p.proto = 17 /\ RightSum(p) = <<255, 255>>
            Made(t, size, badsum) == lua_reconstruct_dissect(t, size, badsum, FALSE, scene.mem)
            OnlyIn(made, places) == Len(made) = Len(same) /\ {i \in DOMAIN made : made[i] # same[i]} \subseteq places
            Field(made) == U16(made, l3 + SumAt(p.proto))
        IN  \E t \in dissect(PacketOf(scene.p)) :
               /\ t.payload = p.payload
               /\ l3 >= 256 => Made(t, Buffer, FALSE) # {same}
               /\ l3 < 256 =>
                     /\ Made(t, Len(same) - 1, FALSE) = {}
                     /\ \E made \in Made(t, Len(same), FALSE) :
                           OnlyIn(made, net \cup (IF SegmentMayLose(p) \/ NoSum THEN sum ELSE {}))
                     /\ \A bad \in Made(t, Buffer, TRUE) :
                           /\ OnlyIn(bad, net \cup sum)
                           /\ Received(p, From(bad, l3)) =>
                                 \/ SegmentMayLose(p)
                                 \/ p.proto = 17 /\ p.v = 4 /\ Field(bad) = 0
                                 \/ {Field(bad), Field(same)} \subseteq {0, 65535}

-----------------------------------------------------------------------------
Fragment ==
    /\ Idle
    /\ \E net \in Net4 \cup Net6, t \in {x \in Transport : x.opts # <<1, 0, 9, 9>> /\ x.payload # <<0, 0>>} :
       \E mem \in {Aligned, [at |-> 3, big |-> FALSE], [at |-> 6, big |-> TRUE]}, pos \in {8, 16, 24, 32, 40, 48} :
          /\ mem = Aligned \/ (Plain(net, t) /\ Len(t.payload) = 24)
          /\ scene' = [kind |-> "fragments", p |-> net @@ t, pos |-> pos, mem |-> mem]

\* What a receiver makes of fragments: the data of each at its offset.
Data4(f) == [at |-> (U16(f, 6) % 8192) * 8, more |-> (U16(f, 6) \div 8192) % 2 = 1,
             data |-> From(f, 4 * (At(f, 0) % 16))]
Data6(f, l3) == [at |-> U16(f, l3 + 2) - (U16(f, l3 + 2) % 8), more |-> U16(f, l3 + 2) % 2 = 1,
                 data |-> From(f, l3 + 8)]

\* A packet that is cut in two arrives: each fragment has the length it says
\* and, of IPv4, a header whose sum agrees; the first says that more follows and
\* the second begins where the first ends; together they are what was behind
\* the headers that are in both, and those are the packet's own.  Where MayLose,
\* sums may be wrong.
FragmentsRejoin ==
    scene.kind = "fragments" =>
        LET p == scene.p
            d == PacketOf(p)
            l3 == Len(NetHeader(p))
            In4 == p.v = 4
        IN  \E t \in dissect(d) :
               LET unfrag == IF In4 THEN l3 ELSE Ip6Base + ExtsLen(SubSeq(t.l3.exthdr, 1, frag_idx(t.l3.exthdr) - 1))
                   tables == ipfrag2(t, l3, Len(d), scene.pos, <<1, 2, 3, 4>>)
               IN  \/ tables = <<>> /\ l3 + scene.pos >= Len(d)
                   \/ \E a \in lua_reconstruct_dissect(tables[1], Buffer, FALSE, TRUE, scene.mem) :
                      \E b \in lua_reconstruct_dissect(tables[2], Buffer, FALSE, TRUE, scene.mem) :
                         LET one == IF In4 THEN Data4(a) ELSE Data6(a, unfrag)
                             two == IF In4 THEN Data4(b) ELSE Data6(b, unfrag)
                         IN  /\ one.at = 0 /\ one.more /\ two.at = Len(one.data) /\ ~ two.more
                             /\ IF SegmentMayLose(p) THEN Len(one.data) + Len(two.data) = Len(d) - unfrag
                                ELSE one.data \o two.data = From(d, unfrag)
                             /\ \A f \in {a, b} :
                                   IF In4 THEN (Agrees(Cut(f, 0, l3)) \/ MayLose(Write(Cut(f, 0, l3), 10, <<0, 0>>))) /\ U16(f, 2) = Len(f)
                                   ELSE U16(f, 4) = Len(f) - Ip6Base /\ FindExt(f, IPPROTO_FRAGMENT) = {unfrag}

-----------------------------------------------------------------------------
(* What scripts do with numbers, over words of a few bits.                 *)

CONSTANTS
    MaxTerms,    \* terms of a sum (bound)
    ByteBits,    \* of a byte
    WireBytes    \* of a number in its wire form

Wide == - AllOnes(WideBits) .. AllOnes(WideBits)
Half == WideBits - 1
Narrow == - AllOnes(Half) .. AllOnes(Half)
WireBits == WireBytes * ByteBits

ASSUME ScenesAssumption ==
    /\ MaxTerms \in Nat /\ ByteBits \in Nat \ {0} /\ WireBytes \in Nat \ {0}
    /\ WireBits \in Half .. WordBits

Fields ==
    /\ Idle
    /\ \E v, set \in Wide, from, to \in 0 .. WideBits - 1 :
          scene' = [kind |-> "field", v |-> v, set |-> set, from |-> from, to |-> to]

Sums ==
    /\ Idle
    /\ \E vs \in UNION {[1 .. n -> Narrow] : n \in 1 .. MaxTerms} :
          scene' = [kind |-> "sum", vs |-> vs]

\* The places of a word at which it has ones.
Ones(w) == {i \in 0 .. WordBits - 1 : Bit(w, i) = 1}
Below(n) == 0 .. n - 1
Size(n) == IF n < 0 THEN - n ELSE n
Only(S) == CHOOSE x \in S : TRUE

\* Words are sets of places: a field that is written is read back as the low
\* bits of what was written and leaves every other place alone, shifts move
\* places and what leaves the wide range is gone, the operators are those of
\* sets; a field that is no field stops the script.  A field is read so if it is
\* narrower than the integers of the build's Lua: wider ones, of 32 bits and more
\* in a build for 32 bits and an old Lua, are not.
FieldsHold ==
    scene.kind = "field" =>
        LET v == scene.v  s == scene.set  f == scene.from  t == scene.to
            O(n) == Ones(U64(n))
            Is(result, places) == {Ones(w) : w \in result} = {places}
        IN  /\ IF f > t THEN bitset(v, f, t, s) = {} /\ \A size \in IntegerSizes : bitget(size, v, f, t) = {}
               ELSE /\ \A size \in IntegerSizes :
                          t - f + 1 < size => Is(bitget(size, v, f, t), {i - f : i \in O(v) \cap (f .. t)})
                    /\ Is(bitset(v, f, t, s), (O(v) \ (f .. t)) \cup {i + f : i \in O(s) \cap Below(t - f + 1)})
            /\ Is(bitlshift(v, f), {i + f : i \in O(v)} \cap Below(WideBits))
            /\ Is(bitrshift(v, f), {i - f : i \in O(v) \ Below(f)})
            /\ Is(bitand(v, s), O(v) \cap O(s) \cap Below(WideBits)) /\ Is(bitor(v, s), O(v) \cup O(s))
            /\ Is(bitxor(v, s), (O(v) \ O(s)) \cup (O(s) \ O(v)))
            /\ Is(bitnot(v, WideBits), Below(WideBits) \ O(v))

\* Sums wrap at their width, whatever the signs and however they are grouped;
\* numbers and their wire form are the same thing, and a copy at an offset is
\* read back there.  A quotient leaves a rest smaller than the divisor and of the
\* dividend's sign, also of the least number; there is none by zero, and what
\* the least number by -1 does is the processor's.
SumsWrap ==
    scene.kind = "sum" =>
        LET vs == scene.vs
        IN  /\ uxadd(vs, Half) = {Weighed(Len(vs), 1, vs) % Two[Half]}
            /\ uxadd(<<Only(uxadd(Tail(vs), Half)), vs[1]>>, Half) = uxadd(vs, Half)
            /\ \A i \in DOMAIN vs :
                  LET wire == Only(Pack(vs[i], WireBytes, ByteBits))
                      kept == vs[i] % Two[WireBits]
                      buffer == Zeros(WireBytes + 2)
                  IN  /\ Unpack(wire, 1, WireBytes, ByteBits) = {kept}
                      /\ Swap(Only(Swap(vs[i], WireBytes, ByteBits)), WireBytes, ByteBits) = {kept}
                      /\ \A at \in 1 .. 4 :
                            /\ \A d \in memcpy(buffer, at, wire, 1, WireBytes) :
                                  Unpack(d, at, WireBytes, ByteBits) = {kept}
                            /\ memcpy(buffer, at, wire, 1, WireBytes) = {} <=> at = 4
                  /\ \A v \in {vs[i], Lowest}, j \in DOMAIN vs : \A d \in divint(v, vs[j]) :
                        \/ vs[j] = 0 /\ d = [is |-> "nil"]
                        \/ v = Lowest /\ vs[j] = -1
                        \/ LET rest == v - (d.n * vs[j])
                           IN  d.is = "number" /\ Size(rest) < Size(vs[j]) /\ rest * v >= 0

=============================================================================
