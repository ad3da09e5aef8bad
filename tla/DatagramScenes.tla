--------------------------- MODULE DatagramScenes ---------------------------
(* Datagrams: initials as clients seal them, hellos cut into CRYPTO frames, *)
(* messages of the protocols that are told apart, and replies to queries.  *)
EXTENDS Detect, Dns, Scene

\* The salts as their drafts give them, and the versions they are for.
Salts == [v1 |-> 33, v2 |-> 100, d29 |-> 29, d32 |-> 29, d28 |-> 23, d23 |-> 23, d22 |-> 22, q50 |-> 50]
VersionOf == [v1 |-> Version1, v2 |-> Version2, d29 |-> <<255, 0, 0, 29>>, d32 |-> <<255, 0, 0, 32>>,
              d28 |-> <<255, 0, 0, 28>>, d23 |-> <<255, 0, 0, 23>>, d22 |-> <<255, 0, 0, 22>>, q50 |-> Q050]

\* A number in a field of 1, 2 or 4 bytes.
Var(n, size) ==
    CASE size = 1 -> <<n>> [] size = 2 -> Write(N16(n), 0, <<64 + (n \div 256)>>)
      [] size = 4 -> <<128>> \o N24(n)

Clear(n) == [i \in 1 .. n |-> i % 251]
Cid(n) == [i \in 1 .. n |-> 200 + i]

\* i: version, connection ids, token, size of the packet number and of the
\* length field, bytes of text, and what follows the packet.
HeaderOf(i) ==
    <<192 + i.pn - 1>> \o VersionOf[i.version] \o <<i.dcid>> \o Cid(i.dcid) \o <<i.scid>> \o Cid(i.scid)
    \o Var(i.token, 2) \o Zeros(i.token) \o Var(i.pn + i.text + 16, i.size) \o Zeros(i.pn)
Sealed(i) ==
    HeaderOf(i) \o Clear(i.text)
    \o Tag(<<Salts[i.version], IF i.version = "v2" THEN 2 ELSE 1>> \o Cid(i.dcid)) \o Zeros(i.tail)

TextSize == 300   \* of the buffer

Sealing ==
    /\ Idle
    /\ \E version \in DOMAIN Salts, ids \in {<<8, 0>>, <<20, 20>>, <<1, 3>>, <<0, 8>>} :
       \E token \in {0, 70, 240}, pn \in {1, 4}, size \in {2, 4}, text \in {1, 90, 301}, tail \in {0, 40} :
          scene' = [kind |-> "initial",
                    initial |-> [version |-> version, dcid |-> ids[1], scid |-> ids[2], token |-> token,
                                 pn |-> pn, size |-> size, text |-> text, tail |-> tail]]

\* An Initial of any version but the second that is long enough and names a
\* connection opens to the text that was sealed, wherever the fields in front
\* of it put it and whatever follows it, unless the text or the header are too
\* big for the buffers; and it is then taken for one.
InitialIsRead ==
    scene.kind = "initial" =>
        LET i == scene.initial
            d == Sealed(i)
            fits == i.text <= TextSize /\ Len(HeaderOf(i)) <= 256
            long == Len(d) >= 128
        IN  i.version # "v2" =>
               /\ QUICDecryptInitial(d, TextSize) =
                    (IF i.dcid > 0 /\ fits /\ i.pn + i.text + 16 >= 20 THEN {Clear(i.text)} ELSE {})
               /\ IsQUICInitial(d) <=> long
               /\ long => udp_standard_protocol_probe(d, "unknown") = [l7payload |-> "quic_initial", l7proto |-> "quic"]

-----------------------------------------------------------------------------
(* The chunks of a hello.                                                  *)

HelloText == [i \in 1 .. 9 |-> i]
Frame(c, pad) == <<6>> \o Var(c[1], 2) \o Var(c[2], 1) \o Cut(HelloText, c[1], c[2]) \o pad
Cuts == {<<0, 4>>, <<4, 3>>, <<7, 2>>, <<0, 9>>, <<2, 5>>}

Cutting ==
    /\ Idle
    /\ \E cs \in UNION {[1 .. n -> Cuts] : n \in 0 .. 3} :
       \E pad \in {<<>>, <<0, 1>>}, less \in {0, 1}, front \in {<<>>, <<0>>, <<2>>} :
          \E text \in {front \o FlattenSeq([i \in DOMAIN cs |-> Frame(cs[i], pad)])} :
             /\ less <= Len(text)
             /\ scene' = [kind |-> "frames", cuts |-> cs, cut |-> less > Len(pad), refused |-> front = <<2>>,
                          text |-> SubSeq(text, 1, Len(text) - less)]

In(k, c) == k >= c[1] /\ k < c[1] + c[2]
Covered(k, cs) == \E i \in DOMAIN cs : In(k, cs[i])

\* CRYPTO frames that are all there and of which some came give the hello they
\* were cut from, as far as they reach, with zeros where nothing came; if it is
\* said to be full nothing is missing, and the frames of one cut of it are full
\* in whatever order they stand.
DefragIsStream ==
    scene.kind = "frames" =>
        LET cs == scene.cuts
            reach == Max({0} \cup {cs[i][1] + cs[i][2] : i \in DOMAIN cs})
            once == \A k \in 0 .. reach - 1 : Cardinality({i \in DOMAIN cs : In(k, cs[i])}) = 1
            got == QUICDefragCrypto(scene.text)
        IN  /\ got = {} <=> scene.refused \/ scene.cut \/ cs = <<>>
            /\ \A r \in got :
                  /\ r.data = [k \in 1 .. reach |-> IF Covered(k - 1, cs) THEN HelloText[k] ELSE 0]
                  /\ r.full => \A k \in 0 .. reach - 1 : Covered(k, cs)
                  /\ once => r.full

-----------------------------------------------------------------------------
(* Datagrams of the protocols that are told apart, as their ends send them, *)
(* two in a row of one connection.                                          *)

Filled(n) == [i \in 1 .. n |-> 90]
Dtls(type, hs, n) == <<type, 254, 253>> \o Zeros(8) \o N16(n + 1) \o <<hs>> \o Filled(n)
Stun(type, n) == N16(type) \o N16(n) \o <<33, 18, 164, 66>> \o Zeros(12 + n)
DnsHeader(flags, counts) == <<7, 7>> \o flags \o FlattenSeq([i \in 1 .. 4 |-> N16(counts[i])])
Reserved3 == Zeros(3)

\* What is sent, under the name it should be given.
Sent ==
    [wireguard_initiation |-> {<<1>> \o Reserved3 \o Filled(144)},
     wireguard_response |-> {<<2>> \o Reserved3 \o Filled(88)},
     wireguard_cookie |-> {<<3>> \o Reserved3 \o Filled(60)},
     wireguard_keepalive |-> {<<4>> \o Reserved3 \o Filled(28)},
     wireguard_data |-> {<<4>> \o Reserved3 \o Filled(n) : n \in {48, 64}},
     stun |-> {Stun(type, n) : type \in {1, 257}, n \in {0, 8}},
     dns_query |-> {DnsHeader(<<1, 0>>, <<1, 0, 0, n>>) \o <<1, 90>> \o Zeros(5) : n \in 0 .. 1},
     dns_response |-> {DnsHeader(<<129, 128>>, <<1, n, 0, 1>>) \o <<1, 90>> \o Zeros(5) : n \in {0, 2, 100}},
     dtls_client_hello |-> {Dtls(22, 1, n) : n \in {0, 40}},
     dtls_server_hello |-> {Dtls(22, 2, 40)},
     dht |-> {<<100>> \o k \o Filled(30) \o <<101>> : k \in DhtKeys},
     discord_ip_discovery |-> {<<0, 1, 0, 70>> \o <<9, 9, 9, 9>> \o Zeros(66)},
     unknown |-> {Filled(60), <<>>, Dtls(23, 1, 9), <<4>> \o Filled(40)}]

Probing ==
    /\ Idle
    /\ \E first, second \in DOMAIN Sent : \E a \in Sent[first] : \E b \in Sent[second] :
          scene' = [kind |-> "probe", of |-> <<first, second>>, data |-> <<a, b>>]

\* Each datagram is given its name, whatever came before it on the connection;
\* only data of WireGuard are recognised on connections that are known to be of
\* it.  The protocol of a connection is that of the first message that has one.
EachByItsName ==
    scene.kind = "probe" =>
        LET one == udp_standard_protocol_probe(scene.data[1], "unknown")
            two == udp_standard_protocol_probe(scene.data[2], one.l7proto)
            Known(name) == name \notin {"unknown", "wireguard_data"}
        IN  /\ one.l7payload = (IF Known(scene.of[1]) THEN scene.of[1] ELSE "unknown")
            /\ two.l7payload = (IF Known(scene.of[2]) \/ one.l7proto = "wireguard" THEN scene.of[2] ELSE "unknown")
            /\ one.l7proto = (IF Known(scene.of[1]) THEN L7(scene.of[1]) ELSE "unknown")
            /\ one.l7proto # "unknown" => two.l7proto = one.l7proto

-----------------------------------------------------------------------------
(* A query that is answered, and a reply of which n bytes have come.       *)

A == 97
B == 98
DnsNames == {<<A>>, <<A, B, DotByte, A>>, <<A, DotByte, B, B, DotByte, A, DotByte>>}

\* What a server puts behind the question: the name is a pointer to it.
Rr(type, data) == <<192, 12>> \o N16(type) \o <<0, 1>> \o Zeros(4) \o N16(Len(data)) \o data
Ip4(n) == <<10, 0, 0, n>>
Ip6(n) == <<253>> \o Zeros(14) \o <<n>>
Rrs == {[is |-> "a", ip |-> Ip4(1)], [is |-> "a", ip |-> Ip4(2)], [is |-> "aaaa", ip |-> Ip6(3)],
        [is |-> "cname", ip |-> <<1, A, 192, 12>>], [is |-> "a", ip |-> <<1, 2>>]}
TypeOf(r) == CASE r.is = "a" -> TypeA [] r.is = "aaaa" -> TypeAAAA [] r.is = "cname" -> 5

Answered(query, rrs) ==
    Write(query, 2, <<129, 128>>) \o FlattenSeq([i \in DOMAIN rrs |-> Rr(TypeOf(rrs[i]), rrs[i].ip)])
WithCount(d, n) == Write(d, 6, N16(n))

DnsReply ==
    /\ Idle
    /\ \E name \in DnsNames, type \in {TypeA, TypeAAAA} :
       \E q \in dns_mk_query_blob(0, name, 1, type, 258) :
       \E rrs \in {<<>>} \cup {<<r>> : r \in Rrs} \cup {<<r, s>> : r, s \in Rrs} :
       \E whole \in {WithCount(Answered(q, rrs), Len(rrs))} :
       \E n \in {Len(whole), Len(whole) - 1, Len(q), Len(q) - 1, Len(q) + 12, Len(q) + 16} :
          /\ n <= Len(whole)
          /\ scene' = [kind |-> "dns", query |-> q, name |-> name, rrs |-> rrs, n |-> n, data |-> Cut(whole, 0, n)]

\* The answers that came whole before the first that did not.
Came(s) ==
    LET ends == {k \in 0 .. Len(s.rrs) : Len(Answered(s.query, SubSeq(s.rrs, 1, k))) <= s.n}
    IN  IF ends = {} THEN <<>> ELSE SubSeq(s.rrs, 1, Max(ends))

IsAddress(r) == <<r.is, Len(r.ip)>> \in {<<"a", 4>>, <<"aaaa", 16>>}
AddressesOf(rrs) == LET a == SelectSeq(rrs, IsAddress) IN [i \in DOMAIN a |-> a[i].ip]

\* Of a reply to mdig's own query, whole or cut, mdig prints and the daemon
\* notes the same addresses: those of all answers that have come, and of no
\* record that is none; the name the daemon notes is the one that was asked
\* for; and both tell whether the reply is whole.
AnswerIsRead ==
    scene.kind = "dns" =>
        LET printed == dns_parse_print(scene.data)
            noted   == feed_dns_response(scene.data)
        IN  /\ printed.got = AddressesOf(Came(scene)) /\ noted.got = printed.got
            /\ scene.n >= Len(scene.query) => noted.name = Undotted(scene.name)
            /\ noted.ok = printed.ok
            /\ printed.ok <=> scene.n >= Len(scene.query) /\ Came(scene) = scene.rrs

=============================================================================
