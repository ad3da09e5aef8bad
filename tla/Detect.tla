------------------------------- MODULE Detect -------------------------------
(***************************************************************************)
(* What a payload is taken for: the tests of nfq2/protocol.c and the order  *)
(* in which nfq2/desync.c asks them.                                        *)
(***************************************************************************)
EXTENDS Messages, Quic, TLC

StartsWith(d, o, bytes) == Len(d) >= o + Len(bytes) /\ Cut(d, o, Len(bytes)) = bytes
Has(d, from, bytes) == \E o \in from .. Len(d) - Len(bytes) : Cut(d, o, Len(bytes)) = bytes

-----------------------------------------------------------------------------
(* XMPP.                                                                   *)

StreamTag == <<60, 115, 116, 114, 101, 97, 109, 58, 115, 116, 114, 101, 97, 109, SP>>
XmlTag == <<60, 63, 120, 109, 108, SP>>
StarttlsTag == <<60, 115, 116, 97, 114, 116, 116, 108, 115, SP>>
ProceedTag == <<60, 112, 114, 111, 99, 101, 101, 100, SP>>
FeaturesTag == SubSeq(StreamTag, 1, 8) \o <<102, 101, 97, 116, 117, 114, 101, 115>>

IsXMPPStream(d) ==
    \/ Len(d) >= 16 /\ StartsWith(d, 0, StreamTag)
    \/ Len(d) >= 36 /\ StartsWith(d, 0, XmlTag) /\ Has(d, 21, StreamTag)
IsXMPPStartTLS(d) == StartsWith(d, 0, StarttlsTag)
IsXMPPProceedTLS(d) == StartsWith(d, 0, ProceedTag)
IsXMPPFeatures(d) == Len(d) >= 17 /\ StartsWith(d, 0, FeaturesTag)

-----------------------------------------------------------------------------
(* UDP.                                                                    *)

\* One question, and nothing else but additional records.
IsDNSQuery(d) ==
    /\ Len(d) >= 12 /\ At(d, 2) <= 1
    /\ Cut(d, 4, 6) = <<0, 1, 0, 0, 0, 0>> /\ U16(d, 10) <= 3

IsDNSResponse(d) ==
    /\ Len(d) >= 12 /\ At(d, 2) \in 128 .. 135 /\ U16(d, 4) = 1
    /\ U16(d, 6) <= 100 /\ U16(d, 8) <= 100 /\ U16(d, 10) <= 100

IsWireguardHandshakeInitiation(d) == Len(d) = 148 /\ At(d, 0) = 1
IsWireguardHandshakeResponse(d) == Len(d) = 92 /\ At(d, 0) = 2
IsWireguardHandshakeCookie(d) == Len(d) = 64 /\ At(d, 0) = 3
IsWireguardKeepalive(d) == Len(d) = 32 /\ At(d, 0) = 4
IsWireguardData(d) == Len(d) >= 52 /\ At(d, 0) = 4

\* The first key of the dictionary: ad, rd, ip or el.
DhtKeys == {<<49, 58, 97, 100>>, <<49, 58, 114, 100>>, <<50, 58, 105, 112>>, <<49, 58, 101, 108>>}
IsDht(d) == Len(d) >= 5 /\ At(d, 0) = 100 /\ Cut(d, 1, 4) \in DhtKeys /\ At(d, Len(d) - 1) = 101

IsDiscordIpDiscoveryRequest(d) ==
    Len(d) = 74 /\ Cut(d, 0, 4) = <<0, 1, 0, 70>> /\ Cut(d, 8, 64) = Zeros(64)

Mut_IsStunMessage_Whole(d) ==
    /\ Len(d) >= 20 /\ At(d, 0) < 64 /\ At(d, 3) % 4 = 0
    /\ Cut(d, 4, 4) = <<33, 18, 164, 66>> /\ U16(d, 2) = Len(d)

IsStunMessage(d) ==
    /\ Len(d) >= 20 /\ At(d, 0) < 64 /\ At(d, 3) % 4 = 0
    /\ Cut(d, 4, 4) = <<33, 18, 164, 66>> /\ U16(d, 2) = Len(d) - 20

IsDTLS(d) ==
    /\ Len(d) > 13 /\ At(d, 0) \in 20 .. 23
    /\ Cut(d, 1, 2) \in {<<254, 255>>, <<254, 253>>, <<254, 252>>, <<1, 0>>}
    /\ U16(d, 11) + 13 <= Len(d)
IsDTLSClientHello(d) == IsDTLS(d) /\ At(d, 0) = 22 /\ At(d, 13) = 1
IsDTLSServerHello(d) == IsDTLS(d) /\ At(d, 0) = 22 /\ At(d, 13) = 2

-----------------------------------------------------------------------------
(* The order of the questions.                                             *)

\* The protocol that a payload belongs to.
L7(payload) ==
    CASE payload \in {"tls_client_hello", "tls_server_hello"}   -> "tls"
      [] payload \in {"http_req", "http_reply"}                 -> "http"
      [] payload \in {"xmpp_stream", "xmpp_starttls", "xmpp_proceed", "xmpp_features"} -> "xmpp"
      [] payload = "quic_initial"                               -> "quic"
      [] payload = "discord_ip_discovery"                       -> "discord"
      [] payload = "stun"                                       -> "stun"
      [] payload \in {"dns_query", "dns_response"}              -> "dns"
      [] payload = "dht"                                        -> "dht"
      [] payload \in {"dtls_client_hello", "dtls_server_hello"} -> "dtls"
      [] payload \in {"wireguard_initiation", "wireguard_response", "wireguard_cookie",
                      "wireguard_keepalive", "wireguard_data"}  -> "wireguard"

\* protocol_probe over the list of names for which the test holds: the first
\* counts, and a protocol that is known stays.  One that needs the connection
\* to be known already is asked only then.
Probed(names, needy, l7proto) ==
    LET asked == SelectSeq(names, LAMBDA n : n \in needy => l7proto = L7(n))
    IN  IF asked = <<>> THEN [l7payload |-> "unknown", l7proto |-> l7proto]
        ELSE [l7payload |-> asked[1],
              l7proto   |-> IF l7proto = "unknown" THEN L7(asked[1]) ELSE l7proto]

If(holds, name) == IF holds THEN <<name>> ELSE <<>>

udp_standard_protocol_probe(d, l7proto) ==
    Probed(If(IsQUICInitial(d), "quic_initial")
           \o If(IsDiscordIpDiscoveryRequest(d), "discord_ip_discovery")
           \o If(IsStunMessage(d), "stun")
           \o If(IsDNSQuery(d), "dns_query") \o If(IsDNSResponse(d), "dns_response")
           \o If(IsDht(d), "dht")
           \o If(IsDTLSClientHello(d), "dtls_client_hello")
           \o If(IsDTLSServerHello(d), "dtls_server_hello")
           \o If(IsWireguardHandshakeInitiation(d), "wireguard_initiation")
           \o If(IsWireguardHandshakeResponse(d), "wireguard_response")
           \o If(IsWireguardHandshakeCookie(d), "wireguard_cookie")
           \o If(IsWireguardKeepalive(d), "wireguard_keepalive")
           \o If(IsWireguardData(d), "wireguard_data"),
           {"wireguard_data"}, l7proto)

\* A server's payload on TCP.
tcp_reply_probe(d, l7proto) ==
    Probed(If(IsTLSHello(d, 2, TRUE), "tls_server_hello")
           \o If(IsHttpReply(d), "http_reply")
           \o If(IsXMPPStream(d), "xmpp_stream")
           \o If(IsXMPPProceedTLS(d), "xmpp_proceed")
           \o If(IsXMPPFeatures(d), "xmpp_features"), {}, l7proto)

\* A client's, when it is neither HTTP nor TLS.
tcp_request_probe(d, l7proto) ==
    Probed(If(IsXMPPStream(d), "xmpp_stream") \o If(IsXMPPStartTLS(d), "xmpp_starttls"), {}, l7proto)

\* l7_payload_match, l7_proto_match: a filter is a set of names, all of them or
\* those that are known.
l7_match(what, filter) ==
    "all" \in filter \/ what \in filter \/ ("known" \in filter /\ what \notin {"unknown", "empty"})

-----------------------------------------------------------------------------
(* The markers of a list resolved in one payload (nfq2/protocol.c).        *)

ResolvePos(d, kind, m) ==
    CASE kind = "http_req"         -> HttpPos(m.marker, m.pos, d)
      [] kind = "tls_client_hello" -> TLSPos(m.marker, m.pos, d)
      [] OTHER                     -> AnyProtoPos(m.marker, m.pos, Len(d))

Found(resolved) == SelectSeq(resolved, LAMBDA p : p # POS_NOT_FOUND)

\* unique_ssize_t, on what qsort_ssize_t has put in order.
Unique(sorted) ==
    LET kept == SelectSeq([i \in DOMAIN sorted |-> i],
                          LAMBDA i : i = 1 \/ sorted[i] # sorted[i - 1])
    IN  [k \in DOMAIN kept |-> sorted[kept[k]]]

\* ResolveMultiPos: the places in order, each once.
ResolveMultiPos(d, kind, markers) ==
    Unique(SortSeq(Found([i \in DOMAIN markers |-> ResolvePos(d, kind, markers[i])]), <))

=============================================================================
