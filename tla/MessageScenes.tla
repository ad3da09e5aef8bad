--------------------------- MODULE MessageScenes ----------------------------
(***************************************************************************)
(* The parsers of nfq2/protocol.c on messages as they are sent, cut after  *)
(* any number of bytes, against what their senders put into them.  A scene *)
(* is a message and what is asked of it.                                   *)
(***************************************************************************)
EXTENDS Detect, Scene

(* What the messages look like, said by their senders: the reference that  *)
(* the parsers are held against.                                           *)

\* A TLS hello: its type, session id, extensions, and what follows its record.
TlsExt(type, data) == N16(type) \o N16(Len(data)) \o data
Sni(name) == TlsExt(0, N16(Len(name) + 3) \o <<0>> \o N16(Len(name)) \o name)
Pad(n) == TlsExt(21, Zeros(n))
Other(n) == TlsExt(43, Zeros(n))

HelloBody(h) ==
    N16(771) \o Zeros(32) \o <<h.sid>> \o Zeros(h.sid)
    \o (IF h.type = 1 THEN N16(2) \o N16(4865) ELSE N16(4865))
    \o <<1, 0>>
    \o N16(Len(FlattenSeq(h.exts))) \o FlattenSeq(h.exts)
Handshake(h) == <<h.type>> \o N24(Len(HelloBody(h))) \o HelloBody(h)
Record(data) == <<22, 3, 1>> \o N16(Len(data)) \o data
Hello(h) == Record(Handshake(h))

\* Where the extensions of a hello begin and end.
ExtsBegin(h) == 5 + 4 + 2 + 32 + 1 + h.sid + (IF h.type = 1 THEN 4 ELSE 2) + 2 + 2
ExtEnd(h, i) == ExtsBegin(h) + Len(FlattenSeq(SubSeq(h.exts, 1, i)))

\* The extensions in a complete record, read to its end; a record whose
\* lengths do not agree has none that can be read.
TypesOf(d) ==
    LET sid  == At(d, 43)
        cs   == 44 + sid
        comp == cs + 2 + U16(d, cs)
        list == comp + 1 + At(d, comp)
        read[o \in 0 .. Len(d)] ==
            IF o = Len(d) THEN <<>>
            ELSE IF o + 4 > Len(d) \/ o + 4 + U16(d, o + 2) > Len(d) THEN <<-1>>
            ELSE IF U16(d, o) = 0 /\ U16(d, o + 4) # U16(d, o + 2) - 2 THEN <<-1>>
            ELSE <<U16(d, o)>> \o read[o + 4 + U16(d, o + 2)]
    IN  IF \/ U16(d, 3) # Len(d) - 5 \/ U24(d, 6) # Len(d) - 9
           \/ U16(d, list) # Len(d) - list - 2 THEN <<-1>>
        ELSE read[list + 2]

\* Names: one character, two levels, three levels, and a dot at the front.
X == 88
Y == 121
Names == {<<X>>, <<X, Dot, Y>>, <<X, Y, Dot, X, Y, Y, Dot, Y>>, <<Dot, Y>>}

-----------------------------------------------------------------------------
(* A TLS hello of which n bytes have come.                                 *)

ExtsWith(n) == {<<Sni(n)>>, <<Other(1), Sni(n)>>, <<Pad(0), Sni(n), Other(2)>>}
HelloOf == [type : {1, 2}, sid : {0, 2}, name : Names \cup {<<>>}, tail : {0, 3}]

HelloCut ==
    /\ Idle
    /\ \E h \in HelloOf : \E x \in ExtsWith(h.name) \cup {<<Other(1)>>} :
       \E partial \in BOOLEAN, n \in {0, 5, 9, 43, 45} \cup 50 .. 85 :
          LET m == [type |-> h.type, sid |-> h.sid, exts |-> x]
              whole == Hello(m) \o Zeros(h.tail)
          IN  /\ n <= Len(whole)
              /\ scene' = [kind |-> "hello", hello |-> m, name |-> h.name, n |-> n,
                           partial |-> partial, data |-> Cut(whole, 0, n)]

\* The extension with the name, if the hello has one.
SniAt(s) == {i \in DOMAIN s.hello.exts : s.hello.exts[i] = Sni(s.name)}

HostSize == 5   \* of the buffer

\* The host of a hello is found as soon as the extension it is in has come, or
\* when the record is complete if it has to be, whatever is in front of it and
\* behind it; it is the name the client sent, or its beginning.
HelloHost ==
    scene.kind = "hello" =>
        LET here == {i \in SniAt(scene) :
                        /\ scene.n >= ExtEnd(scene.hello, i)
                        /\ scene.partial \/ scene.n >= Len(Hello(scene.hello))}
            host == {LowerCase(Cut(scene.name, 0, Min({Len(scene.name), HostSize - 1}))) : i \in here}
        IN  TLSHelloExtractHost(scene.data, HostSize, scene.partial) = host

-----------------------------------------------------------------------------
(* A request of which n bytes have come.                                   *)

Methods == {<<71, 69, 84, 32, 47>>}                                   \* GET /
RequestLine == <<71, 69, 84, 32, 47, 32, 72, CR, LF>>
HeaderX == <<X, 58, SP, Y, CR, LF>>

Request(r) ==
    RequestLine \o (IF r.first THEN <<>> ELSE HeaderX)
    \o Tail(HostHeader) \o r.blank \o r.name \o <<CR, LF>>
    \o (IF r.first THEN HeaderX ELSE <<>>) \o <<CR, LF>>

RequestCut ==
    /\ Idle
    /\ \E r \in [first : BOOLEAN, blank : {<<>>, <<SP>>, <<TAB>>}, name : Names] :
       \E n \in {5} \cup 15 .. Len(Request(r)) :
          scene' = [kind |-> "request", name |-> r.name, data |-> Cut(Request(r), 0, n)]

HostOf(s) ==
    IF s.kind = "hello" THEN TLSHelloExtractHost(s.data, 100, TRUE) ELSE HttpExtractHost(s.data, 100)

PayloadOf(s) == IF s.kind = "hello" THEN "tls_client_hello" ELSE "http_req"

Place(s, marker) == ResolvePos(s.data, PayloadOf(s), [marker |-> marker, pos |-> 0])

\* Where the second level domain is in a name: between its last two dots.
SldOf(name) ==
    {p \in (0 .. Len(name)) \X (1 .. Len(name) - 1) :
        /\ p[1] <= p[2] /\ At(name, p[2]) = Dot
        /\ \A i \in (p[1] .. Len(name) - 1) \ {p[2]} : At(name, i) # Dot
        /\ p[1] = 0 \/ At(name, p[1] - 1) = Dot}

\* The markers of the host frame the name that the lists are asked about, and
\* those of its second level domain frame that, with the middle inside.
MarkersFrameHost ==
    scene.kind \in {"hello", "request"} =>
        LET host == Place(scene, "host")
            end  == Place(scene, "endhost")
        IN  host # POS_NOT_FOUND /\ end # POS_NOT_FOUND =>
                /\ HostOf(scene) = {LowerCase(Cut(scene.data, host, end - host))}
                /\ SldOf(scene.name) = {} => Place(scene, "sld") = POS_NOT_FOUND
                /\ \A s \in SldOf(scene.name) :
                      /\ Place(scene, "sld") = host + s[1]
                      /\ Place(scene, "endsld") = host + s[2]
                      /\ Place(scene, "midsld") \in host + s[1] .. host + s[2]

-----------------------------------------------------------------------------
(* A reply to a request for a host.                                        *)

Digits(code) == <<code \div 100 + 48, ((code \div 10) % 10) + 48, (code % 10) + 48>>
Reply(r) ==
    Version \o <<49, SP>> \o Digits(r.code) \o <<SP, X, CR>>
    \o LocationHeader \o <<SP>> \o r.scheme \o r.to \o r.path \o <<CR, LF, CR, LF>>

ReplyTo ==
    /\ Idle
    /\ \E r \in [code : {200, 302, 307}, scheme : {SchemeHttp, SchemeHttps, <<Slash>>},
                 to : Names \cup {<<>>, <<Y, Dot, 120, Dot, 121>>}, path : {<<>>, <<Slash, X, Dot, X>>}] :
       \E host \in Names \cup {<<>>, <<121, Y, Dot, 120, Dot, Y>>} :
          scene' = [kind |-> "reply", reply |-> r, host |-> host, data |-> Reply(r)]

\* A name's last two labels, from a name that has them.
LastTwo(name) == {LowerCase(From(name, s[1])) : s \in SldOf(name)}

\* A reply counts as a redirect by somebody else exactly if it sends a named
\* site, by an absolute address, to a name that has a second level domain, and
\* to another one than the site's own.
RedirectIsToAnother ==
    scene.kind = "reply" =>
        /\ IsHttpReply(scene.data) /\ HttpReplyCode(scene.data) = scene.reply.code
        /\ HttpReplyLooksLikeDPIRedirect(scene.data, scene.host) =
              (/\ scene.host # <<>> /\ scene.reply.code # 200
               /\ scene.reply.scheme # <<Slash>>
               /\ LastTwo(scene.reply.to) # {}
               /\ LastTwo(scene.reply.to) # LastTwo(scene.host))

-----------------------------------------------------------------------------
(* A hello that is changed to be sent as a fake before the payload.        *)

Tld == <<120, 121, 122>>
Fakes == {[type |-> 1, sid |-> 2, exts |-> x] :
              x \in {<<Other(1)>>} \cup UNION {{<<Sni(n)>>, <<Other(1), Sni(n), Pad(2)>>, <<Pad(0), Sni(n)>>}
                            : n \in {<<>>, <<X, Dot, Y>>, <<X, Y, Dot, X, Y, Y, Dot, Y>>}}}
PayloadHello(sid) == [type |-> 1, sid |-> sid, exts |-> <<Other(0)>>]
Payloads == {[head |-> <<>>, len |-> 0], [head |-> <<X>>, len |-> 1]}
            \cup {[head |-> Hello(PayloadHello(sid)), len |-> n] : sid \in {1, 2}, n \in {100, 65500}}
Option(name) == [name |-> name, val |-> <<>>]
NewName(n) == [name |-> "sni", val |-> n]

Fake ==
    /\ Idle
    /\ \E h \in Fakes, opts \in SUBSET {"rnd", "rndsni", "dupsid", "padencap", "none"}, payload \in Payloads :
       \E names \in {<<>>, <<NewName(<<Y>>)>>, <<NewName(<<Y>>), NewName(<<X, Y, X, Y, Dot, X>>)>>} :
          LET list == SetToSeq({Option(o) : o \in opts}) \o names
          IN  \E r \in luacall_tls_mod(Hello(h), list, Tld, payload) :
                 scene' = [kind |-> "fake", hello |-> h, opts |-> opts, names |-> names,
                           payload |-> payload, res |-> r]

Types(h) == [i \in DOMAIN h.exts |-> U16(h.exts[i], 0)]

\* The payload went into the fake's padding.
Encapsulated(s) ==
    s.payload.len > 0 /\ "padencap" \in s.opts /\ U16(s.res.tls, 3) + 5 > Len(s.res.tls)

\* Whatever is changed in a fake, and whether or not all of it could be, it is
\* one TLS record whose lengths agree, with the extensions it had and a padding
\* at most added; one that takes the payload in agrees with the payload behind
\* it.  What could all be done shows: the name is the one asked for, and the
\* padding is the last and reaches over the payload.
FakeStaysWhole ==
    scene.kind = "fake" =>
        LET tls  == scene.res.tls
            n    == IF Encapsulated(scene) THEN scene.payload.len ELSE 0
            sent == tls \o Zeros(n)
            had  == Types(scene.hello)
            name == IF scene.names = <<>> THEN {} ELSE {LowerCase(scene.names[Len(scene.names)].val)}
        IN  /\ n < 1000 => TypesOf(sent) \in {had, had \o <<Padding>>}
            /\ scene.res.ok => 
                  /\ name # {} /\ "rndsni" \notin scene.opts => TLSHelloExtractHost(tls, 100, TRUE) = name
                  /\ "padencap" \in scene.opts /\ scene.payload.len > 0 =>
                        n > 0 /\ (TypesOf(sent))[Len(TypesOf(sent))] = Padding

=============================================================================
