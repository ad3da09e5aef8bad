------------------------------ MODULE Messages ------------------------------
(* What nfq2/protocol.c reads in HTTP and TLS messages, and what it changes *)
(* in a TLS hello.                                                         *)
EXTENDS Bytes, FiniteSets, FiniteSetsExt, SequencesExt

CONSTANT http_methods   \* what a request may begin with (bound: not all of them)

-----------------------------------------------------------------------------
(***************************************************************************)
(* Position markers of nfq2/protocol.c: a place in a payload named by what *)
(* is there (the host, its second level domain, an absolute number) and a  *)
(* displacement.  Where a marker cannot be resolved there is no place.     *)
(***************************************************************************)

POS_NOT_FOUND == -1

HostMarker == {"host", "endhost", "sld", "midsld", "endsld"}

CheckPos(sz, offset) == IF offset \in 0 .. sz - 1 THEN offset ELSE POS_NOT_FOUND

\* An absolute position counts from the end when it is negative.
AnyProtoPos(marker, pos, sz) ==
    IF marker = "abs" THEN CheckPos(sz, IF pos < 0 THEN sz + pos ELSE pos)
    ELSE POS_NOT_FOUND

Dot == 46

\* The last dot before n that is not the first character, 0 if there is none.
DotBefore(dom, n) == Max({0} \cup {i \in 1 .. n - 1 : At(dom, i) = Dot})

Mut_BeginAfterDot_Dot(dom, e) == DotBefore(dom, e)

\* The label that ends at e begins after the dot before it, if it is a dot.
BeginAfterDot(dom, e) ==
    LET b == DotBefore(dom, e)
    IN  IF At(dom, b) = Dot THEN b + 1 ELSE b

\* The label of the given level from the right, as the set of what is found.
FindNLD(dom, level) ==
    LET end[i \in 1 .. level] == IF i = 1 THEN Len(dom) ELSE DotBefore(dom, end[i - 1])
        e == end[level]
    IN  IF e <= 0 THEN {}
        ELSE LET b == BeginAfterDot(dom, e) IN {[at |-> b, len |-> e - b]}

\* Where the domain part named by the marker is in a name found at off.
SldPos(marker, sld, off) ==
    CASE marker = "sld"    -> off + sld.at
      [] marker = "endsld" -> off + sld.at + sld.len
      [] marker = "midsld" -> off + sld.at + (IF sld.len = 1 THEN 1 ELSE sld.len \div 2)

\* HostPos: the name is the len bytes at off, which may reach past the end.
HostPos(marker, pos, d, off, len) ==
    CASE marker = "host"    -> CheckPos(Len(d), off + pos)
      [] marker = "endhost" -> CheckPos(Len(d), off + len + pos)
      [] OTHER ->
            LET slds == IF off + len <= Len(d) THEN FindNLD(Cut(d, off, len), 2) ELSE {}
            IN  IF slds = {} THEN POS_NOT_FOUND
                ELSE CheckPos(Len(d), SldPos(marker, CHOOSE s \in slds : TRUE, off) + pos)

-----------------------------------------------------------------------------
(***************************************************************************)
(* The HTTP part of nfq2/protocol.c: requests and replies, the value of a  *)
(* header, the markers, and whether a reply is a redirect to another site. *)
(* Characters are their codes.                                             *)
(***************************************************************************)

CR == 13
LF == 10
SP == 32
TAB == 9
Slash == 47
Digit == 48 .. 57

IsHttp(d) == \E m \in http_methods : IsPrefix(m, d)

Blank == {SP, TAB}
Ends  == {CR, LF, SP, TAB}

\* strncasestr: the places where the text is, in either case.
Places(d, text) ==
    {o \in 0 .. Len(d) - Len(text) : LowerCase(Cut(d, o, Len(text))) = LowerCase(text)}

\* The first place from o where the character is in the set, or the end.
Scan(d, o, stop) == Min({Len(d)} \cup {i \in o .. Len(d) - 1 : At(d, i) \in stop})
Skip(d, o, over) == Scan(d, o, Byte \ over)

\* Where the value of a header is; the header is the text from the line feed
\* to the colon.  Nothing is found if the value is empty.
HeaderValue(d, header) ==
    IF Places(d, header) = {} THEN {}
    ELSE LET p == Skip(d, Min(Places(d, header)) + Len(header), Blank)
             s == Scan(d, p, Ends)
         IN  IF s > p THEN {[at |-> p, len |-> s - p]} ELSE {}

\* The value in a buffer of size bytes with the zero at the end.
HttpExtractHeader(d, header, size) ==
    {LowerCase(Cut(d, v.at, IF v.len < size THEN v.len ELSE size - 1)) : v \in HeaderValue(d, header)}

HostHeader     == <<LF, 72, 111, 115, 116, 58>>                        \* \nHost:
LocationHeader == <<LF, 76, 111, 99, 97, 116, 105, 111, 110, 58>>     \* \nLocation:

HttpExtractHost(d, size) == HttpExtractHeader(d, HostHeader, size)

-----------------------------------------------------------------------------
(* Replies.                                                                *)

Version == <<72, 84, 84, 80, 47, 49, 46>>   \* HTTP/1.

IsHttpReply(d) ==
    /\ Len(d) > 14
    /\ IsPrefix(Version, d) /\ At(d, 7) \in {48, 49} /\ At(d, 8) = SP
    /\ \A i \in 9 .. 11 : At(d, i) \in Digit

HttpReplyCode(d) == (At(d, 9) - 48) * 100 + (At(d, 10) - 48) * 10 + At(d, 11) - 48

SchemeHttp  == <<104, 116, 116, 112, 58, 47, 47>>
SchemeHttps == <<104, 116, 116, 112, 115, 58, 47, 47>>

\* The host of a location, nothing if it is relative.
HostOfUrl(url) ==
    UNION {IF IsPrefix(s, url)
           THEN LET rest == From(url, Len(s)) IN {Cut(rest, 0, Scan(rest, 0, {Slash}))}
           ELSE {} : s \in {SchemeHttp, SchemeHttps}}

\* A name from its second level domain to its end.
Sld(name) == {From(name, f.at) : f \in FindNLD(name, 2)}

Mut_OtherSite_Whole(host, to) == LowerCase(host) # LowerCase(to)

\* A redirect of a name without a second level to one that has it is to another.
OtherSite(host, to) ==
    IF Sld(to) = {} THEN FALSE
    ELSE IF Sld(host) = {} THEN TRUE
    ELSE {LowerCase(s) : s \in Sld(host)} # {LowerCase(s) : s \in Sld(to)}

LocationSize == 256

HttpReplyLooksLikeDPIRedirect(d, host) ==
    /\ host # <<>>
    /\ HttpReplyCode(d) \in {302, 307}
    /\ \E loc \in HttpExtractHeader(d, LocationHeader, LocationSize) :
          \E to \in HostOfUrl(loc) : to # <<>> /\ OtherSite(host, to)

-----------------------------------------------------------------------------
(* Markers.                                                                *)

Upper == 65 .. 90

\* One or two line ends may be before the method, of which at most seven
\* letters are passed over; what follows them has to be a space.
MethodPos(pos, d) ==
    LET Past(o) == IF At(d, o) \in {CR, LF} THEN o + 1 ELSE o
        m == Past(Past(0))
        e == Min({m + 7, Skip(d, m, Upper)})
    IN  IF At(d, e) = SP THEN CheckPos(Len(d), m + pos) ELSE POS_NOT_FOUND

\* One blank may be between the colon and the name.
HostOffset(d, o) == IF At(d, o + 6) \in Blank THEN o + 7 ELSE o + 6

\* HttpPos: the name reaches to the end of its line.
HttpPos(marker, pos, d) ==
    CASE marker = "method" -> IF Len(d) < 10 THEN POS_NOT_FOUND ELSE MethodPos(pos, d)
      [] marker \in HostMarker ->
            LET hosts == Places(d, HostHeader)
            IN  IF hosts = {} \/ Min(hosts) + 8 >= Len(d) THEN POS_NOT_FOUND
                ELSE LET off == HostOffset(d, Min(hosts))
                         len == IF marker = "host" THEN 0 ELSE Scan(d, off, {CR, LF}) - off
                     IN  HostPos(marker, pos, d, off, len)
      [] OTHER -> AnyProtoPos(marker, pos, Len(d))

-----------------------------------------------------------------------------
(***************************************************************************)
(* The TLS part of nfq2/protocol.c: what is a hello, complete or cut, where *)
(* an extension of it is, the host name, the markers, and the changes that *)
(* are made to a hello that is sent as a fake.                             *)
(***************************************************************************)

-----------------------------------------------------------------------------
(* Reading.                                                                *)

TLSHandshakeLen(d) == U24(d, 1) + 4
TLSRecordLen(d) == U16(d, 3) + 5

\* type 0 is either hello.
IsTLSHandshakeHello(d, type, partial) ==
    /\ Len(d) >= 6
    /\ At(d, 0) \in (IF type = 0 THEN {1, 2} ELSE {type})
    /\ At(d, 4) = 3 /\ At(d, 5) <= 3
    /\ partial \/ TLSHandshakeLen(d) <= Len(d)

IsTLSHello(d, type, partial) ==
    /\ Len(d) >= 6
    /\ At(d, 0) = 22 /\ At(d, 1) = 3 /\ At(d, 2) <= 3
    /\ partial \/ TLSRecordLen(d) <= Len(d)
    /\ IsTLSHandshakeHello(From(d, 5), type, partial)

SessionId == 1 + 3 + 2 + 32

\* Past a field whose length stands in the n bytes at l; none if that is cut off.
Past(d, l, n) ==
    IF Len(d) < l + n THEN {} ELSE {l + n + (IF n = 1 THEN At(d, l) ELSE U16(d, l))}

Mut_PastCiphers_List(d, l) == Past(d, l, 2)

\* A server's hello has one cipher suite in place of a list.
PastCiphers(d, l) ==
    IF At(d, 0) = 2 THEN (IF Len(d) < l + 2 THEN {} ELSE {l + 2}) ELSE Past(d, l, 2)

\* TLSFindExtLenOffsetInHandshake: where the length of the extensions is.
ExtLenOffset(d) ==
    {l \in UNION {Past(d, c, 1) : c \in UNION {PastCiphers(d, s) : s \in Past(d, SessionId, 1)}} :
        Len(d) >= l + 2}

TLSFindExtLen(d) == {l + 5 : l \in ExtLenOffset(From(d, 5))}

\* An extension whose data do not fit ends the list.
Overruns(left, elen) == elen > left - 4

\* The first extension of the type among those from o to e.
FindExtFrom(d, o, e, type) ==
    LET find[i \in o .. e] ==
            IF e - i < 4 THEN {}
            ELSE LET elen == U16(d, i + 2)
                 IN  IF Overruns(e - i, elen) THEN {}
                     ELSE IF U16(d, i) = type THEN {[at |-> i + 4, len |-> elen]}
                     ELSE find[i + 4 + elen]
    IN  find[o]

\* Without partial the whole list has to be there, with it what is there is searched.
TLSFindExtInHandshake(d, type, partial) ==
    IF ~ partial /\ TLSHandshakeLen(d) > Len(d) THEN {}
    ELSE UNION {LET o == l + 2
                    e == o + U16(d, l)
                IN  IF e <= Len(d) THEN FindExtFrom(d, o, e, type)
                    ELSE IF partial THEN FindExtFrom(d, o, Len(d), type) ELSE {}
                : l \in ExtLenOffset(d)}

\* What is behind the first record is not looked at.
OneRecord(d) == IF TLSRecordLen(d) < Len(d) THEN Cut(d, 0, TLSRecordLen(d)) ELSE d

TLSFindExt(d, type, partial) ==
    IF ~ IsTLSHello(d, 0, partial) THEN {}
    ELSE {[x EXCEPT !.at = @ + 5]
            : x \in TLSFindExtInHandshake(From(OneRecord(d), 5), type, partial)}

\* TLSAdvanceToHostInSNI: the first name of the list, if it is a host name.
HostInSNI(d, ext) ==
    IF ext.len < 5 \/ At(d, ext.at + 2) # 0 \/ U16(d, ext.at + 3) > ext.len - 5 THEN {}
    ELSE {[at |-> ext.at + 5, len |-> U16(d, ext.at + 3)]}

HostAt(d, partial) == UNION {HostInSNI(d, x) : x \in TLSFindExt(d, 0, partial)}

\* TLSHelloExtractHost, into a buffer of size bytes with the zero at the end.
TLSHelloExtractHost(d, size, partial) ==
    {LowerCase(Cut(d, h.at, IF h.len < size THEN h.len ELSE size - 1)) : h \in HostAt(d, partial)}

First(places, Pos(_)) == IF places = {} THEN POS_NOT_FOUND ELSE Pos(CHOOSE p \in places : TRUE)

TLSPos(marker, pos, d) ==
    CASE marker = "sniext" -> First(TLSFindExt(d, 0, TRUE), LAMBDA x : CheckPos(Len(d), x.at + pos))
      [] marker \in HostMarker ->
            First(HostAt(d, TRUE), LAMBDA h : HostPos(marker, pos, d, h.at, h.len))
      [] marker = "extlen" -> First(TLSFindExtLen(d), LAMBDA o : CheckPos(Len(d), o + pos))
      [] OTHER -> AnyProtoPos(marker, pos, Len(d))

-----------------------------------------------------------------------------
(* Changing: TLSMod.  The payload is the hello that the fake is made for,  *)
(* its first bytes and its length.  A change that cannot be made is an     *)
(* error, after which nothing more is changed, or a failure, after which   *)
(* the others are.                                                         *)

ModOption == {"rnd", "rndsni", "dupsid", "padencap", "sni", "none"}

\* TLSMod_parse_list: what a list of options asks for, nothing if one of them
\* is unknown or names no name; of several names the last one counts.
TLSMod_parse_list(opts) ==
    IF \E i \in DOMAIN opts : \/ opts[i].name \notin ModOption
                              \/ opts[i].name = "sni" /\ opts[i].val = <<>> THEN {}
    ELSE LET names == SelectSeq(opts, LAMBDA o : o.name = "sni")
         IN  {[mods |-> {opts[i].name : i \in DOMAIN opts} \ {"none"},
               sni  |-> IF names = <<>> THEN <<>> ELSE names[Len(names)].val]}

Good(d) == [tls |-> d, ok |-> TRUE, on |-> TRUE]
Failed(r) == [r EXCEPT !.ok = FALSE]
Error(r)  == [r EXCEPT !.ok = FALSE, !.on = FALSE]

AnyByte == 85     \* stands for a random byte
AnyLetter == 97   \* and for a random letter or digit

Sid == 44         \* the session id, its length is before it

Mut_Lengths_NotList(d, ext, host, by) ==
    Grow16(Grow16(Grow16(Grow24(Grow16(d, 3, by), 6, by), ext.list, by), ext.at - 2, by), host - 2, by)

\* The six lengths that a host name is part of.
Lengths(d, ext, host, by) ==
    Grow16(Grow16(Grow16(Grow16(Grow24(Grow16(d, 3, by), 6, by), ext.list, by),
                         ext.at - 2, by), ext.at, by), host - 2, by)

\* sni: another name in place of the one there is, if the buffer has the space.
ModSni(r, ext, host, sni, space) ==
    LET by == Len(sni) - host.len
        d  == IF by = 0 THEN r.tls ELSE Lengths(r.tls, ext, host.at, by)
    IN  IF Len(r.tls) + by > space THEN Error(r)
        ELSE [r EXCEPT !.tls = Replace(d, host.at, host.len, sni)]

Letters(n) == [i \in 1 .. n |-> AnyLetter]

\* rndsni: random characters, and a known last label if there is room for one.
ModRndSni(r, host, tld) ==
    IF host.len = 0 THEN Failed(r)
    ELSE [r EXCEPT !.tls = Write(@, host.at,
             IF host.len >= 7 THEN Letters(host.len - 4) \o <<Dot>> \o tld ELSE Letters(host.len))]

\* Both of them need the name, rndsni the one that sni may have put there.
ModName(r, mods, sni, tld, space) ==
    IF ~ r.on \/ mods \cap {"sni", "rndsni"} = {} THEN r
    ELSE LET exts  == TLSFindExt(r.tls, 0, FALSE)
             hosts == HostAt(r.tls, FALSE)
         IN  IF hosts = {} THEN Error(r)
             ELSE LET list == CHOOSE l \in TLSFindExtLen(r.tls) : TRUE
                      ext  == [list |-> list, at |-> (CHOOSE x \in exts : TRUE).at]
                      host == CHOOSE h \in hosts : TRUE
                      s    == IF "sni" \in mods THEN ModSni(r, ext, host, sni, space) ELSE r
                      now  == IF "sni" \in mods THEN [host EXCEPT !.len = Len(sni)] ELSE host
                  IN  IF s.on /\ "rndsni" \in mods THEN ModRndSni(s, now, tld) ELSE s

\* rnd: the random number and the session id.
ModRnd(r, mods) ==
    IF ~ r.on \/ "rnd" \notin mods THEN r
    ELSE [r EXCEPT !.tls = LET w == Write(@, 11, [i \in 1 .. 32 |-> AnyByte])
                           IN  Write(w, Sid, [i \in 1 .. At(@, 43) |-> AnyByte])]

\* dupsid: the session id of the payload, if both are of the same length.
ModDupSid(r, mods, payload) ==
    IF ~ r.on \/ "dupsid" \notin mods THEN r
    ELSE IF \/ ~ IsTLSHello(payload.head, 1, TRUE)
            \/ payload.len < Sid
            \/ At(r.tls, 43) # At(payload.head, 43)
            \/ payload.len < Sid + At(payload.head, 43) THEN Failed(r)
    ELSE [r EXCEPT !.tls = Write(@, Sid, Cut(payload.head, Sid, At(r.tls, 43)))]

Padding == 21

AddPadding(d, list) ==
    Grow16(Grow24(Grow16(d, 3, 4), 6, 4), list, 4) \o N16(Padding) \o N16(0)

\* The four lengths that take the payload in, if none of them overflows.
Encapsulate(r, list, pad, n) ==
    LET d == r.tls
    IN  IF \/ U16(d, 3) + n > 65535 \/ U24(d, 6) + n > 16777215
           \/ U16(d, list) + n > 65535 \/ U16(d, pad) + n > 65535 THEN Failed(r)
        ELSE [r EXCEPT !.tls = Grow16(Grow16(Grow24(Grow16(d, 3, n), 6, n), list, n), pad, n)]

\* padencap: a padding extension at the end, which the payload then is part of.
ModPadEncap(r, mods, payload, space) ==
    IF ~ r.on \/ "padencap" \notin mods THEN r
    ELSE LET pads == TLSFindExt(r.tls, Padding, FALSE)
             list == CHOOSE l \in TLSFindExtLen(r.tls) : TRUE
         IN  IF pads = {}
             THEN IF Len(r.tls) + 4 > space THEN Error(r)
                  ELSE Encapsulate([r EXCEPT !.tls = AddPadding(@, list)], list,
                                   Len(r.tls) + 2, payload.len)
             ELSE LET pad == CHOOSE p \in pads : TRUE
                  IN  IF pad.at + pad.len # Len(r.tls) THEN Error(r)
                      ELSE Encapsulate(r, list, pad.at - 2, payload.len)

Changeable(d, mods) ==
    /\ IsTLSHello(d, 1, FALSE) /\ Len(d) >= Sid + At(d, 43)
    /\ mods \cap {"rndsni", "sni", "padencap"} # {} => TLSFindExtLen(d) # {}

\* With no payload the last two are left out.
TLSMod(d, mods, sni, tld, payload, space) ==
    IF ~ Changeable(d, mods) THEN Error(Good(d))
    ELSE LET named == ModRnd(ModName(Good(d), mods, sni, tld, space), mods)
         IN  IF payload.len = 0 THEN named
             ELSE ModPadEncap(ModDupSid(named, mods, payload), mods, payload, space)

SniSize == 256

\* As Lua calls it: the buffer has room for the longest name and a padding, and
\* what is in it is handed back whether or not all changes were made.
luacall_tls_mod(d, opts, tld, payload) ==
    {IF l.mods = {} THEN Good(d)
     ELSE TLSMod(d, l.mods, l.sni, tld, payload, Len(d) + SniSize + 4)
        : l \in TLSMod_parse_list(opts)}

=============================================================================
