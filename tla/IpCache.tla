------------------------------- MODULE IpCache -------------------------------
(***************************************************************************)
(* The cache that lends a new connection what earlier ones have shown of    *)
(* its address: the host name, whatever the interface, and the TTL of what  *)
(* came back, by interface (nfq2/pools.c, nfq2/desync.c).  Connections run  *)
(* side by side, DNS replies pass, entries expire.                              *)
(***************************************************************************)
EXTENDS Integers, Sequences, FiniteSets

CONSTANTS
    Conn,          \* connections
    AddrOf,        \* per connection, the address that its server has
    Iface,         \* interfaces that packets come in by and leave by
    Name,          \* host names; some of them are addresses
    IsIp,          \* per name, whether it is one
    Ttl,           \* TTLs of incoming packets, none is 0
    Lifetime,      \* ipcache_lifetime, 0 for no expiry
    CacheHostname, \* cache_hostname
    MaxNow,        \* seconds that pass (bound)
    MaxPackets     \* packets (bound)

NoName == ""
NoIface == ""
Addr == {AddrOf[c] : c \in Conn}

ASSUME IpCacheAssumption ==
    /\ NoName \notin Name /\ Lifetime \in Nat /\ CacheHostname \in BOOLEAN
    /\ IsIp \in [Name -> BOOLEAN]
    /\ Ttl \subseteq Nat \ {0} /\ MaxNow \in Nat \ {0} /\ MaxPackets \in Nat

VARIABLES
    cache,      \* by address and interface, what is known
    prev,       \* ipcache_purge_prev
    track,      \* per connection, its track, or Closed
    now,        \* the clock
    packets,    \* handled so far
    learnt,     \* per address, the name last heard of for it and when
    seen,       \* the addresses, interfaces and TTLs of packets that came
    roamed,     \* the addresses that a connection went to by one interface
                \*   and came from, or went to later, by another
    past        \* per connection: whether a packet came, the interfaces of
                \*   all its packets, the name its payload showed, and of the
                \*   name it was lent the one last heard of, whether lately,
                \*   and whether it had not been used for the lifetime

cacheVars == <<cache, prev, track, now, packets, learnt, seen, roamed, past>>

Key == Addr \X (Iface \cup {NoIface})
Item == [last : 0 .. MaxNow, name : Name \cup {NoName}, is_ip : BOOLEAN, ttl : Ttl \cup {0}]
Search == [name : Name \cup {NoName}, is_ip : BOOLEAN, l7 : BOOLEAN]
Track == [searched : BOOLEAN, dp : SUBSET Search,
          name : Name \cup {NoName}, is_ip : BOOLEAN, discovered : BOOLEAN, l7 : BOOLEAN,
          ttl : Ttl \cup {0}]
Closed == [dp |-> {}]

\* ipcache_item_init, but for the time
NewItem == [last |-> 0, name |-> NoName, is_ip |-> FALSE, ttl |-> 0]
NewTrack == [searched |-> FALSE, dp |-> {}, name |-> NoName, is_ip |-> FALSE,
             discovered |-> FALSE, l7 |-> FALSE, ttl |-> 0]
NoPast == [came |-> FALSE, over |-> {}, own |-> NoName, lent |-> FALSE, heard |-> NoName,
           fresh |-> FALSE, unused |-> FALSE]

\* What a profile is searched by.
SearchFor(name, is_ip, l7) == {[name |-> name, is_ip |-> is_ip, l7 |-> l7]}

-----------------------------------------------------------------------------
(* The cache.                                                              *)

\* ipcache4Find, ipcache6Find
Found(ch, k) == IF k \in DOMAIN ch THEN ch[k] ELSE NewItem

\* Adds the entry if there is none; whoever asks keeps it alive.
ipcacheTouch(ch, k) ==
    [x \in DOMAIN ch \cup {k} |-> IF x = k THEN [Found(ch, k) EXCEPT !.last = now] ELSE ch[x]]

ipcache_purge(ch) ==
    IF Lifetime = 0 THEN ch
    ELSE LET kept == {k \in DOMAIN ch : now < ch[k].last + Lifetime} IN [k \in kept |-> ch[k]]

Mut_ipcachePurgeRateLimited_Rarely(ch) == IF now < prev + Lifetime THEN ch ELSE ipcache_purge(ch)

\* Not more than once in a second.
ipcachePurgeRateLimited(ch) == IF prev = now THEN ch ELSE ipcache_purge(ch)

NameKey(a) == <<a, NoIface>>

Put(ch, k, name, is_ip) ==
    IF ch[k].name = name THEN ch ELSE [ch EXCEPT ![k].name = name, ![k].is_ip = is_ip]

Mut_ipcache_put_hostname_First(ch, a, name, is_ip) ==
    IF Found(ch, NameKey(a)).name # NoName THEN ipcacheTouch(ch, NameKey(a))
    ELSE Put(ipcacheTouch(ch, NameKey(a)), NameKey(a), name, is_ip)

ipcache_put_hostname(ch, a, name, is_ip) ==
    IF ~ CacheHostname THEN ch ELSE Put(ipcacheTouch(ch, NameKey(a)), NameKey(a), name, is_ip)

\* What is asked for is kept alive, found or not.
ipcache_get_hostname(ch, a) ==
    IF ~ CacheHostname THEN [cache |-> ch, name |-> NoName, is_ip |-> FALSE]
    ELSE LET i == Found(ch, NameKey(a))
         IN  [cache |-> ipcacheTouch(ch, NameKey(a)), name |-> i.name, is_ip |-> i.is_ip]

\* Both of a state s of cache and track.
ipcache_get_ttl(s, k) ==
    IF s.t.ttl # 0 THEN s
    ELSE [s EXCEPT !.cache = ipcacheTouch(s.cache, k), !.t.ttl = Found(s.cache, k).ttl]

ipcache_update_ttl(s, k) ==
    IF s.t.ttl = 0 THEN ipcache_get_ttl(s, k)
    ELSE [s EXCEPT !.cache = [ipcacheTouch(s.cache, k) EXCEPT ![k].ttl = s.t.ttl]]

-----------------------------------------------------------------------------
(* One packet.                                                             *)

\* The first search for a profile, with the name that the cache lends.  The
\* track keeps the name, but not whether it is an address.
FirstSearch(c, s, rev) ==
    IF s.t.searched THEN s
    ELSE IF s.t.name # NoName \/ rev
    THEN [s EXCEPT !.t.searched = TRUE, !.t.dp = SearchFor(s.t.name, s.t.is_ip, s.t.l7)]
    ELSE LET got == ipcache_get_hostname(s.cache, AddrOf[c])
         IN  [cache |-> got.cache,
              t |-> [s.t EXCEPT !.name = got.name, !.searched = TRUE, !.dp = SearchFor(got.name, got.is_ip, s.t.l7)]]

Mut_TtlStep_Always(c, s, rev, iface, ttl) ==
    LET k == <<AddrOf[c], NoIface>>
    IN  IF rev THEN ipcache_update_ttl([s EXCEPT !.t.ttl = IF @ = 0 THEN ttl ELSE @], k)
        ELSE ipcache_get_ttl(s, k)

\* The TTL of the first packet that comes, unless one was lent before; by the
\* interface of this packet, ifin or ifout, whatever that of others was.
TtlStep(c, s, rev, iface, ttl) ==
    LET k == <<AddrOf[c], iface>>
    IN  IF rev THEN ipcache_update_ttl([s EXCEPT !.t.ttl = IF @ = 0 THEN ttl ELSE @], k)
        ELSE ipcache_get_ttl(s, k)

\* A name in the payload, the first one, is the connection's from then on.
Discovered(c, s, host) ==
    IF host = NoName \/ s.t.discovered THEN s
    ELSE [cache |-> ipcache_put_hostname(s.cache, AddrOf[c], host, IsIp[host]),
          t     |-> [s.t EXCEPT !.name = host, !.is_ip = IsIp[host], !.discovered = TRUE]]

\* The second search, when the name or the protocol came to light.
Reveals(s, host, l7) == (host # NoName /\ ~ s.t.discovered) \/ (l7 /\ ~ s.t.l7)

SearchAgain(c, s, host, l7) ==
    LET d == [Discovered(c, s, host) EXCEPT !.t.l7 = @ \/ l7]
    IN  IF Reveals(s, host, l7) THEN [d EXCEPT !.t.dp = SearchFor(d.t.name, d.t.is_ip, d.t.l7)] ELSE d

Opened(c) == IF track[c] = Closed THEN NewTrack ELSE track[c]

Start(c) == [cache |-> ipcachePurgeRateLimited(cache), t |-> Opened(c)]

\* The cache and the track behind a packet: rev tells that it comes, host and
\* l7 what its payload shows.
Played(c, rev, iface, ttl, host, l7) ==
    LET s == FirstSearch(c, Start(c), rev) IN SearchAgain(c, TtlStep(c, s, rev, iface, ttl), host, l7)

\* What is to be remembered of it.
Asks(c, rev) == CacheHostname /\ ~ Opened(c).searched /\ ~ rev
Tells(c, host) == host # NoName /\ ~ Opened(c).discovered

Remembered(c, rev, iface, host) ==
    LET p == past[c]  l == learnt[AddrOf[c]]
        q == [p EXCEPT !.came = @ \/ rev,
                       !.over = @ \cup {iface},
                       !.own  = IF Tells(c, host) THEN host ELSE @]
    IN  IF ~ Asks(c, rev) THEN q
        ELSE [q EXCEPT !.lent = TRUE, !.heard = l.name, !.fresh = Lifetime = 0 \/ now < l.at + Lifetime,
                       !.unused = Lifetime > 0 /\ now >= Found(cache, NameKey(AddrOf[c])).last + Lifetime]

Handle(c, rev, iface, ttl, host, l7) ==
    /\ packets < MaxPackets
    /\ packets' = packets + 1 /\ prev' = now
    /\ \E s \in {Played(c, rev, iface, ttl, host, l7)} :
          /\ cache' = s.cache
          /\ track' = [track EXCEPT ![c] = s.t]
    /\ learnt' = IF Tells(c, host) /\ CacheHostname
                 THEN [learnt EXCEPT ![AddrOf[c]] = [name |-> host, at |-> now]] ELSE learnt
    /\ seen' = IF rev THEN seen \cup {<<AddrOf[c], iface, ttl>>} ELSE seen
    /\ roamed' = IF past[c].over \subseteq {iface} THEN roamed ELSE roamed \cup {AddrOf[c]}
    /\ past' = [past EXCEPT ![c] = Remembered(c, rev, iface, host)]
    /\ UNCHANGED now

\* dpi_desync_tcp_packet_play, dpi_desync_udp_packet_play
Outgoing(c) ==
    \E iface \in Iface, host \in Name \cup {NoName}, l7 \in BOOLEAN :
       /\ host # NoName => l7
       /\ Handle(c, FALSE, iface, 0, host, l7)

Incoming(c) == \E iface \in Iface, ttl \in Ttl : Handle(c, TRUE, iface, ttl, NoName, FALSE)

\* feed_dns_response: a reply names the address of a connection's server.  It is
\* a packet of a connection of its own, to which nothing is lent.
DnsResponse ==
    \E a \in Addr, name \in {n \in Name : ~ IsIp[n]} :
       /\ CacheHostname /\ packets < MaxPackets
       /\ packets' = packets + 1 /\ prev' = now
       /\ cache' = ipcache_put_hostname(ipcachePurgeRateLimited(cache), a, name, FALSE)
       /\ learnt' = [learnt EXCEPT ![a] = [name |-> name, at |-> now]]
       /\ UNCHANGED <<track, now, seen, roamed, past>>

\* The track expires or the tuple starts anew.
Close(c) ==
    /\ track[c] # Closed
    /\ track' = [track EXCEPT ![c] = Closed]
    /\ past' = [past EXCEPT ![c] = NoPast]
    /\ UNCHANGED <<cache, prev, now, packets, learnt, seen, roamed>>

Tick ==
    /\ now < MaxNow
    /\ now' = now + 1
    /\ UNCHANGED <<cache, prev, track, packets, learnt, seen, roamed, past>>

CacheInit ==
    /\ cache = <<>> /\ prev = 0 /\ now = 1 /\ packets = 0
    /\ track = [c \in Conn |-> Closed]
    /\ learnt = [a \in Addr |-> [name |-> NoName, at |-> 0]]
    /\ seen = {} /\ roamed = {} /\ past = [c \in Conn |-> NoPast]

CacheNext ==
    \/ \E c \in Conn : Outgoing(c) \/ Incoming(c) \/ Close(c)
    \/ DnsResponse \/ Tick
CacheSpec == CacheInit /\ [][CacheNext]_cacheVars

-----------------------------------------------------------------------------
(* Properties.                                                             *)

Open == {c \in Conn : track[c] # Closed}

\* A connection goes by the name that its own payload showed, whatever the
\* cache says before or after; until then by the one last heard of at its
\* address when it asked, which it gets for sure within the lifetime and which
\* no later word changes; and its profile is searched by that very name.
NameIsLent ==
    \A c \in Open :
       LET t == track[c]  p == past[c]
       IN  /\ t.discovered <=> p.own # NoName
           /\ IF t.discovered THEN t.name = p.own /\ t.is_ip = IsIp[p.own]
              ELSE /\ t.name = NoName \/ (p.lent /\ t.name = p.heard)
                   /\ p.lent /\ p.fresh => t.name = p.heard
           /\ \A x \in t.dp : x.name = t.name

\* What has not been asked for or heard of during the lifetime is not lent.
UnusedIsForgotten ==
    \A c \in Open :
       LET t == track[c]
       IN  t.name # NoName /\ ~ t.discovered => ~ past[c].unused

\* A TTL was had by a packet that came from the same address; by the very
\* interface of the entry, and by the one of the connection, as long as every
\* connection to the address kept to one interface both ways; and once a packet
\* has come there is a TTL.
Had(a, iface, ttl) ==
    \E i \in Iface : <<a, i, ttl>> \in seen /\ (a \notin roamed => i = iface)

TtlIsOfPath ==
    /\ \A c \in Open : track[c].ttl # 0 => \E i \in past[c].over : Had(AddrOf[c], i, track[c].ttl)
    /\ \A k \in DOMAIN cache : cache[k].ttl # 0 => Had(k[1], k[2], cache[k].ttl)
    /\ \A c \in Open : past[c].came => track[c].ttl # 0

CacheTypeOK ==
    /\ DOMAIN cache \subseteq Key /\ \A k \in DOMAIN cache : cache[k] \in Item
    /\ \A c \in Open : track[c] \in Track
    /\ prev \in 0 .. now /\ now \in 1 .. MaxNow

=============================================================================
