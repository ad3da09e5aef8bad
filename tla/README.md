# A verification development of z24k

z24k installs and drives *nfqws2*, a program that takes packets from a kernel
queue, follows the connections they belong to, and lets Lua code alter, delay,
multiply or drop the ones that open a connection to a listed host. This
directory holds TLA+ models of that program and of the two tools next to it
(*mdig*, *ip2net*), configurations that check them with TLC, and proofs that
TLAPS checks. Paths below are relative to the repository's root; line numbers
are those of the commit the models were written from.

PROJECT.json lists components, runs, hazards and theorems in machine-readable
form and, under `map`, the source lines each definition stands for.

    tlc -workers 2 -config MCConntrack.cfg MCConntrack    # one run
    tlapm ConntrackProofs.tla                             # the proofs of a module

## 1. The system

### 1.1 Parts and how they interact

    kernel queue --> main loop (nfqws.c) --> desync.c --> conntrack.c   pool of tracks
         ^               |  SIGHUP            |  |  |---> pools.c       hosts, failures, IP cache
         |               v                    |  |------> hostlist.c, ipset.c   lists <--> disk
      verdict        ReloadCheck              |  |------> protocol.c    what a payload is
         |                                    |---------> lua.c --> lua/*.lua   strategies
         |                                    |                 |
         +------ darkmagic.c (raw sockets) <--+-----------------+  packets sent again, in place of
                                                                   or next to the one in the queue
    options --> profiles (nfqws.c, params.c)
    z24k  -->  config file, lists  -->  service scripts (keenetic/, init.d/, common/)
                                          --> iptables, daemon, firewall hook of the router

*nfqws2* has one thread. A packet is handled from `recv` to its verdict without
interruption, so a packet is one step of every model (in DesyncChain, steps that
nothing else comes between); what interleaves are packets of the two directions
and of different connections, the clock, signals, the files other programs
write, and the end of the process. *mdig* has threads. The service scripts are
processes of their own and share the configuration file, the pid file and the
firewall's tables.

| Part | Source | State | Operations | Modules |
|------|--------|-------|------------|---------|
| Connection tracker | nfq2/conntrack.c, conntrack_base.h | pool: tuple -> track (state, positions and counters of both directions, times, host name, flags) | feed a packet, restart on a new handshake, look up without feeding, purge by idle time, free | TrackPos, Conntrack, ConntrackStream |
| Reassembly and delay (TCP) | desync.c 418-494, 1256-1338, 2064-2094; conntrack.c 379-428 | per track a buffer and a queue of packets | start, feed, cancel, complete, replay, send on unprocessed | Reassemble, DelayedReasm, DelayedReasmTcp, DelayLine |
| Reassembly of QUIC initials | desync.c 1680-1950, protocol.c 940-1353 | the same with CRYPTO frames | the same, plus keys, opening, defragmentation | Quic, QuicReasm |
| Failure detector | desync.c 221-441, pools.c | per profile counters by host; per track observation flag, retransmission counter, verdict | judge a retransmission, a reply, a UDP exchange; count, forget, add a host | AutoHostlist |
| Host lists, profile choice | hostlist.c, pools.c, desync.c 136-218 | lists in memory, signature of the file each was loaded from; profile of a track | load, reload when the file changed, search, check, append; choose, choose again | HostLists |
| Ipsets | ipset.c, pools.c 461-724 | trees of prefixes, signatures | load, reload, search, check | IpSets |
| Desync chain | desync.c 551-610, 745-1047; lua.c 787-900; lua/zapret-lib.lua | per track sticky cut-offs, two tables of cut-offs of instances, the flag that drops replayed parts | run the instances in range, aggregate verdicts, cut off, hand over to an orchestrator, change the profile | DesyncChain |
| IP cache | desync.c 615-701; pools.c 838-1047 | address and interface -> TTL, host name, time | touch, update, lend, expire | IpCache |
| Protocol parsers | protocol.c, desync.c 29-45, 1475-1493 | none | HTTP, TLS, QUIC, DNS, STUN, WireGuard, DHT, Discord, DTLS, XMPP; positions in a payload; changes of a fake hello | Messages, Quic, Detect, Dns |
| Dissection and reconstruction | darkmagic.c 59-548, lua.c 1103-2150, checksum.c, lua/zapret-lib.lua | none | take a packet apart into tables, put it together whole or as a fragment, checksums | Packet |
| Numbers of scripts | lua.c 70-511, helpers.c | none | bits, fields, sums, words in bytes | LuaNumbers, Bytes |
| Options | nfqws.c 730-1139, 1744-2550, params.c | profiles, templates, lists, blobs | one operation per option | Config |
| Main loop | nfqws.c 59-384, 2496-2580 | reload flag, privileges, queue handle | start, receive, verdict, reload, end | Daemon |
| mdig | mdig/mdig.c | threads sharing standard streams and counters under two locks | resolve, log, count; make and read DNS messages | Mdig, Dns |
| ip2net | ip2net/ | sorted addresses | sort, remove doubles, join to subnets | Ip2net |
| Orchestrators | lua/zapret-auto.lua | per host: strategy number, failures, time | rotate strategies, judge failure and success | (`condition` in DesyncChain) |
| Service scripts, z24k | keenetic/, init.d/sysv, common/, z24k | pid files, rules, configuration, installed tree | start, stop, install, update, choose a strategy by trial | - |
| Lists, strategies, self-tests, installers, vendored code | lists/, lua/zapret-tests.lua, install*.sh, nfq2/crypto, uthash.h | data, one-shot programs | - | - |

### 1.2 What makes each part correct, and what is hard about it

* **Connection tracker.** A conversation has one track whichever side is seen
  first; nothing learnt from one connection survives into the next one on the
  same tuple; positions agree with the streams though they are 32-bit words that
  start anywhere and wrap; idle tracks go within a bounded time.
* **Reassembly and delay.** Packets held back are neither lost nor overtaken and
  none waits for ever; the buffer is the stream; a replay is the whole message.
  Hard: any order, overlap and repetition; a start or feed that fails half-way;
  the track restarted in the middle; a client that waits for the acknowledgement
  of what is being held back, or repeats what is not answered.
* **Failure detector and lists.** A connection counts once; only connections no
  strategy was applied to are watched; a host joins a list after the configured
  number of failures and not if it is listed or excluded by then; a change of a
  file is not missed. Hard: others write the same file; the profile changes under
  an observation; writes fail; the process is killed between two steps.
* **Desync chain.** Instances run for the packets of their range, once each, and
  no more after a cut-off; a hello that was sent in pieces is not sent again, and
  one that was not is not dropped. Hard: cut-offs are for ever while packets held
  back come with earlier positions and the profile changes; a cut-off is kept in
  one of two tables depending on who calls; splitters share a flag.
* **IP cache.** What is lent to a connection is what was last known of its
  address, not too old, and of the same path; it ends when the connection shows
  its own. Hard: sites share addresses; asking keeps an entry alive; purging is
  rate limited.
* **Parsers, dissection, numbers, lists, options.** Pure functions, whose answer
  is to be what the sender of the message, the author of the script, list or
  command line put in. Hard: messages cut anywhere, lengths that must be changed
  together, sums folded by hand, options whose meaning depends on those before.
* **Main loop.** A SIGHUP gets every list read again; a list that the user may
  not read is found before the loop, not in it. Hard: files change while they are
  read and signals come while they are reloaded.
* **mdig.** Names are taken once, what is printed is consistent, the end comes.

PROJECT.json lists under `hazards` the places where these bite, with the
properties that cover them or the reason why none does.

## 2. The modules

    TrackPos --> Conntrack --> ConntrackStream           ConntrackProofs
        \-----> Reassemble --> DelayedReasm --> DelayedReasmTcp
                                  |  implements
                                  v                      DelayedReasmProofs
                               DelayLine
                                  ^
                                  |  implements
    Bytes --> Quic ---------> QuicReasm                  QuicReasmProofs
      |         \
      |---> Messages --> Detect --> Config --> ConfigScenes ---\
      |                     \-----> MessageScenes, DatagramScenes --> MCFunctions
      |---> Dns ------------------------------/                |
      \---> Packet, LuaNumbers --> PacketScenes ---------------|
    Ip2net, IpSets --> ListScenes -----------------------------/
                                                         FunctionProofs
    HostLists --> AutoHostlist                           AutoHostlistProofs
    DesyncChain                                          DesyncChainProofs
    IpCache, Daemon, Mdig                                ProgramProofs

Arrows read "is extended by"; a `*Proofs` module extends the modules it stands
beside, FunctionProofs MCFunctions. *Lemmas* holds what several of them need. `MC*` modules give constants
their values for TLC. MCStream, MCDaemon and MCReasmTcpProbe are configurations of
ConntrackStream, Daemon and DelayedReasmTcp themselves, MCReasm is one of
MCDelayedReasm, MCChain and MCChainCopy are of MCDesyncChain; the others have the
name of their module. MCConntrack also remembers whether the clock was set back
(`set_back`), which `IdleIsBounded` asks, and the host names that each connection
was told (`told`), which `HandshakeForgets` asks, so ConntrackProofs extends it too.
Operators named `Mut_<Definition>_<Bug>` are the definition after them with a
plausible bug put in; they are used by no specification and are there so that each
property can be seen to fail when the code is wrong.

### 2.1 Connection tracker: TrackPos, Conntrack, ConntrackStream

*TrackPos* is one direction of a track (`t_ctrack_position`) and the arithmetic
on it: counting, `ConntrackApplyPos`, the latch that says a relative number went
past 2 GB, `is_retransmission`. A word has `SeqMod` values and every difference
is taken modulo it, as C's `uint32_t` does.

*Conntrack* is the pool. `HandlePacket(p)` is the whole handling of a packet by
the tracker: `ConntrackPoolPurge` (rate limited), lookup of the tuple
and of the swapped tuple, creation by SYN, SYN,ACK or a datagram,
`ConntrackFeedPacket` with its restart, and the host names the caller then
stores on the track (`FirstSearch`, `Discover`): the one that the IP cache has for the address,
given to the client's first packet, a SYN as well as any other (--ipcache-hostname,
desync.c:1136), and the one in the first payload that shows one. The cached name is
an input here, `p.cached`; IpCache has where it comes from. `Tick` and `SetClock`
move the wall clock (`time()` is not monotonic).

*ConntrackStream* puts a client and a server around it, who number their bytes
as TCP does, lose and retransmit, and use the tuple again. It carries the true
stream offsets in unbounded integers next to the words of the tracker, so that
properties can compare the two.

Abstracted: window, scale, MSS and IPv6 flow label are last-seen values without
influence on anything modelled. `b_cutoff` is read but never set, and
`ConntrackPoolDrop` is never called; neither is modelled. A connection from an
address and port to itself is left out: its tuple is its own mirror image.

### 2.2 Reassembly: Reassemble, DelayedReasm, DelayedReasmTcp, DelayLine

*Reassemble* is `t_reassemble`: a byte of the buffer is represented by the
offset in the client's stream it came from. *DelayedReasm* is the client payload
path of `dpi_desync_tcp_packet_play` for one connection whose stream carries one
TLS hello. A payload packet is one action, in one of five ways the code takes:
`Hold` (queued and dropped), `Complete` (queued, then the queue is replayed),
`GiveUp` (`pass_reasm_cancel`), `Alone` (nothing to reassemble), `Exempt`
(reassembly cancelled because of HTTP, a negative list check or no profile).
`Reopen` is a track restarted or purged.

*DelayLine* is what delaying may do to a connection: packets wait, go on, or are
forgotten with their connection, each once, in order. *DelayedReasmTcp* is
DelayedReasm closed with the client's TCP, whose progress depends on what the
queue lets through.

Abstracted: content of the bytes (overlapping segments agree, as a TCP sender's
do), the Lua code a replayed packet passes through, failures of raw sends.

### 2.3 QUIC: Quic, QuicReasm

*Quic* is what an Initial is (`IsQUICInitial`), which salt a version takes
(`quic_derive_initial_secret`), how it is opened (`QUICDecryptInitial`) and how
its CRYPTO frames are put together (`QUICDefragCrypto`, with its limit of pieces,
its sort and its test for completeness). Ciphers are perfect: a payload is its
plain bytes and a tag that names the keys.

*QuicReasm* is the UDP side of desync.c for one connection: each datagram's plain
text is put behind that of those before, all are defragmented, and the packet is
held, passed, or replayed with the others. Datagrams come in any order and as
often as client and network please. `Line` maps it to DelayLine, the same
abstract line that the TCP side implements.

### 2.4 Failure detector and lists: HostLists, AutoHostlist

*HostLists* is the reload of list files by their signature (time in seconds,
size) and the check of a host against a profile. *AutoHostlist* is the rest: the
choice of the profile of a connection (`dp_find` at the first packet and again
when protocol or host become known), the check kept with the track, the
observation flag, the verdicts of `auto_hostlist_retrans`, of replies and of
`process_udp_fail`, `auto_hostlist_failed` with the counters and their purge,
and the write of the host to the file. The write is three steps, as in the code
(memory, `append_to_list_file`, `file_mod_signature`), because other processes
and a kill can come between them. `Edit` is another program changing a list
file, `Hangup` SIGHUP, `Die` and `Start` the process's end and restart.

`Visited` are the hosts that connections name, `Entry` those that other programs
may write into a list. Filters on addresses, ports and protocol are a given set of
profiles (`FitsOf`), sequence limits are the classes "far", "repeated", "bad". Strict
entries (`^host`), server mode and lack of memory are left out. A rewrite of a
file in the very second of its last change and to the same size is not seen by
the code; the action `Edit` makes none. With `EditorRaces = TRUE` another program may
write between append and stat; then `NothingMissed` fails, because the signature
taken covers the other's entry, which memory has not (desync.c:359). `blind` is
history: the signatures that were taken for a file which memory had not read,
because the reload in front of the addition had failed (section 4).

### 2.5 Desync chain: DesyncChain

One connection, its profiles and their chains of instances. A packet enters with
`ServerPacket`, `ClientPacket` or `ReplayPart`; `Play` is what
`dpi_desync_tcp_packet_play` does up to the call of `desync()` (protocol or host
name found for the first time, hence possibly another profile and `dp_changed`)
and the head of `desync()` (sticky cut-off, prescan). Then every instance called
is a step: `CallOnce` (a function that is done with one or both directions at
some point, as wsize), `CallRisky` (one that may raise an error),
`CallOrchestrator` (the example orchestrator and `condition` of
lua/zapret-auto.lua: the rest of the chain is run from Lua) and `CallSplit` (the
five splitters). `Finish` is the verdict. Nothing else comes in while a run is on,
as the program has one thread; the steps are apart so that properties can speak
of single calls. An instance that raises an error ends the
run: the packet then passes unmodified whatever the instances before it returned
(desync.c:914-919, 987-991), and `Finish` counts it as having left like any other that
is not dropped. `HoldPart`, `HoldLastPart`, `ReplayPart`, `ReplayEnds` and
`ReasmFails` are the queue in front of the chain, of which DelayedReasm has the
detail.

`run` is the packet in the chain: the place `at` behind the last call, whether an
orchestrator has taken over (`plan`), the verdict so far. `instance_cutoff` is the
table of nfq2/lua.c, `cutoff_shim` the one in `lua_state` that
`instance_cutoff_shim` writes when the caller is an orchestrator. `asked` and
`ledger` are history: every cut-off ever asked for, and which parts of the hello
being replayed left, left because of an error, were dropped, or were sent whole by a
splitter. `SentOnce` lets a part of a hello that was sent whole leave only because
of an error in its own run.

Abstracted: ranges are by the counters n and d (modes b, s and p are not
modelled); the connection is tracked; a profile whose host lists do not admit the
connection is one with an empty chain; what a reassembly that fails sends past
Lua is DelayedReasm's matter; a packet Lua modified can be rebuilt.

### 2.6 IP cache: IpCache

Connections to addresses that sites may share, through
`Outgoing` and `Incoming`, each of which is the whole of a packet, with the interface
that this packet goes out or comes in by (`ifout`, `ifin`; two packets of a connection
may have different ones): the purge of `dpi_desync_packet`, the first search with a name from the cache, the TTL that is
taken or lent, the name the payload shows and the second search. `DnsResponse` is
`feed_dns_response`. An entry's key is the pair of address and interface; names
are kept without one (`NameKey`), as `ipcache_put_hostname` passes no interface.
`learnt`, `seen`, `roamed` and `past` are history; `roamed` holds the addresses of
connections that used more than one interface.

### 2.7 The process: Daemon

`pc` is where the process is: the stages of main from its options to the loop,
and in it the receive, `ReloadCheck` with its lists one after the other (each a
`Stat` and a `Read`, as others write in between), the check of the packet's lists
and the verdict. `Edit`, `Rewrite` (the same signature), `Restore`, `Protect` and
`Hide` are what others do to files, `Hup` the signal handler at any step.

### 2.8 Tools: Mdig, Dns, Ip2net

*Mdig* is `run_threads` and `t_resolver`: a thread takes a line under `flock`
(which it holds while it waits for input), resolves it, with a retry when the
resolver asks for it, prints under `flock` one address at a time, logs the name as
resolved when all its addresses are out, counts under `slock`, and reports. Threads that cannot be created are part of it. Its
specification is called `MdigSpec` because ProgramProofs extends the programs
whose proofs it holds.
*Dns* is `dns_mk_query_blob` and `dns_parse_print` of mdig and
`feed_dns_response` of the daemon. *Ip2net* is the sort of qsort.c with its
stack of partitions, the removal of doubles and the search for prefixes that hold
enough addresses.

### 2.9 Pure functions: Bytes, Messages, Detect, Packet, LuaNumbers, IpSets, Config

Messages, datagrams and packets are sequences of bytes, addressed from 0 as the
code does (*Bytes*). *Messages* has the HTTP and TLS parsers, position markers
and `tls_mod`; *Detect* the tests for datagrams and XMPP and the order in which
they are asked; *Packet* dissection, tables, reconstruction, extension headers,
fragments and checksums; *LuaNumbers* the bit functions and packers of lua.c, with
words of `WordBits`, which are put together bit by bit (`OfBits`). A function of a
script yields the set of what it may return, empty when it raises an error; what is
returned is the word handed to `lua_pushlint`. `IntegerSizes` are the widths that
`lua_Integer` has in the builds (lua.h:25-29), which the mask of `bitget` depends on.
Sums are those of checksum.c to the letter: `do_csum(d, at, big)` takes words from
memory as a host of either byte order does, from an address `at` that may be odd, and
what it may lose of a carry it loses here. A sum spoiled on purpose is any other one
(`Spoiled`), of which `WrongSums` are tried. *IpSets* represents a prefix by its bits, and the tree by the
set of its elements (the comparison that says two are the same is the code's).
Recursion is written with recursive functions throughout, which the provers can
reason about.
*Config* has an operator for each option: it gives the configurations that the
option can leave, none if the program exits.

The *Scenes* modules say what is put in, from the sender's side and independent
of the readers: how a client builds a hello, an Initial or a packet, how lists
are written, which profiles a command line asks for. *Scene* is the variable: a
behaviour sets a scene up, and the invariants of MCFunctions judge it.

## 3. The runs

| Run | Configuration | Shows |
|-----|---------------|-------|
| conntrack_pool | MCConntrack | any order of packets of two endpoints on either tuple, names told by payloads and by the cache, purges and a clock set back: `OneTrackPerFlow`, `HandshakeForgets`; rate limiting delays a purge by at most its interval: `IdleIsBounded` |
| stream | MCStream | two connections in turn on a tuple, streams that cross half the word and wrap: `RetransmissionIsExact`, `PositionExactOrFlagged` |
| reasm_any | MCReasm | any four segments over a hello: `HeldWhileOpen`, `BufferIsStream`, `ReplayIsWholeHello`, and the refinement of DelayLine, `IsDelayLine` |
| reasm_probe | MCReasmTcpProbe | a lost segment, a client that probes the tail: `StreamDelivered`, `DelayedDrains` |
| quic | MCQuicReasm | Initials in any order and repeated: `ReplayedIsWhole`, `FlightIsSeen`, `HeardInTheEnd`, and the refinement `IsDelayLine` |
| autohostlist | MCAutoHostlist | two profiles filling one list, edits, failing writes, kill and restart: `NothingMissed`, `JudgedOnce`, `ObservedUntouched`, `AddedIsEarned`, `WritesNothingListed` |
| chain | MCChain | three profiles, two hellos, errors of instances: `CalledInOrder`, `CutoffIsFinal`, `CutoffHidesNothing`, `HelloSurvives`, `SentOnce` |
| ipcache | MCIpCache | two connections to a shared address, each packet by one of two interfaces: `NameIsLent`, `UnusedIsForgotten`, `TtlIsOfPath` |
| daemon | MCDaemon | a host list and an ipset, edits and signals at every point: `ListsAreCurrent`, `FatalIsEarned` |
| mdig | MCMdig | two threads, four lines: `EachLineOnce`, `TotalsAreTrue`, `Ends` |
| functions | MCFunctions | all scenes: `MessagesAreRead`, `DatagramsAreRead`, `PacketArrives`, `NumbersHold`, `ListedIsCovered`, `ListsDecide`, `OptionsAreMeant` |
| chain_copy | MCChainCopy | violated: `SentOnce` with a splitter that has nodrop before one that has not |

Each property of *functions* is the conjunction of what is said of one subject:

* `MessagesAreRead`: a hello or request cut after any number of bytes yields its
  host as soon as the host is there and never another (`HelloHost`), markers stand
  where the sender's host stands (`MarkersFrameHost`), a redirect is one to
  another site (`RedirectIsToAnother`), a fake hello changed by any list of
  `tls_mod` is still a hello with consistent lengths (`FakeStaysWhole`).
* `DatagramsAreRead`: an Initial sealed with the keys of its draft opens
  (`InitialIsRead`), and the bytes put together are the sender's (`DefragIsStream`);
  a message is taken for what it is (`EachByItsName`), and all addresses of a reply
  are read, up to the first that is cut (`AnswerIsRead`).
* `PacketArrives`: taken apart and put together, at any alignment and on hosts of
  either byte order, a packet is the same with right sums and lengths, and a receiver
  drops it when its sum was spoiled (`PacketSurvives`); its two fragments join to it
  (`FragmentsRejoin`). Excepted by name are the sums that lose a carry (`MayLose`), the
  UDP sum that is 0 (`NoSum`) and headers of 256 bytes or more; section 4 has them.
* `NumbersHold`: fields of bits are set and read within their bounds, reading those
  that are narrower than the build's `lua_Integer`
  (`FieldsHold`); sums wrap, numbers come back from their wire form, and quotients
  are cut towards zero, but for the least number by -1 (`SumsWrap`).
* `ListedIsCovered`: what ip2net prints covers exactly what was given, each once.
* `ListsDecide`: ipsets decide by the lines of the newest files, whatever their
  order and whatever lines are wrong.
* `OptionsAreMeant`: the profiles are those that the command line writes
  (`ProfilesAreAsWritten`), ports pass as their lists say (`PortsDecide`), and a list
  given entry by entry is of one kind and no finished profile's (`ListsAreOwn`). The
  reference reads options as the manual does: numbers are the numbers written, and an
  imported template's port filters are filters of the profile. The places where the
  code does otherwise are excepted by name, numbers above 255 by `IsNumber` and
  profiles that import port filters by `copied`; section 4 has both.

### Bounds, and why they are enough

Every bound is a CONSTANT marked "(bound)" or the set a scene ranges over.

* MCConntrack: words of two values (positions are not the question here), one
  protocol of either kind, two endpoints and two host names under symmetry, three packets
  per track and three in all tracks together (`MaxPool`; a restart and a purge take
  theirs back), and three seconds: enough for a connection, a restart, a packet of the
  next one and a purge between any two of them, with timeouts that fall into, before and after
  the purge interval.
* MCStream: a word of three bits, initial numbers 1 and 6 (one stream wraps,
  one starts with the top bit set), a client stream as long as the word, segments
  within 3 of the last: less than half, as a TCP window of under 2 GB is in the
  real word. Two connections, seven packets, so that a whole second handshake and
  three segments follow a first connection.
* MCReasm: a hello of three units with one before and one after it, every
  segment of one or two units and the hello in one piece, four packets: start,
  failing or overlapping feed, completion and a packet after it. `MaxNeg` is 6 in
  a word of 16, so that a gap, a segment far behind, and a wrap in the middle of
  the hello (`Isn` = 13) occur. MCReasmTcpProbe: the hello among four units of
  stream, one loss, two timeouts.
* MCQuicReasm: a hello of six bytes in two different cuts into datagrams, one
  datagram with frames that are refused, one without any, room for three
  datagrams of the six that come: repetition, overlap, a full buffer and a second
  reassembly occur.
* MCAutoHostlist: one host, two connections (TCP and UDP), threshold 2, fail
  time of one second, two seconds, one edit: the second failure, an expired
  counter, a change of profile and an edit in the middle of any of them. A second
  host would only share the lists, which are sets.
* MCChain: a chain with a plan, one with two splitters, and one whose ranges end;
  four client packets and one of the server, two of them held, so that a hello in
  two parts, a profile that changes in its replay, and a second hello with what the
  first left behind all occur.
* MCIpCache: two connections, two interfaces and two TTLs, four packets at seconds 1
  to 4 with a lifetime of two: a name learnt, lent, replaced, expired, and asked for
  again in time; a TTL measured, lent, and carried from one interface to another.
* MCDaemon: three changes and two signals: a change before, during and after a
  reload, and a signal in it.
* MCMdig: two threads and four lines of the three kinds that are handled
  differently, two of them names, a report at every second line.
* MCFunctions: messages of a few dozen bytes cut at every place; ports, lengths
  and widths at the ends of their ranges; packets at
  eight alignments on hosts of both byte orders, with payloads made to lose a carry and
  to have the sum 0; words of 6 bits with 4 that scripts may
  use in place of 64 and 48 and integers of 3 and 6 bits in place of 32 and 64 (so that
  a field of 4 bits is wider than the smaller integer, as one of 48 is), sums of three
  terms, wire forms of three bytes of two
  bits; addresses of 4 bits, in ipsets of 2 bits with files of up to three lines
  and up to three lists that change together; command lines of up to six
  options of a menu. The HTTP methods are a selection.

### Fairness

DelayedReasmTcp: weak fairness of `Send`, `Deliver`, `Ack`, `Probe` and `Rto`.
The client's stack and its application go on, the kernel hands packets to the
queue and nfqws2 takes the next one when it has finished one (its loop has no
other wait), the server acknowledges what it got. Nothing is assumed of losses.

Mdig: weak fairness of the main thread and of whoever writes the input, who
closes it in the end (`Ends` is about such inputs); strong fairness of each
thread's step, because a mutex that is released again and again is got at some
time by a thread that waits for it.

CHECK_DEADLOCK is off where bounds or scenes end the behaviours and the program
may be idle for ever; it is on in MCMdig, whose program ends in `Done`.

## 4. Where code and documents disagree

*chain_copy* is run: the key of the drop flag is a function, the same for all
instances (lua/zapret-lib.lua:1163). The splitter with nodrop finds the flag of
the other one at the last part, clears it and lets the part go; the other then
does too. It is the finding of PROJECT.json.

The models show more places of the kind, which have definitions but no run:

* `uppos` is initialised by the SYN only (conntrack.c:149). On a track that a
  SYN,ACK created (line 275) client positions are compared with 0, and for a
  client number in the upper half of the word new data counts as repeated or
  repeated data as new; conntrack_base.h:25 says "max seen position. useful to
  detect retransmissions". The run *stream* has every SYN queued.
* Held segments are dropped, hence not acknowledged. If the last segment of a
  hello is lost before the queue and the client has only its retransmission timer,
  it repeats the head, which is held again each time. The code checks the server's
  window against this (desync.c:460 and its comment), not the client's: with
  `TailProbe = FALSE` `StreamDelivered` fails.
* `reasm_offset` is the sum of payload lengths before the packet in the queue,
  which counts overlapping bytes twice (desync.c:2073); docs/manual.md:1423 calls it
  the packet's offset in the assembly.
* `host_fail_purge_prev` is one for all profiles (pools.c:115), so an expired
  counter may survive and be counted on, though nfqws.c:1435 says "all failed
  attemps must be within these seconds". A
  counter expires a fail time after its first failure, while docs/manual.md:864
  speaks of the last.
* A SIGHUP that comes during the reload is forgotten (nfqws.c:81 clears the flag
  behind it), though docs/manual.md:841 says that it marks all lists to be read
  again. `ListsAreCurrent` excepts exactly that (`late`).
* An import does not copy the port filters of a template: `dp_list_copy`
  (params.c:414) empties what `dp_init_dynamic` knows and copies the other lists.
  docs/manual.md:795 says that the profile is copied as a whole, :818 that
  templates may have filters. A profile that imports such a template therefore takes
  every port; `PortsDecide` excepts exactly these profiles (`copied`), and TLC finds it
  violated without the exception.
* Numbers of automatic lists are put in a byte before they are checked
  (nfqws.c:2074-2085): a threshold of 258 passes as 2, though the message at
  nfqws.c:2076 says that it must be within 1..20, and a fail time of 300 seconds is one
  of 44. `ProfilesAreAsWritten` excepts numbers above 255 (`IsNumber`).
* The recheck before an addition does not ask whether the list could be read
  again (`HostlistCheck`, desync.c:345): when another program has changed the file
  and it cannot be opened at that moment, the host is added to the list in memory
  and appended to the file, and `file_mod_signature` then notes the signature of a
  file that memory has not read. Its other entries are missed until the next
  change, though docs/manual.md:840 says that lists are read again automatically.
  The attempt to prove `NothingMissed` showed it; `blind` excepts exactly these
  signatures, and `Visible` the additions with a list that could not be read.
* A port filter `*` leaves `neg` as it finds it (helpers.c:507), in a structure on
  the stack that nobody set: `pf_parse` yields both.
* A TTL from the cache goes to a connection before its first reply and is then
  not measured (desync.c:690, 1164); docs/manual.md:1556 calls `incoming_ttl` that
  of the first incoming packet. As every touch prolongs an entry, a route that
  changed is not noticed while connections follow each other, and the lifetime of
  nfqws.c:1384 and docs/manual.md:979 counts from the last use.
* A TTL is kept by address and interface, but a connection has one only, and each of
  its packets looks it up or writes it down under the packet's own interface, `ifout`
  or `ifin` (desync.c:672-690, 1169/1172, 1715/1718). With asymmetric routes, or when
  routes change under a connection, a TTL lent or measured by one interface is written
  down for another, and connections by that one get it. `TtlIsOfPath` promises the
  interface only for addresses to which every connection kept to one interface both
  ways (`roamed` has the others), and of the others that the TTL was measured at the
  same address.
* `QUICDraftVersion` knows QUIC v2 by a number of an old draft (protocol.c:1027),
  `is_quic_v2` by the final one: no Initial of v2 is ever taken for one, and the
  branch at protocol.c:1328 never matters.
* `from64to16` (checksum.c:8) loses the carry of its last addition: for about one sum
  of 64 bits in 2^31 the checksum is wrong. Only sums of bytes that are 1 or 2, in
  either byte order, can be the outcome; `MayLose` excepts those, and the scenes hold
  datagrams that lose one.
* A UDP sum that is computed as 0 is sent as 0 and not as 65535 (checksum.c:138-153):
  such a datagram is not checked by receivers over IPv4 and dropped over IPv6.
* `badsum` xors the sum with a random word that is not 0 (lua.c:2085, 2090). It may so
  make a UDP sum 0, which over IPv4 is not checked, or turn 0 into 65535 or back, which
  is the same sum: a receiver then takes what it was to drop. `PacketSurvives` names both
  outcomes.
* The length of rebuilt IPv6 headers is a `uint8_t` (lua.c:1554): with more than
  215 bytes of extension headers it wraps, and such a packet never comes out as it went
  in. `PacketSurvives` promises the rest of shorter headers only.
* `bitget` makes its mask in a `lua_Integer` (lua.c:176), which has 32 bits where Lua is
  LuaJIT or older than 5.3 and the platform is of 32 bits (lua.h:25-29): fields of 32
  bits and more are read wrong there. lua/zapret-tests.lua:288-297 tries fields of up
  to 17 bits. `FieldsHold` excepts the wider ones.
* `divint` of the least number by -1 overflows (lua.c:413-416), which stops the process
  on some processors. `SumsWrap` excepts it. What a Lua whose numbers are doubles does
  with results of more than 53 bits (docs/manual.md:1808-1811) is not modelled.
* A SYN sent again carries acknowledgement 0, which may latch `rseq_over_2G` for
  good (conntrack.c:163; docs/manual.md:1586).
* A restart clears the counters after the packet that causes it was counted
  (conntrack.c:190; docs/manual.md:1579): on a tuple in use again the first packet
  is number 0.
* The two tables of cut-offs disagree when an orchestrator is called for fewer
  packets than an instance behind it (docs/manual.md:2178): the instance then runs
  from C for some packets and from the plan for others, each with its own table,
  and a cut-off taken in one is not seen in the other. It is the reason for the
  hypothesis of `CutoffsAreFinal`, and every chain of the run *chain* satisfies it.
* An acknowledgement between the parts of a held hello has a later position than
  the parts, so a direction may be cut off by n before parts that are in range are
  played (desync.c:822). `CutoffHidesNothing` speaks of the newest position only.
* When an instance raises an error, the packet passes unmodified whatever the instances
  before it returned (desync.c:914-919, 987-991). A part of a held hello that a splitter
  in front has already sent whole, or told to drop, leaves again in that way, though
  docs/manual.md:3725 says that a splitter drops the rest of a replay. `SentOnce`
  excepts these parts by name (`ledger.erred`), and no others, also not those after them.
* The drop flag of a replay can outlive it. It is cleared by the splitters at the
  last part; an error, or a `condition` that is false, in front of a splitter at
  that part leaves it set, and so does an upper bound of a splitter's range that
  falls between two parts. The next hello of the connection then loses parts that
  nobody sent. `SplittersReached` (DesyncChainProofs) excludes it and is the
  hypothesis of `HellosSurvive`; the chains of *chain* satisfy it. With a risky
  function or a condition before a splitter TLC finds `HelloSurvives` violated. In
  the same way `CopiesComeLast` excludes the chains of *chain_copy*.
* Shell: a stop acts only if the configuration of now enables the daemon
  (common/linux_daemons.sh:5), and z24k's switch changes the configuration first
  (z24k:1153): daemon and rules stay.

## 5. The proofs

The theorems hold for every value of the constants that satisfies the named
assumptions, so for 32-bit words, any timeouts, any hello and segmentation, any
number of profiles, lists, connections, threads and lines. A theorem of the form
`ASSUME H PROVE Spec => ...` needs a condition that the code does not ensure; H is
then a formula over constants that the run's constants satisfy, and section 4 says
what goes wrong without it. Each inductive invariant was checked by TLC on the
instance of its run before it was proved.

* **Lemmas**: the remainder (`ModOfDiff` and companions, from `Division`: SMT knows
  `%` only by constant divisors), induction over the naturals in a form without an
  operator for a parameter (`Induction`: a set that holds 0 and with each number
  the next one), that a function defined by recursion over the naturals exists and
  satisfies its equations (`Recursion`), sequences put behind each other (`Joined`),
  and what keeps a delay line ordered and complete (`InLine`).

* **ConntrackProofs**: `TypeCorrect`, `FlowHasOneTrack`, `HandshakeForgetsHost`,
  `CountersAgreeAlways`. The inductive invariant is
  `PoolInv == TypeOK /\ OneTrackPerFlow /\ TracksGood`. `FeedPool` leaves every
  track but the packet's untouched, so lemmas about one track (`PlayType`,
  `PlayKeeps`) and about adding it to the survivors of the purge (`WithGood`)
  are enough. `OneTrackPerFlow` needs the tuple to be looked up both ways.
  `HandshakeForgets` says where the host name of a track is from: the first of its
  own payloads that showed one, else the IP cache as of its first packet, and never a
  payload while the track is in state SYN. `Named` ties a track to what its connection was
  told (`told`) and adds what the code goes by, whether the search was made and a name
  discovered; a payload has moved the track past SYN before its name is stored, and a
  restart forgets all of it (`PlayNamed`).
  `SilentTracksGo` (`IdleIsBounded`) adds that every track was fed since the last
  purge or was not due at it (`Kept`).
  `RetransmissionsAreKnown` and `PositionsAreTrue` are about ConntrackStream, where
  every SYN is queued (`SynSeen`), for any modulus and window below half of it.
  `StreamInv` says that the tracker's words are those of the true offsets
  (`InPlace`), and that a direction not yet flagged never left the first half of
  the space by more than a window: the latch comes before the words can repeat.
* **DelayedReasmProofs**: `TypeCorrect`, `HeldExactlyWhileOpen`, `BufferHoldsHello`,
  `ReplaysAreWhole`, `DelayIsLine`, `LineKeepsAll`, `OrderKeptNoneLost`,
  `TcpIsReasm`, `TcpSafe`. The
  inductive invariant `IInv` says that the reassembler is
  idle or holds the first n bytes of the hello (`Filled(reasm, n)`), for n between
  `MinHello` and `HelloLen - 1`, and that packets wait exactly then. `FedFilled`
  is the centre: a feed that succeeds takes `Filled` to `Filled`, through every
  overlap and wrap. It needs `NoAliasing`: a segment so far ahead that its
  sequence number comes round behind the hello would be taken for an overlap;
  with 32-bit words it is 4 GB minus `MaxNeg` ahead, beyond any window.
  `LineStepwise` maps each of the five ways, and `Reopen`, to a step of DelayLine,
  whose order and completeness (`LineKeepsAll`) the refinement then carries over.
  `ReplayInv` adds that the packets in the queue carry every byte of what the
  buffer holds (`Carries`), and that a replay that ended was whole.
  `TcpIsReasm` closes the system: whatever the client's TCP sends, probes and
  repeats and whatever is lost, DelayedReasmTcp is a behaviour of DelayedReasm, so
  that all of this holds of it too (`TcpSafe`). What the client needs in return, that
  its stream gets through, is liveness and stays with TLC.
* **QuicReasmProofs**: `TypeCorrect`, `ReplayIsWhole`, `ClientIsHeard`,
  `WholeFlightIsSeen`, `DelayIsLine`, `OrderKeptNoneLost`. The packets held are the
  last that came, each has its datagram in the buffer (`Queued`), what waits is not
  a whole hello yet (`Waiting`), and what was replayed as one was (`Played`). That
  a hello all of whose chunks came once is seen whole, in whatever order they came,
  rests on `Tiling`: chunks sorted by offset that have every byte once begin each
  where the one before it ends, so that the scan of `QUICDefragCrypto` meets no gap.
  `AllOfHello` is about clients: no CRYPTO frame is
  empty or goes past the hello's end.
* **AutoHostlistProofs**: `TypeCorrect`, `ConnectionJudgedOnce`,
  `ObservedIsUntouched`, `AddedHostsHaveFailed`, and, where nobody else writes
  between the steps of an addition (`~ EditorRaces`), `NothingIsMissed` and
  `NothingListedIsWritten`. `IInv` has a part for each piece of state. `Tracks`
  ties `judged` to the flag `finalized` and says of each open track that it is
  `Sound`: observation implies a negative check on a known host in a profile with
  an auto list. It is carried through a second profile search, of which nothing is
  used: what the search finds is checked again before it is observed. `FailsFine`
  says that a counter shows no more failures than there were since the host's last
  success, so expiry, purge and restart can only make an addition later. `Fine`
  says that a list in memory is not newer than its file and covers it where the
  signatures agree (`Covers`); it needs that the clock does not go back
  (`DiskFine`). `Relied` is what an addition under way may rely on.
* **DesyncChainProofs**: `TypeCorrect`, `CallsInOrder`, `NothingHidden`,
  `CutoffsAreFinal`, `HellosSurvive`, `HellosAreSentOnce`, for any profiles and
  chains. `IInv` adds to `TypeOK` that queued
  positions are not ahead of the newest one and that calls made are before
  `run.at`; `HidingStays` is why no step takes a sticky cut-off's reason away:
  positions do not go back and past the upper bound is past it for ever.
  `CutoffsAreFinal` assumes `OrchestratorsWantAll`; `CutInv` then says that
  `instance_cutoff` holds only instances before the first orchestrator and
  `cutoff_shim` only ones behind one, so that whoever calls looks into the right
  table (`CallerKnown`). The two theorems on hellos assume `SplittersReached`, the
  second also `CopiesComeLast`. `HelloInv` says that the ledger is of the replay
  under way (`PartGood`), that the profile does not change after its first part
  (`Settled`: that part discovers whatever the others could), that a splitter which
  sent the hello wants the parts that are left (`SendersWant`), and therefore that
  the flag, when it is set, is about this replay and will be cleared in it
  (`FlagGood`). `OnceInv` is the converse: while parts are left, the flag stands for
  what was sent, so that of a hello sent whole only parts whose run had an error
  have left.
* **ProgramProofs**, IpCache: `CacheTypeCorrect`, `NamesAreLent`, `UnusedAreForgotten`,
  `TtlsAreOfPath`. The cache is `Sound` next to the history: its TTLs were had by
  packets of their path (`Had`), a name in it is the last one heard of, the last one heard
  of is in it for a lifetime, and what the last purge left was not expired then.
  Each step changes the cache by a purge, a touch or an update, which keep that
  one by one; what a connection goes by (`Tracks`) follows.
* **ProgramProofs**, the programs: of Daemon `TypeCorrect`, `FatalOnlyWhenEarned`,
  `VerdictsAreCurrent`; of Mdig `LinesComeOutOnce`, `OutputsAgree`. Daemon's
  invariant follows `pc`: where the user's access has been tested a list is
  readable or was touched since (`Access`), a noted signature that is the file's
  stands for what was read (`Noted`), a reload has answered the signal for the
  lists behind it (`Reload`), and a check has made the lists behind it current
  (`Check`). Mdig's says that who waits for input has the lock and the next line
  (`LockGood`), that a line is untaken, at work with one thread, or finished
  (`LinesGood`), and that every line taken is counted or at work (`CountsGood`:
  `stats_ct + Cardinality(Workers) = next`), for any number of threads.
* **FunctionProofs**: `NumbersAlwaysHold`, `ListsAlwaysDecide`, for words, fields,
  wire forms and addresses of any width, any number of terms, lines and lists;
  `ListsAlwaysOwn` and `FinishedProfilesStay` for command lines of any length,
  `PortsAreMeant` for port lists of any length on any profile. An
  invariant of a behaviour that sets one scene up says which scenes there are; the
  rest is lemmas about the functions.
  The arithmetic is about quotients of powers of two, since SMT knows `\div` and `%`
  by constants only. `InTurn`, `HighOfLow`, `LowOfLow` and `HighAndLow` are what
  dividing twice gives; with them a mask is a remainder (`MaskIsRemainder`), a shift
  moves every place (`FieldsAreSets` follows place by place, and `SameOnes` says that
  words with the same bits are the same), a sum of any length is cut once as well as
  after every term (`UxaddIs`), and digits are read as they were written
  (`DigitsRead`, `DigitsKept`, for any base and number of bytes).
  `AddIs` is the centre of the second: what is added to a tree of prefixes is found
  and nothing that was found is lost, although elements give way to shorter ones;
  it needs no invariant of the tree but that no element is longer than an address.
  `AppendIs` carries it along the lines of a file, `ReloadIs` to all lists, of which
  the first that cannot be read (`Least`) makes the check fail.
  The command line is followed by an invariant of its own (`Sound`, kept by every
  option: `ApplyKeeps`): what the lists of a profile name is there, files are loaded
  once, and what takes entries is a list without a file that no finished profile
  holds, in either of the two kinds of its sort. That nothing reaches back into a
  finished profile follows. `ListsAlwaysOwn` is the conjunct `ListsAreOwn` of
  `OptionsAreMeant`; `FinishedProfilesStay` is an action property that no run
  lists. `PortsAreMeant` says more than `PortsDecide` of one filter: what a star
  lets through is settled by the item before it (`AfterItem`), and left open only at
  the head, where the code reads a variable it has not set.

## 6. Only model-checked

* **Liveness**: `StreamDelivered` and `DelayedDrains` of DelayedReasmTcp, `Ends` of
  Mdig. They depend on fairness, which is out of the prover's reach.
* **Parsers and builders** of the run *functions*: `MessagesAreRead`,
  `DatagramsAreRead`, `PacketArrives`, `ListedIsCovered`, and of `OptionsAreMeant` all
  but `ListsAreOwn` (the reference of `ProfilesAreAsWritten` is a recursion over the
  sections; of `PortsDecide`, what one filter does is proved). Their
  scenes are messages written byte by byte, and what a parser returns for every
  message needs an induction over its bytes for each of its loops; the sort of ip2net
  is an induction over its stack of partitions. They are checked over the scenes.
* `SentOnce` of *chain_copy*, which does not hold.
* Well-formedness of Mdig where it would only repeat the inductive invariant.

Every other property of a passing run is stated by a theorem.

## 7. Not modelled

* **The orchestrator circular** and the detectors of lua/zapret-auto.lua: their
  records are Lua tables whose keys and functions the user's options name, in
  ranges by s, p and b, which DesyncChain has not.
* **Service scripts, z24k, list scripts, installers, blockcheck**: shell, whose
  state is files, processes and firewall tables that the scripts do not own. The
  order of their steps is under hazards.
* **The packet building of lua/zapret-antidpi.lua and zapret-wgobfs.lua**, the Lua
  self-tests, captures: data conversion by scripts that users replace.
* **lua.c**: ciphers, gzip, timers, the tables of tracks, raw sends offered to
  scripts. **darkmagic.c**: socket set-up, wireless names, WinDivert.
  **protocol.c**: IsMTProto, which is AES. **nfqws.c**: options for the process
  itself (daemon, pid file, debug), the Windows and BSD loops, the help.
* **Vendored code, lists, strategies, documentation.**
* Within what is modelled: loss between the queue and the server
  (DelayedReasmTcp), memory running out except where a start or feed may fail
  anyway, packets of untracked connections in DesyncChain.
