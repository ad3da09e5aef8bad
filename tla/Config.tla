------------------------------- MODULE Config -------------------------------
(* The options of nfqws2 and the profiles main makes of them.  An operator  *)
(* gives the configurations an option can leave: none when the program      *)
(* refuses it and exits, several where it uses what it never set.           *)
EXTENDS Detect, Integers, Sequences, SequencesExt

CONSTANTS
    Proto,          \* the names of protocols, "all" apart
    PayloadType,    \* the names of payloads, "all" apart
    Identifier,     \* what may name a function, an argument or a blob
    IpsetFile,      \* ipset files that can be examined
    GzipFile,       \* host list files that are compressed
    FileSize,       \* per file of data, how many bytes it has
    MAX_BLOB_SIZE, MAX_GIDS

\* Where a name stands in a list of names, up to "all", which ends the list.
All(names) == SelectInSeq(names, LAMBDA x : x = "all")
Taken(names) == IF All(names) = 0 THEN ToSet(names) ELSE ToSet(SubSeq(names, 1, All(names) - 1))
NameSet(names, known) ==
    {S \in {IF All(names) = 0 THEN ToSet(names) ELSE {"all"}} : Taken(names) \subseteq known}

parse_l7_list(names) == NameSet(names, Proto)
parse_l7p_list(names) == NameSet(names, PayloadType)

wf_make_l3(names) == {S \in {ToSet(names)} : S \subseteq {"ipv4", "ipv6"}}

-----------------------------------------------------------------------------
(* Port filters.  "*" leaves the negation as the variable had it.          *)

Port(from, to, neg) == [from |-> from, to |-> to, neg |-> neg]

Mut_pf_parse_KeepsZero(s, was) ==
    IF s.star THEN {Port(1, 65535, was)}
    ELSE {f \in {Port(s.from, s.to, s.neg)} : f.to <= 65535 /\ f.from <= f.to}

pf_parse(s, was) ==
    IF s.star THEN {Port(1, 65535, was)}
    ELSE {f \in {Port(s.from, s.to, s.neg \/ (s.from = 0 /\ s.to = 0))} : f.to <= 65535 /\ f.from <= f.to}

port_filter_add(pfs, f) == <<f>> \o pfs

parse_pf_list(items, pfs) ==
    LET parsed[i \in 0 .. Len(items)] ==
          IF i = 0 THEN {[pfs |-> pfs, neg |-> neg] : neg \in BOOLEAN}
          ELSE UNION {{[pfs |-> port_filter_add(p.pfs, f), neg |-> f.neg] : f \in pf_parse(items[i], p.neg)}
                      : p \in parsed[i - 1]}
    IN  {p.pfs : p \in parsed[Len(items)]}

port_filters_deny_if_empty(pfs) == IF pfs = <<>> THEN <<Port(0, 0, TRUE)>> ELSE pfs

pf_in_range(port, f) ==
    /\ port # 0
    /\ ((f.from = 0 /\ f.to = 0) \/ port \in f.from .. f.to) # f.neg

port_filters_in_range(pfs, port) == pfs = <<>> \/ \E i \in DOMAIN pfs : pf_in_range(port, pfs[i])

-----------------------------------------------------------------------------
(* Positions of packets and ranges of them: a range is written as where it  *)
(* starts, a separator and where it ends, each of which may be missing.     *)

PosMode == {"n", "d", "s", "p", "b", "x", "a"}
Never == [mode |-> "x", pos |-> 0]
Always == [mode |-> "a", pos |-> 0]
PacketRange(from, to, upper) == [from |-> from, to |-> to, upper |-> upper]

packet_pos_parse(s) ==
    {[mode |-> s.mode, pos |-> IF s.mode \in {"x", "a"} THEN 0 ELSE s.pos] : m \in {s.mode} \cap PosMode}

packet_range_parse(s) ==
    LET tos == IF s.to.mode = "none" THEN {Always} ELSE packet_pos_parse(s.to)
        Sep(from) == {PacketRange(from, to, s.sep = "<") : to \in tos}
    IN  IF s.from.mode = "none" THEN Sep(Always)
        ELSE UNION {IF from.mode = "x" THEN {PacketRange(from, from, FALSE)}
                    ELSE IF s.sep # "none" THEN Sep(from)
                    ELSE IF from.mode = "a" THEN {PacketRange(from, from, FALSE)} ELSE {}
                    : from \in packet_pos_parse(s.from)}

-----------------------------------------------------------------------------
(* Lists that grow at the head and are copied in order.                    *)

strlist_add(list, s) == <<s>> \o list
strlist_search(list, s) == \E i \in DOMAIN list : list[i] = s
parse_strlist(names, list) == Reverse(names) \o list

str2list_add(args, a) == <<a>> \o args
lua_call_param_add(args, a) == {str2list_add(args, a) : n \in {a.var} \cap Identifier}

funclist_add_tail(list, f) == Append(list, f)

\* The instance takes the payloads and the ranges in force.
parse_lua_call(list, call, payload, in, out) ==
    LET args[i \in 0 .. Len(call.args)] ==
          IF i = 0 THEN {<<>>}
          ELSE UNION {lua_call_param_add(a, call.args[i]) : a \in args[i - 1]}
    IN  {funclist_add_tail(list, [func |-> call.func, args |-> a, payload |-> payload, in |-> in, out |-> out])
         : a \in IF call.func \in Identifier THEN args[Len(call.args)] ELSE {}}

\* What a script finds under the name of an argument: the table is filled in
\* the order of the list, so that the last in the list is seen.
Value(a, blobs) ==
    CASE a.form = "blob" -> IF a.val \in DOMAIN blobs THEN [blob |-> a.val] ELSE [nil |-> TRUE]
      [] a.form = "len"  -> IF a.val \in DOMAIN blobs THEN [len |-> blobs[a.val]] ELSE [len |-> 0]
      [] OTHER           -> [str |-> a.val]

lua_pushf_args(args, blobs) ==
    LET Place(v) == CHOOSE i \in DOMAIN args : args[i].var = v /\ \A j \in DOMAIN args : args[j].var = v => j <= i
    IN  [v \in {args[i].var : i \in DOMAIN args} |-> Value(args[Place(v)], blobs)]

-----------------------------------------------------------------------------
(* Profiles.  A list is known by its place among the lists of its sort; the *)
(* entries of an anonymous one are kept with it.                            *)

Kind == {"hosts", "hosts_exclude", "ips", "ips_exclude"}
SortOf(kind) == IF kind \in {"hosts", "hosts_exclude"} THEN "hostlists" ELSE "ipsets"

Profile ==
    [n |-> 0, name |-> "", name_tpl |-> "", n_tpl |-> 0, cookie |-> "", l3 |-> {"ipv4", "ipv6"}, tcp |-> <<>>, udp |-> <<>>,
     l7 |-> {"all"}, ssid |-> <<>>, lists |-> [k \in Kind |-> <<>>], auto |-> 0, lua |-> <<>>,
     fail |-> 3, time |-> 60, retrans |-> 3]

dp_list_add(list, n) == Append(list, [Profile EXCEPT !.n = n])

\* The port filters are dynamic structures and are not among those copied.
dp_list_copy(from) == [from EXCEPT !.tcp = <<>>, !.udp = <<>>]

dp_list_search_name(list, name) ==
    {i \in DOMAIN list : list[i].name = name /\ name # "" /\ \A j \in 1 .. i - 1 : list[j].name # name}

dp_list_move(target, dp) == Append(target, dp)

Dp(c) == Last(c.profiles)
Put(c, dp) == [c EXCEPT !.profiles = Append(Front(@), dp)]

files_search(files, name) == {i \in DOMAIN files : files[i].filename = name /\ name # ""}
files_add(files, name) == Append(files, [filename |-> name, entries |-> {}])

collection_add(items, id) == <<id>> \o items
collection_search(items, files, name) == \E i \in DOMAIN items : name # "" /\ files[items[i]].filename = name

\* A file is loaded once however many profiles name it; every anonymous list
\* is a new one.
Register(c, kind, name) ==
    LET sort  == SortOf(kind)
        found == files_search(c[sort], name)
        files == IF found = {} THEN files_add(c[sort], name) ELSE c[sort]
        id    == IF found = {} THEN Len(files) ELSE CHOOSE i \in found : TRUE
        items == Dp(c).lists[kind]
        dp    == IF collection_search(items, files, name) THEN Dp(c)
                 ELSE [Dp(c) EXCEPT !.lists[kind] = collection_add(items, id)]
    IN  [c |-> [Put(c, dp) EXCEPT ![sort] = files], id |-> id]

RegisterHostlist(c, kind, name) == {Register(c, kind, name)}
RegisterIpset(c, kind, name) == {Register(c, kind, n) : n \in {name} \cap (IpsetFile \cup {""})}
RegisterList(c, kind, name) ==
    IF SortOf(kind) = "hostlists" THEN RegisterHostlist(c, kind, name) ELSE RegisterIpset(c, kind, name)

-----------------------------------------------------------------------------
(* Data that scripts use.                                                  *)

\* A hex string is cut at the room there is; a file is read from the offset
\* on, which must be inside unless the file is empty.
LoadedSize(src) ==
    CASE src.form = "hex" -> {n \in {IF src.size > MAX_BLOB_SIZE THEN MAX_BLOB_SIZE ELSE src.size} : n > 0}
      [] OTHER -> {IF n = 0 THEN 0 ELSE n - src.ofs : n \in {k \in {FileSize[f] : f \in {src.file} \cap DOMAIN FileSize}
                                                             : k = 0 \/ src.ofs < k}}

load_blob_to_collection(blobs, name, src) ==
    {[b \in DOMAIN blobs \cup {name} |-> IF b = name THEN size ELSE blobs[b]]
     : size \in IF name \in Identifier \ DOMAIN blobs THEN LoadedSize(src) ELSE {}}

ApplyDefaultBlobs == [fake_default_tls |-> 680, fake_default_http |-> 263, fake_default_quic |-> 620]

-----------------------------------------------------------------------------
(* What main has when the options begin, and what each option does to it.   *)

parse_uid(uid, gids) == {[uid |-> uid, gids |-> g] : g \in {IF gids = <<>> THEN <<2147483647>> ELSE gids
                                                            : n \in {Len(gids)} \cap 0 .. MAX_GIDS}}

NoneOf == [k \in Kind |-> 0]

Start ==
    [profiles |-> dp_list_add(<<>>, 1), templates |-> <<>>, count |-> 1, skip |-> FALSE, template |-> FALSE,
     payload |-> {"all"}, in |-> PacketRange(Never, Never, FALSE), out |-> PacketRange(Always, Always, FALSE),
     anon |-> NoneOf, hostlists |-> <<>>, ipsets |-> <<>>, blobs |-> ApplyDefaultBlobs, qnum |-> -1, mark |-> 0,
     server |-> FALSE, user |-> [uid |-> 0, gids |-> <<>>]]

Blob(c, name, src) == {[c EXCEPT !.blobs = b] : b \in load_blob_to_collection(c.blobs, name, src)}
Qnum(c, n) == {[c EXCEPT !.qnum = q] : q \in {n} \cap 0 .. 65535}
Fwmark(c, n) == {[c EXCEPT !.mark = m] : m \in {n} \ {0}}
Server(c, on) == {[c EXCEPT !.server = on]}
Uid(c, uid, gids) == {[c EXCEPT !.user = u] : u \in parse_uid(uid, gids)}

\* --hostlist, --hostlist-exclude, --ipset, --ipset-exclude
ListOption(c, kind, file) == IF c.skip THEN {c} ELSE {r.c : r \in RegisterList(c, kind, file)}

\* --hostlist-domains and its like: the profile's anonymous list is made when
\* it is first needed.
AddEntries(c, kind, id, entries) ==
    {[c EXCEPT ![SortOf(kind)][id].entries = @ \cup entries, !.anon[kind] = id]}

Entries(c, kind, entries) ==
    IF c.skip THEN {c}
    ELSE IF c.anon[kind] # 0 THEN AddEntries(c, kind, c.anon[kind], entries)
    ELSE UNION {AddEntries(r.c, kind, r.id, entries) : r \in RegisterList(c, kind, "")}

\* --hostlist-auto
AutoHosts(c, file) ==
    IF c.skip THEN {c}
    ELSE {Put(r.c, [Dp(r.c) EXCEPT !.auto = r.id])
          : r \in IF Dp(c).auto = 0 /\ file \notin GzipFile THEN RegisterHostlist(c, "hosts", file) ELSE {}}

\* The thresholds are bytes before they are compared.
FailThreshold(c, n) == {Put(c, [Dp(c) EXCEPT !.fail = v]) : v \in {n % 256} \cap 1 .. 20}
FailTime(c, n) == {Put(c, [Dp(c) EXCEPT !.time = v]) : v \in {n % 256} \ {0}}
RetransThreshold(c, n) == {Put(c, [Dp(c) EXCEPT !.retrans = v]) : v \in {n % 256} \cap 2 .. 10}

\* A profile that ends as a template leaves the list; the name must be new.
ToTemplates(c) ==
    {[c EXCEPT !.templates = dp_list_move(@, [Dp(c) EXCEPT !.n = Len(c.templates) + 1]), !.profiles = Front(@)]
     : free \in {TRUE} \cap {dp_list_search_name(c.templates, Dp(c).name) = {}}}

\* --new: what was in force for the instances is forgotten.
Forget(c) ==
    [c EXCEPT !.skip = FALSE, !.template = FALSE, !.anon = NoneOf, !.payload = {"all"},
              !.in = PacketRange(Never, Never, FALSE), !.out = PacketRange(Always, Always, FALSE)]

Mut_New_KeepsAnonymous(c) ==
    LET Next(d, n) == [Forget([d EXCEPT !.profiles = dp_list_add(@, n), !.count = n]) EXCEPT !.anon = c.anon]
    IN  IF c.skip THEN {Forget(Put(c, [Profile EXCEPT !.n = c.count]))}
        ELSE IF c.template THEN {Next(d, c.count) : d \in ToTemplates(c)}
        ELSE {Next(c, c.count + 1)}

New(c) ==
    LET Next(d, n) == Forget([d EXCEPT !.profiles = dp_list_add(@, n), !.count = n])
    IN  IF c.skip THEN {Forget(Put(c, [Profile EXCEPT !.n = c.count]))}
        ELSE IF c.template THEN {Next(d, c.count) : d \in ToTemplates(c)}
        ELSE {Next(c, c.count + 1)}

SkipProfile(c) == {[c EXCEPT !.skip = TRUE]}
Name(c, name) == {Put(c, [Dp(c) EXCEPT !.name = name])}
Template(c, name) ==
    LET d == [c EXCEPT !.template = TRUE] IN IF name = "" THEN {d} ELSE Name(d, name)
Cookie(c, v) == {Put(c, [Dp(c) EXCEPT !.cookie = v])}

Import(c, name) ==
    {Put(c, [dp_list_copy(t) EXCEPT !.n = c.count, !.name_tpl = t.name, !.n_tpl = t.n])
     : t \in {c.templates[i] : i \in dp_list_search_name(c.templates, name)}}

FilterL3(c, names) == {Put(c, [Dp(c) EXCEPT !.l3 = S]) : S \in wf_make_l3(names)}
FilterTcp(c, items) ==
    {Put(c, [Dp(c) EXCEPT !.tcp = pfs, !.udp = port_filters_deny_if_empty(@)]) : pfs \in parse_pf_list(items, Dp(c).tcp)}
FilterUdp(c, items) ==
    {Put(c, [Dp(c) EXCEPT !.udp = pfs, !.tcp = port_filters_deny_if_empty(@)]) : pfs \in parse_pf_list(items, Dp(c).udp)}
FilterL7(c, names) == {Put(c, [Dp(c) EXCEPT !.l7 = S]) : S \in parse_l7_list(names)}
FilterSsid(c, names) == {Put(c, [Dp(c) EXCEPT !.ssid = parse_strlist(names, @)])}

Payload(c, names) == {[c EXCEPT !.payload = S] : S \in parse_l7p_list(names)}
OutboundRange(c, s) == {[c EXCEPT !.out = r] : r \in packet_range_parse(s)}
InboundRange(c, s) == {[c EXCEPT !.in = r] : r \in packet_range_parse(s)}
LuaDesync(c, call) ==
    {Put(c, [Dp(c) EXCEPT !.lua = f]) : f \in parse_lua_call(Dp(c).lua, call, c.payload, c.in, c.out)}

Apply(c, o) ==
    CASE o.opt = "blob" -> Blob(c, o.name, o.src)
      [] o.opt = "qnum" -> Qnum(c, o.n)
      [] o.opt = "fwmark" -> Fwmark(c, o.n)
      [] o.opt = "server" -> Server(c, o.on)
      [] o.opt = "uid" -> Uid(c, o.uid, o.gids)
      [] o.opt = "list" -> ListOption(c, o.kind, o.file)
      [] o.opt = "entries" -> Entries(c, o.kind, o.entries)
      [] o.opt = "hostlist-auto" -> AutoHosts(c, o.file)
      [] o.opt = "fail-threshold" -> FailThreshold(c, o.n)
      [] o.opt = "fail-time" -> FailTime(c, o.n)
      [] o.opt = "retrans-threshold" -> RetransThreshold(c, o.n)
      [] o.opt = "new" -> New(c)
      [] o.opt = "skip" -> SkipProfile(c)
      [] o.opt = "template" -> Template(c, o.name)
      [] o.opt = "name" -> Name(c, o.name)
      [] o.opt = "cookie" -> Cookie(c, o.name)
      [] o.opt = "import" -> Import(c, o.name)
      [] o.opt = "filter-l3" -> FilterL3(c, o.names)
      [] o.opt = "filter-tcp" -> FilterTcp(c, o.items)
      [] o.opt = "filter-udp" -> FilterUdp(c, o.items)
      [] o.opt = "filter-l7" -> FilterL7(c, o.names)
      [] o.opt = "filter-ssid" -> FilterSsid(c, o.names)
      [] o.opt = "payload" -> Payload(c, o.names)
      [] o.opt = "out-range" -> OutboundRange(c, o.range)
      [] o.opt = "in-range" -> InboundRange(c, o.range)
      [] o.opt = "lua-desync" -> LuaDesync(c, o.call)

\* The end of the options: the last profile is dropped or moved like the
\* others, and the profile that takes what no other does is added.
LastProfile(c) ==
    IF c.skip THEN {[c EXCEPT !.profiles = Front(@)]} ELSE IF c.template THEN ToTemplates(c) ELSE {c}

NoAction == [Profile EXCEPT !.name = "no_action"]
EndOptions(c) ==
    {[d EXCEPT !.profiles = Append(@, NoAction)]
     : d \in {d \in LastProfile(c) : c.qnum >= 0 /\ (c.server => \A i \in DOMAIN d.profiles : d.profiles[i].auto = 0)}}

\* dp_match up to the lists of a profile.
FiltersFit(dp, l3, l4, port, l7, ssid) ==
    /\ l3 \in dp.l3
    /\ l4 = "tcp" => port_filters_in_range(dp.tcp, port)
    /\ l4 = "udp" => port_filters_in_range(dp.udp, port)
    /\ l7_match(l7, dp.l7)
    /\ dp.ssid = <<>> \/ strlist_search(dp.ssid, ssid)

=============================================================================
