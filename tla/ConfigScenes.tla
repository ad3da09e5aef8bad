---------------------------- MODULE ConfigScenes ----------------------------
(* Command lines, an option at a time, and the profiles they ask for.       *)
EXTENDS Config, Scene

CONSTANT MaxOptions     \* per menu, how many options a command line has (bound)

On(opt, name) == [opt |-> opt, name |-> name]
Call(func, args) == [opt |-> "lua-desync", call |-> [func |-> func, args |-> args]]
Arg(var, form, val) == [var |-> var, form |-> form, val |-> val]
Pos(mode, pos) == [mode |-> mode, pos |-> pos]
Out(from, sep, to) == [opt |-> "out-range", range |-> [from |-> from, sep |-> sep, to |-> to]]
Missing == Pos("none", 0)
Ports(opt, items) == [opt |-> opt, items |-> items]
Item(from, to, neg) == [star |-> FALSE, from |-> from, to |-> to, neg |-> neg]
Star == [star |-> TRUE]

Structure == {[opt |-> "new"], On("template", "t"), On("import", "t")}

\* What command lines are made of, by what they are about.
OfProfiles == Structure \cup {[opt |-> "skip"], On("name", "u"), On("template", "u"), On("import", "u"), Call("f", <<>>)}
OfInstances ==
    Structure \cup {[opt |-> "payload", names |-> <<"p", "q">>], [opt |-> "payload", names |-> <<"p", "all", "r">>],
                    Out(Missing, "<", Pos("d", 2)), Out(Pos("x", 0), "none", Missing), Out(Pos("n", 1), "none", Missing),
                    Call("f", <<Arg("a", "str", "s"), Arg("a", "blob", "b"), Arg("c", "len", "b")>>),
                    [opt |-> "blob", name |-> "b", src |-> [form |-> "hex", size |-> 5]],
                    [opt |-> "blob", name |-> "b", src |-> [form |-> "file", file |-> "d", ofs |-> 3]]}
OfLists ==
    Structure \cup {[opt |-> "entries", kind |-> k, entries |-> {e}] : k \in {"hosts", "ips"}, e \in {1, 2}}
              \cup {[opt |-> "list", kind |-> k, file |-> "l"] : k \in {"hosts", "hosts_exclude", "ips"}}
              \cup {[opt |-> "hostlist-auto", file |-> f] : f \in {"l", "m"}}
OfPorts ==
    Structure \cup {Ports("filter-tcp", <<Item(443, 443, FALSE), Item(80, 90, FALSE)>>),
                    Ports("filter-tcp", <<Item(443, 443, TRUE), Star>>), Ports("filter-tcp", <<Item(0, 0, FALSE)>>),
                    Ports("filter-udp", <<Star>>), Ports("filter-udp", <<Item(85, 443, TRUE)>>),
                    [opt |-> "filter-l3", names |-> <<"ipv4">>], [opt |-> "filter-l7", names |-> <<"p">>],
                    [opt |-> "filter-ssid", names |-> <<"s", "z">>]}
OfNumbers ==
    Structure \cup {[opt |-> o, n |-> n] : o \in {"fail-threshold", "fail-time", "retrans-threshold"}, n \in {0, 1, 10, 20, 21, 258}}
              \cup {[opt |-> "qnum", n |-> 65536], [opt |-> "fwmark", n |-> 0], [opt |-> "fwmark", n |-> 7],
                    [opt |-> "server", on |-> TRUE], On("cookie", "k"), [opt |-> "uid", uid |-> 1, gids |-> <<>>]}

Menu == [profiles |-> OfProfiles, instances |-> OfInstances, lists |-> OfLists, ports |-> OfPorts, numbers |-> OfNumbers]

CommandLine ==
    /\ Idle
    /\ \E menu \in DOMAIN Menu : \E c \in Qnum(Start, 200) :
          scene' = [kind |-> "options", menu |-> menu, given |-> <<>>, config |-> c]

More ==
    /\ scene.kind = "options" /\ Len(scene.given) < MaxOptions[scene.menu]
    /\ \E o \in Menu[scene.menu] : \E c \in Apply(scene.config, o) :
          scene' = [scene EXCEPT !.given = Append(@, o), !.config = c]

-----------------------------------------------------------------------------
(* The reference, as docs/manual.md has it: a command line is cut into      *)
(* sections at every --new, and what a section says is the whole of what it *)
(* imports, filters included, and what it says afterwards; numbers are what *)
(* is written.                                                              *)

Largest(S) == CHOOSE x \in S : \A y \in S : y <= x
Smallest(S) == CHOOSE x \in S : \A y \in S : x <= y

WrittenIn(given) ==
    LET Cuts == {i \in DOMAIN given : given[i].opt = "new"}
        Section(i) == Cardinality({j \in Cuts : j < i}) + 1
        InSection(s) == {i \in DOMAIN given \ Cuts : Section(i) = s}
        Say(s, opts) == {i \in InSection(s) : given[i].opt \in opts}
        Skipped(s) == Say(s, {"skip"}) # {}
        IsTemplate(s) == ~ Skipped(s) /\ Say(s, {"template"}) # {}
        Sections == 1 .. Cardinality(Cuts) + 1
        LastOf(S, Field(_), else) == IF S = {} THEN else ELSE Field(given[Largest(S)])
        InForce(i, opt, Field(_), else) == LastOf({j \in Say(Section(i), {opt}) : j < i}, Field, else)
        Names(o) == IF "all" \in ToSet(o.names) THEN {"all"} ELSE ToSet(o.names)
        RangeOf(o) == IF o.range.from = Missing THEN [from |-> Always, to |-> o.range.to, upper |-> TRUE]
                      ELSE [from |-> Never, to |-> Never, upper |-> FALSE]
        Instance(i) == [func |-> given[i].call.func, args |-> given[i].call.args,
                        payload |-> InForce(i, "payload", Names, {"all"}),
                        out |-> InForce(i, "out-range", RangeOf, [from |-> Always, to |-> Always, upper |-> FALSE])]
        Nothing == [name |-> "", tpl |-> "", lua |-> <<>>, lists |-> {}, entries |-> {}, auto |-> "",
                    fail |-> 3, time |-> 60, retrans |-> 3, l3 |-> {"ipv4", "ipv6"}, copied |-> {}, ports |-> {}]
        What[s \in Sections] ==
          LET imports == Say(s, {"import"})
              base == IF imports = {} THEN Nothing
                      ELSE What[CHOOSE t \in 1 .. s - 1 : IsTemplate(t) /\ What[t].name = given[Largest(imports)].name]
              Own(opts) == {i \in Say(s, opts) : \A j \in imports : j < i}
              calls == Own({"lua-desync"})
          IN  [name |-> LastOf(Own({"name", "template"}), LAMBDA o : o.name, base.name),
               tpl  |-> IF imports = {} THEN "" ELSE base.name,
               lua  |-> base.lua \o [k \in 1 .. Cardinality(calls) |->
                                        Instance(CHOOSE i \in calls : Cardinality({j \in calls : j < i}) = k - 1)],
               lists |-> base.lists \cup {<<given[i].kind, given[i].file>> : i \in Own({"list"})}
                                    \cup {<<"hosts", given[i].file>> : i \in Own({"hostlist-auto"})},
               entries |-> base.entries \cup UNION {{given[i].kind} \X given[i].entries : i \in Own({"entries"})},
               auto |-> LastOf(Own({"hostlist-auto"}), LAMBDA o : o.file, base.auto),
               fail |-> LastOf(Own({"fail-threshold"}), LAMBDA o : o.n, base.fail),
               time |-> LastOf(Own({"fail-time"}), LAMBDA o : o.n, base.time),
               retrans |-> LastOf(Own({"retrans-threshold"}), LAMBDA o : o.n, base.retrans),
               l3   |-> LastOf(Own({"filter-l3"}), LAMBDA o : ToSet(o.names), base.l3),
               copied |-> base.ports,
               ports |-> base.ports \cup Own({"filter-tcp", "filter-udp"})]
        Ordered(S) == [k \in 1 .. Cardinality(S) |-> What[CHOOSE s \in S : Cardinality({t \in S : t < s}) = k - 1]]
    IN  [profiles |-> Ordered({s \in Sections : ~ Skipped(s) /\ ~ IsTemplate(s)}),
         templates |-> Ordered({s \in Sections : IsTemplate(s)})]

\* An import comes before the lists of a section, as the manual asks.
ImportsFirst(given) ==
    \A i, j \in DOMAIN given :
        i < j /\ given[i].opt = "entries" /\ given[j].opt = "import" => \E k \in i .. j : given[k].opt = "new"

\* What a script sees of an argument that is given more than once is the first.
FirstSeen(args, blobs) ==
    [v \in {args[i].var : i \in DOMAIN args} |-> Value(args[Smallest({i \in DOMAIN args : args[i].var = v})], blobs)]

EntriesOf(c, dp) ==
    UNION {UNION {{<<k, e>> : e \in c[SortOf(k)][dp.lists[k][i]].entries} : i \in DOMAIN dp.lists[k]} : k \in Kind}
ListsOf(c, dp) ==
    UNION {{<<k, c[SortOf(k)][dp.lists[k][i]].filename>> : i \in DOMAIN dp.lists[k]} : k \in Kind}

\* A number as it is written, if it is one of a byte.
IsNumber(n, written) == written > 255 \/ n = written

IsWritten(c, dp, w) ==
    /\ dp.name = w.name /\ dp.name_tpl = w.tpl /\ dp.l3 = w.l3
    /\ IsNumber(dp.fail, w.fail) /\ IsNumber(dp.time, w.time) /\ IsNumber(dp.retrans, w.retrans)
    /\ dp.auto # 0 <=> w.auto # ""
    /\ dp.auto # 0 => c.hostlists[dp.auto].filename = w.auto
    /\ {l \in ListsOf(c, dp) : l[2] # ""} = w.lists
    /\ Len(dp.lua) = Len(w.lua)
    /\ \A i \in DOMAIN dp.lua :
          /\ \A f \in {"func", "payload", "out"} : dp.lua[i][f] = w.lua[i][f]
          /\ lua_pushf_args(dp.lua[i].args, c.blobs) = FirstSeen(w.lua[i].args, c.blobs)

\* Every section that is not skipped becomes the profile it writes, templates
\* apart and in order, with the numbers 1, 2, ... and profile 0 behind them: its
\* instances have the payloads and ranges that were in force where they were
\* written, its lists the entries that were given to it and no other's.  A number
\* of 256 or more is excepted: what is left of it in a byte is taken, if it passes.
ProfilesAreAsWritten ==
    scene.kind = "options" =>
        \A c \in EndOptions(scene.config) :
            LET w == WrittenIn(scene.given)  n == Len(w.profiles)
            IN  /\ Len(c.profiles) = n + 1 /\ c.profiles[n + 1].n = 0 /\ c.profiles[n + 1].lua = <<>>
                /\ Len(c.templates) = Len(w.templates)
                /\ \A i \in 1 .. n : c.profiles[i].n = i /\ IsWritten(c, c.profiles[i], w.profiles[i])
                /\ \A i \in DOMAIN c.templates : c.templates[i].n = i /\ IsWritten(c, c.templates[i], w.templates[i])
                /\ ImportsFirst(scene.given) =>
                      \A i \in 1 .. n : EntriesOf(c, c.profiles[i]) = w.profiles[i].entries

\* The profiles and templates that no further option speaks of.
Finished(c) == {c.profiles[i] : i \in 1 .. Len(c.profiles) - 1} \cup ToSet(c.templates)

Held(c, dp) ==
    /\ \A k \in Kind : ToSet(dp.lists[k]) \subseteq DOMAIN c[SortOf(k)]
    /\ dp.auto \in {0} \cup ToSet(dp.lists["hosts"])

LoadedOnce(files) ==
    \A i, j \in DOMAIN files : files[i].filename # "" /\ files[i].filename = files[j].filename => i = j

\* A list without a file that takes entries is of one kind and no finished
\* profile's.
TakesForOne(c, k) ==
    /\ c.anon[k] \in DOMAIN c[SortOf(k)] /\ c[SortOf(k)][c.anon[k]].filename = ""
    /\ \A l \in Kind : SortOf(l) = SortOf(k) =>
          /\ l # k => c.anon[l] # c.anon[k]
          /\ \A dp \in Finished(c) : c.anon[k] \notin ToSet(dp.lists[l])

OwnLists(c) ==
    /\ \A dp \in ToSet(c.profiles) \cup ToSet(c.templates) : Held(c, dp)
    /\ LoadedOnce(c.hostlists) /\ LoadedOnce(c.ipsets)
    /\ \A k \in Kind : c.anon[k] # 0 => TakesForOne(c, k)

\* At every option the lists of profiles and templates are lists there are, the
\* automatic one is among a profile's own, a file is loaded once, and what takes
\* the entries of --hostlist-domains or --ipset-ip belongs to no finished
\* profile (RegisterHostlist, RegisterIpset, --new and --import of main).
ListsAreOwn == scene.kind = "options" => OwnLists(scene.config)

\* An option leaves the finished profiles, the templates and what their lists
\* hold as they were.
StayAsTheyWere(c, d) ==
    /\ \A i \in 1 .. Len(c.profiles) - 1 : i \in DOMAIN d.profiles /\ d.profiles[i] = c.profiles[i]
    /\ \A i \in DOMAIN c.templates : i \in DOMAIN d.templates /\ d.templates[i] = c.templates[i]
    /\ \A dp \in Finished(c) : EntriesOf(d, dp) = EntriesOf(c, dp)

\* What an item lets through, star being what a star that stands there does.
Lets(item, star, port) ==
    IF item.star THEN star ELSE item.to # 0 /\ (port \in item.from .. item.to) # item.neg

\* The ports of a profile are those its filters name: without any it takes all,
\* with a filter for one protocol none of the other.  "*" takes all or, since
\* its negation is never set, none.  A profile that imports a template with port
\* filters is excepted: dp_list_copy does not copy them.
PortsDecide ==
    scene.kind = "options" /\ scene.menu = "ports" =>
        \A c \in EndOptions(scene.config) :
            LET w == WrittenIn(scene.given) IN
                \A k \in {i \in DOMAIN w.profiles : w.profiles[i].copied = {}} : \E star \in [w.profiles[k].ports -> BOOLEAN] :
                \A l4 \in {"tcp", "udp"}, port \in {80, 88, 443, 500} :
                    LET filters == w.profiles[k].ports
                        named == {i \in filters : scene.given[i].opt = "filter-" \o l4}
                    IN  FiltersFit(c.profiles[k], "ipv4", l4, port, "p", "z")
                            <=> filters = {} \/ \E i \in named : \E x \in ToSet(scene.given[i].items) : Lets(x, star[i], port)

=============================================================================
