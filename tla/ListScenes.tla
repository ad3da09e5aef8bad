----------------------------- MODULE ListScenes -----------------------------
(* Lists of addresses as they are written, grouped, loaded and asked.      *)
EXTENDS Ip2net, IpSets, Scene

BitsOf(n, w) == [i \in 1 .. w |-> (n \div (2 ^ (w - i))) % 2]

-----------------------------------------------------------------------------
Sort ==
    /\ Idle
    /\ \E a \in [1 .. 7 -> 1 .. 3] \cup {p \o <<8>> : p \in Permutations(1 .. 6)} :
          scene' = [kind |-> "sort", a |-> a]

Group ==
    /\ Idle
    /\ \E S \in SUBSET (0 .. 9), v6 \in BOOLEAN, plens \in {<<1, 3>>, <<2, 2>>} :
       \E share \in {<<1, 2, 2>>, <<3, 4, 3>>, <<1, 3, 5>>} :
       \E prm \in parse_params(v6, plens[1], plens[2], share[1], share[2], share[3]) :
          scene' = [kind |-> "group", prm |-> prm, of |-> S,
                    lines |-> [i \in 1 .. Cardinality(S) |->
                                  [is |-> IF i = 1 THEN "net" ELSE "ip", len |-> AddrBits,
                                   addr |-> CHOOSE x \in S : Cardinality({y \in S : y > x}) = i - 1]]
                              \o <<[is |-> "range"], [is |-> "net", addr |-> 15, len |-> 3]>>]

In4(n, x) == Masked(x, AddrBits - n.len) = n.addr
Holds(n, S) == {x \in S : In4(n, x)}

\* Sorting puts any list in order and loses nothing.  Grouping gives each
\* address one place: alone, or in a subnet of the lengths asked for that holds
\* its share and for which no smaller one would hold as many; a set that is
\* loaded from it has every address that was put in.
ListedIsCovered ==
    /\ scene.kind = "sort" =>
          LET s == gnu_quicksort(scene.a)
          IN  /\ \A i \in 1 .. 6 : s[i] <= s[i + 1]
              /\ \A v \in Range(scene.a) \cup Range(s) :
                    Cardinality({i \in 1 .. 7 : s[i] = v}) = Cardinality({i \in 1 .. 7 : scene.a[i] = v})
    /\ scene.kind = "group" =>
          LET S == scene.of  prm == scene.prm  out == ip2net(prm, scene.lines)
              nets == Range(out.nets)
              tree == FoldLeft(LAMBDA t, n : kavl_bit_add(t, BitsOf(n.addr \div (2 ^ (AddrBits - n.len)), n.len)),
                               {}, out.nets)
              Share(z) == IF prm.v6 THEN prm.threshold ELSE ((2 ^ z) * prm.mult) \div prm.div
          IN  /\ Len(out.passed) = 2
              /\ \A x \in S : Cardinality({n \in nets : In4(n, x)}) = 1 /\ kavl_bit_get(tree, BitsOf(x, AddrBits))
              /\ \A n \in nets :
                    LET held == Holds(n, S)  z == AddrBits - n.len
                    IN  IF z = 0 THEN held = {n.addr}
                        ELSE /\ z \in prm.min .. prm.max /\ Cardinality(held) >= Share(z) /\ Cardinality(held) > 1
                             /\ \A y \in prm.min .. z - 1 : \A x \in held : \E o \in held : Masked(o, y) # Masked(x, y)

-----------------------------------------------------------------------------
(* Lists in files, and what is asked of them.                              *)

CONSTANTS Lines, MaxLines,      \* what a file is written with, at most how many (bound)
          Contents,             \* what is in a file that is read again
          Includes, Excludes    \* how many lists include, how many exclude

FamilyAddrs(f) == [1 .. Width[f] -> {0, 1}]

ASSUME ListScenesAssumption ==
    /\ MaxLines \in Nat /\ Includes \in Nat /\ Excludes \in Nat
    /\ \A line \in Lines :
          line.is \in Families => line.addr \in FamilyAddrs(line.is) /\ line.len \in Nat \cup {NoLen}
    /\ Contents \subseteq Seq(Lines)

\* A file when it was read and now: as it was, gone, changed, or changed and
\* not to be read.
Change == {c \in [old : Contents, now : Contents, how : {"same", "gone", "unreadable", "new"}] :
              c.how # "new" => c.now = c.old}
Mem(c) == [ips |-> AppendIpset(Empty, c.old), sig |-> 1, ok |-> TRUE]
File(c) == [seen |-> c.how # "gone", readable |-> c.how # "unreadable", sig |-> IF c.how = "same" THEN 1 ELSE 2, lines |-> c.now]

Load ==
    /\ Idle
    /\ \E n \in 0 .. MaxLines : \E lines \in [1 .. n -> Lines] :
          scene' = [kind |-> "load", lists |-> <<[old |-> <<>>, now |-> lines, how |-> "new"]>>, includes |-> 1]

Reload ==
    /\ Idle
    /\ \E lists \in [1 .. Includes + Excludes -> Change] :
          scene' = [kind |-> "load", lists |-> lists, includes |-> Includes]

\* What a list says of an address: that one of its lines is it or holds it.
SaysLine(line, f, addr) ==
    /\ line.is = f
    /\ \/ line.len = NoLen /\ line.addr = addr
       \/ line.len \in 0 .. Width[f] /\ SubSeq(line.addr, 1, line.len) = SubSeq(addr, 1, line.len)
Says(lines, f, addr) == \E i \in DOMAIN lines : SaysLine(lines[i], f, addr)
SaysAnything(lines) == \E f \in Families : \E addr \in FamilyAddrs(f) : Says(lines, f, addr)

\* A packet's address passes exactly if no excluding list, as its file is now,
\* says it and an including one does or none of these says anything; the order
\* of lines, subnets in subnets and lines that are wrong change nothing.  A file
\* that is gone counts as it was; while one cannot be read nothing passes.
ListsDecide ==
    scene.kind = "load" =>
        LET lists == scene.lists
            all   == DOMAIN lists
            inc   == {i \in all : i <= scene.includes}
            m     == Reloaded([i \in all |-> Mem(lists[i])], [i \in all |-> File(lists[i])])
        IN  \A f \in Families : \A addr \in FamilyAddrs(f) :
               IpsetCheck([i \in inc |-> m[i]], [i \in all \ inc |-> m[i]], f, addr) <=>
                  /\ \A i \in all : lists[i].how # "unreadable"
                  /\ \A i \in all \ inc : ~ Says(lists[i].now, f, addr)
                  /\ \/ \A i \in inc : ~ SaysAnything(lists[i].now)
                     \/ \E i \in inc : Says(lists[i].now, f, addr)

=============================================================================
