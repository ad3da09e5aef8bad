------------------------------- MODULE IpSets -------------------------------
(***************************************************************************)
(* Sets of addresses (nfq2/ipset.c, the bit trees of nfq2/pools.c): an      *)
(* element is the sequence of the first bits of an address, and elements    *)
(* are the same if one is the beginning of the other.  Lists are files that *)
(* are read again when they have changed.                                  *)
(***************************************************************************)
EXTENDS Integers, Sequences, FiniteSets, SequencesExt

CONSTANT Width   \* by family: the bits of an address

ASSUME WidthAssumption == "comment" \notin DOMAIN Width /\ \A f \in DOMAIN Width : Width[f] \in Nat

\* kavl_bit_cmp: equal as far as both go.
SameBits(e, f) == IsPrefix(e, f) \/ IsPrefix(f, e)

Mut_kavl_bit_add_Keep(tree, e) == IF \E v \in tree : SameBits(v, e) THEN tree ELSE tree \cup {e}

\* kavl_bit_add: longer elements give way to a shorter one; of two others the
\* first stays.
kavl_bit_add(tree, e) ==
    IF \E v \in tree : SameBits(v, e) /\ Len(v) <= Len(e) THEN tree
    ELSE {v \in tree : ~ SameBits(v, e)} \cup {e}

\* kavl_bit_get
kavl_bit_get(tree, e) == \E v \in tree : SameBits(v, e)

Families == DOMAIN Width
Empty == [f \in Families |-> {}]

NoLen == -1

\* parse_cidr4, parse_cidr6: a length that the family does not have is an error.
parse_cidr(line) ==
    IF line.is \notin Families THEN {}
    ELSE LET len == IF line.len = NoLen THEN Width[line.is] ELSE line.len
         IN  IF len > Width[line.is] THEN {} ELSE {[family |-> line.is, bits |-> SubSeq(line.addr, 1, len)]}

\* addpool: comments and what cannot be parsed are passed over.
addpool(ips, line) ==
    LET cidrs == IF line.is = "comment" THEN {} ELSE parse_cidr(line)
    IN  [f \in Families |->
            LET mine == {c.bits : c \in {c \in cidrs : c.family = f}}
            IN  IF mine = {} THEN ips[f] ELSE kavl_bit_add(ips[f], CHOOSE b \in mine : TRUE)]

AppendIpset(ips, lines) ==
    LET added[k \in 0 .. Len(lines)] == IF k = 0 THEN ips ELSE addpool(added[k - 1], lines[k])
    IN  added[Len(lines)]

\* LoadIpset: a list in memory is as the file was when its signature was taken;
\* if it cannot be seen it stays, if it can be seen and not read it is empty and
\* the load has failed.
LoadIpset(mem, file) ==
    IF ~ file.seen \/ mem.sig = file.sig THEN [mem EXCEPT !.ok = TRUE]
    ELSE IF ~ file.readable THEN [mem EXCEPT !.ips = Empty, !.ok = FALSE]
    ELSE [ips |-> AppendIpset(Empty, file.lines), sig |-> file.sig, ok |-> TRUE]

\* IpsetsReloadCheck: the lists before the first that fails are loaded.
Reloaded(mems, files) ==
    LET m == [i \in DOMAIN mems |-> LoadIpset(mems[i], files[i])]
        failed == {i \in DOMAIN m : ~ m[i].ok}
    IN  [i \in DOMAIN m |-> IF \E j \in failed : j < i THEN mems[i] ELSE m[i]]
AllOk(mems) == \A i \in DOMAIN mems : mems[i].ok

SearchIpset(ips, family, addr) == kavl_bit_get(ips[family], addr)

\* IpsetCheck_: excluded first; lists that are all empty include everything.
IpsetCheck(include, exclude, family, addr) ==
    /\ AllOk(include) /\ AllOk(exclude)
    /\ \A i \in DOMAIN exclude : ~ SearchIpset(exclude[i].ips, family, addr)
    /\ \/ \A i \in DOMAIN include : include[i].ips = Empty
       \/ \E i \in DOMAIN include : SearchIpset(include[i].ips, family, addr)

=============================================================================
