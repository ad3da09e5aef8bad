------------------------------- MODULE Ip2net -------------------------------
(***************************************************************************)
(* ip2net: addresses are sorted (qsort.c), made unique and grouped into     *)
(* subnets of those prefixes that hold enough of them (ip2net.c).  An       *)
(* address is a number of AddrBits bits; lines that name a subnet or a      *)
(* range are passed through.                                               *)
(***************************************************************************)
EXTENDS Integers, Sequences, FiniteSets, FiniteSetsExt

CONSTANTS
    MAX_THRESH,   \* partitions up to this size are left to the insertion sort
    AddrBits      \* 32 and 128

-----------------------------------------------------------------------------
(* gnu_quicksort.                                                          *)

SwapAt(a, i, j) == [a EXCEPT ![i] = a[j], ![j] = a[i]]
Ordered2(a, i, j) == IF a[j] < a[i] THEN SwapAt(a, i, j) ELSE a

\* The outer two and the middle put in order; if the last pair is in order the
\* first is not looked at again.
MedianOf3(a, lo, mid, hi) ==
    LET b == Ordered2(a, lo, mid)
    IN  IF b[hi] < b[mid] THEN Ordered2(SwapAt(b, mid, hi), lo, mid) ELSE b

\* Collapse the walls: l and r move to the middle element, wherever it goes.
Collapse[a \in Seq(Int), mid \in Nat, l \in Nat, r \in Nat] ==
    LET left  == Min({i \in l .. Len(a) : a[i] >= a[mid]})
        right == Max({i \in 1 .. r : a[i] <= a[mid]})
        moved == IF mid = left THEN right ELSE IF mid = right THEN left ELSE mid
        Then(b, m, i, j) == IF i <= j THEN Collapse[b, m, i, j] ELSE [a |-> b, left |-> i, right |-> j]
    IN  CASE left < right -> Then(SwapAt(a, left, right), moved, left + 1, right - 1)
          [] left = right -> [a |-> a, left |-> left + 1, right |-> right - 1]
          [] OTHER        -> [a |-> a, left |-> left, right |-> right]

\* The smaller part goes on, the larger one waits; small ones are left.
NextPart(c, lo, hi, stack) ==
    CASE c.right - lo <= MAX_THRESH /\ hi - c.left <= MAX_THRESH ->
            <<stack[Len(stack)][1], stack[Len(stack)][2], SubSeq(stack, 1, Len(stack) - 1)>>
      [] c.right - lo <= MAX_THRESH /\ hi - c.left > MAX_THRESH -> <<c.left, hi, stack>>
      [] c.right - lo > MAX_THRESH /\ hi - c.left <= MAX_THRESH -> <<lo, c.right, stack>>
      [] c.right - lo > hi - c.left /\ hi - c.left > MAX_THRESH -> <<c.left, hi, Append(stack, <<lo, c.right>>)>>
      [] OTHER -> <<lo, c.right, Append(stack, <<c.left, hi>>)>>

Partitioned[a \in Seq(Int), lo \in Nat, hi \in Nat, stack \in Seq(Nat \X Nat)] ==
    IF stack = <<>> THEN a
    ELSE LET mid == lo + ((hi - lo) \div 2)
             c   == Collapse[MedianOf3(a, lo, mid, hi), mid, lo + 1, hi - 1]
             nxt == NextPart(c, lo, hi, stack)
         IN  Partitioned[c.a, nxt[1], nxt[2], nxt[3]]

\* The smallest of the first ones goes to the front, so that every later one
\* finds its place before it gets there.
SmallestFirst(a) ==
    LET first == 1 .. Min({Len(a), MAX_THRESH + 1})
        least == Min({i \in first : \A j \in first : a[i] <= a[j]})
    IN  SwapAt(a, 1, least)
Inserted[a \in Seq(Int), run \in Nat] ==
    IF run > Len(a) THEN a
    ELSE LET at == 1 + Max({i \in 1 .. run - 1 : a[i] <= a[run] /\ \A j \in i + 1 .. run - 1 : a[run] < a[j]})
         IN  Inserted[SubSeq(a, 1, at - 1) \o <<a[run]>> \o SubSeq(a, at, run - 1) \o SubSeq(a, run + 1, Len(a)), run + 1]

gnu_quicksort(a) ==
    IF a = <<>> THEN a
    ELSE Inserted[SmallestFirst(IF Len(a) > MAX_THRESH THEN Partitioned[a, 1, Len(a), <<<<0, 0>>>>] ELSE a), 3]

-----------------------------------------------------------------------------
(* Grouping.                                                               *)

\* unique, unique6
UniqueAddrs(a) == SelectSeq([i \in DOMAIN a |-> <<i, a[i]>>], LAMBDA p : p[1] = 1 \/ a[p[1] - 1] # p[2])
unique(a) == LET u == UniqueAddrs(a) IN [i \in DOMAIN u |-> u[i][2]]

Masked(ip, zct) == ip - (ip % (2 ^ zct))

\* How many from pos on, without a gap, are in the subnet of the one at pos.
Run(list, pos, zct) ==
    Max({n \in 1 .. Len(list) - pos + 1 :
            \A p \in pos .. pos + n - 1 : Masked(list[p], zct) = Masked(list[pos], zct)})

\* A share of mult / div of the subnet; an address so high in it that the share
\* cannot be reached is not counted.
TooHigh(prm, ip, zct) ==
    ~ prm.v6 /\ ip > Masked(ip, zct) + (((2 ^ zct) * (prm.div - prm.mult)) \div prm.div)
Mut_Enough_OneLess(prm, n, zct) ==
    n + 1 >= (IF prm.v6 THEN prm.threshold ELSE ((2 ^ zct) * prm.mult) \div prm.div)
Enough(prm, n, zct) ==
    n >= (IF prm.v6 THEN prm.threshold ELSE ((2 ^ zct) * prm.mult) \div prm.div)

\* The smallest subnet that holds the most addresses, from large to small.
Search(prm, list, pos) ==
    LET from[zct \in Nat, best \in [zct : Nat, n : Nat]] ==
            IF zct < prm.min THEN best
            ELSE IF TooHigh(prm, list[pos], zct) THEN from[zct - 1, best]
            ELSE LET n == Run(list, pos, zct)
                 IN  IF n = 1 THEN best
                     ELSE IF ~ Enough(prm, n, zct) THEN from[zct - 1, best]
                     ELSE IF best.n \in {0, n} THEN from[zct - 1, [zct |-> zct, n |-> n]]
                     ELSE best
    IN  from[prm.max, [zct |-> 0, n |-> 0]]

Grouped(prm, list) ==
    LET from[pos \in Nat \ {0}] ==
            IF pos > Len(list) THEN <<>>
            ELSE LET best == Search(prm, list, pos)
                     n    == IF best.zct = 0 THEN 1 ELSE best.n
                 IN  <<[addr |-> Masked(list[pos], best.zct), len |-> AddrBits - best.zct]>> \o from[pos + n]
    IN  from[1]

\* main: lines are addresses, subnets and ranges; what is malformed is left out.
IsSingle(l) == l.is = "ip" \/ (l.is = "net" /\ l.len = AddrBits)
Addresses(lines) == LET s == SelectSeq(lines, IsSingle) IN [i \in DOMAIN s |-> s[i].addr]
Passed(lines) ==
    SelectSeq(lines, LAMBDA l : l.is = "range" \/ (l.is = "net" /\ l.len < AddrBits))
ip2net(prm, lines) ==
    [passed |-> Passed(lines), nets |-> Grouped(prm, unique(gnu_quicksort(Addresses(lines))))]

\* parse_params: zero bits from the prefix lengths that were asked for.
parse_params(v6, plen1, plen2, mult, div, threshold) ==
    IF \/ plen2 < plen1 \/ plen1 = 0 \/ plen2 > AddrBits - 1
       \/ div < 2 \/ mult < 1 \/ mult >= div \/ threshold < 1 THEN {}
    ELSE {[v6 |-> v6, min |-> AddrBits - plen2, max |-> AddrBits - plen1,
           mult |-> mult, div |-> div, threshold |-> threshold]}

=============================================================================
