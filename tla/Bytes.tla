------------------------------- MODULE Bytes -------------------------------
(* Byte strings, addressed from 0 as the code does, and numbers in them.   *)
EXTENDS Integers, Sequences

Byte == 0 .. 255

\* The powers of two.
Two[n \in Nat] == IF n = 0 THEN 1 ELSE 2 * Two[n - 1]

\* The sum of n terms, each worth m times as much as the next.
Weighed(n, m, term) ==
    LET sum[i \in 0 .. n] == IF i = 0 THEN 0 ELSE (sum[i - 1] * m) + term[i]
    IN  sum[n]

At(d, o) == d[o + 1]
From(d, o) == SubSeq(d, o + 1, Len(d))
Cut(d, o, n) == SubSeq(d, o + 1, o + n)
Zeros(n) == [i \in 1 .. n |-> 0]

\* Put n bytes b over those at o; take m bytes at o away and put b there.
Write(d, o, b) == [i \in DOMAIN d |-> IF i \in o + 1 .. o + Len(b) THEN b[i - o] ELSE d[i]]
Replace(d, o, m, b) == Cut(d, 0, o) \o b \o From(d, o + m)

\* pntoh16, pntoh24: numbers are kept with the high byte first.
U16(d, o) == At(d, o) * 256 + At(d, o + 1)
U24(d, o) == At(d, o) * 65536 + U16(d, o + 1)

\* phton16, phton24, with the cut to the width that the casts make.
N16(v) == <<(v \div 256) % 256, v % 256>>
N24(v) == <<(v \div 65536) % 256>> \o N16(v)

\* A length field that grows.
Grow16(d, o, by) == Write(d, o, N16(U16(d, o) + by))
Grow24(d, o, by) == Write(d, o, N24(U24(d, o) + by))

\* tolower, on ASCII.
Lower(c) == IF c \in 65 .. 90 THEN c + 32 ELSE c
LowerCase(d) == [i \in DOMAIN d |-> Lower(d[i])]

=============================================================================
