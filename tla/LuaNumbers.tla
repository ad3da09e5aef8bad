----------------------------- MODULE LuaNumbers -----------------------------
(***************************************************************************)
(* The numbers that scripts work with (nfq2/lua.c): signed ones that are    *)
(* taken as unsigned words, of which fields of bits are used; their wire    *)
(* form; copies of bytes.  A result is the set of what may be handed to     *)
(* lua_pushlint, none when the script is stopped with an error; what is     *)
(* left of it in a Lua whose numbers are doubles is not part of this.       *)
(***************************************************************************)
EXTENDS Bytes

CONSTANTS
    WordBits,      \* of uint64_t
    WideBits,      \* of the widest number a script may use, 48
    IntegerSizes   \* the bits of lua_Integer: 64, or 32 in a build for an old Lua and 32 bits

ASSUME LuaNumbersAssumption ==
    WordBits \in Nat /\ WideBits \in 1 .. WordBits - 1 /\ IntegerSizes \subseteq 1 .. WordBits

AllOnes(n) == Two[n] - 1
InRange(v, n) == v \in - AllOnes(n) .. AllOnes(n)

\* The cast to uint64_t, and the bits of a word.
U64(v) == v % Two[WordBits]
Bit(w, i) == (w \div Two[i]) % 2
OfBits(bits) == Weighed(WordBits, 1, [i \in 1 .. WordBits |-> bits[i - 1] * Two[i - 1]])

BitPlace == 0 .. WordBits - 1
And(a, b) == OfBits([i \in BitPlace |-> Bit(a, i) * Bit(b, i)])
Or(a, b) == OfBits([i \in BitPlace |-> IF Bit(a, i) + Bit(b, i) = 0 THEN 0 ELSE 1])
Xor(a, b) == OfBits([i \in BitPlace |-> (Bit(a, i) + Bit(b, i)) % 2])
Not(a) == AllOnes(WordBits) - a
ShiftLeft(w, n) == U64(w * Two[n])
ShiftRight(w, n) == w \div Two[n]

\* The bits that scripts see of a word that was shifted left.
bitlshift(v, n) ==
    IF InRange(v, WideBits) THEN {And(ShiftLeft(U64(v), n), AllOnes(WideBits))} ELSE {}
bitrshift(v, n) == IF InRange(v, WideBits) THEN {ShiftRight(U64(v), n)} ELSE {}
bitand(v, u) ==
    IF InRange(v, WideBits) /\ InRange(u, WideBits)
    THEN {And(And(AllOnes(WideBits), U64(v)), U64(u))} ELSE {}
bitor(v, u) == IF InRange(v, WideBits) /\ InRange(u, WideBits) THEN {Or(U64(v), U64(u))} ELSE {}
bitxor(v, u) == IF InRange(v, WideBits) /\ InRange(u, WideBits) THEN {Xor(U64(v), U64(u))} ELSE {}
bitnot(v, n) == IF InRange(v, n) THEN {And(Not(U64(v)), AllOnes(n))} ELSE {}

FieldOk(from, to) == from <= to /\ to < WideBits
FieldMask(from, to) == Not(ShiftLeft(AllOnes(WordBits), to - from + 1))

\* The mask of n bits made in a lua_Integer of size bits.  A shift by size or
\* more is undefined: a processor takes the count modulo size or shifts all out.
GetMask(size, n) == IF n < size THEN {AllOnes(n)} ELSE {AllOnes(n % size), AllOnes(WordBits)}

bitget(size, v, from, to) ==
    IF InRange(v, WideBits) /\ FieldOk(from, to)
    THEN {And(ShiftRight(U64(v), from), mask) : mask \in GetMask(size, to - from + 1)} ELSE {}

Mut_bitset_NoMask(v, from, to, set) ==
    IF InRange(v, WideBits) /\ InRange(set, WideBits) /\ FieldOk(from, to)
    THEN LET mask == ShiftLeft(FieldMask(from, to), from)
         IN  {Or(And(U64(v), Not(mask)), ShiftLeft(U64(set), from))}
    ELSE {}

bitset(v, from, to, set) ==
    IF InRange(v, WideBits) /\ InRange(set, WideBits) /\ FieldOk(from, to)
    THEN LET mask == FieldMask(from, to)
         IN  {Or(And(U64(v), Not(ShiftLeft(mask, from))), ShiftLeft(And(U64(set), mask), from))}
    ELSE {}

\* u8add and so on: the sum of any number of numbers, cut to n bits.
uxadd(vs, n) ==
    LET sum[i \in 0 .. Len(vs)] == IF i = 0 THEN 0 ELSE U64(sum[i - 1] + U64(vs[i]))
    IN  IF \A i \in DOMAIN vs : InRange(vs[i], n) THEN {And(sum[Len(vs)], AllOnes(n))} ELSE {}

\* Towards zero.  The quotient of the least number by -1 is undefined: a
\* processor gives the least number or traps.
Lowest == - Two[WordBits - 1]
Towards0(v, u) ==
    LET Abs(x) == IF x < 0 THEN - x ELSE x
        q == Abs(v) \div Abs(u)
    IN  IF (v < 0) = (u < 0) THEN q ELSE - q
divint(v, u) ==
    CASE u = 0 -> {[is |-> "nil"]}
      [] v = Lowest /\ u = -1 -> {[is |-> "number", n |-> v], [is |-> "trap"]}
      [] OTHER -> {[is |-> "number", n |-> Towards0(v, u)]}

-----------------------------------------------------------------------------
(* Wire form: u8 and so on, bu8 and so on, of n bytes of b bits; swap.     *)

BigEndian(v, n, b) == [i \in 1 .. n |-> (v \div Two[b * (n - i)]) % Two[b]]
Pack(v, n, b) == IF InRange(v, n * b) THEN {BigEndian(U64(v), n, b)} ELSE {}
Unpack(d, offset, n, b) ==
    IF offset < 1 \/ offset - 1 + n > Len(d) THEN {}
    ELSE {Weighed(n, Two[b], [i \in 1 .. n |-> At(d, offset - 1 + i - 1)])}
Swap(v, n, b) ==
    LET d == BigEndian(U64(v), n, b)
    IN  IF InRange(v, n * b) THEN Unpack([i \in 1 .. n |-> d[n + 1 - i]], 1, n, b) ELSE {}

\* memcpy(to, off_to, from, off_from, size): nothing is copied past an end.
memcpy(to, off_to, from, off_from, size) ==
    IF \/ off_to < 1 \/ off_from < 1 \/ size < 0
       \/ off_from - 1 + size > Len(from) \/ off_to - 1 + size > Len(to) THEN {}
    ELSE {Write(to, off_to - 1, Cut(from, off_from - 1, size))}

-----------------------------------------------------------------------------
(* Hexadecimal text.                                                       *)

parse_hex_digit(c) ==
    CASE c \in 48 .. 57 -> {c - 48} [] c \in 97 .. 102 -> {c - 87} [] c \in 65 .. 70 -> {c - 55}
      [] OTHER -> {}
parse_hex_byte(s, o) == {16 * u + l : u \in parse_hex_digit(At(s, o)), l \in parse_hex_digit(At(s, o + 1))}

\* luacall_parse_hex: the bytes, if all digits are there.
parse_hex(s) ==
    IF Len(s) % 2 = 1 \/ \E k \in 1 .. Len(s) \div 2 : parse_hex_byte(s, 2 * (k - 1)) = {} THEN {}
    ELSE {[k \in 1 .. Len(s) \div 2 |-> CHOOSE b \in parse_hex_byte(s, 2 * (k - 1)) : TRUE]}

=============================================================================
