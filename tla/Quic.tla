-------------------------------- MODULE Quic --------------------------------
(***************************************************************************)
(* The QUIC part of nfq2/protocol.c: what is an Initial packet, where its  *)
(* protected payload is and with which keys it opens, and how the pieces   *)
(* of a ClientHello are put together from its CRYPTO frames.  A version is *)
(* its four bytes.  Ciphers are taken as perfect: a payload is its plain   *)
(* bytes and a tag that tells the keys.                                    *)
(***************************************************************************)
EXTENDS Bytes, FiniteSets, FiniteSetsExt, SequencesExt

CONSTANTS
    MAX_DEFRAG_PIECES,
    UDP_MAX_REASM     \* sizes of the buffers of the caller

\* tvb_get_size, tvb_get_varint: the two high bits tell the size.
VarSize(b) == 2 ^ (b \div 64)
VarInt(d, o) ==
    LET n == VarSize(At(d, o))
        value[i \in 1 .. n] == IF i = 1 THEN At(d, o) % 64 ELSE (value[i - 1] * 256) + At(d, o + i - 1)
    IN  value[n]
PastVar(d, o) == o + VarSize(At(d, o))

-----------------------------------------------------------------------------
(* Versions and keys.                                                      *)

Version1 == <<0, 0, 0, 1>>
Version2 == <<107, 51, 67, 207>>
Q050 == <<81, 48, 53, 48>>
T050 == <<84, 48, 53, 48>>
T051 == <<84, 48, 53, 49>>
Facebook(n) == <<250, 206, 176, n>>

\* A version reserved to force negotiation: 0x?a?a?a?a.
Reserved(v) == \A i \in 1 .. 4 : v[i] % 16 = 10

QUICDraftVersion(v) ==
    CASE SubSeq(v, 1, 3) = <<255, 0, 0>>                 -> v[4]
      [] v = Facebook(1)                                 -> 22
      [] v \in {Facebook(2), Facebook(14), Q050, T050, T051} -> 27
      [] Reserved(v)                                     -> 29
      [] v = Version1                                    -> 34
      [] v = <<112, 154, 80, 196>>                       -> 100
      [] OTHER                                           -> 0

\* quic_derive_initial_secret: the salt, by the draft that it came with.
SaltOf(v) ==
    LET draft == QUICDraftVersion(v)
    IN  CASE v = Q050 -> 50 [] v = T050 -> 51 [] v = T051 -> 52
          [] v \notin {Q050, T050, T051} ->
                IF draft \in 1 .. 22 THEN 22 ELSE IF draft \in 1 .. 28 THEN 23
                ELSE IF draft \in 1 .. 32 THEN 29 ELSE IF draft \in 1 .. 34 THEN 33 ELSE 100

\* The keys of the client's Initials.
Keys(v, cid) == <<SaltOf(v), IF v = Version2 THEN 2 ELSE 1>> \o cid

\* What a cipher puts behind its text tells the keys.
Tag(keys) == Cut(keys \o Zeros(16), 0, 16)

-----------------------------------------------------------------------------
(* Packets.                                                                *)

QUIC_MAX_CID_LENGTH == 20

QUICIsLongHeader(d) == Len(d) >= 9 /\ At(d, 0) >= 128
QUICExtractVersion(d) == IF QUICIsLongHeader(d) THEN Cut(d, 1, 4) ELSE Zeros(4)

QUICExtractDCID(d) ==
    IF QUICIsLongHeader(d) /\ At(d, 5) \in 1 .. QUIC_MAX_CID_LENGTH /\ 6 + At(d, 5) <= Len(d)
    THEN {Cut(d, 6, At(d, 5))} ELSE {}

PastCid(d, o) == o + 1 + At(d, o)

\* A packet of less than 128 bytes is not likely to be one.
IsQUICInitial(d) ==
    /\ Len(d) >= 128 /\ At(d, 0) \div 16 = 12
    /\ QUICDraftVersion(QUICExtractVersion(d)) >= 11
    /\ (At(d, 0) \div 16) % 4 = (IF QUICExtractVersion(d) = Version2 THEN 1 ELSE 0)
    /\ At(d, 5) <= QUIC_MAX_CID_LENGTH
    /\ At(d, PastCid(d, 5)) <= QUIC_MAX_CID_LENGTH
    /\ LET token == PastCid(d, PastCid(d, 5))
           len   == PastVar(d, token) + VarInt(d, token)
       IN  /\ len < Len(d)
           /\ PastVar(d, len) <= Len(d)
           /\ len + VarInt(d, len) <= Len(d)

\* Where a length field at o ends, if something is behind it.
VarAt(d, o) == IF o < Len(d) /\ PastVar(d, o) < Len(d) THEN {o} ELSE {}

\* Where the packet number begins, and how much there is from it on.
Protected(d) ==
    LET scid   == PastCid(d, 5)
        tokens == IF scid >= Len(d) THEN {} ELSE VarAt(d, PastCid(d, scid))
        lens   == UNION {VarAt(d, PastVar(d, t) + VarInt(d, t)) : t \in tokens}
    IN  {[at |-> PastVar(d, l), len |-> VarInt(d, l)] : l \in lens}

\* The payload between the number and the tag, if the keys are those of the
\* packet; the header is read as it was before it was protected.
Opened(d, keys, p, size) ==
    LET n   == (At(d, 0) % 4) + 1
        len == p.len - n - 16
    IN  IF \/ p.len < 20 \/ p.at + p.len > Len(d)
           \/ len > size \/ p.at + n > 256
           \/ Cut(d, p.at + n + len, 16) # Tag(keys) THEN {}
        ELSE {Cut(d, p.at + n, len)}

\* As the set of the one text it opens to, or the empty set.
QUICDecryptInitial(d, size) ==
    IF QUICExtractVersion(d) = Zeros(4) THEN {}
    ELSE UNION {Opened(d, Keys(QUICExtractVersion(d), cid), p, size)
                    : cid \in QUICExtractDCID(d), p \in Protected(d)}

-----------------------------------------------------------------------------
(* CRYPTO frames.                                                          *)

\* The frames from o on: padding and pings are passed over, any other type is
\* refused, and so is a frame that is cut.
CryptoFrames(d) ==
    LET Chunk(o) == LET l == PastVar(d, o + 1)
                    IN  [off |-> VarInt(d, o + 1), at |-> PastVar(d, l), len |-> VarInt(d, l)]
        Whole(o) == /\ o + 1 < Len(d) /\ PastVar(d, o + 1) < Len(d)
                    /\ PastVar(d, PastVar(d, o + 1)) <= Len(d)
                    /\ Chunk(o).at + Chunk(o).len <= Len(d)
        read[o \in 0 .. Len(d)] ==
            IF o = Len(d) THEN {<<>>}
            ELSE IF At(d, o) <= 1 THEN read[o + 1]
            ELSE IF At(d, o) # 6 \/ ~ Whole(o) THEN {}
            ELSE {<<Chunk(o)>> \o rest : rest \in read[Chunk(o).at + Chunk(o).len]}
    IN  read[0]

End(c) == c.off + c.len

\* How far the chunks reach.
Reach(chunks) == Max({0} \cup {End(chunks[i]) : i \in DOMAIN chunks})

Mut_ByOffset_AsSent(chunks) == chunks

\* The chunks that are not behind the i-th.
NotBehind(chunks, i) ==
    {j \in DOMAIN chunks : \/ chunks[j].off < chunks[i].off
                           \/ chunks[j].off = chunks[i].off /\ j <= i}

\* qsort of the ranges: the r-th has r that are not behind it.
ByOffset(chunks) ==
    [r \in DOMAIN chunks |->
        chunks[CHOOSE i \in DOMAIN chunks : Cardinality(NotBehind(chunks, i)) = r]]

Mut_Full_NoFirst(chunks) ==
    LET s == ByOffset(chunks)
    IN  \A i \in DOMAIN s : i > 1 => s[i].off = End(s[i - 1])

\* bFull: in the order of their offsets each begins where the one before ends.
Full(chunks) ==
    LET s == ByOffset(chunks)
    IN  \A i \in DOMAIN s : s[i].off = (IF i = 1 THEN 0 ELSE End(s[i - 1]))

\* The bytes put in their places, each chunk over those before it, zero where
\* there are none.
Placed(d, chunks) ==
    [k \in 1 .. Reach(chunks) |->
        LET of == {i \in DOMAIN chunks : k - 1 >= chunks[i].off /\ k - 1 < End(chunks[i])}
        IN  IF of = {} THEN 0
            ELSE At(d, chunks[Max(of)].at + k - 1 - chunks[Max(of)].off)]

HeaderSize == 10   \* of the one CRYPTO frame that is made of them

\* QUICDefragCrypto, of at least one frame: the data behind that header.
QUICDefragCrypto(d) ==
    {[data |-> Placed(d, chunks), full |-> Full(chunks)] :
        chunks \in {c \in CryptoFrames(d) :
                        /\ Len(c) \in 1 .. MAX_DEFRAG_PIECES
                        /\ Reach(c) <= UDP_MAX_REASM - HeaderSize}}

=============================================================================
