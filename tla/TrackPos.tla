------------------------------ MODULE TrackPos ------------------------------
(***************************************************************************)
(* The per-direction position block of a tracked connection                *)
(* (nfq2/conntrack_base.h, t_ctrack_position) and the arithmetic that      *)
(* nfq2/conntrack.c and nfq2/desync.c do with it.  Sequence numbers are    *)
(* unsigned words: every difference is taken modulo SeqMod (2^32 in the    *)
(* code) and "the top bit is set" is "at least Half".                      *)
(*                                                                         *)
(* Window size, window scale, MSS and the IPv6 flow label are last-seen    *)
(* values that no decision modelled here reads; they are left out.         *)
(***************************************************************************)
EXTENDS Integers

CONSTANT SeqMod     \* number of values of a TCP sequence number

ASSUME SeqModAssumption == SeqMod \in Nat /\ SeqMod > 1

Seq32 == 0 .. SeqMod - 1

\* C's unsigned subtraction and addition on a sequence number.
Diff(a, b) == (a - b) % SeqMod
Plus(a, n) == (a + n) % SeqMod

\* x & 0x80000000
TopBit(x) == 2 * x >= SeqMod

Position == [pcounter : Nat, pdcounter : Nat, pbcounter : Nat,
             pos : Seq32, uppos : Seq32, uppos_prev : Seq32,
             seq_last : Seq32, seq0 : Seq32, rseq_over_2G : BOOLEAN]

\* What the memset in ConntrackInitTrack leaves.
ZeroPosition == [pcounter |-> 0, pdcounter |-> 0, pbcounter |-> 0,
                 pos |-> 0, uppos |-> 0, uppos_prev |-> 0,
                 seq_last |-> 0, seq0 |-> 0, rseq_over_2G |-> FALSE]

\* The three counters of the direction a packet goes in.
CountPacket(d, len) ==
    [d EXCEPT !.pcounter  = @ + 1,
              !.pdcounter = @ + (IF len > 0 THEN 1 ELSE 0),
              !.pbcounter = @ + len]

Mut_Latch2G_Momentary(d) ==
    [d EXCEPT !.rseq_over_2G = TopBit(Diff(d.seq_last, d.seq0))]

\* The latch of the direction: relative sequence seen beyond half the space.
Latch2G(d) ==
    [d EXCEPT !.rseq_over_2G = @ \/ TopBit(Diff(d.seq_last, d.seq0))]

\* ConntrackApplyPos, the direction the segment travels in.
ApplyDirect(d, syn, seq, len) ==
    LET end == Plus(seq, len)
        fwd == ~ TopBit(Diff(end, d.uppos))
    IN  Latch2G([d EXCEPT
            !.seq_last   = seq,
            !.pos        = end,
            !.uppos_prev = IF syn THEN end ELSE IF len > 0 THEN d.uppos ELSE @,
            !.uppos      = IF syn \/ (len > 0 /\ fwd) THEN end ELSE @])

\* ConntrackApplyPos, the opposite direction: moved by the acknowledgement.
ApplyReverse(r, ack) == Latch2G([r EXCEPT !.seq_last = ack, !.pos = ack])

\* desync.c decides with this that the last payload carried no new data.
IsRetransmission(d) == ~ TopBit(Diff(d.uppos_prev, d.pos))

=============================================================================
