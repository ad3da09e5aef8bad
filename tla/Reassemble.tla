----------------------------- MODULE Reassemble -----------------------------
(***************************************************************************)
(* The reassembler of nfq2/conntrack.c (t_reassemble): a buffer of the size *)
(* of the expected message, filled from segments that follow or overlap    *)
(* what it holds.  The content is abstracted to where in the client's      *)
(* stream each byte comes from, so that a buffer is right when it is a run *)
(* of consecutive offsets.                                                 *)
(***************************************************************************)
EXTENDS TrackPos

CONSTANTS
    MaxNeg,           \* REASM_MAX_NEG
    Isn               \* sequence number of stream offset 0

ASSUME ReassembleAssumption == MaxNeg \in Nat /\ Isn \in Seq32

SeqOf(off) == Plus(Isn, off)

\* size 0 is ReasmIsEmpty.
NoReasm == [size |-> 0, present |-> 0, seq |-> 0, buf |-> <<>>]

ReasmInit(size, seq) == [size |-> size, present |-> 0, seq |-> seq, buf |-> <<>>]

ReasmIsEmpty(r) == r.size = 0
ReasmIsFull(r)  == r.size # 0 /\ r.present = r.size

\* How far before the current position a segment starts, as a word.
NegOverlap(r, s) == Diff(r.seq, SeqOf(s.off))

Gap(r, s) == Diff(SeqOf(s.off), r.seq) \in 1 .. MaxNeg - 1

\* Leading bytes that lie before the start of the message.
Ignored(r, s) == IF NegOverlap(r, s) > r.present THEN NegOverlap(r, s) - r.present ELSE 0

\* Bytes of the buffer that stay in front of the copied ones.
CopyAt(r, s) == r.present - (NegOverlap(r, s) - Ignored(r, s))
CopyEnd(r, s) == CopyAt(r, s) + s.len - Ignored(r, s)

\* Whether ReasmFeed returns true: no gap, not too far back, no overflow.
FeedOk(r, s) ==
    /\ ~ Gap(r, s)
    /\ NegOverlap(r, s) <= MaxNeg
    /\ Ignored(r, s) >= s.len \/ CopyEnd(r, s) <= r.size

Mut_Fed_OverlapTwice(r, s) ==
    IF Ignored(r, s) >= s.len THEN r
    ELSE LET to == r.present + s.len - Ignored(r, s)
         IN [r EXCEPT !.present = to, !.seq = Plus(@, to - r.present),
                !.buf = [i \in 1 .. to |->
                            IF i <= r.present THEN r.buf[i]
                            ELSE s.off + Ignored(r, s) + (i - r.present) - 1]]

\* The reassembler after a ReasmFeed that returned true: new data replaces
\* old, and the position moves only when the segment reaches past it.
Fed(r, s) ==
    IF Ignored(r, s) >= s.len THEN r
    ELSE LET at  == CopyAt(r, s)
             to  == CopyEnd(r, s)
             end == IF to > r.present THEN to ELSE r.present
         IN [r EXCEPT
                !.present = end,
                !.seq     = Plus(@, end - r.present),
                !.buf     = [i \in 1 .. end |->
                    IF at < i /\ i <= to THEN s.off + Ignored(r, s) + (i - at) - 1
                    ELSE r.buf[i]]]

=============================================================================
