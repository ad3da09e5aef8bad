------------------------- MODULE DelayedReasmProofs -------------------------
(***************************************************************************)
(* For every hello, every split of it into segments and every order,       *)
(* overlap and repetition of them: the buffer never holds anything but the *)
(* hello's own bytes in place, packets wait exactly while a reassembly is  *)
(* open, what is replayed is a whole hello, and the delay implements        *)
(* DelayLine.                                                              *)
(***************************************************************************)
EXTENDS DelayedReasmTcp, Lemmas

\* r holds the first n bytes of the hello, at the position after them.
Filled(r, n) ==
    /\ r \in Reasm /\ r.size = HelloLen /\ r.present = n
    /\ r.seq = SeqOf(HelloStart + n)
    /\ r.buf = [i \in 1 .. n |-> HelloStart + i - 1]

LEMMA Constants ==
    /\ SeqMod \in Nat /\ SeqMod > 1 /\ MaxNeg \in Nat /\ Isn \in Int
    /\ HelloStart \in Nat /\ HelloLen \in Nat /\ MinHello \in Nat
    /\ 0 < MinHello /\ MinHello < HelloLen
    /\ HelloStart + HelloLen < SeqMod
    /\ \A s \in Segment : /\ s.off \in Nat /\ s.len \in Nat /\ s.len > 0
                          /\ s.off < HelloStart + MinHello + (SeqMod - MaxNeg)
  BY SeqModAssumption, ReassembleAssumption, DelayedReasmAssumption, NoAliasing DEF Seq32

LEMMA SeqOfDiff ==
    ASSUME NEW a \in Nat, NEW b \in Nat
    PROVE  Diff(SeqOf(a), SeqOf(b)) = (a - b) % SeqMod
  <1>1. Isn \in Int /\ Isn + a \in Int /\ Isn + b \in Int /\ (Isn + a) - (Isn + b) = a - b
    BY Constants
  <1>2. Diff((Isn + a) % SeqMod, (Isn + b) % SeqMod) = ((Isn + a) - (Isn + b)) % SeqMod
    BY <1>1, ModOfDiff, Constants DEF Diff
  <1> QED
    BY <1>1, <1>2 DEF SeqOf, Plus

LEMMA SeqOfPlus ==
    ASSUME NEW a \in Nat, NEW n \in Nat
    PROVE  Plus(SeqOf(a), n) = SeqOf(a + n) /\ SeqOf(a) \in Seq32
  <1>1. Isn \in Int /\ Isn + a \in Int /\ Isn + a + n = Isn + (a + n)
    BY Constants
  <1>2. Plus((Isn + a) % SeqMod, n) = (Isn + a + n) % SeqMod
    <2>1. n \in Int /\ SeqMod \in Nat /\ SeqMod > 1
      BY Constants
    <2>2. (((Isn + a) % SeqMod) + n) % SeqMod = ((Isn + a) + n) % SeqMod
      BY <1>1, <2>1, ModOfSum
    <2> QED
      BY <2>2 DEF Plus
  <1>3. (Isn + a) % SeqMod \in Seq32
    BY <1>1, Division, Constants DEF Seq32
  <1> QED
    BY <1>1, <1>2, <1>3 DEF SeqOf, Plus

\* The bytes of the hello, as a buffer.
LEMMA HelloBytes ==
    ASSUME NEW n \in Nat
    PROVE  [i \in 1 .. n |-> HelloStart + i - 1] \in Seq(Nat)
  BY Constants

\* A segment that is fed starts at or before the position, and how far
\* before is what the unsigned subtraction says.
LEMMA NoGapFed ==
    ASSUME NEW r, NEW n \in MinHello .. HelloLen - 1, Filled(r, n),
           NEW s \in Segment, FeedOk(r, s)
    PROVE  s.off <= HelloStart + n /\ NegOverlap(r, s) = HelloStart + n - s.off
  <1> DEFINE p == HelloStart + n
  <1>1. p \in Nat /\ p < SeqMod /\ s.off \in Nat /\ n \in Nat
    BY Constants
  <1>2. NegOverlap(r, s) = (p - s.off) % SeqMod
    BY <1>1, SeqOfDiff DEF NegOverlap, Filled
  <1>3. Diff(SeqOf(s.off), r.seq) = (s.off - p) % SeqMod
    BY <1>1, SeqOfDiff DEF Filled
  <1>4. p >= HelloStart + MinHello
    BY Constants
  <1> HIDE DEF p
  <1>5. s.off <= p
    <2> SUFFICES ASSUME s.off > p PROVE FALSE
      BY <1>1
    <2>1. s.off - p < SeqMod - MaxNeg /\ s.off - p > 0
      BY <1>1, <1>4, Constants
    <2>2. (s.off - p) % SeqMod = s.off - p
      BY <1>1, <2>1, SmallMod, Constants
    <2>3. (p - s.off) % SeqMod = SeqMod + p - s.off
      BY <1>1, <2>1, SmallMod, Constants
    <2>4. NegOverlap(r, s) > MaxNeg
      BY <1>1, <1>2, <2>1, <2>3, Constants
    <2> QED
      BY <2>4, <1>1, <1>2, <2>3, Constants DEF FeedOk
  <1>6. (p - s.off) % SeqMod = p - s.off
    BY <1>1, <1>5, SmallMod, Constants
  <1>7. NegOverlap(r, s) = p - s.off
    BY <1>2, <1>6
  <1>8. p = HelloStart + n
    BY DEF p
  <1> QED
    BY <1>1, <1>5, <1>7, <1>8, Constants

\* The buffer now ends where it did, or with the segment if that is further.
Reaches(s, n, m) == /\ s.off + s.len <= HelloStart + m
                    /\ m = n \/ s.off + s.len = HelloStart + m

\* What one ReasmFeed makes of a buffer that holds n bytes of the hello.
LEMMA FedFilled ==
    ASSUME NEW r, NEW n \in 0 .. HelloLen - 1, Filled(r, n),
           NEW s \in Segment,
           s.off <= HelloStart + n, NegOverlap(r, s) = HelloStart + n - s.off,
           Ignored(r, s) >= s.len \/ CopyEnd(r, s) <= r.size
    PROVE  \E m \in n .. HelloLen :
               /\ Filled(Fed(r, s), m) /\ Reaches(s, n, m)
               /\ n = 0 /\ s.off = HelloStart => m = s.len
  <1> DEFINE at == CopyAt(r, s)  to == CopyEnd(r, s)  ign == Ignored(r, s)
             end == IF to > n THEN to ELSE n
  <1>1. /\ r \in Reasm /\ r.present = n /\ r.size = HelloLen /\ n \in Nat /\ n < HelloLen
        /\ s.off \in Nat /\ s.len \in Nat /\ s.len > 0 /\ HelloStart \in Nat /\ HelloLen \in Nat
    BY Constants DEF Filled
  <1>2. CASE ign >= s.len
    <2>1. Fed(r, s) = r
      BY <1>2 DEF Fed
    <2>2. ~ (n = 0 /\ s.off = HelloStart)
      BY <1>1, <1>2 DEF Ignored
    <2>3. Reaches(s, n, n)
      BY <1>1, <1>2 DEF Ignored, Reaches
    <2> QED
      BY <1>1, <2>1, <2>2, <2>3
  <1>3. CASE ~ (ign >= s.len)
    <2>1. /\ ign = IF s.off < HelloStart THEN HelloStart - s.off ELSE 0
          /\ at = IF s.off < HelloStart THEN 0 ELSE s.off - HelloStart
          /\ s.off + ign = HelloStart + at
      BY <1>1 DEF Ignored, CopyAt
    <2>2. ign \in Nat /\ at \in 0 .. n /\ to = at + s.len - ign /\ to > at /\ to <= HelloLen
      BY <1>1, <1>3, <2>1 DEF CopyEnd
    <2>3. end \in n .. HelloLen /\ end \in Nat /\ to \in Nat
      BY <1>1, <2>2
    <2> DEFINE newbuf == [i \in 1 .. end |->
                              IF at < i /\ i <= to THEN s.off + ign + (i - at) - 1 ELSE r.buf[i]]
    <2>4. Fed(r, s) = [r EXCEPT !.present = end, !.seq = Plus(@, end - n), !.buf = newbuf]
      BY <1>1, <1>3 DEF Fed
    <2>5. newbuf = [i \in 1 .. end |-> HelloStart + i - 1]
      <3> HIDE DEF at, to, ign, end
      <3> SUFFICES ASSUME NEW i \in 1 .. end
                   PROVE  (IF at < i /\ i <= to THEN s.off + ign + (i - at) - 1 ELSE r.buf[i])
                              = HelloStart + i - 1
        OBVIOUS
      <3>1. CASE at < i /\ i <= to
        BY <1>1, <2>1, <2>2, <2>3, <3>1
      <3>2. CASE ~ (at < i /\ i <= to)
        <4>1. i \in 1 .. n
          BY <1>1, <2>2, <2>3, <3>2 DEF end
        <4> QED
          BY <3>2, <4>1 DEF Filled
      <3> QED
        BY <3>1, <3>2
    <2>6. newbuf \in Seq(Nat)
      BY <2>3, <2>5, HelloBytes
    <2>7. Plus(r.seq, end - n) = SeqOf(HelloStart + end) /\ SeqOf(HelloStart + end) \in Seq32
      <3>1. HelloStart + n \in Nat /\ end - n \in Nat /\ HelloStart + end \in Nat
            /\ (HelloStart + n) + (end - n) = HelloStart + end
        BY <1>1, <2>3
      <3> HIDE DEF end
      <3> QED
        BY <3>1, SeqOfPlus DEF Filled
    <2>8. n = 0 /\ s.off = HelloStart => end = s.len
      BY <1>1, <2>1, <2>2
    <2>10. Reaches(s, n, end)
      <3>1. HelloStart + to = s.off + s.len
        BY <1>1, <2>1, <2>2
      <3> HIDE DEF to
      <3> QED
        BY <1>1, <2>3, <3>1 DEF Reaches
    <2> HIDE DEF newbuf, end, at, to, ign
    <2>9. Filled(Fed(r, s), end)
      <3> DEFINE f == [size |-> HelloLen, present |-> end,
                       seq |-> SeqOf(HelloStart + end), buf |-> newbuf]
      <3>1. Fed(r, s) = f
        BY <1>1, <2>4, <2>7 DEF Reasm
      <3>2. end \in 0 .. HelloLen
        BY <1>1, <2>3
      <3>3. f \in Reasm
        BY <2>6, <2>7, <3>2 DEF Reasm
      <3> QED
        BY <2>5, <3>1, <3>3 DEF Filled
    <2> QED
      BY <2>3, <2>8, <2>9, <2>10
  <1> QED
    BY <1>2, <1>3

-----------------------------------------------------------------------------
IsSeq(q) == \E S : q \in Seq(S)

\* The inductive invariant.  The sequence out is only known to be one: the
\* running sum in its offsets is a recursive function.
IInv ==
    /\ arrived \in Nat /\ delayed \in Seq(Packet) /\ IsSeq(out)
    /\ reasm = NoReasm \/ \E n \in MinHello .. HelloLen - 1 : Filled(reasm, n)
    /\ HeldWhileOpen

LEMMA FilledOpen ==
    ASSUME NEW r, NEW n, Filled(r, n)
    PROVE  ~ ReasmIsEmpty(r) /\ (ReasmIsFull(r) <=> n = HelloLen)
  BY Constants DEF Filled, ReasmIsEmpty, ReasmIsFull

LEMMA EmptyReasm == ReasmIsEmpty(NoReasm) /\ ~ ReasmIsFull(NoReasm)
  BY DEF ReasmIsEmpty, ReasmIsFull, NoReasm

\* A segment fed to an open session leaves it filled further, and what is
\* then looked at begins with the hello.
LEMMA SessionFed ==
    ASSUME IInv, NEW s \in Segment, InSession, FeedOk(reasm, s)
    PROVE  /\ \E m \in MinHello .. HelloLen : Filled(FedReasm(s), m)
           /\ IsTLSClientHello(s)
  <1>1. PICK n \in MinHello .. HelloLen - 1 : Filled(reasm, n)
    BY EmptyReasm DEF IInv, InSession
  <1>2. s.off <= HelloStart + n /\ NegOverlap(reasm, s) = HelloStart + n - s.off
    BY <1>1, NoGapFed
  <1>3. n \in 0 .. HelloLen - 1
    BY <1>1, Constants
  <1>4. PICK m \in n .. HelloLen : Filled(Fed(reasm, s), m)
    BY <1>1, <1>2, <1>3, FedFilled DEF FeedOk
  <1>5. FedReasm(s) = Fed(reasm, s)
    BY DEF FedReasm
  <1>6. m \in MinHello .. HelloLen /\ 1 \in 1 .. m /\ m >= MinHello
    BY <1>1, <1>4, Constants
  <1>7. DataStart(s) = HelloStart /\ DataLen(s) = m
    <2>1. ~ ReasmIsEmpty(FedReasm(s))
      BY <1>4, <1>5, FilledOpen
    <2>2. /\ FedReasm(s).present = m
          /\ FedReasm(s).buf = [i \in 1 .. m |-> HelloStart + i - 1]
      BY <1>4, <1>5 DEF Filled
    <2>3. [i \in 1 .. m |-> HelloStart + i - 1][1] = HelloStart + 1 - 1
      BY <1>6
    <2>4. HelloStart + 1 - 1 = HelloStart
      BY Constants
    <2> QED
      BY <2>1, <2>2, <2>3, <2>4 DEF DataStart, DataLen
  <1> QED
    BY <1>4, <1>5, <1>6, <1>7 DEF IsTLSClientHello

\* A session that a segment opens holds that segment and no more.
LEMMA SessionStarted ==
    ASSUME NEW s \in Segment, FedReasm(s) = NoReasm, WantsStart(s)
    PROVE  /\ \E m \in MinHello .. HelloLen - 1 : Filled(Assembled(s), m)
           /\ s.off = HelloStart /\ Assembled(s).present = s.len
  <1> DEFINE r == ReasmInit(HelloLen, SeqOf(s.off))
  <1>1. s.off = HelloStart /\ s.len \in MinHello .. HelloLen - 1
    BY EmptyReasm, Constants
       DEF WantsStart, IsTLSClientHello, IsTLSRecordFull, DataStart, DataLen
  <1>2. Filled(r, 0)
    <2>1. SeqOf(HelloStart) \in Seq32 /\ HelloStart + 0 = HelloStart
      BY SeqOfPlus, Constants
    <2>2. <<>> \in Seq(Nat) /\ <<>> = [i \in 1 .. 0 |-> HelloStart + i - 1]
      <3>1. <<>> \in Seq(Nat) /\ [i \in 1 .. 0 |-> HelloStart + i - 1] \in Seq(Nat)
        BY EmptySeq, HelloBytes
      <3>2. Len([i \in 1 .. 0 |-> HelloStart + i - 1]) = 0
        BY <3>1
      <3> QED
        BY <3>1, <3>2, EmptySeq, SeqEqual
    <2>3. 0 \in 0 .. HelloLen
      BY Constants
    <2> QED
      BY <1>1, <2>1, <2>2, <2>3 DEF Filled, ReasmInit, Reasm
  <1>3. NegOverlap(r, s) = 0
    <2>1. Diff(SeqOf(s.off), SeqOf(s.off)) = (s.off - s.off) % SeqMod
      BY Constants, SeqOfDiff
    <2>2. s.off - s.off = 0 /\ 0 % SeqMod = 0
      BY Constants, SmallMod
    <2> QED
      BY <2>1, <2>2 DEF NegOverlap, ReasmInit
  <1>4. r.present = 0 /\ r.size = HelloLen
    BY DEF ReasmInit
  <1> HIDE DEF r
  <1>5. CopyEnd(r, s) <= r.size
    BY <1>1, <1>3, <1>4, Constants DEF CopyEnd, CopyAt, Ignored
  <1>6. /\ 0 \in 0 .. HelloLen - 1 /\ s.off <= HelloStart + 0
        /\ NegOverlap(r, s) = HelloStart + 0 - s.off
    BY <1>1, <1>3, Constants
  <1>7. PICK m \in 0 .. HelloLen : Filled(Fed(r, s), m) /\ m = s.len
    BY <1>1, <1>2, <1>5, <1>6, FedFilled
  <1>8. Assembled(s) = Fed(r, s)
    BY DEF Assembled, r
  <1> QED
    BY <1>1, <1>7, <1>8 DEF Filled

LEMMA NotFed ==
    ASSUME NEW s \in Segment, ~ (InSession /\ FeedOk(reasm, s))
    PROVE  FedReasm(s) = NoReasm
  BY DEF FedReasm

\* What is queued belongs to a session that holds the hello's bytes.
LEMMA QueuedFilled ==
    ASSUME IInv, NEW s \in Segment, Queues(s)
    PROVE  \E m \in MinHello .. HelloLen : Filled(Assembled(s), m)
  <1>1. CASE InSession /\ FeedOk(reasm, s)
    <2>1. PICK m \in MinHello .. HelloLen : Filled(FedReasm(s), m)
      BY <1>1, SessionFed
    <2>2. ~ WantsStart(s)
      BY <2>1, FilledOpen DEF WantsStart
    <2> QED
      BY <2>1, <2>2 DEF Assembled
  <1>2. CASE ~ (InSession /\ FeedOk(reasm, s))
    <2>1. FedReasm(s) = NoReasm
      BY <1>2, NotFed
    <2>2. WantsStart(s)
      BY <2>1, EmptyReasm DEF Queues, Assembled
    <2> QED
      BY <2>1, <2>2, SessionStarted, Constants
  <1> QED
    BY <1>1, <1>2

\* What is not queued met no session, or ended one.
LEMMA NotQueued ==
    ASSUME IInv, NEW s \in Segment, ~ Queues(s)
    PROVE  FedReasm(s) = NoReasm /\ FedQueue(s) = <<>>
  <1>1. ~ (InSession /\ FeedOk(reasm, s))
    <2> SUFFICES ASSUME InSession, FeedOk(reasm, s) PROVE Queues(s)
      OBVIOUS
    <2>1. PICK m \in MinHello .. HelloLen : Filled(FedReasm(s), m)
      BY SessionFed
    <2> QED
      BY <2>1, SessionFed, FilledOpen DEF Queues, Assembled, WantsStart
  <1>2. FedQueue(s) = <<>>
    BY <1>1 DEF FedQueue, FeedFails, IInv, HeldWhileOpen
  <1> QED
    BY <1>1, <1>2, NotFed

-----------------------------------------------------------------------------
\* The numbers of a sequence of packets, and of packets put in sequence.
LEMMA IdsSeq ==
    ASSUME NEW q, IsSeq(q)
    PROVE  /\ Len(q) \in Nat /\ Len(IdsOf(q)) = Len(q)
           /\ IdsOf(q) \in Seq({q[i].id : i \in 1 .. Len(q)})
           /\ \A i \in 1 .. Len(q) : IdsOf(q)[i] = q[i].id
  <1>1. PICK S : q \in Seq(S)
    BY DEF IsSeq
  <1>2. Len(q) \in Nat
    BY <1>1, LenProperties
  <1> DEFINE T == {q[i].id : i \in 1 .. Len(q)}
  <1>3. IdsOf(q) \in [1 .. Len(q) -> T]
    BY DEF IdsOf
  <1>4. IdsOf(q) \in Seq(T) /\ Len(IdsOf(q)) = Len(q)
    BY <1>2, <1>3
  <1> QED
    BY <1>2, <1>4 DEF IdsOf

LEMMA SeqJoin ==
    ASSUME NEW s, NEW t, IsSeq(s), IsSeq(t)
    PROVE  /\ IsSeq(s \o t)
           /\ Len(s) \in Nat /\ Len(t) \in Nat
           /\ Len(s \o t) = Len(s) + Len(t)
           /\ \A i \in 1 .. Len(s) + Len(t) :
                 (s \o t)[i] = IF i <= Len(s) THEN s[i] ELSE t[i - Len(s)]
  <1>1. PICK S : s \in Seq(S)
    BY DEF IsSeq
  <1>2. PICK T : t \in Seq(T)
    BY DEF IsSeq
  <1>3. s \in Seq(S \cup T) /\ t \in Seq(S \cup T)
    BY <1>1, <1>2, SeqMonotonic
  <1> QED
    BY <1>3, ConcatProperties, LenProperties DEF IsSeq

LEMMA IdsJoin ==
    ASSUME NEW s, NEW t, IsSeq(s), IsSeq(t)
    PROVE  IsSeq(s \o t) /\ IdsOf(s \o t) = IdsOf(s) \o IdsOf(t)
  <1> DEFINE I == {(s \o t)[i].id : i \in 1 .. Len(s \o t)}
                 \cup {s[i].id : i \in 1 .. Len(s)} \cup {t[i].id : i \in 1 .. Len(t)}
  <1>1. /\ IsSeq(s \o t) /\ Len(s) \in Nat /\ Len(t) \in Nat
        /\ Len(s \o t) = Len(s) + Len(t)
        /\ \A i \in 1 .. Len(s) + Len(t) :
              (s \o t)[i] = IF i <= Len(s) THEN s[i] ELSE t[i - Len(s)]
    BY SeqJoin
  <1>2. /\ IdsOf(s) \in Seq(I) /\ IdsOf(t) \in Seq(I) /\ IdsOf(s \o t) \in Seq(I)
        /\ Len(IdsOf(s)) = Len(s) /\ Len(IdsOf(t)) = Len(t)
        /\ Len(IdsOf(s \o t)) = Len(s \o t)
    <2>1. /\ IdsOf(s) \in Seq({s[i].id : i \in 1 .. Len(s)}) /\ Len(IdsOf(s)) = Len(s)
          /\ IdsOf(t) \in Seq({t[i].id : i \in 1 .. Len(t)}) /\ Len(IdsOf(t)) = Len(t)
      BY IdsSeq
    <2>2. /\ IdsOf(s \o t) \in Seq({(s \o t)[i].id : i \in 1 .. Len(s \o t)})
          /\ Len(IdsOf(s \o t)) = Len(s \o t)
      BY <1>1, IdsSeq
    <2>3. IdsOf(s) \in Seq(I)
      BY <2>1, SeqMonotonic
    <2>4. IdsOf(t) \in Seq(I)
      BY <2>1, SeqMonotonic
    <2>5. IdsOf(s \o t) \in Seq(I)
      BY <2>2, SeqMonotonic
    <2> QED
      BY <2>1, <2>2, <2>3, <2>4, <2>5
  <1> HIDE DEF I
  <1>3. /\ IdsOf(s) \o IdsOf(t) \in Seq(I)
        /\ Len(IdsOf(s) \o IdsOf(t)) = Len(s) + Len(t)
        /\ \A i \in 1 .. Len(s) + Len(t) :
              (IdsOf(s) \o IdsOf(t))[i]
                  = IF i <= Len(s) THEN IdsOf(s)[i] ELSE IdsOf(t)[i - Len(s)]
    <2> DEFINE a == IdsOf(s)  b == IdsOf(t)
    <2>1. a \in Seq(I) /\ b \in Seq(I) /\ Len(a) = Len(s) /\ Len(b) = Len(t)
      BY <1>2
    <2> HIDE DEF a, b
    <2>2. /\ a \o b \in Seq(I) /\ Len(a \o b) = Len(a) + Len(b)
          /\ \A i \in 1 .. Len(a) + Len(b) :
                (a \o b)[i] = IF i <= Len(a) THEN a[i] ELSE b[i - Len(a)]
      BY <2>1, ConcatProperties
    <2>3. /\ a \o b \in Seq(I) /\ Len(a \o b) = Len(s) + Len(t)
          /\ \A i \in 1 .. Len(s) + Len(t) :
                (a \o b)[i] = IF i <= Len(s) THEN a[i] ELSE b[i - Len(s)]
      BY <2>1, <2>2
    <2> QED
      BY <2>3 DEF a, b
  <1>4. \A i \in 1 .. Len(s) + Len(t) : IdsOf(s \o t)[i] = (IdsOf(s) \o IdsOf(t))[i]
    <2> SUFFICES ASSUME NEW i \in 1 .. Len(s) + Len(t)
                 PROVE  IdsOf(s \o t)[i] = (IdsOf(s) \o IdsOf(t))[i]
      OBVIOUS
    <2>1. IdsOf(s \o t)[i] = (s \o t)[i].id
      BY <1>1, IdsSeq
    <2>2. CASE i <= Len(s)
      <3>1. i \in 1 .. Len(s)
        BY <1>1, <2>2
      <3>2. IdsOf(s)[i] = s[i].id
        BY <3>1, IdsSeq
      <3> QED
        BY <1>1, <1>3, <2>1, <2>2, <3>2
    <2>3. CASE ~ (i <= Len(s))
      <3>1. i - Len(s) \in 1 .. Len(t)
        BY <1>1, <2>3
      <3>2. IdsOf(t)[i - Len(s)] = t[i - Len(s)].id
        BY <3>1, IdsSeq
      <3> QED
        BY <1>1, <1>3, <2>1, <2>3, <3>2
    <2> QED
      BY <2>2, <2>3
  <1> QED
    BY <1>1, <1>2, <1>3, <1>4, SeqEqual

\* One packet behind a sequence.
LEMMA IdsAppend ==
    ASSUME NEW q, IsSeq(q), NEW e
    PROVE  IsSeq(Append(q, e)) /\ IdsOf(Append(q, e)) = Append(IdsOf(q), e.id)
  <1>1. PICK S : q \in Seq(S)
    BY DEF IsSeq
  <1>2. q \in Seq(S \cup {e})
    BY <1>1, SeqMonotonic
  <1>3. /\ Append(q, e) \in Seq(S \cup {e}) /\ Len(Append(q, e)) = Len(q) + 1
        /\ \A i \in 1 .. Len(q) : Append(q, e)[i] = q[i]
        /\ Append(q, e)[Len(q) + 1] = e
    BY <1>2, AppendProperties
  <1>4. IsSeq(Append(q, e))
    BY <1>3 DEF IsSeq
  <1> DEFINE I == {q[i].id : i \in 1 .. Len(q)} \cup {e.id}
                 \cup {Append(q, e)[i].id : i \in 1 .. Len(Append(q, e))}
  <1>5. /\ IdsOf(q) \in Seq(I) /\ Len(IdsOf(q)) = Len(q) /\ Len(q) \in Nat
        /\ IdsOf(Append(q, e)) \in Seq(I) /\ Len(IdsOf(Append(q, e))) = Len(q) + 1
        /\ e.id \in I
    <2>1. /\ IdsOf(q) \in Seq({q[i].id : i \in 1 .. Len(q)}) /\ Len(IdsOf(q)) = Len(q)
          /\ Len(q) \in Nat
      BY IdsSeq
    <2>2. /\ IdsOf(Append(q, e))
                 \in Seq({Append(q, e)[i].id : i \in 1 .. Len(Append(q, e))})
          /\ Len(IdsOf(Append(q, e))) = Len(q) + 1
      BY <1>3, <1>4, IdsSeq
    <2>3. IdsOf(q) \in Seq(I)
      BY <2>1, SeqMonotonic
    <2>4. IdsOf(Append(q, e)) \in Seq(I)
      BY <2>2, SeqMonotonic
    <2> QED
      BY <2>1, <2>2, <2>3, <2>4
  <1> HIDE DEF I
  <1>6. /\ Append(IdsOf(q), e.id) \in Seq(I) /\ Len(Append(IdsOf(q), e.id)) = Len(q) + 1
        /\ \A i \in 1 .. Len(q) : Append(IdsOf(q), e.id)[i] = IdsOf(q)[i]
        /\ Append(IdsOf(q), e.id)[Len(q) + 1] = e.id
    BY <1>5, AppendProperties
  <1>7. \A i \in 1 .. Len(q) + 1 : IdsOf(Append(q, e))[i] = Append(IdsOf(q), e.id)[i]
    <2> SUFFICES ASSUME NEW i \in 1 .. Len(q) + 1
                 PROVE  IdsOf(Append(q, e))[i] = Append(IdsOf(q), e.id)[i]
      OBVIOUS
    <2>1. IdsOf(Append(q, e))[i] = Append(q, e)[i].id
      BY <1>3, <1>4, IdsSeq
    <2>2. CASE i \in 1 .. Len(q)
      BY <1>3, <1>6, <2>1, <2>2, IdsSeq
    <2>3. CASE i = Len(q) + 1
      BY <1>3, <1>6, <2>1, <2>3
    <2> QED
      BY <1>5, <2>2, <2>3
  <1> QED
    BY <1>4, <1>5, <1>6, <1>7, SeqEqual

LEMMA IdsSent ==
    ASSUME NEW q, IsSeq(q)
    PROVE  /\ IsSeq(AllRaw(q)) /\ IdsOf(AllRaw(q)) = IdsOf(q)
           /\ IsSeq(AllReplayed(q)) /\ IdsOf(AllReplayed(q)) = IdsOf(q)
  <1>1. Len(q) \in Nat
    BY IdsSeq
  <1>2. IsSeq(AllRaw(q)) /\ Len(AllRaw(q)) = Len(q)
    <2>1. AllRaw(q) \in [1 .. Len(q) -> {AllRaw(q)[i] : i \in 1 .. Len(q)}]
      BY DEF AllRaw
    <2>2. AllRaw(q) \in Seq({AllRaw(q)[i] : i \in 1 .. Len(q)}) /\ Len(AllRaw(q)) = Len(q)
      BY <1>1, <2>1
    <2> QED
      BY <2>2 DEF IsSeq
  <1>3. IsSeq(AllReplayed(q)) /\ Len(AllReplayed(q)) = Len(q)
    <2>1. AllReplayed(q) \in [1 .. Len(q) -> {AllReplayed(q)[i] : i \in 1 .. Len(q)}]
      BY DEF AllReplayed
    <2>2. /\ AllReplayed(q) \in Seq({AllReplayed(q)[i] : i \in 1 .. Len(q)})
          /\ Len(AllReplayed(q)) = Len(q)
      BY <1>1, <2>1
    <2> QED
      BY <2>2 DEF IsSeq
  <1>4. \A i \in 1 .. Len(q) : AllRaw(q)[i].id = q[i].id /\ AllReplayed(q)[i].id = q[i].id
    BY DEF AllRaw, AllReplayed, Raw, Sent
  <1>5. IdsOf(AllRaw(q)) = IdsOf(q)
    BY <1>2, <1>4 DEF IdsOf
  <1>6. IdsOf(AllReplayed(q)) = IdsOf(q)
    BY <1>3, <1>4 DEF IdsOf
  <1> QED
    BY <1>2, <1>3, <1>5, <1>6

-----------------------------------------------------------------------------
\* What a payload packet does to the line: it joins those held, or follows
\* them out, or is held alone once they are out.
Joins(p) == /\ delayed' = Append(delayed, p) /\ out' = out
Follows(p) == /\ delayed' = <<>> /\ IsSeq(out')
              /\ IdsOf(out') = IdsOf(out) \o Append(IdsOf(delayed), p.id)
Renews(p) == /\ delayed' = <<p>> /\ out' = out \o AllRaw(delayed)

LEMMA JoinAppend ==
    ASSUME NEW a, NEW b, NEW e, IsSeq(a), IsSeq(b)
    PROVE  a \o Append(b, e) = Append(a \o b, e)
  <1>1. PICK S : a \in Seq(S)
    BY DEF IsSeq
  <1>2. PICK T : b \in Seq(T)
    BY DEF IsSeq
  <1> DEFINE U == S \cup T \cup {e}
  <1>3. a \in Seq(U) /\ b \in Seq(U) /\ e \in U
    <2>1. a \in Seq(U)
      BY <1>1, SeqMonotonic
    <2>2. b \in Seq(U)
      BY <1>2, SeqMonotonic
    <2> QED
      BY <2>1, <2>2
  <1> HIDE DEF U
  <1>4. <<e>> \in Seq(U) /\ a \o b \in Seq(U)
    BY <1>3, ConcatProperties
  <1>5. Append(b, e) = b \o <<e>> /\ Append(a \o b, e) = (a \o b) \o <<e>>
    BY <1>3, <1>4, AppendIsConcat
  <1>6. (a \o b) \o <<e>> = a \o (b \o <<e>>)
    BY <1>3, <1>4, ConcatAssociative
  <1> QED
    BY <1>5, <1>6

LEMMA JoinEmpty ==
    ASSUME NEW a, IsSeq(a)
    PROVE  IsSeq(<<>>) /\ a \o <<>> = a
  BY EmptySeq, ConcatEmptySeq DEF IsSeq

LEMMA IdsEmpty == IdsOf(<<>>) = <<>> /\ AllRaw(<<>>) = <<>>
  <1>1. IsSeq(<<>>) /\ Len(<<>>) = 0
    BY EmptySeq DEF IsSeq
  <1>2. PICK S : IdsOf(<<>>) \in Seq(S) /\ Len(IdsOf(<<>>)) = 0
    BY <1>1, IdsSeq
  <1>3. \A T, q : q \in Seq(T) /\ Len(q) = 0 => q = <<>>
    <2> SUFFICES ASSUME NEW T, NEW q \in Seq(T), Len(q) = 0 PROVE q = <<>>
      OBVIOUS
    <2> QED
      BY EmptySeq
  <1>4. AllRaw(<<>>) \in Seq({AllRaw(<<>>)[i] : i \in 1 .. 0}) /\ Len(AllRaw(<<>>)) = 0
    BY <1>1 DEF AllRaw
  <1> QED
    BY <1>2, <1>3, <1>4

LEMMA IsSeqIds ==
    ASSUME NEW q, IsSeq(q)
    PROVE  IsSeq(IdsOf(q))
  BY IdsSeq DEF IsSeq

LEMMA FedCases ==
    ASSUME NEW s
    PROVE  \/ FedOut(s) = out /\ FedQueue(s) = delayed /\ ~ FeedFails(s)
           \/ FedOut(s) = out \o AllRaw(delayed) /\ FedQueue(s) = <<>> /\ FeedFails(s)
  BY DEF FedOut, FedQueue

\* All that was held, sent in one way or another, and the packet after it.
LEMMA LineAfterFeed ==
    ASSUME IInv, NEW s
    PROVE  /\ IsSeq(FedOut(s)) /\ IsSeq(FedQueue(s))
           /\ IsSeq(IdsOf(out)) /\ IsSeq(IdsOf(delayed))
           /\ IdsOf(FedOut(s)) \o IdsOf(FedQueue(s)) = IdsOf(out) \o IdsOf(delayed)
  <1> DEFINE o == FedOut(s)  q == FedQueue(s)
  <1>1. IsSeq(out) /\ IsSeq(delayed) /\ IsSeq(IdsOf(out)) /\ IsSeq(IdsOf(delayed))
    <2>1. IsSeq(out) /\ IsSeq(delayed)
      BY DEF IInv, IsSeq
    <2> QED
      BY <2>1, IsSeqIds
  <1>2. CASE o = out /\ q = delayed
    BY <1>1, <1>2
  <1>3. CASE o = out \o AllRaw(delayed) /\ q = <<>>
    <2>1. IsSeq(AllRaw(delayed)) /\ IdsOf(AllRaw(delayed)) = IdsOf(delayed)
      BY <1>1, IdsSent
    <2>2. IsSeq(o) /\ IdsOf(o) = IdsOf(out) \o IdsOf(delayed)
      BY <1>1, <1>3, <2>1, IdsJoin
    <2>3. IsSeq(q) /\ IsSeq(IdsOf(o)) /\ IdsOf(q) = <<>>
      BY <1>3, <2>2, IsSeqIds, IdsEmpty, JoinEmpty
    <2>4. IdsOf(o) \o IdsOf(q) = IdsOf(o)
      BY <2>3, JoinEmpty
    <2> QED
      BY <1>1, <2>2, <2>3, <2>4
  <1> QED
    BY <1>2, <1>3, FedCases

LEMMA ReplayedThrough ==
    ASSUME IInv, NEW s, NEW p
    PROVE  /\ IsSeq(FedOut(s) \o AllReplayed(Append(FedQueue(s), p)))
           /\ IdsOf(FedOut(s) \o AllReplayed(Append(FedQueue(s), p)))
                 = IdsOf(out) \o Append(IdsOf(delayed), p.id)
  <1> DEFINE o == FedOut(s)  q == FedQueue(s)  l == IdsOf(out)  h == IdsOf(delayed)
  <1>1. /\ IsSeq(o) /\ IsSeq(q) /\ IsSeq(l) /\ IsSeq(h)
        /\ IdsOf(o) \o IdsOf(q) = l \o h
    BY LineAfterFeed
  <1> HIDE DEF o, q, l, h
  <1>2. IsSeq(Append(q, p)) /\ IdsOf(Append(q, p)) = Append(IdsOf(q), p.id)
    BY <1>1, IdsAppend
  <1>3. /\ IsSeq(AllReplayed(Append(q, p)))
        /\ IdsOf(AllReplayed(Append(q, p))) = Append(IdsOf(q), p.id)
    BY <1>2, IdsSent
  <1>4. /\ IsSeq(o \o AllReplayed(Append(q, p)))
        /\ IdsOf(o \o AllReplayed(Append(q, p))) = IdsOf(o) \o Append(IdsOf(q), p.id)
    BY <1>1, <1>3, IdsJoin
  <1>5. IsSeq(IdsOf(o)) /\ IsSeq(IdsOf(q))
    BY <1>1, IsSeqIds
  <1>6. IdsOf(o) \o Append(IdsOf(q), p.id) = Append(l \o h, p.id)
    BY <1>1, <1>5, JoinAppend
  <1>7. l \o Append(h, p.id) = Append(l \o h, p.id)
    BY <1>1, JoinAppend
  <1> QED
    BY <1>4, <1>6, <1>7 DEF o, q, l, h

LEMMA RawThrough ==
    ASSUME IInv, NEW s, NEW e
    PROVE  /\ IsSeq(Append(FedOut(s) \o AllRaw(FedQueue(s)), e))
           /\ IdsOf(Append(FedOut(s) \o AllRaw(FedQueue(s)), e))
                 = IdsOf(out) \o Append(IdsOf(delayed), e.id)
  <1> DEFINE o == FedOut(s)  q == FedQueue(s)  l == IdsOf(out)  h == IdsOf(delayed)
  <1>1. /\ IsSeq(o) /\ IsSeq(q) /\ IsSeq(l) /\ IsSeq(h)
        /\ IdsOf(o) \o IdsOf(q) = l \o h
    BY LineAfterFeed
  <1> HIDE DEF o, q, l, h
  <1>2. IsSeq(AllRaw(q)) /\ IdsOf(AllRaw(q)) = IdsOf(q)
    BY <1>1, IdsSent
  <1>3. IsSeq(o \o AllRaw(q)) /\ IdsOf(o \o AllRaw(q)) = l \o h
    BY <1>1, <1>2, IdsJoin
  <1>4. /\ IsSeq(Append(o \o AllRaw(q), e))
        /\ IdsOf(Append(o \o AllRaw(q), e)) = Append(l \o h, e.id)
    BY <1>3, IdsAppend
  <1>5. l \o Append(h, e.id) = Append(l \o h, e.id)
    BY <1>1, JoinAppend
  <1> QED
    BY <1>4, <1>5 DEF o, q, l, h

\* The reassembler is idle, or holds a proper part of the hello.
IdleOrFilled(r) == r = NoReasm \/ \E n \in MinHello .. HelloLen - 1 : Filled(r, n)

\* Every way a payload packet takes through the handler.
LEMMA PayloadEffect ==
    ASSUME IInv, NEW s \in Segment, Payload(s)
    PROVE  /\ Joins(NewPacket(s)) \/ Follows(NewPacket(s)) \/ Renews(NewPacket(s))
           /\ IdleOrFilled(reasm')
           /\ (~ ReasmIsEmpty(reasm')) <=> delayed' # <<>>
  <1> DEFINE p == NewPacket(s)  o == FedOut(s)  q == FedQueue(s)
  <1>1. IsSeq(o) /\ IsSeq(q)
    BY LineAfterFeed
  <1>2. \/ o = out /\ q = delayed /\ ~ FeedFails(s)
        \/ o = out \o AllRaw(delayed) /\ q = <<>> /\ FeedFails(s)
    BY FedCases
  <1>3. Raw(p).id = p.id /\ Played(p).id = p.id
    BY DEF Raw, Played, Sent
  <1>4. ASSUME NEW e, e.id = p.id, out' = Append(o \o AllRaw(q), e), delayed' = <<>>
        PROVE  Follows(p)
    BY <1>4, RawThrough DEF Follows
  <1>5. CASE Hold(s)
    <2>1. PICK m \in MinHello .. HelloLen : Filled(Assembled(s), m)
      BY <1>5, QueuedFilled DEF Hold
    <2>2. m # HelloLen /\ ~ ReasmIsEmpty(Assembled(s))
      BY <1>5, <2>1, FilledOpen DEF Hold
    <2>3. m \in MinHello .. HelloLen - 1 /\ reasm' = Assembled(s)
      BY <1>5, <2>1, <2>2, Constants DEF Hold
    <2>4. IdleOrFilled(reasm')
      BY <2>1, <2>3 DEF IdleOrFilled
    <2>5. delayed' = Append(q, p) /\ out' = o
      BY <1>5 DEF Hold
    <2>6. Append(q, p) # <<>> /\ Append(<<>>, p) = <<p>>
      <3>1. PICK S : q \in Seq(S)
        BY <1>1 DEF IsSeq
      <3> HIDE DEF q, p
      <3>2. q \in Seq(S \cup {p})
        BY <3>1, SeqMonotonic
      <3>3. Append(q, p) # <<>>
        BY <3>2, AppendProperties
      <3> QED
        BY <3>3
    <2>7. Joins(p) \/ Renews(p)
      BY <1>2, <2>5, <2>6 DEF Joins, Renews
    <2> QED
      BY <2>2, <2>3, <2>4, <2>5, <2>6, <2>7
  <1>6. CASE Complete(s)
    <2>1. /\ delayed' = <<>> /\ reasm' = NoReasm
          /\ out' = o \o AllReplayed(Append(q, p))
      BY <1>6 DEF Complete
    <2>2. Follows(p)
      BY <2>1, ReplayedThrough DEF Follows
    <2> QED
      BY <2>1, <2>2, EmptyReasm DEF IdleOrFilled
  <1>7. CASE GiveUp(s)
    <2>1. /\ delayed' = <<>> /\ reasm' = NoReasm
          /\ out' = Append(o \o AllRaw(q), Raw(p))
      BY <1>7 DEF GiveUp
    <2> QED
      BY <1>3, <1>4, <2>1, EmptyReasm DEF IdleOrFilled
  <1>8. CASE Exempt(s)
    <2>1. PICK e \in {Raw(p), Played(p)} : out' = Append(o \o AllRaw(q), e)
      BY <1>8 DEF Exempt
    <2>2. delayed' = <<>> /\ reasm' = NoReasm
      BY <1>8 DEF Exempt
    <2> QED
      BY <1>3, <1>4, <2>1, <2>2, EmptyReasm DEF IdleOrFilled
  <1>9. CASE Alone(s)
    <2>1. FedReasm(s) = NoReasm /\ q = <<>>
      BY <1>9, NotQueued DEF Alone
    <2>2. delayed' = <<>> /\ reasm' = NoReasm /\ out' = Append(o, Played(p))
      BY <1>9, <2>1 DEF Alone
    <2>3. o \o AllRaw(q) = o
      BY <1>1, <2>1, IdsEmpty, JoinEmpty
    <2> QED
      BY <1>3, <1>4, <2>2, <2>3, EmptyReasm DEF IdleOrFilled
  <1> QED
    BY <1>5, <1>6, <1>7, <1>8, <1>9 DEF Payload

LEMMA IInvInit == Init => IInv
  <1> SUFFICES ASSUME Init PROVE IInv
    OBVIOUS
  <1>1. <<>> \in Seq(Packet) /\ IsSeq(<<>>)
    BY EmptySeq DEF IsSeq
  <1> QED
    BY <1>1, EmptyReasm DEF Init, IInv, HeldWhileOpen, InSession

LEMMA IInvStep == IInv /\ [Next]_vars => IInv'
  <1> SUFFICES ASSUME IInv, [Next]_vars PROVE IInv'
    OBVIOUS
  <1>1. CASE UNCHANGED vars
    BY <1>1 DEF vars, IInv, HeldWhileOpen, InSession
  <1>2. CASE Reopen
    <2>1. <<>> \in Seq(Packet)
      BY EmptySeq
    <2> QED
      BY <1>2, <2>1, EmptyReasm DEF Reopen, IInv, HeldWhileOpen, InSession
  <1>3. ASSUME NEW s \in Segment, Payload(s) PROVE IInv'
    <2> DEFINE p == NewPacket(s)
    <2>1. Joins(p) \/ Follows(p) \/ Renews(p)
      BY <1>3, PayloadEffect
    <2>2. IdleOrFilled(reasm') /\ HeldWhileOpen'
      BY <1>3, PayloadEffect DEF HeldWhileOpen, InSession
    <2>3. arrived' = arrived + 1 /\ arrived \in Nat
      BY <1>3 DEF Payload, IInv
    <2>4. p \in Packet
      BY <2>3, DelayedReasmAssumption DEF NewPacket, Packet
    <2>5. delayed \in Seq(Packet) /\ IsSeq(delayed) /\ IsSeq(out)
      BY DEF IInv, IsSeq
    <2> HIDE DEF p
    <2>6. delayed' \in Seq(Packet)
      <3>1. Append(delayed, p) \in Seq(Packet) /\ <<p>> \in Seq(Packet) /\ <<>> \in Seq(Packet)
        BY <2>4, <2>5, AppendProperties, EmptySeq
      <3> QED
        BY <2>1, <3>1 DEF Joins, Follows, Renews
    <2>7. IsSeq(out')
      <3>1. IsSeq(AllRaw(delayed))
        BY <2>5, IdsSent
      <3>2. IsSeq(out \o AllRaw(delayed))
        BY <2>5, <3>1, IdsJoin
      <3> QED
        BY <2>1, <2>5, <3>2 DEF Joins, Follows, Renews
    <2> QED
      BY <2>2, <2>3, <2>6, <2>7 DEF IInv, IdleOrFilled
  <1> QED
    BY <1>1, <1>2, <1>3 DEF Next

(* Packets wait exactly while a reassembly is open.                        *)
THEOREM HeldExactlyWhileOpen == Spec => []HeldWhileOpen
  <1>1. IInv => HeldWhileOpen
    BY DEF IInv
  <1> QED
    BY <1>1, IInvInit, IInvStep, PTL DEF Spec

(* The buffer of an open reassembly holds a proper part of the hello from  *)
(* its start, byte for byte, at the right sequence number.                 *)
THEOREM BufferHoldsHello == Spec => []BufferIsStream
  <1>1. IInv => BufferIsStream
    BY EmptyReasm DEF IInv, BufferIsStream, InSession, Filled
  <1> QED
    BY <1>1, IInvInit, IInvStep, PTL DEF Spec

-----------------------------------------------------------------------------
LEMMA LineInitially == Init => Line!LineInit
  BY IdsEmpty DEF Init, Line!LineInit

LEMMA LineStepwise == IInv /\ [Next]_vars => [Line!LineNext]_(Line!lineVars)
  <1> SUFFICES ASSUME IInv, [Next]_vars PROVE [Line!LineNext]_(Line!lineVars)
    OBVIOUS
  <1>0. IsSeq(delayed) /\ IsSeq(out)
    BY DEF IInv, IsSeq
  <1>1. CASE UNCHANGED vars
    BY <1>1 DEF vars, Line!lineVars, IdsOf
  <1>2. CASE Reopen
    <2>1. /\ lost' = lost \cup {IdsOf(delayed)[i] : i \in 1 .. Len(IdsOf(delayed))}
          /\ IdsOf(delayed)' = <<>> /\ arrived' = arrived /\ IdsOf(out)' = IdsOf(out)
      <3>1. Len(IdsOf(delayed)) = Len(delayed)
            /\ \A i \in 1 .. Len(delayed) : IdsOf(delayed)[i] = delayed[i].id
        BY <1>0, IdsSeq
      <3>2. IdsOf(delayed)' = IdsOf(delayed') /\ IdsOf(out)' = IdsOf(out')
        BY DEF IdsOf
      <3> QED
        BY <1>2, <3>1, <3>2, IdsEmpty DEF Reopen
    <2> QED
      BY <2>1 DEF Line!LineNext, Line!Forget
  <1>3. ASSUME NEW s \in Segment, Payload(s) PROVE Line!LineNext
    <2> DEFINE p == NewPacket(s)
    <2>1. arrived' = arrived + 1 /\ lost' = lost /\ p.id = arrived + 1
      BY <1>3 DEF Payload, NewPacket
    <2>2. IdsOf(delayed)' = IdsOf(delayed') /\ IdsOf(out)' = IdsOf(out')
      BY DEF IdsOf
    <2>3. Joins(p) \/ Follows(p) \/ Renews(p)
      BY <1>3, PayloadEffect
    <2> HIDE DEF p
    <2>4. CASE Joins(p)
      <3>1. IdsOf(delayed') = Append(IdsOf(delayed), p.id) /\ IdsOf(out') = IdsOf(out)
        BY <1>0, <2>4, IdsAppend DEF Joins
      <3>2. Line!Keep
        BY <2>1, <2>2, <3>1 DEF Line!Keep
      <3> QED
        BY <3>2 DEF Line!LineNext
    <2>5. CASE Follows(p)
      <3>1. /\ IdsOf(delayed') = <<>>
            /\ IdsOf(out') = IdsOf(out) \o Append(IdsOf(delayed), p.id)
        BY <2>5, IdsEmpty DEF Follows
      <3>2. Line!Release
        BY <2>1, <2>2, <3>1 DEF Line!Release
      <3> QED
        BY <3>2 DEF Line!LineNext
    <2>6. CASE Renews(p)
      <3>1. IdsOf(out') = IdsOf(out) \o IdsOf(delayed)
        <4>1. IsSeq(AllRaw(delayed)) /\ IdsOf(AllRaw(delayed)) = IdsOf(delayed)
          BY <1>0, IdsSent
        <4> QED
          BY <1>0, <2>6, <4>1, IdsJoin DEF Renews
      <3>2. IdsOf(delayed') = <<p.id>>
        <4>1. Len(<<p>>) = 1 /\ <<p>>[1] = p
          OBVIOUS
        <4> QED
          BY <2>6, <4>1 DEF Renews, IdsOf
      <3>3. Line!Renew
        BY <2>1, <2>2, <3>1, <3>2 DEF Line!Renew
      <3> QED
        BY <3>3 DEF Line!LineNext
    <2> QED
      BY <2>3, <2>4, <2>5, <2>6
  <1> QED
    BY <1>1, <1>2, <1>3 DEF Next

(* Delaying a hello is a delay line, however it is cut and whatever the    *)
(* network does to the segments before they come to the queue.             *)
THEOREM DelayIsLine == Spec => IsDelayLine
  <1> QED
    BY IInvInit, IInvStep, LineInitially, LineStepwise, PTL
       DEF Spec, IsDelayLine, Line!LineSpec

-----------------------------------------------------------------------------
\* What the abstract delay line keeps.
LineGood == InLine(arrived, IdsOf(delayed), IdsOf(out), lost)

LEMMA LineGoodStep == LineGood /\ [Line!LineNext]_(Line!lineVars) => LineGood'
  <1> DEFINE h == IdsOf(delayed)  l == IdsOf(out)
  <1> SUFFICES ASSUME InLine(arrived, h, l, lost), [Line!LineNext]_(Line!lineVars)
               PROVE  InLine(arrived', h', l', lost')
    BY DEF LineGood
  <1>1. CASE UNCHANGED (Line!lineVars)
    BY <1>1 DEF Line!lineVars
  <1>2. CASE Line!Keep
    <2>1. arrived' = arrived + 1 /\ h' = Append(h, arrived + 1) /\ l' = l /\ lost' = lost
      BY <1>2 DEF Line!Keep
    <2> HIDE DEF h, l
    <2> QED
      BY <2>1, LineKeeps
  <1>3. CASE Line!Release
    <2>1. /\ arrived' = arrived + 1 /\ h' = <<>>
          /\ l' = l \o Append(h, arrived + 1) /\ lost' = lost
      BY <1>3 DEF Line!Release
    <2> HIDE DEF h, l
    <2> QED
      BY <2>1, LineReleases
  <1>4. CASE Line!Renew
    <2>1. arrived' = arrived + 1 /\ h' = <<arrived + 1>> /\ l' = l \o h /\ lost' = lost
      BY <1>4 DEF Line!Renew
    <2> HIDE DEF h, l
    <2> QED
      BY <2>1, LineRenews
  <1>5. CASE Line!Forget
    <2>1. /\ arrived' = arrived /\ h' = <<>> /\ l' = l
          /\ lost' = lost \cup {h[i] : i \in 1 .. Len(h)}
      BY <1>5 DEF Line!Forget
    <2> HIDE DEF h, l
    <2> QED
      BY <2>1, LineForgets
  <1> QED
    BY <1>1, <1>2, <1>3, <1>4, <1>5 DEF Line!LineNext

(* However many packets come, what goes through a delay line stays in      *)
(* order, and none is lost but with its track.                             *)
THEOREM LineKeepsAll == Line!LineSpec => [](Line!InOrder /\ Line!NoneLost)
  <1>1. Line!LineInit => LineGood
    BY LineEmpty DEF Line!LineInit, LineGood
  <1>2. LineGood => Line!InOrder /\ Line!NoneLost
    BY DEF LineGood, InLine, Ascending, Line!InOrder, Line!NoneLost, Line!Increasing
  <1> QED
    BY <1>1, <1>2, LineGoodStep, PTL DEF Line!LineSpec

(* So the packets of a connection stay in order and none is lost but with  *)
(* its track.                                                              *)
THEOREM OrderKeptNoneLost == Spec => [](KeepsOrder /\ LosesNone)
  <1>1. Line!InOrder /\ Line!NoneLost => KeepsOrder /\ LosesNone
    BY DEF KeepsOrder, LosesNone
  <1> QED
    BY <1>1, DelayIsLine, LineKeepsAll, PTL DEF IsDelayLine

-----------------------------------------------------------------------------
(* What is replayed.                                                       *)

Bytes(o, ps) == UNION {o[i].off .. o[i].off + o[i].len - 1 : i \in ps}

\* A whole hello ends with entry n of o.
Whole(o, n) ==
    LET k == o[n].count IN
    /\ k \in 1 .. n
    /\ \A i \in n - k + 1 .. n : /\ o[i].way = "replayed" /\ o[i].count = k
                                 /\ o[i].piece = k - (n - i)
    /\ o[n - k + 1].off = HelloStart
    /\ Bytes(o, n - k + 1 .. n) \ (0 .. HelloStart - 1) = HelloStart .. HelloStart + HelloLen - 1

AllWhole(o) ==
    \A n \in 1 .. Len(o) : o[n].way = "replayed" /\ o[n].piece = o[n].count => Whole(o, n)

\* The packets of q bring the first n bytes of the hello and none after them.
Carries(q, n) ==
    /\ Len(q) >= 1 /\ q[1].off = HelloStart
    /\ \A i \in 1 .. Len(q) : q[i].off + q[i].len <= HelloStart + n
    /\ \A b \in HelloStart .. HelloStart + n - 1 :
          \E i \in 1 .. Len(q) : q[i].off <= b /\ b < q[i].off + q[i].len

ReplayInv == IInv /\ AllWhole(out) /\ (InSession => Carries(delayed, reasm.present))

LEMMA WholeStays ==
    ASSUME NEW a, NEW c, NEW n \in Nat, \A i \in 1 .. n : c[i] = a[i], n > 0, Whole(a, n)
    PROVE  Whole(c, n)
  <1>1. PICK k \in 1 .. n : k = a[n].count
    BY DEF Whole
  <1>2. c[n] = a[n] /\ n - k + 1 \in 1 .. n /\ \A i \in n - k + 1 .. n : i \in 1 .. n /\ c[i] = a[i]
    OBVIOUS
  <1>3. Bytes(c, n - k + 1 .. n) = Bytes(a, n - k + 1 .. n)
    BY <1>2 DEF Bytes
  <1> QED
    BY <1>1, <1>2, <1>3 DEF Whole

\* Packets that were not replayed, behind others.
LEMMA WholeAndOthers ==
    ASSUME NEW a, NEW b, IsSeq(a), IsSeq(b), AllWhole(a),
           \A i \in 1 .. Len(b) : b[i].way # "replayed"
    PROVE  IsSeq(a \o b) /\ AllWhole(a \o b)
  <1> DEFINE c == a \o b
  <1>1. /\ IsSeq(c) /\ Len(a) \in Nat /\ Len(b) \in Nat /\ Len(c) = Len(a) + Len(b)
        /\ \A i \in 1 .. Len(a) + Len(b) : c[i] = IF i <= Len(a) THEN a[i] ELSE b[i - Len(a)]
    BY SeqJoin
  <1> HIDE DEF c
  <1>2. ASSUME NEW n \in 1 .. Len(c), c[n].way = "replayed", c[n].piece = c[n].count
        PROVE  Whole(c, n)
    <2>1. n <= Len(a)
      <3> SUFFICES ASSUME ~ (n <= Len(a)) PROVE FALSE
        OBVIOUS
      <3>1. n - Len(a) \in 1 .. Len(b) /\ c[n] = b[n - Len(a)]
        BY <1>1
      <3> QED
        BY <1>2, <3>1
    <2>2. n \in 1 .. Len(a) /\ n \in Nat /\ n > 0 /\ \A i \in 1 .. n : c[i] = a[i]
      BY <1>1, <2>1
    <2>3. Whole(a, n)
      BY <1>2, <2>2 DEF AllWhole
    <2> QED
      BY <2>2, <2>3, WholeStays
  <1> QED
    BY <1>1, <1>2 DEF AllWhole, c

\* A replay behind others.
LEMMA WholeReplayed ==
    ASSUME NEW a, NEW q \in Seq(Packet), IsSeq(a), AllWhole(a), Carries(q, HelloLen)
    PROVE  AllWhole(a \o AllReplayed(q))
  <1> DEFINE b == AllReplayed(q)
             c == a \o b
  <1>1. Len(q) \in Nat /\ Len(q) >= 1 /\ IsSeq(q) /\ \A i \in 1 .. Len(q) : q[i] \in Packet
    BY LenProperties, ElementOfSeq DEF Carries, IsSeq
  <1>2. IsSeq(b)
    BY <1>1, IdsSent
  <1>3. Len(b) = Len(q)
    <2>1. Len(IdsOf(b)) = Len(b) /\ Len(IdsOf(q)) = Len(q) /\ IdsOf(b) = IdsOf(q)
      BY <1>1, <1>2, IdsSeq, IdsSent
    <2> QED
      BY <2>1
  <1>4. \A j \in 1 .. Len(q) : /\ b[j].way = "replayed" /\ b[j].piece = j /\ b[j].count = Len(q)
                              /\ b[j].off = q[j].off /\ b[j].len = q[j].len
    BY DEF AllReplayed, Sent
  <1>5. /\ IsSeq(c) /\ Len(a) \in Nat /\ Len(c) = Len(a) + Len(q)
        /\ \A i \in 1 .. Len(a) + Len(q) : c[i] = IF i <= Len(a) THEN a[i] ELSE b[i - Len(a)]
    BY <1>2, <1>3, SeqJoin
  <1> HIDE DEF b, c
  <1>6. PICK l \in Nat, k \in Nat : l = Len(a) /\ k = Len(q) /\ k >= 1 /\ l + k \in Nat
    BY <1>1, <1>5
  <1>7. \A j \in 1 .. k : l + j \in 1 .. l + k /\ c[l + j] = b[j]
    <2> SUFFICES ASSUME NEW j \in 1 .. k PROVE l + j \in 1 .. l + k /\ c[l + j] = b[j]
      OBVIOUS
    <2>1. l + j \in 1 .. l + k /\ ~ (l + j <= l) /\ l + j - l = j
      BY <1>6
    <2> QED
      BY <1>5, <1>6, <2>1
  <1>8. \A i \in l + 1 .. l + k : i - l \in 1 .. k /\ i = l + (i - l) /\ c[i] = b[i - l]
    <2> SUFFICES ASSUME NEW i \in l + 1 .. l + k
                 PROVE  i - l \in 1 .. k /\ i = l + (i - l) /\ c[i] = b[i - l]
      OBVIOUS
    <2>1. i - l \in 1 .. k /\ i = l + (i - l)
      BY <1>6
    <2>2. c[l + (i - l)] = b[i - l]
      BY <1>7, <2>1
    <2> QED
      BY <2>1, <2>2
  <1>9. Whole(c, l + k)
    <2>1. c[l + k].count = k /\ k \in 1 .. l + k /\ (l + k) - k + 1 = l + 1
      BY <1>4, <1>6, <1>7
    <2>2. \A i \in l + 1 .. l + k : /\ c[i].way = "replayed" /\ c[i].count = k
                                    /\ c[i].piece = k - ((l + k) - i)
                                    /\ c[i].off = q[i - l].off /\ c[i].len = q[i - l].len
      <3> SUFFICES ASSUME NEW i \in l + 1 .. l + k
                   PROVE  /\ c[i].way = "replayed" /\ c[i].count = k
                          /\ c[i].piece = k - ((l + k) - i)
                          /\ c[i].off = q[i - l].off /\ c[i].len = q[i - l].len
        OBVIOUS
      <3>1. k - ((l + k) - i) = i - l
        <4>1. \A x, y, z \in Int : y - ((x + y) - z) = z - x
          OBVIOUS
        <4> QED
          BY <1>6, <4>1
      <3>2. i - l \in 1 .. Len(q) /\ c[i] = b[i - l]
        BY <1>6, <1>8
      <3> QED
        BY <1>4, <1>6, <3>1, <3>2
    <2>3. c[l + 1].off = HelloStart
      <3>1. l + 1 \in l + 1 .. l + k /\ (l + 1) - l = 1
        BY <1>6
      <3> QED
        BY <2>2, <3>1 DEF Carries
    <2>4. Bytes(c, l + 1 .. l + k) \ (0 .. HelloStart - 1) = HelloStart .. HelloStart + HelloLen - 1
      <3>1. HelloStart \in Nat /\ HelloLen \in Nat
        BY Constants
      <3>2. \A j \in 1 .. k : q[j].off \in Nat /\ q[j].len \in Nat
                             /\ q[j].off + q[j].len <= HelloStart + HelloLen
        BY <1>1, <1>6 DEF Packet, Carries
      <3>3. ASSUME NEW x \in Bytes(c, l + 1 .. l + k), x \notin 0 .. HelloStart - 1
            PROVE  x \in HelloStart .. HelloStart + HelloLen - 1
        <4>1. PICK i \in l + 1 .. l + k : x \in c[i].off .. c[i].off + c[i].len - 1
          BY DEF Bytes
        <4>2. PICK j \in 1 .. k : c[i].off = q[j].off /\ c[i].len = q[j].len
          BY <1>8, <2>2
        <4> QED
          BY <3>1, <3>2, <3>3, <4>1, <4>2
      <3>4. ASSUME NEW x \in HelloStart .. HelloStart + HelloLen - 1
            PROVE  x \in Bytes(c, l + 1 .. l + k) /\ x \notin 0 .. HelloStart - 1
        <4>1. PICK j \in 1 .. k : q[j].off <= x /\ x < q[j].off + q[j].len
          BY <1>6 DEF Carries
        <4>2. c[l + j].off = q[j].off /\ c[l + j].len = q[j].len
          BY <1>4, <1>6, <1>7
        <4>3. l + j \in l + 1 .. l + k
          BY <1>6
        <4>4. x \in c[l + j].off .. c[l + j].off + c[l + j].len - 1
          BY <3>1, <3>2, <4>1, <4>2
        <4>5. x \in Bytes(c, l + 1 .. l + k)
          BY <4>3, <4>4 DEF Bytes
        <4> QED
          BY <3>1, <4>5
      <3> QED
        BY <3>3, <3>4
    <2> QED
      BY <2>1, <2>2, <2>3, <2>4 DEF Whole
  <1>10. ASSUME NEW n \in 1 .. Len(c), c[n].way = "replayed", c[n].piece = c[n].count
         PROVE  Whole(c, n)
    <2>1. CASE n <= l
      <3>1. n \in 1 .. Len(a) /\ n \in Nat /\ n > 0 /\ \A i \in 1 .. n : c[i] = a[i]
        BY <1>5, <1>6, <2>1
      <3>2. Whole(a, n)
        BY <1>10, <3>1 DEF AllWhole
      <3> QED
        BY <3>1, <3>2, WholeStays
    <2>2. CASE ~ (n <= l)
      <3>1. n \in l + 1 .. l + k
        BY <1>5, <1>6, <2>2
      <3>2. n - l \in 1 .. k /\ c[n].piece = n - l /\ c[n].count = k
        BY <1>4, <1>6, <1>8, <3>1
      <3>3. n - l = k /\ n = l + (n - l)
        BY <1>8, <1>10, <3>1, <3>2
      <3> QED
        BY <1>9, <3>3
    <2> QED
      BY <2>1, <2>2
  <1> QED
    BY <1>10 DEF AllWhole, c, b

\* A packet behind those that carry a part of the hello.
LEMMA CarriesMore ==
    ASSUME NEW q \in Seq(Packet), NEW p \in Packet, NEW n \in Nat, NEW m \in Nat, n <= m,
           Carries(q, n), p.off <= HelloStart + n, Reaches(p, n, m)
    PROVE  Carries(Append(q, p), m)
  <1> DEFINE a == Append(q, p)
  <1>1. /\ Len(q) \in Nat /\ Len(q) >= 1 /\ Len(a) = Len(q) + 1
        /\ \A i \in 1 .. Len(q) : q[i] \in Packet /\ a[i] = q[i]
        /\ a[Len(q) + 1] = p
    BY LenProperties, ElementOfSeq, AppendProperties DEF Carries
  <1> HIDE DEF a
  <1>2. /\ \A i \in 1 .. Len(a) : i \in 1 .. Len(q) \/ i = Len(q) + 1
        /\ \A i \in 1 .. Len(q) : i \in 1 .. Len(a)
        /\ Len(q) + 1 \in 1 .. Len(a)
    BY <1>1
  <1>3. HelloStart \in Nat /\ p.off \in Nat /\ p.len \in Nat
    BY Constants DEF Packet
  <1>4. Len(a) >= 1 /\ a[1].off = HelloStart
    BY <1>1 DEF Carries
  <1>5. ASSUME NEW i \in 1 .. Len(a)
        PROVE  a[i].off + a[i].len <= HelloStart + m
    <2>1. CASE i \in 1 .. Len(q)
      <3>1. q[i].off \in Nat /\ q[i].len \in Nat /\ a[i] = q[i]
        BY <1>1, <2>1 DEF Packet
      <3>2. q[i].off + q[i].len <= HelloStart + n
        BY <2>1 DEF Carries
      <3> QED
        BY <1>3, <3>1, <3>2
    <2>2. CASE i = Len(q) + 1
      BY <1>1, <2>2 DEF Reaches
    <2> QED
      BY <1>2, <2>1, <2>2
  <1>6. ASSUME NEW b \in HelloStart .. HelloStart + m - 1
        PROVE  \E i \in 1 .. Len(a) : a[i].off <= b /\ b < a[i].off + a[i].len
    <2>1. CASE b < HelloStart + n
      <3>1. b \in HelloStart .. HelloStart + n - 1
        BY <1>3, <2>1
      <3>2. PICK i \in 1 .. Len(q) : q[i].off <= b /\ b < q[i].off + q[i].len
        BY <3>1 DEF Carries
      <3> QED
        BY <1>1, <1>2, <3>2
    <2>2. CASE ~ (b < HelloStart + n)
      <3>1. p.off <= b /\ b < p.off + p.len
        BY <1>3, <2>2 DEF Reaches
      <3> QED
        BY <1>1, <1>2, <3>1
    <2> QED
      BY <2>1, <2>2
  <1> QED
    BY <1>4, <1>5, <1>6 DEF Carries, a

\* The packets that wait, with the next one, carry what the buffer then holds.
LEMMA QueueCarries ==
    ASSUME ReplayInv, NEW s \in Segment, Queues(s)
    PROVE  /\ Append(FedQueue(s), NewPacket(s)) \in Seq(Packet)
           /\ Carries(Append(FedQueue(s), NewPacket(s)), Assembled(s).present)
  <1> DEFINE p == NewPacket(s)
  <1>1. /\ p \in Packet /\ p.off = s.off /\ p.len = s.len
        /\ IInv /\ delayed \in Seq(Packet)
    BY DelayedReasmAssumption DEF ReplayInv, IInv, NewPacket, Packet
  <1> HIDE DEF p
  <1>2. CASE InSession /\ FeedOk(reasm, s)
    <2>1. PICK n \in MinHello .. HelloLen - 1 : Filled(reasm, n)
      BY <1>1, <1>2, EmptyReasm DEF IInv, InSession
    <2>2. s.off <= HelloStart + n /\ NegOverlap(reasm, s) = HelloStart + n - s.off
      BY <1>2, <2>1, NoGapFed
    <2>3. n \in 0 .. HelloLen - 1 /\ n \in Nat
      BY <2>1, Constants
    <2>4. PICK m \in n .. HelloLen : Filled(Fed(reasm, s), m) /\ Reaches(s, n, m)
      BY <1>2, <2>1, <2>2, <2>3, FedFilled DEF FeedOk
    <2>5. FedReasm(s) = Fed(reasm, s) /\ FedQueue(s) = delayed
      BY <1>2 DEF FedReasm, FedQueue, FeedFails
    <2>6. Assembled(s) = Fed(reasm, s)
      BY <2>4, <2>5, FilledOpen DEF Assembled, WantsStart
    <2>7. Assembled(s).present = m /\ reasm.present = n /\ Reaches(p, n, m)
      BY <1>1, <2>1, <2>4, <2>6 DEF Filled, Reaches
    <2>8. Carries(delayed, n)
      BY <1>2, <2>7 DEF ReplayInv
    <2>9. m \in Nat /\ n <= m
      BY <2>3, <2>4, Constants
    <2>10. Carries(Append(delayed, p), m)
      BY <1>1, <2>2, <2>3, <2>7, <2>8, <2>9, CarriesMore
    <2>11. Append(delayed, p) \in Seq(Packet)
      BY <1>1, AppendProperties
    <2> QED
      BY <2>5, <2>7, <2>10, <2>11 DEF p
  <1>3. CASE ~ (InSession /\ FeedOk(reasm, s))
    <2>1. FedReasm(s) = NoReasm
      BY <1>3, NotFed
    <2>2. WantsStart(s)
      BY <2>1, EmptyReasm DEF Queues, Assembled
    <2>3. s.off = HelloStart /\ Assembled(s).present = s.len
      BY <2>1, <2>2, SessionStarted
    <2>4. FedQueue(s) = <<>>
      BY <1>1, <1>3 DEF FedQueue, FeedFails, IInv, HeldWhileOpen
    <2>5. Append(<<>>, p) = <<p>> /\ Len(<<p>>) = 1 /\ <<p>>[1] = p
      OBVIOUS
    <2>6. Carries(<<p>>, s.len)
      <3>1. s.len \in Nat /\ s.len > 0 /\ HelloStart \in Nat
        BY Constants
      <3>2. Len(<<p>>) >= 1 /\ \A i \in 1 .. Len(<<p>>) : i = 1
        BY <2>5
      <3> QED
        BY <1>1, <2>3, <2>5, <3>1, <3>2 DEF Carries
    <2>7. <<p>> \in Seq(Packet)
      BY <1>1
    <2> QED
      BY <2>3, <2>4, <2>5, <2>6, <2>7 DEF p
  <1> QED
    BY <1>2, <1>3

\* A packet that completes the record was fed to the session that held the rest.
LEMMA CompletedSession ==
    ASSUME IInv, NEW s \in Segment, Queues(s), ReasmIsFull(Assembled(s))
    PROVE  FedOut(s) = out /\ Assembled(s).present = HelloLen
  <1>1. InSession /\ FeedOk(reasm, s)
    <2> SUFFICES ASSUME ~ (InSession /\ FeedOk(reasm, s)) PROVE FALSE
      OBVIOUS
    <2>1. FedReasm(s) = NoReasm
      BY NotFed
    <2>2. WantsStart(s)
      BY <2>1, EmptyReasm DEF Queues, Assembled
    <2>3. PICK m \in MinHello .. HelloLen - 1 : Filled(Assembled(s), m)
      BY <2>1, <2>2, SessionStarted
    <2> QED
      BY <2>3, FilledOpen, Constants
  <1>2. PICK m \in MinHello .. HelloLen : Filled(Assembled(s), m)
    BY QueuedFilled
  <1>3. m = HelloLen
    BY <1>2, FilledOpen
  <1> QED
    BY <1>1, <1>2, <1>3 DEF FedOut, FeedFails, Filled

LEMMA AllRawIsRaw ==
    ASSUME NEW q, IsSeq(q)
    PROVE  IsSeq(AllRaw(q)) /\ \A i \in 1 .. Len(AllRaw(q)) : AllRaw(q)[i].way # "replayed"
  <1>1. IsSeq(AllRaw(q))
    BY IdsSent
  <1>2. Len(AllRaw(q)) = Len(q)
    <2>1. Len(IdsOf(AllRaw(q))) = Len(AllRaw(q)) /\ Len(IdsOf(q)) = Len(q) /\ IdsOf(AllRaw(q)) = IdsOf(q)
      BY <1>1, IdsSeq, IdsSent
    <2> QED
      BY <2>1
  <1> QED
    BY <1>1, <1>2 DEF AllRaw, Raw, Sent

LEMMA ReplayStep == ReplayInv /\ [Next]_vars => ReplayInv'
  <1> SUFFICES ASSUME ReplayInv, [Next]_vars PROVE ReplayInv'
    OBVIOUS
  <1>0. IInv /\ IInv' /\ AllWhole(out) /\ IsSeq(out) /\ IsSeq(delayed)
    BY IInvStep DEF ReplayInv, IInv, IsSeq
  <1>1. CASE UNCHANGED vars
    BY <1>0, <1>1 DEF vars, ReplayInv, InSession
  <1>2. CASE Reopen
    BY <1>0, <1>2, EmptyReasm DEF Reopen, ReplayInv, InSession
  <1>3. ASSUME NEW s \in Segment, Payload(s) PROVE ReplayInv'
    <2> DEFINE p == NewPacket(s)  o == FedOut(s)  q == FedQueue(s)
    <2>1. IsSeq(o) /\ IsSeq(q) /\ AllWhole(o)
      <3>1. IsSeq(o) /\ IsSeq(q)
        BY <1>0, LineAfterFeed
      <3>2. AllWhole(out \o AllRaw(delayed))
        BY <1>0, AllRawIsRaw, WholeAndOthers
      <3> QED
        BY <1>0, <3>1, <3>2, FedCases
    <2>2. IsSeq(o \o AllRaw(q)) /\ AllWhole(o \o AllRaw(q))
      BY <2>1, AllRawIsRaw, WholeAndOthers
    <2>3. ASSUME NEW a, IsSeq(a), AllWhole(a), NEW e \in {Raw(p), Played(p)}
          PROVE  AllWhole(Append(a, e))
      <3>1. e.way # "replayed"
        BY DEF Raw, Played, Sent
      <3>2. IsSeq(<<e>>) /\ Len(<<e>>) = 1 /\ <<e>>[1] = e
        <4>1. <<e>> \in Seq({e})
          OBVIOUS
        <4> QED
          BY <4>1 DEF IsSeq
      <3>3. \A i \in 1 .. Len(<<e>>) : <<e>>[i].way # "replayed"
        BY <3>1, <3>2
      <3>4. AllWhole(a \o <<e>>)
        BY <2>3, <3>2, <3>3, WholeAndOthers
      <3>5. Append(a, e) = a \o <<e>>
        <4>1. PICK S : a \in Seq(S)
          BY <2>3 DEF IsSeq
        <4>2. a \in Seq(S \cup {e}) /\ e \in S \cup {e}
          BY <4>1, SeqMonotonic
        <4> QED
          BY <4>2, AppendIsConcat
      <3> QED
        BY <3>4, <3>5
    <2>4. CASE Hold(s)
      <3>1. reasm' = Assembled(s) /\ delayed' = Append(q, p) /\ out' = o /\ Queues(s)
        BY <2>4 DEF Hold
      <3>2. Carries(delayed', reasm'.present)
        BY <3>1, QueueCarries
      <3> QED
        BY <1>0, <2>1, <3>1, <3>2 DEF ReplayInv
    <2>5. CASE Complete(s)
      <3>1. /\ reasm' = NoReasm /\ out' = o \o AllReplayed(Append(q, p))
            /\ Queues(s) /\ ReasmIsFull(Assembled(s))
        BY <2>5 DEF Complete
      <3>2. Append(q, p) \in Seq(Packet) /\ Carries(Append(q, p), HelloLen)
        BY <1>0, <3>1, QueueCarries, CompletedSession
      <3>3. AllWhole(out')
        BY <2>1, <3>1, <3>2, WholeReplayed
      <3> QED
        BY <1>0, <3>1, <3>3, EmptyReasm DEF ReplayInv, InSession
    <2>6. CASE GiveUp(s)
      <3>1. reasm' = NoReasm /\ out' = Append(o \o AllRaw(q), Raw(p))
        BY <2>6 DEF GiveUp
      <3>2. AllWhole(out')
        BY <2>2, <2>3, <3>1
      <3> QED
        BY <1>0, <3>1, <3>2, EmptyReasm DEF ReplayInv, InSession
    <2>7. CASE Exempt(s)
      <3>1. PICK e \in {Raw(p), Played(p)} : out' = Append(o \o AllRaw(q), e)
        BY <2>7 DEF Exempt
      <3>2. reasm' = NoReasm
        BY <2>7 DEF Exempt
      <3>3. AllWhole(out')
        BY <2>2, <2>3, <3>1
      <3> QED
        BY <1>0, <3>2, <3>3, EmptyReasm DEF ReplayInv, InSession
    <2>8. CASE Alone(s)
      <3>1. reasm' = NoReasm /\ out' = Append(o, Played(p))
        BY <1>0, <2>8, NotQueued DEF Alone
      <3>2. AllWhole(out')
        BY <2>1, <2>3, <3>1
      <3> QED
        BY <1>0, <3>1, <3>2, EmptyReasm DEF ReplayInv, InSession
    <2> QED
      BY <1>3, <2>4, <2>5, <2>6, <2>7, <2>8 DEF Payload
  <1> QED
    BY <1>1, <1>2, <1>3 DEF Next

(* Whatever is replayed is a complete hello: however it was cut, resent,    *)
(* overlapped and reordered, the packets that go through the strategies     *)
(* together carry every byte of it, from its first to its last.             *)
THEOREM ReplaysAreWhole == Spec => []ReplayIsWholeHello
  <1>1. Init => ReplayInv
    BY IInvInit, EmptyReasm DEF Init, ReplayInv, AllWhole, InSession
  <1>2. ReplayInv => ReplayIsWholeHello
    <2> SUFFICES ASSUME ReplayInv, NEW n \in Replays
                 PROVE  /\ out[n].count <= n
                        /\ \A i \in Replay(n) : /\ out[i].way = "replayed"
                                                 /\ out[i].count = out[n].count
                                                 /\ out[i].piece = out[n].count - (n - i)
                        /\ out[n - out[n].count + 1].off = HelloStart
                        /\ Covered(Replay(n)) \ (0 .. HelloStart - 1)
                              = HelloStart .. HelloStart + HelloLen - 1
      BY DEF ReplayIsWholeHello
    <2>1. n \in 1 .. Len(out) /\ Whole(out, n)
      BY DEF Replays, ReplayInv, AllWhole
    <2>2. Covered(Replay(n)) = Bytes(out, n - out[n].count + 1 .. n)
      BY DEF Covered, Replay, Bytes
    <2>3. out[n].count <= n
      BY <2>1 DEF Whole
    <2> QED
      BY <2>1, <2>2, <2>3 DEF Whole, Replay
  <1> QED
    BY <1>1, <1>2, ReplayStep, PTL DEF Spec

-----------------------------------------------------------------------------
(* Types, with the segments that packets carry drawn from any set P.       *)

Segments == [off : Nat, len : Nat \ {0}]
ShapeIn(P, x) == [off |-> x.off, len |-> x.len] \in P
PacketsIn(P) == {p \in Packet : ShapeIn(P, p)}
OutcomesIn(P) == {o \in Outcome : ShapeIn(P, o)}

LEMMA OffsetType ==
    ASSUME NEW q \in Seq(Packet)
    PROVE  \A i \in 1 .. Len(q) : Offset(q)[i] \in Nat
  <1> DEFINE N == Len(q)
             Equation(f) == f = [i \in 0 .. N |-> IF i < 2 THEN 0 ELSE f[i - 1] + q[i - 1].len]
             step == [x \in Nat \X Nat |-> IF x[1] \in 2 .. N THEN x[2] + q[x[1] - 1].len ELSE 0]
  <1>1. N \in Nat /\ \A i \in 1 .. N : q[i].len \in Nat
    <2>1. Len(q) \in Nat /\ \A i \in 1 .. Len(q) : q[i] \in Packet
      OBVIOUS
    <2> QED
      BY <2>1 DEF Packet
  <1> HIDE DEF N
  <1>2. \A i \in Nat, x \in Nat : step[<<i, x>>] = IF i \in 2 .. N THEN x + q[i - 1].len ELSE 0
    OBVIOUS
  <1>3. step \in [Nat \X Nat -> Nat]
    <2>1. ASSUME NEW x \in Nat \X Nat
          PROVE  (IF x[1] \in 2 .. N THEN x[2] + q[x[1] - 1].len ELSE 0) \in Nat
      <3>1. CASE x[1] \in 2 .. N
        <4>1. x[2] \in Nat /\ x[1] - 1 \in 1 .. N
          BY <1>1, <3>1
        <4>2. q[x[1] - 1].len \in Nat
          BY <1>1, <4>1
        <4> QED
          BY <3>1, <4>1, <4>2
      <3>2. CASE x[1] \notin 2 .. N
        BY <3>2
      <3> QED
        BY <3>1, <3>2
    <2> QED
      BY <2>1
  <1> HIDE DEF step
  <1>4. PICK e : /\ e \in [0 .. N -> Nat]
                 /\ \A n \in 0 .. N : e[n] = IF n = 0 THEN 0 ELSE step[<<n, e[n - 1]>>]
    <2>1. Steps(Nat, 0, step)
      BY <1>3 DEF Steps
    <2>2. \E e : SolvesTo(N, Nat, 0, step, e)
      BY <1>1, <2>1, RecursionTo
    <2> QED
      BY <2>2 DEF SolvesTo
  <1>5. ASSUME NEW i \in 0 .. N PROVE e[i] = IF i < 2 THEN 0 ELSE e[i - 1] + q[i - 1].len
    <2>1. CASE i = 0
      <3>1. 0 \in 0 .. N
        BY <1>1
      <3>2. e[0] = 0
        BY <1>4, <3>1
      <3> QED
        BY <2>1, <3>2
    <2>2. CASE i # 0
      <3>1. i \in Nat /\ i - 1 \in 0 .. N /\ e[i - 1] \in Nat
        BY <1>1, <1>4, <2>2
      <3>2. e[i] = step[<<i, e[i - 1]>>]
        BY <1>4, <2>2
      <3>3. e[i] = IF i \in 2 .. N THEN e[i - 1] + q[i - 1].len ELSE 0
        BY <1>2, <3>1, <3>2
      <3>4. i \in 2 .. N <=> ~ (i < 2)
        BY <1>1
      <3> QED
        BY <3>3, <3>4
    <2> QED
      BY <2>1, <2>2
  <1>6. Equation(e)
    BY <1>4, <1>5
  <1> DEFINE sum == CHOOSE f : Equation(f)
  <1>7. Equation(sum)
    BY <1>6
  <1>8. Offset(q) = sum
    BY DEF Offset, N
  <1> HIDE DEF sum
  <1> DEFINE T == {n \in Nat : n \in 0 .. N => sum[n] \in Nat}
  <1>9. 0 \in T
    BY <1>7
  <1>10. ASSUME NEW n \in T PROVE n + 1 \in T
    <2> SUFFICES ASSUME n + 1 \in 0 .. N PROVE sum[n + 1] \in Nat
      OBVIOUS
    <2>1. n \in Nat /\ n \in 0 .. N /\ (n + 1) - 1 = n /\ sum[n] \in Nat
      BY <1>1
    <2>2. sum[n + 1] = IF n + 1 < 2 THEN 0 ELSE sum[n] + q[n].len
      BY <1>7, <2>1
    <2>3. CASE n = 0
      BY <2>2, <2>3
    <2>4. CASE n # 0
      <3>1. q[n].len \in Nat /\ ~ (n + 1 < 2)
        BY <1>1, <2>1, <2>4
      <3> QED
        BY <2>1, <2>2, <3>1
    <2> QED
      BY <2>3, <2>4
  <1> HIDE DEF T
  <1>11. \A n \in Nat : n \in T
    <2>1. T \in SUBSET Nat
      BY DEF T
    <2> QED
      BY <1>9, <1>10, <2>1, Induction
  <1>12. ASSUME NEW i \in 1 .. N PROVE sum[i] \in Nat
    BY <1>1, <1>11 DEF T
  <1> QED
    BY <1>8, <1>12 DEF N

LEMMA SentType ==
    ASSUME NEW P \in SUBSET Segments, NEW p \in PacketsIn(P)
    PROVE  /\ Raw(p) \in OutcomesIn(P) /\ Played(p) \in OutcomesIn(P)
           /\ \A i, n, o \in Nat : Sent(p, "replayed", i, n, o) \in OutcomesIn(P)
  BY DEF PacketsIn, OutcomesIn, Packet, Outcome, ShapeIn, Raw, Played, Sent

LEMMA QueueSentType ==
    ASSUME NEW P \in SUBSET Segments, NEW q \in Seq(PacketsIn(P))
    PROVE  AllRaw(q) \in Seq(OutcomesIn(P)) /\ AllReplayed(q) \in Seq(OutcomesIn(P))
  <1>1. /\ Len(q) \in Nat /\ \A i \in 1 .. Len(q) : q[i] \in PacketsIn(P)
        /\ q \in Seq(Packet)
    <2>1. PacketsIn(P) \subseteq Packet
      BY DEF PacketsIn
    <2> QED
      BY <2>1, SeqMonotonic
  <1>2. \A i \in 1 .. Len(q) : AllRaw(q)[i] \in OutcomesIn(P)
    BY <1>1, SentType DEF AllRaw
  <1>3. \A i \in 1 .. Len(q) : AllReplayed(q)[i] \in OutcomesIn(P)
    <2> SUFFICES ASSUME NEW i \in 1 .. Len(q) PROVE AllReplayed(q)[i] \in OutcomesIn(P)
      OBVIOUS
    <2>1. AllReplayed(q)[i] = Sent(q[i], "replayed", i, Len(q), Offset(q)[i])
      BY DEF AllReplayed
    <2>2. i \in Nat /\ Len(q) \in Nat /\ Offset(q)[i] \in Nat
      BY <1>1, OffsetType
    <2> QED
      BY <1>1, <2>1, <2>2, SentType
  <1>4. AllRaw(q) \in [1 .. Len(q) -> OutcomesIn(P)]
    BY <1>2 DEF AllRaw
  <1>5. AllReplayed(q) \in [1 .. Len(q) -> OutcomesIn(P)]
    BY <1>3 DEF AllReplayed
  <1> QED
    BY <1>1, <1>4, <1>5

\* What a payload packet leaves in the queue and on the wire carries what it
\* carries itself or what was there before.
LEMMA PayloadTyped ==
    ASSUME NEW P \in SUBSET Segments, NEW s \in P, Payload(s), arrived \in Nat,
           delayed \in Seq(PacketsIn(P)), out \in Seq(OutcomesIn(P))
    PROVE  delayed' \in Seq(PacketsIn(P)) /\ out' \in Seq(OutcomesIn(P))
  <1> DEFINE p == NewPacket(s)  q == FedQueue(s)  o == FedOut(s)
  <1>1. p \in PacketsIn(P)
    BY DEF NewPacket, PacketsIn, Packet, ShapeIn, Segments
  <1>2. q \in Seq(PacketsIn(P)) /\ o \in Seq(OutcomesIn(P))
    <2>1. AllRaw(delayed) \in Seq(OutcomesIn(P)) /\ <<>> \in Seq(PacketsIn(P))
      BY QueueSentType, EmptySeq
    <2>2. out \o AllRaw(delayed) \in Seq(OutcomesIn(P))
      BY <2>1, ConcatProperties
    <2> QED
      BY <2>1, <2>2 DEF FedQueue, FedOut
  <1>3. Raw(p) \in OutcomesIn(P) /\ Played(p) \in OutcomesIn(P)
    BY <1>1, SentType
  <1> HIDE DEF p, q, o
  <1>4. /\ Append(q, p) \in Seq(PacketsIn(P)) /\ <<>> \in Seq(PacketsIn(P))
        /\ AllRaw(q) \in Seq(OutcomesIn(P))
    BY <1>1, <1>2, QueueSentType, AppendProperties, EmptySeq
  <1>5. /\ o \o AllRaw(q) \in Seq(OutcomesIn(P))
        /\ o \o AllReplayed(Append(q, p)) \in Seq(OutcomesIn(P))
    BY <1>2, <1>4, QueueSentType, ConcatProperties
  <1>6. ASSUME NEW e \in OutcomesIn(P)
        PROVE  /\ Append(o \o AllRaw(q), e) \in Seq(OutcomesIn(P))
               /\ Append(o, e) \in Seq(OutcomesIn(P))
    BY <1>2, <1>5, AppendProperties
  <1>7. CASE Hold(s)
    BY <1>2, <1>4, <1>7 DEF Hold, p, q, o
  <1>8. CASE Complete(s)
    BY <1>4, <1>5, <1>8 DEF Complete, p, q, o
  <1>9. CASE GiveUp(s)
    BY <1>3, <1>4, <1>6, <1>9 DEF GiveUp, p, q, o
  <1>10. CASE Alone(s)
    BY <1>2, <1>3, <1>6, <1>10 DEF Alone, p, q, o
  <1>11. CASE Exempt(s)
    <2>1. PICK e \in {Raw(p), Played(p)} : out' = Append(o \o AllRaw(q), e)
      BY <1>11 DEF Exempt, p, q, o
    <2>2. delayed' = <<>>
      BY <1>11 DEF Exempt
    <2> QED
      BY <1>3, <1>4, <1>6, <2>1, <2>2
  <1> QED
    BY <1>7, <1>8, <1>9, <1>10, <1>11 DEF Payload

LEMMA PositionMoved ==
    ASSUME NEW d \in Position, NEW seq \in Seq32, NEW n \in Nat, NEW syn \in BOOLEAN
    PROVE  ApplyDirect(d, syn, seq, n) \in Position
  <1> DEFINE end == Plus(seq, n)
             fwd == ~ TopBit(Diff(end, d.uppos))
             prev == IF syn THEN end ELSE IF n > 0 THEN d.uppos ELSE d.uppos_prev
             up == IF syn \/ (n > 0 /\ fwd) THEN end ELSE d.uppos
             e == [d EXCEPT !.seq_last = seq, !.pos = end, !.uppos_prev = prev, !.uppos = up]
  <1>1. end \in Seq32
    <2>1. seq + n \in Int /\ SeqMod \in Nat /\ SeqMod > 1
      BY Constants DEF Seq32
    <2> QED
      BY <2>1, Division DEF Plus, Seq32
  <1> HIDE DEF end, fwd
  <1>2. prev \in Seq32 /\ up \in Seq32
    BY <1>1 DEF Position
  <1> HIDE DEF prev, up
  <1>3. e \in Position
    BY <1>1, <1>2 DEF Position
  <1>4. ApplyDirect(d, syn, seq, n) = Latch2G(e)
    BY DEF ApplyDirect, end, fwd, prev, up
  <1> HIDE DEF e
  <1>5. Latch2G(e) \in Position
    BY <1>3 DEF Latch2G, Position, TopBit
  <1> QED
    BY <1>4, <1>5

LEMMA FreshType == Fresh \in Position
  <1>1. Isn \in Seq32 /\ 0 \in Seq32 /\ 0 \in Nat
    BY ReassembleAssumption, Constants DEF Seq32
  <1>2. [ZeroPosition EXCEPT !.seq0 = Isn] \in Position
    BY <1>1 DEF ZeroPosition, Position
  <1> QED
    BY <1>1, <1>2, PositionMoved DEF Fresh

TypeInv == IInv /\ TypeOK

LEMMA ReasmTyped == (IInv => reasm \in Reasm) /\ (IInv' => reasm' \in Reasm)
  <1>1. NoReasm \in Reasm
    BY Constants, EmptySeq DEF NoReasm, Reasm, Seq32
  <1> QED
    BY <1>1 DEF IInv, Filled

\* Packets and outcomes carry segments, whatever else they are.
LEMMA AllIn == PacketsIn(Segments) = Packet /\ OutcomesIn(Segments) = Outcome
  BY DEF PacketsIn, OutcomesIn, Segments, ShapeIn, Packet, Outcome

(* The variables keep their types: the positions stay within the sequence   *)
(* space through every wrap, and the running offset that replay_queue        *)
(* passes along is a number whatever was queued.                            *)
THEOREM TypeCorrect == Spec => []TypeOK
  <1>1. Init => TypeInv
    <2> SUFFICES ASSUME Init PROVE TypeInv
      OBVIOUS
    <2>1. <<>> \in Seq(Packet) /\ <<>> \in Seq(Outcome)
      BY EmptySeq
    <2> QED
      BY <2>1, IInvInit, ReasmTyped, FreshType DEF Init, TypeInv, TypeOK
  <1>2. TypeInv /\ [Next]_vars => TypeInv'
    <2> SUFFICES ASSUME TypeInv, [Next]_vars PROVE TypeInv'
      OBVIOUS
    <2>1. IInv'
      BY IInvStep DEF TypeInv
    <2>2. reasm' \in Reasm
      BY <2>1, ReasmTyped
    <2>3. CASE UNCHANGED vars
      BY <2>1, <2>3 DEF TypeInv, TypeOK, vars
    <2>4. CASE Reopen
      <3>1. delayed' = <<>> /\ out' = out /\ arrived' = arrived /\ client' = Fresh
        BY <2>4 DEF Reopen
      <3>2. \A i \in 1 .. Len(delayed) : delayed[i].id \in Nat \ {0}
        <4>1. \A i \in 1 .. Len(delayed) : delayed[i] \in Packet
          BY DEF TypeInv, TypeOK
        <4> QED
          BY <4>1 DEF Packet
      <3>3. lost' \subseteq Nat \ {0}
        BY <2>4, <3>2 DEF Reopen, TypeInv, TypeOK
      <3> QED
        BY <2>1, <2>2, <3>1, <3>3, EmptySeq, FreshType DEF TypeInv, TypeOK
    <2>5. ASSUME NEW s \in Segment, Payload(s) PROVE TypeInv'
      <3>1. s \in Segments
        BY DelayedReasmAssumption DEF Segments
      <3>2. delayed' \in Seq(Packet) /\ out' \in Seq(Outcome)
        BY <2>5, <3>1, AllIn, PayloadTyped DEF TypeInv, TypeOK
      <3>3. client' \in Position
        <4>1. SeqOf(s.off) \in Seq32 /\ s.len \in Nat /\ client \in Position
          BY <3>1, SeqOfPlus DEF Segments, TypeInv, TypeOK
        <4>2. client' = ApplyDirect(client, FALSE, SeqOf(s.off), s.len)
          BY <2>5 DEF Payload, Counted
        <4> QED
          BY <4>1, <4>2, PositionMoved
      <3>4. arrived' \in Nat /\ lost' = lost
        BY <2>5 DEF Payload, TypeInv, TypeOK
      <3> QED
        BY <2>1, <2>2, <3>2, <3>3, <3>4 DEF TypeInv, TypeOK
    <2> QED
      BY <2>3, <2>4, <2>5 DEF Next
  <1>3. TypeInv => TypeOK
    BY DEF TypeInv
  <1> QED
    BY <1>1, <1>2, <1>3, PTL DEF Spec
-----------------------------------------------------------------------------
(* The reassembly closed with the client's TCP.                            *)

TcpInv ==
    /\ arrived \in Nat
    /\ delayed \in Seq(PacketsIn(TcpSegment)) /\ out \in Seq(OutcomesIn(TcpSegment))
    /\ wire \in Seq(TcpSegment)
    /\ una \in 1 .. End /\ nxt \in 1 .. End
    /\ cwnd \in Nat
    /\ probe \in TcpSegment \cup {NoProbe}

LEMMA TcpConstants ==
    /\ StreamLen \in Nat /\ End \in Nat /\ End >= 1
    /\ Mss \in Nat /\ Mss > 0 /\ Cwnd \in Nat /\ MaxLoss \in Nat /\ MaxRto \in Nat
    /\ TcpSegment \in SUBSET Segments /\ TcpSegment \subseteq Segment
    /\ \A s \in TcpSegment : s.off \in 1 .. End /\ s.len \in 1 .. Mss /\ s.off + s.len <= End
  <1>1. StreamLen \in Nat /\ End \in Nat /\ End >= 1
    BY TcpAssumption DEF End
  <1>2. TcpSegment \subseteq Segment /\ Segment \subseteq Segments
    BY TcpAssumption, DelayedReasmAssumption DEF Segments
  <1>3. \A s \in TcpSegment : s.off \in 1 .. End /\ s.len \in 1 .. Mss /\ s.off + s.len <= End
    BY DEF TcpSegment
  <1> QED
    BY <1>1, <1>2, <1>3, TcpAssumption

\* What has come to the server is within the stream, so that it lacks a byte.
LEMMA ReachedType == TcpInv => Reached \in 1 .. End
  <1> SUFFICES ASSUME TcpInv PROVE Reached \in 1 .. End
    OBVIOUS
  <1> DEFINE got == Covered(1 .. Len(out))
             lacks == {n \in 1 .. End : n \notin got}
  <1>1. End \in Nat /\ End >= 1
    BY TcpConstants
  <1>2. End \notin got
    <2> SUFFICES ASSUME NEW i \in 1 .. Len(out), End \in out[i].off .. out[i].off + out[i].len - 1
                 PROVE  FALSE
      BY DEF Covered
    <2>1. out[i] \in OutcomesIn(TcpSegment)
      BY DEF TcpInv
    <2>2. /\ [off |-> out[i].off, len |-> out[i].len] \in TcpSegment
          /\ out[i].off \in Nat /\ out[i].len \in Nat
      BY <2>1 DEF OutcomesIn, ShapeIn, Outcome
    <2>3. out[i].off + out[i].len <= End
      BY <2>2, TcpConstants
    <2> QED
      BY <1>1, <2>2, <2>3
  <1> HIDE DEF got
  <1>3. lacks \in SUBSET Nat /\ lacks # {}
    BY <1>1, <1>2
  <1>4. PICK n \in lacks : \A k \in lacks : n <= k
    BY <1>3, Least
  <1>5. n \in 1 .. End /\ n \notin got /\ \A k \in 1 .. n - 1 : k \in got
    BY <1>1, <1>4
  <1>6. Reached = CHOOSE r \in 1 .. End : r \notin got /\ \A k \in 1 .. r - 1 : k \in got
    BY DEF Reached, got
  <1> QED
    BY <1>5, <1>6

LEMMA TcpInvInit == TcpInit => TcpInv
  <1> SUFFICES ASSUME TcpInit PROVE TcpInv
    OBVIOUS
  <1>1. 1 \in 1 .. End /\ Cwnd \in Nat
    BY TcpConstants
  <1>2. \A S : <<>> \in Seq(S)
    BY EmptySeq
  <1> QED
    BY <1>1, <1>2 DEF TcpInit, Init, TcpInv

\* No step of the client leaves the stream, and none of the daemon's answers
\* brings up a segment that the client did not send.
LEMMA TcpInvStep == TcpInv /\ [TcpNext]_vars2 => TcpInv'
  <1> SUFFICES ASSUME TcpInv, [TcpNext]_vars2 PROVE TcpInv'
    OBVIOUS
  <1>1. CASE UNCHANGED vars2
    BY <1>1 DEF vars2, vars, tcp, TcpInv
  <1>2. CASE Send
    <2>1. PICK len \in 1 .. Mss :
              /\ nxt + len <= Smaller(End, una + cwnd)
              /\ wire' = Append(wire, [off |-> nxt, len |-> len])
              /\ nxt' = nxt + len
              /\ probe' = [off |-> nxt, len |-> len]
              /\ UNCHANGED <<vars, una, cwnd, losses, rtos>>
      BY <1>2 DEF Send
    <2> DEFINE s == [off |-> nxt, len |-> len]
    <2>2. /\ nxt \in 1 .. End /\ len \in Nat /\ len >= 1 /\ End \in Nat
          /\ nxt + len <= End
      BY <2>1, TcpConstants DEF TcpInv, Smaller
    <2>3. s \in TcpSegment /\ nxt + len \in 1 .. End
      BY <2>1, <2>2 DEF TcpSegment
    <2> HIDE DEF s
    <2>4. Append(wire, s) \in Seq(TcpSegment)
      BY <2>3, AppendProperties DEF TcpInv
    <2> QED
      BY <2>1, <2>3, <2>4 DEF TcpInv, vars, s
  <1>3. CASE Lose
    <2>1. Tail(wire) \in Seq(TcpSegment)
      BY <1>3, HeadTailProperties DEF Lose, TcpInv
    <2> QED
      BY <1>3, <2>1 DEF Lose, TcpInv, vars
  <1>4. CASE Deliver
    <2>1. Tail(wire) \in Seq(TcpSegment) /\ Head(wire) \in TcpSegment
      BY <1>4, HeadTailProperties DEF Deliver, TcpInv
    <2>2. /\ Payload(Head(wire)) /\ wire' = Tail(wire)
          /\ UNCHANGED <<una, nxt, cwnd, losses, rtos, probe>>
      BY <1>4 DEF Deliver
    <2>3. delayed' \in Seq(PacketsIn(TcpSegment)) /\ out' \in Seq(OutcomesIn(TcpSegment))
      BY <2>1, <2>2, TcpConstants, PayloadTyped DEF TcpInv
    <2>4. arrived' \in Nat
      BY <2>2 DEF Payload, TcpInv
    <2> QED
      BY <2>1, <2>2, <2>3, <2>4 DEF TcpInv
  <1>5. CASE Ack
    <2>1. Reached \in 1 .. End /\ una' = Reached /\ una' > una
      BY <1>5, ReachedType DEF Ack
    <2>2. nxt' \in 1 .. End
      BY <1>5, <2>1 DEF Ack, TcpInv
    <2>3. cwnd' \in Nat
      <3>1. cwnd' = Smaller(Cwnd, cwnd + una' - una) /\ una \in Nat /\ una' \in Nat /\ cwnd \in Nat
        BY <1>5, <2>1, TcpConstants DEF Ack, TcpInv
      <3> QED
        BY <2>1, <3>1, TcpConstants DEF Smaller
    <2> QED
      BY <1>5, <2>1, <2>2, <2>3 DEF Ack, TcpInv, vars
  <1>6. CASE Probe
    <2>1. probe \in TcpSegment
      BY <1>6 DEF Probe, TcpInv
    <2>2. <<probe>> \in Seq(TcpSegment)
      BY <2>1
    <2> QED
      BY <1>6, <2>2 DEF Probe, TcpInv, vars
  <1>7. CASE Rto
    BY <1>7, TcpConstants DEF Rto, TcpInv, vars
  <1> QED
    BY <1>1, <1>2, <1>3, <1>4, <1>5, <1>6, <1>7 DEF TcpNext

\* A step of the closed system is one of the reassembly or leaves it alone.
LEMMA TcpStep == TcpInv /\ [TcpNext]_vars2 => [Next]_vars
  <1> SUFFICES ASSUME TcpInv, [TcpNext]_vars2 PROVE [Next]_vars
    OBVIOUS
  <1>1. CASE Deliver
    <2>1. Head(wire) \in TcpSegment
      BY <1>1, HeadTailProperties DEF Deliver, TcpInv
    <2>2. Head(wire) \in Segment /\ Payload(Head(wire))
      BY <1>1, <2>1, TcpConstants DEF Deliver
    <2> QED
      BY <2>2 DEF Next
  <1>2. CASE ~ Deliver
    BY <1>2 DEF TcpNext, Send, Lose, Ack, Probe, Rto, vars2
  <1> QED
    BY <1>1, <1>2

(* The client's TCP, losses, retransmissions and probes included, gives     *)
(* dpi_desync_tcp_packet_play only segments that the open model allows it.  *)
THEOREM TcpIsReasm == TcpSpec => Spec
  <1>1. TcpInit => Init
    BY DEF TcpInit
  <1> QED
    BY <1>1, TcpInvInit, TcpInvStep, TcpStep, PTL DEF TcpSpec, Spec

(* All that holds of the reassembly for any segments holds while a client   *)
(* resends, probes and backs off: whatever is replayed is a whole hello,     *)
(* nothing is lost or overtaken, and packets wait only for an open buffer.  *)
THEOREM TcpSafe ==
    TcpSpec => /\ [](HeldWhileOpen /\ BufferIsStream /\ ReplayIsWholeHello)
               /\ [](KeepsOrder /\ LosesNone)
               /\ IsDelayLine
  BY TcpIsReasm, HeldExactlyWhileOpen, BufferHoldsHello, ReplaysAreWhole,
     OrderKeptNoneLost, DelayIsLine, PTL

=============================================================================
