------------------------- MODULE DesyncChainProofs -------------------------
(***************************************************************************)
(* What holds of every chain of instances, for any profiles, functions,    *)
(* ranges and numbers of packets: no instance sees a packet twice or out   *)
(* of turn, a direction is only passed by when none of its instances could *)
(* want a packet, and, where an orchestrator is called for all that the    *)
(* instances behind it want, a cut-off is for ever.  Where every part of a  *)
(* replayed hello comes to every splitter none is lost, and where those     *)
(* that pass what they sent stand last nothing is sent twice.               *)
(***************************************************************************)
EXTENDS DesyncChain, TLAPS

(* The replay: what is queued is not more than its parts, and was counted. *)
QueueGood ==
    /\ replay # NoReplay => Len(delayed) <= replay.count
    /\ \A i \in 1 .. Len(delayed) :
          delayed[i].n <= pos["out"].n /\ delayed[i].d <= pos["out"].d

(* Calls are made from the front to the back, and run.at is behind them.   *)
CallsGood ==
    Running => /\ \A k \in 1 .. Len(run.calls) : run.calls[k] < run.at
               /\ \A k, m \in 1 .. Len(run.calls) : k < m => run.calls[k] < run.calls[m]

(* What a call of j does, whatever its function.                           *)
Takers == {"orchestrator", "condition"}

IsCalled(j) ==
    /\ Running
    /\ j \in Nat /\ run.at <= j /\ j <= Len(Chain[dp]) /\ j \in DOMAIN Chain[dp]
    /\ Callable(j) /\ \A k \in Upcoming : j <= k

CallOf(j) ==
    /\ run' \in Runs /\ run'.pkt = run.pkt
    /\ run'.calls = Append(run.calls, j) /\ j < run'.at
    /\ replay_drop' \in BOOLEAN
    /\ UNCHANGED <<dp, l7, named, pos, lua_cutoff, delayed, replay>>
    /\ IF Chain[dp][j].kind \in Takers THEN run'.plan /\ CutOff(j, {})
       ELSE /\ run'.plan = run.plan /\ run'.at \in {j + 1, Len(Chain[dp]) + 1}
            /\ \E dirs \in SUBSET Dir : CutOff(j, dirs)

IInv == TypeOK /\ QueueGood /\ CallsGood /\ CutoffHidesNothing

-----------------------------------------------------------------------------
LEMMA ChainType ==
    ASSUME NEW p \in Profile
    PROVE  /\ Chain[p] \in Seq(Instance)
           /\ Len(Chain[p]) \in Nat
           /\ DOMAIN Chain[p] = 1 .. Len(Chain[p])
  BY ChainAssumption

(* A run is no idle one, a replay no absent one.                           *)
LEMMA RunsNotIdle == \A r \in Runs : r # Idle
<1>1. "pkt" \notin DOMAIN Idle
  BY DEF Idle
<1>2. \A r \in Runs : "pkt" \in DOMAIN r
  BY DEF Runs
<1> QED
  BY <1>1, <1>2

LEMMA ReplaysNotNone == \A c : \A h : [count |-> c, host |-> h] # NoReplay
<1>1. "host" \notin DOMAIN NoReplay
  BY DEF NoReplay
<1> QED
  BY <1>1

(* A call is of an instance not yet passed, and such an instance exists.   *)
LEMMA CallsUpcoming ==
    ASSUME TypeOK, Running, NEW kind, NEW j \in Calls(kind)
    PROVE  IsCalled(j) /\ j # 0 /\ Chain[dp][j].kind = kind
<1>1. run \in Runs
  BY DEF TypeOK, Running
<1>2. run.at \in Nat /\ run.at >= 1
  BY <1>1 DEF Runs
<1>3. j \in run.at .. Len(Chain[dp]) /\ Callable(j) /\ Chain[dp][j].kind = kind
      /\ \A k \in Upcoming : j <= k
  BY DEF Calls, Upcoming
<1>4. Len(Chain[dp]) \in Nat /\ DOMAIN Chain[dp] = 1 .. Len(Chain[dp])
  BY ChainType DEF TypeOK
<1> QED
  BY <1>2, <1>3, <1>4 DEF IsCalled

(* Types of what is put together for a run.                                *)
LEMMA StartingType ==
    ASSUME NEW pkt \in Packet, NEW at \in Nat \ {0}
    PROVE  /\ Starting(pkt, at) \in Runs
           /\ Starting(pkt, at).pkt = pkt /\ Starting(pkt, at).at = at
           /\ ~ Starting(pkt, at).plan /\ Starting(pkt, at).calls = <<>>
  BY DEF Starting, Runs, Verdict

LEMMA ReturnsType ==
    ASSUME run \in Runs, NEW j \in Nat \ {0}, NEW v \in Verdict
    PROVE  /\ Returns(j, v) \in Runs
           /\ Returns(j, v).pkt = run.pkt /\ Returns(j, v).at = j + 1
           /\ Returns(j, v).plan = run.plan
           /\ Returns(j, v).calls = Append(run.calls, j)
<1>1. Stronger(run.verdict, v) \in Verdict
  BY DEF Runs, Stronger, Verdict
<1>2. Append(run.calls, j) \in Seq(Nat) /\ j + 1 \in Nat \ {0}
  BY DEF Runs
<1> DEFINE w == Stronger(run.verdict, v)
           q == Append(run.calls, j)
<1>3. Returns(j, v) = [run EXCEPT !.at = j + 1, !.verdict = w, !.calls = q]
  BY DEF Returns, Runs
<1> HIDE DEF w, q
<1> QED
  BY <1>1, <1>2, <1>3 DEF Runs, w, q

(* The fields that an error, a plan taken over or dropped write.           *)
LEMMA Altered ==
    ASSUME NEW r \in Runs, NEW n \in Nat
    PROVE  /\ LET q == [r EXCEPT !.at = n + 1, !.verdict = "PASS", !.fault = TRUE]
              IN  /\ q \in Runs /\ q.pkt = r.pkt /\ q.plan = r.plan /\ q.calls = r.calls
                  /\ q.at = n + 1
           /\ LET q == [r EXCEPT !.plan = TRUE]
              IN  /\ q \in Runs /\ q.pkt = r.pkt /\ q.plan /\ q.calls = r.calls
                  /\ q.at = r.at
           /\ LET q == [r EXCEPT !.plan = TRUE, !.at = n + 1]
              IN  /\ q \in Runs /\ q.pkt = r.pkt /\ q.plan /\ q.calls = r.calls
                  /\ q.at = n + 1
<1>1. n + 1 \in Nat \ {0} /\ "PASS" \in Verdict
  BY DEF Verdict
<1>2. LET q == [r EXCEPT !.at = n + 1, !.verdict = "PASS", !.fault = TRUE]
      IN  /\ q \in Runs /\ q.pkt = r.pkt /\ q.plan = r.plan /\ q.calls = r.calls
          /\ q.at = n + 1
  BY <1>1 DEF Runs
<1>3. LET q == [r EXCEPT !.plan = TRUE]
      IN  /\ q \in Runs /\ q.pkt = r.pkt /\ q.plan /\ q.calls = r.calls
          /\ q.at = r.at
  BY DEF Runs
<1>4. LET q == [r EXCEPT !.plan = TRUE, !.at = n + 1]
      IN  /\ q \in Runs /\ q.pkt = r.pkt /\ q.plan /\ q.calls = r.calls
          /\ q.at = n + 1
  BY <1>1 DEF Runs
<1> QED
  BY <1>2, <1>3, <1>4

(* A packet fed moves the position of its direction on and no other.       *)
LEMMA FedType ==
    ASSUME TypeOK, NEW dir \in Dir, NEW payload
    PROVE  /\ Fed(dir, payload) \in [Dir -> Position]
           /\ \A d \in Dir : /\ pos[d].n <= Fed(dir, payload)[d].n
                             /\ pos[d].d <= Fed(dir, payload)[d].d
<1>1. pos \in [Dir -> Position]
  BY DEF TypeOK
<1>2. \A d \in Dir : pos[d].n \in Nat /\ pos[d].d \in Nat
  BY <1>1 DEF Position
<1>3. \A d \in Dir : Fed(dir, payload)[d] =
        IF d = dir THEN [n |-> pos[d].n + 1,
                         d |-> pos[d].d + (IF payload = "empty" THEN 0 ELSE 1)]
        ELSE pos[d]
  BY <1>1 DEF Fed
<1>4. Fed(dir, payload) \in [Dir -> Position]
  BY <1>1, <1>2 DEF Fed, Position
<1> QED
  BY <1>2, <1>3, <1>4

(* Past its upper bound, an instance is past it at every later position.   *)
LEMMA BeyondStays ==
    ASSUME NEW c \in Instance, NEW dir \in Dir, NEW ps \in Position, NEW qs \in Position,
           ps.n <= qs.n, ps.d <= qs.d, Beyond(c, dir, ps)
    PROVE  Beyond(c, dir, qs)
<1> DEFINE b == c.to[dir]
<1>1. b \in Bound /\ c.upper \in BOOLEAN
  BY DEF Instance
<1>2. /\ b.mode # "a"
      /\ b.mode \in {"n", "d"} => ~ (ps[b.mode] < b.pos \/ (~ c.upper /\ ps[b.mode] = b.pos))
  BY DEF Beyond, CheckTo
<1>3. b.pos \in Nat /\ ps.n \in Nat /\ ps.d \in Nat /\ qs.n \in Nat /\ qs.d \in Nat
  BY <1>1 DEF Bound, Position
<1>4. b.mode \in {"n", "d"} => ps[b.mode] <= qs[b.mode] /\ ps[b.mode] \in Nat /\ qs[b.mode] \in Nat
  BY <1>3
<1> HIDE DEF b
<1>5. b.mode \in {"n", "d"} => ~ (qs[b.mode] < b.pos \/ (~ c.upper /\ qs[b.mode] = b.pos))
  BY <1>1, <1>2, <1>3, <1>4
<1> QED
  BY <1>2, <1>5 DEF Beyond, CheckTo, b

(* No position goes back, so what a sticky cut-off hides stays beyond.     *)
LEMMA HidingStays ==
    ASSUME TypeOK, CutoffHidesNothing, pos' \in [Dir -> Position],
           \A d \in Dir : pos[d].n <= pos'[d].n /\ pos[d].d <= pos'[d].d
    PROVE  \A d \in Dir : lua_cutoff[d] =>
              \A j \in DOMAIN Chain[dp] :
                 <<dp, j, d>> \in instance_cutoff \/ Beyond(Chain[dp][j], d, pos'[d])
<1> SUFFICES ASSUME NEW d \in Dir, lua_cutoff[d], NEW j \in DOMAIN Chain[dp],
                    <<dp, j, d>> \notin instance_cutoff
             PROVE  Beyond(Chain[dp][j], d, pos'[d])
  OBVIOUS
<1>1. Beyond(Chain[dp][j], d, pos[d])
  BY DEF CutoffHidesNothing
<1>2. Chain[dp][j] \in Instance
  BY ChainType DEF TypeOK
<1>3. pos[d] \in Position /\ pos'[d] \in Position
  BY DEF TypeOK
<1> QED
  BY <1>1, <1>2, <1>3, BeyondStays

(* A packet enters: it may change the profile, which forgets the sticky    *)
(* cut-offs, and it may set the one of its direction.                      *)
LEMMA PlayGood ==
    ASSUME TypeOK, CutoffHidesNothing, pos' \in [Dir -> Position],
           \A d \in Dir : pos[d].n <= pos'[d].n /\ pos[d].d <= pos'[d].d,
           NEW pkt \in Packet, pkt.part <= pkt.count,
           pkt.tpos.n <= pos'[pkt.dir].n, pkt.tpos.d <= pos'[pkt.dir].d,
           Play(pkt)
    PROVE  /\ dp' \in Profile
           /\ l7' \in {"unknown", "known", "discovered"} /\ named' \in BOOLEAN
           /\ lua_cutoff' \in [Dir -> BOOLEAN]
           /\ run' \in Runs /\ run'.pkt = pkt /\ run'.calls = <<>> /\ ~ run'.plan
           /\ run'.at \in {1, Len(Chain[dp']) + 1}
           /\ CutoffHidesNothing'
<1>1. PICK p \in Profile : dp' = p /\ Desync(pkt, p, DpChanged(p))
  BY DEF Play
<1> DEFINE cut == DpChanged(p)
           over == cut[pkt.dir] \/ AllCutOff(p, pkt)
           at == IF over THEN Len(Chain[p]) + 1 ELSE 1
<1>2. pkt.dir \in Dir /\ pkt.tpos \in Position
  BY DEF Packet
<1>3. cut \in [Dir -> BOOLEAN]
  BY DEF DpChanged, TypeOK
<1>4. /\ lua_cutoff' = [cut EXCEPT ![pkt.dir] = over /\ (@ \/ Chain[p] # <<>>)]
      /\ run' = Starting(pkt, at)
  BY <1>1 DEF Desync
<1>5. at \in Nat \ {0} /\ at \in {1, Len(Chain[p]) + 1}
  BY ChainType
<1>6. instance_cutoff' = instance_cutoff
  BY DEF Play
<1> HIDE DEF cut
<1>7. \A d \in Dir : lua_cutoff'[d] => cut[d] \/ (d = pkt.dir /\ AllCutOff(p, pkt))
  BY <1>2, <1>3, <1>4
<1>8. ASSUME NEW d \in Dir, lua_cutoff'[d], NEW j \in DOMAIN Chain[p],
             <<p, j, d>> \notin instance_cutoff
      PROVE  Beyond(Chain[p][j], d, pos'[d])
  <2>1. CASE cut[d]
    <3>1. p = dp /\ lua_cutoff[d]
      BY <2>1 DEF cut, DpChanged
    <3> QED
      BY <3>1, <1>8, HidingStays
  <2>2. CASE d = pkt.dir /\ AllCutOff(p, pkt)
    <3>1. Beyond(Chain[p][j], d, pkt.tpos)
      BY <2>2, <1>8 DEF AllCutOff
    <3>2. Chain[p][j] \in Instance
      BY <1>1, <1>8, ChainType
    <3>3. pos'[d] \in Position
      OBVIOUS
    <3> QED
      BY <2>2, <3>1, <3>2, <3>3, <1>2, BeyondStays
  <2> QED
    BY <1>7, <1>8, <2>1, <2>2
<1>9. CutoffHidesNothing'
  BY <1>1, <1>6, <1>8 DEF CutoffHidesNothing
<1>10. l7' \in {"unknown", "known", "discovered"} /\ named' \in BOOLEAN
  BY DEF Play, TypeOK, Packet
<1>11. lua_cutoff' \in [Dir -> BOOLEAN]
  BY <1>2, <1>3, <1>4
<1> HIDE DEF at
<1>12. /\ run' \in Runs /\ run'.pkt = pkt /\ run'.calls = <<>> /\ ~ run'.plan
       /\ run'.at = at
  BY <1>4, <1>5, StartingType
<1> QED
  BY <1>1, <1>5, <1>9, <1>10, <1>11, <1>12

(* Each action that calls an instance makes such a call.                   *)
LEMMA CallShape ==
    ASSUME TypeOK, CallOnce \/ CallRisky \/ CallOrchestrator \/ CallSplit
    PROVE  \E j \in DOMAIN Chain[dp] : IsCalled(j) /\ CallOf(j)
<1>0. Running /\ run \in Runs
  BY DEF CallOnce, CallRisky, CallOrchestrator, CallSplit, Running, TypeOK
<1>1. Len(Chain[dp]) \in Nat
  BY ChainType DEF TypeOK
<1>2. \A j : UNCHANGED <<instance_cutoff, cutoff_shim, asked>> => CutOff(j, {})
  BY DEF CutOff
<1>3. CASE CallOnce
  <2>1. PICK j \in Calls("once") : \E v \in {"PASS", "MODIFY"}, dirs \in SUBSET Dir :
           run' = Returns(j, v) /\ CutOff(j, dirs)
    BY <1>3 DEF CallOnce
  <2>2. IsCalled(j) /\ j # 0 /\ Chain[dp][j].kind = "once"
    BY <1>0, CallsUpcoming
  <2>3. j \in Nat \ {0} /\ j \in DOMAIN Chain[dp]
    BY <2>2 DEF IsCalled
  <2>4. PICK v \in {"PASS", "MODIFY"} : run' = Returns(j, v)
    BY <2>1
  <2>5. v \in Verdict
    BY DEF Verdict
  <2>6. UNCHANGED <<dp, l7, named, pos, lua_cutoff, replay_drop, delayed, replay>>
    BY <1>3 DEF CallOnce
  <2>7. /\ run' \in Runs /\ run'.pkt = run.pkt /\ run'.at = j + 1 /\ run'.plan = run.plan
        /\ run'.calls = Append(run.calls, j)
    BY <1>0, <2>3, <2>4, <2>5, ReturnsType
  <2>8. CallOf(j)
    BY <2>1, <2>2, <2>3, <2>6, <2>7 DEF CallOf, Takers, TypeOK
  <2> QED
    BY <2>2, <2>3, <2>8
<1>4. CASE CallRisky
  <2>1. PICK j \in Calls("risky") :
          \/ run' = Returns(j, "PASS")
          \/ run' = [Returns(j, "PASS") EXCEPT !.at = Len(Chain[dp]) + 1,
                                               !.verdict = "PASS", !.fault = TRUE]
    BY <1>4 DEF CallRisky
  <2>2. IsCalled(j) /\ j # 0 /\ Chain[dp][j].kind = "risky"
    BY <1>0, CallsUpcoming
  <2>3. j \in Nat \ {0} /\ j \in DOMAIN Chain[dp] /\ j <= Len(Chain[dp])
    BY <2>2 DEF IsCalled
  <2> DEFINE r == Returns(j, "PASS")
  <2>4. /\ r \in Runs /\ r.pkt = run.pkt /\ r.at = j + 1 /\ r.plan = run.plan
        /\ r.calls = Append(run.calls, j)
    BY <1>0, <2>3, ReturnsType DEF Verdict
  <2> HIDE DEF r
  <2>5. run' = r \/ run' = [r EXCEPT !.at = Len(Chain[dp]) + 1, !.verdict = "PASS", !.fault = TRUE]
    BY <2>1 DEF r
  <2>6. /\ run' \in Runs /\ run'.pkt = run.pkt /\ run'.plan = run.plan
        /\ run'.at \in {j + 1, Len(Chain[dp]) + 1}
        /\ run'.calls = Append(run.calls, j)
    <3>1. CASE run' = r
      BY <2>4, <3>1
    <3>2. CASE run' = [r EXCEPT !.at = Len(Chain[dp]) + 1, !.verdict = "PASS", !.fault = TRUE]
      BY <1>1, <2>4, <3>2, Altered
    <3> QED
      BY <2>5, <3>1, <3>2
  <2>7. UNCHANGED <<dp, l7, named, pos, lua_cutoff, replay_drop, delayed, replay,
                    instance_cutoff, cutoff_shim, asked>>
    BY <1>4 DEF CallRisky
  <2>8. CutOff(j, {})
    BY <1>2, <2>7
  <2>9. CallOf(j)
    BY <1>1, <2>2, <2>3, <2>6, <2>7, <2>8 DEF CallOf, Takers, TypeOK
  <2> QED
    BY <2>2, <2>3, <2>9
<1>5. CASE CallOrchestrator
  <2>1. PICK j : /\ j \in Calls("orchestrator") \/ j \in Calls("condition")
                 /\ \/ run' = TakesOver(j)
                    \/ run' = [TakesOver(j) EXCEPT !.at = Len(Chain[dp]) + 1]
    BY <1>5 DEF CallOrchestrator
  <2>2. IsCalled(j) /\ j # 0 /\ Chain[dp][j].kind \in Takers
    BY <1>0, <2>1, CallsUpcoming DEF Takers
  <2>3. j \in Nat \ {0} /\ j \in DOMAIN Chain[dp] /\ j <= Len(Chain[dp])
    BY <2>2 DEF IsCalled
  <2> DEFINE r == Returns(j, "PASS")
  <2>4. /\ r \in Runs /\ r.pkt = run.pkt /\ r.at = j + 1
        /\ r.calls = Append(run.calls, j)
    BY <1>0, <2>3, ReturnsType DEF Verdict
  <2> HIDE DEF r
  <2>5. \/ run' = [r EXCEPT !.plan = TRUE]
        \/ run' = [r EXCEPT !.plan = TRUE, !.at = Len(Chain[dp]) + 1]
    BY <2>1, <2>4 DEF r, TakesOver, Runs
  <2>6. /\ run' \in Runs /\ run'.pkt = run.pkt /\ run'.plan
        /\ run'.at \in {j + 1, Len(Chain[dp]) + 1}
        /\ run'.calls = Append(run.calls, j)
    <3>1. CASE run' = [r EXCEPT !.plan = TRUE]
      BY <2>4, <3>1, Altered
    <3>2. CASE run' = [r EXCEPT !.plan = TRUE, !.at = Len(Chain[dp]) + 1]
      BY <1>1, <2>4, <3>2, Altered
    <3> QED
      BY <2>5, <3>1, <3>2
  <2>7. UNCHANGED <<dp, l7, named, pos, lua_cutoff, replay_drop, delayed, replay,
                    instance_cutoff, cutoff_shim, asked>>
    BY <1>5 DEF CallOrchestrator
  <2>8. CutOff(j, {})
    BY <1>2, <2>7
  <2>9. CallOf(j)
    BY <1>1, <2>2, <2>3, <2>6, <2>7, <2>8 DEF CallOf, TypeOK
  <2> QED
    BY <2>2, <2>3, <2>9
<1>6. CASE CallSplit
  <2>1. PICK j \in Calls("split") :
           /\ CutOff(j, {"in"})
           /\ SendsWhole(j) \/ LeavesAlone(j) \/ DropsPart(j)
    BY <1>6 DEF CallSplit
  <2>2. IsCalled(j) /\ j # 0 /\ Chain[dp][j].kind = "split"
    BY <1>0, CallsUpcoming
  <2>3. j \in Nat \ {0} /\ j \in DOMAIN Chain[dp]
    BY <2>2 DEF IsCalled
  <2>4. \E v \in Verdict : run' = Returns(j, v)
    BY <2>1 DEF SendsWhole, LeavesAlone, DropsPart, SplitVerdict, Verdict
  <2>5. replay_drop' \in BOOLEAN
    BY <2>1 DEF SendsWhole, LeavesAlone, DropsPart, TypeOK, Replayed, KeepsDrop
  <2>6. UNCHANGED <<dp, l7, named, pos, lua_cutoff, delayed, replay>>
    BY <1>6 DEF CallSplit
  <2>7. /\ run' \in Runs /\ run'.pkt = run.pkt /\ run'.at = j + 1 /\ run'.plan = run.plan
        /\ run'.calls = Append(run.calls, j)
    BY <1>0, <2>3, <2>4, ReturnsType
  <2>8. {"in"} \in SUBSET Dir
    BY DEF Dir
  <2>9. CallOf(j)
    BY <2>1, <2>2, <2>3, <2>5, <2>6, <2>7, <2>8 DEF CallOf, Takers
  <2> QED
    BY <2>2, <2>3, <2>9
<1> QED
  BY <1>3, <1>4, <1>5, <1>6

-----------------------------------------------------------------------------
(* The invariant holds at first, and every step keeps it.                  *)
LEMMA InitGood == Init => IInv
<1> SUFFICES ASSUME Init PROVE IInv
  OBVIOUS
<1>1. pos \in [Dir -> Position] /\ lua_cutoff \in [Dir -> BOOLEAN]
  BY DEF Init, Position
<1>2. delayed \in Seq(Position) /\ Len(delayed) = 0
  BY DEF Init
<1>3. TypeOK
  BY <1>1, <1>2 DEF Init, TypeOK
<1>4. QueueGood
  BY <1>2 DEF Init, QueueGood
<1>5. CallsGood
  BY DEF Init, CallsGood, Running
<1>6. CutoffHidesNothing
  BY DEF Init, CutoffHidesNothing
<1> QED
  BY <1>3, <1>4, <1>5, <1>6 DEF IInv

(* A call puts j behind the calls made, before run.at.                     *)
LEMMA CallGood ==
    ASSUME IInv, NEW j \in DOMAIN Chain[dp], IsCalled(j), CallOf(j)
    PROVE  IInv'
<1>1. run \in Runs /\ run' # Idle /\ Running'
  BY RunsNotIdle DEF IInv, TypeOK, IsCalled, CallOf, Running
<1>2. TypeOK'
  BY DEF IInv, TypeOK, IsCalled, CallOf, Running
<1>3. QueueGood'
  BY DEF IInv, QueueGood, CallOf
<1>4. CallsGood'
  <2> DEFINE old == run.calls
             new == run'.calls
  <2>1. old \in Seq(Nat) /\ j \in Nat /\ run.at \in Nat /\ run'.at \in Nat
    BY <1>1 DEF Runs, IsCalled, CallOf
  <2>2. new = Append(old, j) /\ run.at <= j /\ j < run'.at
    BY DEF IsCalled, CallOf
  <2>3. /\ \A k \in 1 .. Len(old) : old[k] < run.at
        /\ \A k, m \in 1 .. Len(old) : k < m => old[k] < old[m]
    BY DEF IInv, CallsGood, IsCalled
  <2> HIDE DEF old, new
  <2>4. /\ Len(old) \in Nat /\ Len(new) = Len(old) + 1 /\ new[Len(old) + 1] = j
        /\ \A k \in 1 .. Len(old) : new[k] = old[k] /\ old[k] \in Nat
    BY <2>1, <2>2
  <2>5. \A k \in 1 .. Len(new) : k \in 1 .. Len(old) \/ k = Len(old) + 1
    BY <2>4
  <2>6. \A k \in 1 .. Len(new) : new[k] < run'.at
    BY <2>1, <2>2, <2>3, <2>4, <2>5
  <2>7. ASSUME NEW k \in 1 .. Len(new), NEW m \in 1 .. Len(new), k < m
        PROVE  new[k] < new[m]
    <3>1. k \in 1 .. Len(old)
      BY <2>4, <2>7
    <3>2. CASE m \in 1 .. Len(old)
      BY <2>3, <2>4, <2>7, <3>1, <3>2
    <3>3. CASE m = Len(old) + 1
      BY <2>1, <2>2, <2>3, <2>4, <3>1, <3>3
    <3> QED
      BY <2>5, <3>2, <3>3
  <2> QED
    BY <2>6, <2>7 DEF CallsGood, new
<1>5. CutoffHidesNothing'
  <2>1. instance_cutoff \subseteq instance_cutoff'
    BY DEF CallOf, CutOff
  <2> QED
    BY <2>1 DEF IInv, CutoffHidesNothing, CallOf
<1> QED
  BY <1>2, <1>3, <1>4, <1>5 DEF IInv

(* A packet that is not held.                                              *)
LEMMA LiveGood ==
    ASSUME IInv, Waiting, NEW dir \in Dir, NEW payload \in Payload, NEW host \in BOOLEAN,
           Live(dir, payload, host), delayed' = delayed \/ delayed' = <<>>
    PROVE  IInv'
<1> DEFINE pkt == [dir |-> dir, payload |-> payload, host |-> host, tpos |-> pos'[dir],
                   part |-> 0, count |-> 0]
<1>1. /\ pos' \in [Dir -> Position]
      /\ \A d \in Dir : pos[d].n <= pos'[d].n /\ pos[d].d <= pos'[d].d
  BY FedType DEF IInv, Live
<1>2. pos'[dir] \in Position
  BY <1>1
<1>3. pkt \in Packet /\ pkt.part <= pkt.count /\ pkt.tpos = pos'[pkt.dir]
  BY <1>2 DEF Packet
<1>4. pkt.tpos.n <= pos'[pkt.dir].n /\ pkt.tpos.d <= pos'[pkt.dir].d
  BY <1>2, <1>3 DEF Position
<1>5. Play(pkt)
  BY DEF Live
<1> HIDE DEF pkt
<1>6. /\ dp' \in Profile
      /\ l7' \in {"unknown", "known", "discovered"} /\ named' \in BOOLEAN
      /\ lua_cutoff' \in [Dir -> BOOLEAN]
      /\ run' \in Runs /\ run'.pkt = pkt /\ run'.calls = <<>>
      /\ CutoffHidesNothing'
  BY <1>1, <1>3, <1>4, <1>5, PlayGood DEF IInv
<1>7. replay_drop' = replay_drop /\ replay' = NoReplay
  BY <1>5 DEF Play, Live, Waiting
<1>8. delayed' \in Seq(Position) /\ (delayed' = delayed \/ Len(delayed') = 0)
  <2>1. CASE delayed' = delayed
    BY <2>1 DEF IInv, TypeOK
  <2>2. CASE delayed' = <<>>
    BY <2>2
  <2> QED
    BY <2>1, <2>2
<1>9. TypeOK'
  BY <1>1, <1>3, <1>6, <1>7, <1>8 DEF IInv, TypeOK
<1>10. QueueGood'
  <2>1. \A d \in Dir : /\ pos[d].n \in Nat /\ pos[d].d \in Nat
                       /\ pos'[d].n \in Nat /\ pos'[d].d \in Nat
    BY <1>1 DEF IInv, TypeOK, Position
  <2>2. \A i \in 1 .. Len(delayed') : delayed'[i].n \in Nat /\ delayed'[i].d \in Nat
    <3>1. \A i \in 1 .. Len(delayed') : delayed'[i] \in Position
      BY <1>8
    <3> QED
      BY <3>1 DEF Position
  <2>3. "out" \in Dir
    BY DEF Dir
  <2>4. \A i \in 1 .. Len(delayed') :
           delayed'[i].n <= pos["out"].n /\ delayed'[i].d <= pos["out"].d
    BY <1>8 DEF IInv, QueueGood
  <2> QED
    BY <1>1, <1>7, <2>1, <2>2, <2>3, <2>4 DEF QueueGood
<1>11. CallsGood'
  BY <1>6 DEF CallsGood
<1> QED
  BY <1>6, <1>9, <1>10, <1>11 DEF IInv

(* A part is held.                                                         *)
LEMMA HoldGood ==
    ASSUME IInv, Hold,
           \/ replay' = replay
           \/ \E host \in BOOLEAN : replay' = [count |-> Len(delayed'), host |-> host]
    PROVE  IInv'
<1>1. /\ pos' \in [Dir -> Position]
      /\ \A d \in Dir : pos[d].n <= pos'[d].n /\ pos[d].d <= pos'[d].d
  BY FedType DEF IInv, Hold, Dir
<1>2. "out" \in Dir /\ run = Idle /\ replay = NoReplay
  BY DEF Dir, Hold, Waiting
<1>3. pos["out"] \in Position /\ pos'["out"] \in Position
  BY <1>1, <1>2 DEF IInv, TypeOK
<1>4. delayed \in Seq(Position) /\ delayed' = Append(delayed, pos'["out"])
  BY DEF IInv, TypeOK, Hold
<1>5. /\ delayed' \in Seq(Position) /\ Len(delayed') = Len(delayed) + 1 /\ Len(delayed) \in Nat
      /\ \A i \in 1 .. Len(delayed) : delayed'[i] = delayed[i] /\ delayed[i] \in Position
      /\ delayed'[Len(delayed) + 1] = pos'["out"]
  BY <1>3, <1>4
<1>6. Len(delayed') \in Nat
  BY <1>5
<1>7. TypeOK'
  BY <1>1, <1>2, <1>5, <1>6 DEF IInv, TypeOK, Hold
<1>8. QueueGood'
  <2>1. ASSUME NEW i \in 1 .. Len(delayed')
        PROVE  delayed'[i].n <= pos'["out"].n /\ delayed'[i].d <= pos'["out"].d
    <3>1. CASE i \in 1 .. Len(delayed)
      <4>1. delayed[i].n <= pos["out"].n /\ delayed[i].d <= pos["out"].d
        BY <3>1 DEF IInv, QueueGood
      <4>2. pos["out"].n <= pos'["out"].n /\ pos["out"].d <= pos'["out"].d
        BY <1>1, <1>2
      <4>3. /\ delayed[i].n \in Nat /\ pos["out"].n \in Nat /\ pos'["out"].n \in Nat
            /\ delayed[i].d \in Nat /\ pos["out"].d \in Nat /\ pos'["out"].d \in Nat
        BY <1>3, <1>5, <3>1 DEF Position
      <4>4. delayed[i].n <= pos'["out"].n /\ delayed[i].d <= pos'["out"].d
        BY <4>1, <4>2, <4>3
      <4> QED
        BY <1>5, <3>1, <4>4
    <3>2. CASE i = Len(delayed) + 1
      BY <1>3, <1>5, <3>2 DEF Position
    <3> QED
      BY <1>5, <3>1, <3>2
  <2>2. replay' # NoReplay => Len(delayed') <= replay'.count
    BY <1>2, <1>6
  <2> QED
    BY <2>1, <2>2 DEF QueueGood
<1>9. CallsGood'
  BY <1>2 DEF CallsGood, Running, Hold
<1>10. CutoffHidesNothing'
  BY <1>1, HidingStays DEF IInv, CutoffHidesNothing, Hold
<1> QED
  BY <1>7, <1>8, <1>9, <1>10 DEF IInv

(* A held part is played.                                                  *)
LEMMA ReplayPartGood ==
    ASSUME IInv, ReplayPart
    PROVE  IInv'
<1> DEFINE pkt == [dir |-> "out", payload |-> "hello", host |-> replay.host,
                   tpos |-> Head(delayed), part |-> PartNumber, count |-> replay.count]
<1>1. /\ delayed \in Seq(Position) /\ delayed # <<>> /\ delayed' = Tail(delayed)
      /\ replay # NoReplay /\ replay \in [count : Nat, host : BOOLEAN] /\ replay' = replay
      /\ pos' = pos /\ pos \in [Dir -> Position] /\ Play(pkt)
  BY DEF IInv, TypeOK, ReplayPart
<1>2. /\ Len(delayed) \in Nat /\ Len(delayed) >= 1 /\ Len(delayed) <= replay.count
      /\ Head(delayed) = delayed[1] /\ Head(delayed) \in Position
      /\ delayed' \in Seq(Position) /\ Len(delayed') = Len(delayed) - 1
      /\ \A i \in 1 .. Len(delayed') : delayed'[i] = delayed[i + 1] /\ i + 1 \in 1 .. Len(delayed)
  BY <1>1 DEF IInv, QueueGood
<1>3. PartNumber \in Nat /\ PartNumber <= replay.count
  BY <1>1, <1>2 DEF PartNumber
<1>4. pkt \in Packet /\ pkt.part <= pkt.count /\ pkt.dir = "out" /\ pkt.tpos = delayed[1]
  BY <1>1, <1>2, <1>3 DEF Packet, Dir, Payload
<1>5. "out" \in Dir /\ pos["out"] \in Position
  BY <1>1 DEF Dir
<1>6. \A d \in Dir : pos[d].n <= pos'[d].n /\ pos[d].d <= pos'[d].d
  BY <1>1 DEF Position
<1>7. \A i \in 1 .. Len(delayed) :
         delayed[i].n <= pos["out"].n /\ delayed[i].d <= pos["out"].d
  BY DEF IInv, QueueGood
<1>8. pkt.tpos.n <= pos'[pkt.dir].n /\ pkt.tpos.d <= pos'[pkt.dir].d
  BY <1>1, <1>2, <1>4, <1>7
<1> HIDE DEF pkt
<1>9. /\ dp' \in Profile
      /\ l7' \in {"unknown", "known", "discovered"} /\ named' \in BOOLEAN
      /\ lua_cutoff' \in [Dir -> BOOLEAN]
      /\ run' \in Runs /\ run'.pkt = pkt /\ run'.calls = <<>>
      /\ CutoffHidesNothing'
  BY <1>1, <1>4, <1>6, <1>8, PlayGood DEF IInv
<1>10. replay_drop' = replay_drop
  BY <1>1 DEF Play
<1>11. TypeOK'
  BY <1>1, <1>2, <1>4, <1>9, <1>10 DEF IInv, TypeOK
<1>12. QueueGood'
  BY <1>1, <1>2, <1>7 DEF QueueGood
<1>13. CallsGood'
  BY <1>9 DEF CallsGood
<1> QED
  BY <1>9, <1>11, <1>12, <1>13 DEF IInv

LEMMA NextGood == IInv /\ [Next]_vars => IInv'
<1> SUFFICES ASSUME IInv, [Next]_vars PROVE IInv'
  OBVIOUS
<1>1. CASE ServerPacket
  <2>1. PICK payload \in {"empty", "unknown", "reply"} : Live("in", payload, FALSE)
    BY <1>1 DEF ServerPacket
  <2> QED
    BY <1>1, <2>1, LiveGood DEF ServerPacket, Dir, Payload
<1>2. CASE ClientPacket
  <2>1. PICK payload \in {"empty", "unknown", "hello"}, host \in BOOLEAN :
           Live("out", payload, host)
    BY <1>2 DEF ClientPacket
  <2> QED
    BY <1>2, <2>1, LiveGood DEF ClientPacket, Dir, Payload
<1>3. CASE ReasmFails
  <2>1. PICK payload \in {"unknown", "hello"} : Live("out", payload, FALSE)
    BY <1>3 DEF ReasmFails
  <2> QED
    BY <1>3, <2>1, LiveGood DEF ReasmFails, Dir, Payload
<1>4. CASE HoldPart
  BY <1>4, HoldGood DEF HoldPart
<1>5. CASE HoldLastPart
  BY <1>5, HoldGood DEF HoldLastPart
<1>6. CASE ReplayPart
  BY <1>6, ReplayPartGood
<1>7. CASE ReplayEnds
  BY <1>7 DEF ReplayEnds, IInv, TypeOK, QueueGood, CallsGood, Running, CutoffHidesNothing
<1>8. CASE CallOnce \/ CallRisky \/ CallOrchestrator \/ CallSplit
  BY <1>8, CallShape, CallGood DEF IInv
<1>9. CASE Finish
  BY <1>9 DEF Finish, IInv, TypeOK, QueueGood, CallsGood, Running, CutoffHidesNothing
<1>10. CASE UNCHANGED vars
  BY <1>10 DEF vars, IInv, TypeOK, QueueGood, CallsGood, Running, CutoffHidesNothing
<1> QED
  BY <1>1, <1>2, <1>3, <1>4, <1>5, <1>6, <1>7, <1>8, <1>9, <1>10 DEF Next

-----------------------------------------------------------------------------
(* Every packet, position, queue and run of a connection is well formed,   *)
(* and parts of a replay are numbered from 1 to their count (replay_queue  *)
(* of nfq2/desync.c).                                                      *)
THEOREM TypeCorrect == Spec => []TypeOK
<1>1. Spec => []IInv
  BY InitGood, NextGood, PTL DEF Spec
<1> QED
  BY <1>1, PTL DEF IInv

(* The loop in C and the plan of an orchestrator never run an instance     *)
(* twice for a packet, nor two of them out of order.                       *)
THEOREM CallsInOrder == Spec => []CalledInOrder
<1>1. Spec => []IInv
  BY InitGood, NextGood, PTL DEF Spec
<1>2. IInv => CalledInOrder
  <2> SUFFICES ASSUME IInv, Running
               PROVE  \A k, m \in DOMAIN run.calls : k < m => run.calls[k] < run.calls[m]
    BY DEF CalledInOrder
  <2>1. run.calls \in Seq(Nat)
    BY DEF IInv, TypeOK, Running, Runs
  <2>2. DOMAIN run.calls = 1 .. Len(run.calls)
    BY <2>1
  <2>3. \A k, m \in 1 .. Len(run.calls) : k < m => run.calls[k] < run.calls[m]
    BY DEF IInv, CallsGood
  <2> QED
    BY <2>2, <2>3
<1> QED
  BY <1>1, <1>2, PTL

(* desync() cuts a direction off only for instances that are done with it, *)
(* and dp_changed takes that back in time for those of the new profile.    *)
THEOREM NothingHidden == Spec => []CutoffHidesNothing
<1>1. Spec => []IInv
  BY InitGood, NextGood, PTL DEF Spec
<1> QED
  BY <1>1, PTL DEF IInv

-----------------------------------------------------------------------------
(* Cut-offs.  A run begins in C, under instance_cutoff, and an orchestrator *)
(* it comes to goes on with cutoff_shim.  That the two never disagree needs *)
(* that it always comes to it before what stands behind it: an orchestrator *)
(* is called for whatever an instance behind it wants.                      *)
IsTaker(p, i) == Chain[p][i].kind \in Takers

OrchestratorsWantAll ==
    \A p \in Profile : \A i, j \in DOMAIN Chain[p] :
        IsTaker(p, i) /\ i < j =>
            /\ Chain[p][j].payload \subseteq Chain[p][i].payload
            /\ \A dir \in Dir, ps \in Position :
                  InRange(Chain[p][j], dir, ps) => InRange(Chain[p][i], dir, ps)

(* An orchestrator stands before place j.                                  *)
Behind(p, j) == \E i \in DOMAIN Chain[p] : i < j /\ IsTaker(p, i)

(* A table of cut-offs holds only what is called under it.                 *)
TablesGood ==
    /\ asked \subseteq instance_cutoff \cup cutoff_shim
    /\ \A p \in Profile : \A j \in DOMAIN Chain[p], dir \in Dir :
          /\ <<p, j, dir>> \in instance_cutoff => ~ Behind(p, j) /\ ~ IsTaker(p, j)
          /\ <<p, j, dir>> \in cutoff_shim => Behind(p, j) /\ ~ IsTaker(p, j)

(* A run is a plan exactly behind an orchestrator.                         *)
PlanGood ==
    Running => IF run.plan THEN Behind(dp, run.at)
               ELSE run.at <= Len(Chain[dp]) => ~ Behind(dp, run.at)

CutInv == IInv /\ TablesGood /\ PlanGood

(* Whoever calls j: the loop only before, a plan only behind orchestrators. *)
LEMMA CallerKnown ==
    ASSUME OrchestratorsWantAll, CutInv, NEW j \in DOMAIN Chain[dp], IsCalled(j)
    PROVE  /\ run.plan <=> Behind(dp, j)
           /\ <<dp, j, run.pkt.dir>> \notin asked
<1>1. /\ run \in Runs /\ run.plan \in BOOLEAN /\ run.at \in Nat /\ j \in Nat /\ run.at <= j
      /\ j <= Len(Chain[dp]) /\ Len(Chain[dp]) \in Nat /\ DOMAIN Chain[dp] = 1 .. Len(Chain[dp])
      /\ run.pkt.dir \in Dir /\ run.pkt.tpos \in Position /\ dp \in Profile
  BY ChainType DEF CutInv, IInv, TypeOK, IsCalled, Running, Runs, Packet
<1>2. Callable(j) /\ \A k \in Upcoming : j <= k
  BY DEF IsCalled
<1>3. PlanGood /\ TablesGood /\ Running
  BY DEF CutInv, IsCalled
<1>4. CASE run.plan
  <2>1. Behind(dp, j)
    BY <1>1, <1>3, <1>4 DEF PlanGood, Behind
  <2>2. <<dp, j, run.pkt.dir>> \notin cutoff_shim
    BY <1>2, <1>4 DEF Callable, CutOffNow
  <2> QED
    BY <1>1, <1>3, <1>4, <2>1, <2>2 DEF TablesGood
<1>5. CASE ~ run.plan
  <2>1. ASSUME NEW i \in DOMAIN Chain[dp], i < j, IsTaker(dp, i) PROVE FALSE
    <3>1. i \in Nat
      BY <1>1
    <3>2. CASE i < run.at
      BY <1>1, <1>3, <1>5, <2>1, <3>2 DEF PlanGood, Behind
    <3>3. CASE run.at <= i
      <4>1. <<dp, i, run.pkt.dir>> \notin instance_cutoff
        BY <1>1, <1>3, <2>1 DEF TablesGood
      <4>2. InRange(Chain[dp][i], run.pkt.dir, run.pkt.tpos) /\ run.pkt.payload \in Chain[dp][i].payload
        BY <1>1, <1>2, <2>1 DEF OrchestratorsWantAll, Callable
      <4>3. Callable(i)
        BY <1>5, <4>1, <4>2 DEF Callable, CutOffNow
      <4>4. i \in Upcoming
        BY <1>1, <3>1, <3>3, <4>3 DEF Upcoming
      <4> QED
        BY <1>1, <1>2, <2>1, <3>1, <4>4
    <3> QED
      BY <1>1, <3>1, <3>2, <3>3
  <2>2. ~ Behind(dp, j)
    BY <2>1 DEF Behind
  <2>3. <<dp, j, run.pkt.dir>> \notin instance_cutoff
    BY <1>2, <1>5 DEF Callable, CutOffNow
  <2> QED
    BY <1>1, <1>3, <1>5, <2>2, <2>3 DEF TablesGood
<1> QED
  BY <1>1, <1>4, <1>5

(* A call leaves the tables and the plan as they should be.                *)
LEMMA CallCuts ==
    ASSUME OrchestratorsWantAll, CutInv, NEW j \in DOMAIN Chain[dp], IsCalled(j), CallOf(j)
    PROVE  TablesGood' /\ PlanGood'
<1>1. run.plan <=> Behind(dp, j)
  BY CallerKnown
<1>2. /\ dp' = dp /\ dp \in Profile /\ run.plan \in BOOLEAN
      /\ j \in Nat /\ run'.at \in Nat /\ j < run'.at /\ j <= Len(Chain[dp])
      /\ Len(Chain[dp]) \in Nat /\ DOMAIN Chain[dp] = 1 .. Len(Chain[dp])
  BY ChainType DEF CutInv, IInv, TypeOK, IsCalled, CallOf, Running, Runs
<1>3. TablesGood'
  <2>1. CASE IsTaker(dp, j)
    <3>1. UNCHANGED <<instance_cutoff, cutoff_shim, asked>>
      BY <2>1 DEF CallOf, CutOff, IsTaker
    <3> QED
      BY <3>1 DEF CutInv, TablesGood
  <2>2. CASE ~ IsTaker(dp, j)
    <3>1. PICK dirs \in SUBSET Dir : CutOff(j, dirs)
      BY <2>2 DEF CallOf, IsTaker
    <3>2. asked' \subseteq instance_cutoff' \cup cutoff_shim'
      BY <1>2, <3>1 DEF CutOff, CutInv, TablesGood
    <3>3. ASSUME NEW p \in Profile, NEW k \in DOMAIN Chain[p], NEW dir \in Dir
          PROVE  /\ <<p, k, dir>> \in instance_cutoff' => ~ Behind(p, k) /\ ~ IsTaker(p, k)
                 /\ <<p, k, dir>> \in cutoff_shim' => Behind(p, k) /\ ~ IsTaker(p, k)
      <4>1. <<p, k, dir>> \in instance_cutoff' =>
               <<p, k, dir>> \in instance_cutoff \/ (p = dp /\ k = j /\ ~ run.plan)
        BY <3>1 DEF CutOff
      <4>2. <<p, k, dir>> \in cutoff_shim' =>
               <<p, k, dir>> \in cutoff_shim \/ (p = dp /\ k = j /\ run.plan)
        BY <3>1 DEF CutOff
      <4> QED
        BY <1>1, <2>2, <4>1, <4>2 DEF CutInv, TablesGood
    <3> QED
      BY <3>2, <3>3 DEF TablesGood, Behind, IsTaker
  <2> QED
    BY <2>1, <2>2
<1>4. PlanGood'
  <2>1. CASE IsTaker(dp, j)
    <3>1. run'.plan /\ Behind(dp, run'.at)
      BY <1>2, <2>1 DEF CallOf, Behind, IsTaker
    <3> QED
      BY <1>2, <3>1 DEF PlanGood, Behind, IsTaker
  <2>2. CASE ~ IsTaker(dp, j)
    <3>1. run'.plan = run.plan /\ run'.at \in {j + 1, Len(Chain[dp]) + 1}
      BY <2>2 DEF CallOf, IsTaker
    <3>2. CASE run.plan
      <4>1. Behind(dp, run'.at)
        BY <1>1, <1>2, <3>2 DEF Behind
      <4> QED
        BY <1>2, <3>1, <3>2, <4>1 DEF PlanGood, Behind, IsTaker
    <3>3. CASE ~ run.plan
      <4>1. run'.at <= Len(Chain[dp]) => ~ Behind(dp, run'.at)
        <5> SUFFICES ASSUME run'.at <= Len(Chain[dp]), NEW i \in DOMAIN Chain[dp],
                            i < run'.at, IsTaker(dp, i)
                     PROVE  FALSE
          BY DEF Behind
        <5>1. run'.at = j + 1 /\ i \in Nat
          BY <1>2, <3>1
        <5>2. i < j \/ i = j
          BY <1>2, <5>1
        <5> QED
          BY <1>1, <2>2, <3>3, <5>2 DEF Behind
      <4> QED
        BY <1>2, <3>1, <3>3, <4>1 DEF PlanGood, Behind, IsTaker
    <3> QED
      BY <3>2, <3>3
  <2> QED
    BY <2>1, <2>2
<1> QED
  BY <1>3, <1>4

(* A run begins before every orchestrator, or behind the whole chain.      *)
LEMMA PlayCuts ==
    ASSUME CutInv, IInv', NEW pkt, Play(pkt)
    PROVE  TablesGood' /\ PlanGood'
<1>1. UNCHANGED <<instance_cutoff, cutoff_shim, asked>>
  BY DEF Play
<1>2. TablesGood'
  BY <1>1 DEF CutInv, TablesGood, Behind, IsTaker
<1>3. PICK p \in Profile : dp' = p /\ Desync(pkt, p, DpChanged(p))
  BY DEF Play
<1>4. Len(Chain[p]) \in Nat /\ DOMAIN Chain[p] = 1 .. Len(Chain[p])
  BY ChainType
<1>5. /\ run'.at = 1 \/ run'.at = Len(Chain[p]) + 1
      /\ ~ run'.plan
  BY <1>3 DEF Desync, Starting
<1>6. run'.at <= Len(Chain[p]) => ~ Behind(p, run'.at)
  BY <1>4, <1>5 DEF Behind
<1>7. PlanGood'
  BY <1>3, <1>5, <1>6 DEF PlanGood, Behind, IsTaker
<1> QED
  BY <1>2, <1>7

LEMMA CutNext == OrchestratorsWantAll /\ CutInv /\ [Next]_vars => CutInv'
<1> SUFFICES ASSUME OrchestratorsWantAll, CutInv, [Next]_vars PROVE CutInv'
  OBVIOUS
<1>0. IInv'
  BY NextGood DEF CutInv
<1>1. CASE ServerPacket \/ ClientPacket \/ ReasmFails \/ ReplayPart
  <2>1. \E pkt : Play(pkt)
    BY <1>1 DEF ServerPacket, ClientPacket, ReasmFails, ReplayPart, Live
  <2> QED
    BY <1>0, <2>1, PlayCuts DEF CutInv
<1>2. CASE HoldPart \/ HoldLastPart \/ ReplayEnds \/ UNCHANGED vars
  <2>1. UNCHANGED <<dp, instance_cutoff, cutoff_shim, asked, run>>
    BY <1>2 DEF HoldPart, HoldLastPart, Hold, ReplayEnds, vars
  <2> QED
    BY <1>0, <2>1 DEF CutInv, TablesGood, PlanGood, Running, Behind, IsTaker
<1>3. CASE CallOnce \/ CallRisky \/ CallOrchestrator \/ CallSplit
  BY <1>0, <1>3, CallShape, CallCuts DEF CutInv, IInv
<1>4. CASE Finish
  <2>1. UNCHANGED <<instance_cutoff, cutoff_shim, asked>> /\ ~ Running'
    BY <1>4 DEF Finish, Running
  <2> QED
    BY <1>0, <2>1 DEF CutInv, TablesGood, PlanGood, Behind, IsTaker
<1> QED
  BY <1>1, <1>2, <1>3, <1>4 DEF Next

LEMMA CutInit == Init => CutInv
  BY InitGood DEF Init, CutInv, TablesGood, PlanGood, Running

(* A step that adds a call is one of CallOf.                               *)
LEMMA CallsAreCalls ==
    ASSUME IInv, [Next]_vars, Running, run' # Idle,
           NEW j \in DOMAIN Chain[dp], run'.calls = Append(run.calls, j)
    PROVE  IsCalled(j)
<1>1. run.calls \in Seq(Nat) /\ j \in Nat
  BY ChainType DEF IInv, TypeOK, Running, Runs
<1>2. run'.calls # run.calls
  <2>1. Len(Append(run.calls, j)) = Len(run.calls) + 1 /\ Len(run.calls) \in Nat
    BY <1>1
  <2> QED
    BY <2>1
<1>3. CallOnce \/ CallRisky \/ CallOrchestrator \/ CallSplit
  <2>1. run # Idle
    BY DEF Running
  <2>2. ~ (ServerPacket \/ ClientPacket \/ ReasmFails \/ HoldPart \/ HoldLastPart
           \/ ReplayPart \/ ReplayEnds)
    BY <2>1 DEF ServerPacket, ClientPacket, ReasmFails, HoldPart, HoldLastPart, Hold,
                ReplayPart, ReplayEnds, Waiting
  <2>3. ~ Finish
    BY DEF Finish
  <2>4. ~ UNCHANGED vars
    BY <1>2 DEF vars
  <2> QED
    BY <2>2, <2>3, <2>4 DEF Next
<1>4. PICK i \in DOMAIN Chain[dp] : IsCalled(i) /\ CallOf(i)
  BY <1>3, CallShape DEF IInv
<1>5. i \in Nat /\ Append(run.calls, i) = Append(run.calls, j)
  BY <1>4 DEF IsCalled, CallOf
<1>6. i = j
  <2>1. /\ Append(run.calls, i)[Len(run.calls) + 1] = i
        /\ Append(run.calls, j)[Len(run.calls) + 1] = j
    BY <1>1, <1>5
  <2> QED
    BY <1>5, <2>1
<1> QED
  BY <1>4, <1>6

(* Where orchestrators want all that stands behind them, an instance that  *)
(* cut itself off is never called again in that direction, by the loop in  *)
(* nfq2/desync.c or by a plan of lua/zapret-lib.lua.                       *)
THEOREM CutoffsAreFinal ==
    ASSUME OrchestratorsWantAll
    PROVE  Spec => CutoffIsFinal
<1>1. CutInv /\ [Next]_vars => CutInv'
  BY CutNext
<1>2. CutInv /\ [Next]_vars =>
        [\A j \in DOMAIN Chain[dp] :
            Running /\ run' # Idle /\ run'.calls = Append(run.calls, j)
            => <<dp, j, run.pkt.dir>> \notin asked]_vars
  BY CallsAreCalls, CallerKnown DEF CutInv
<1> QED
  BY <1>1, <1>2, CutInit, PTL DEF Spec, CutoffIsFinal

-----------------------------------------------------------------------------
(* The replay.  Splitters share one flag, so that a part is only dropped    *)
(* for a hello that was sent whole in the same replay needs that the flag   *)
(* never outlives its replay: that the last part comes to every splitter    *)
(* that the first part came to.  Nothing may end the chain in front of a    *)
(* splitter, and no range of the client's direction may end for one.        *)
IsSplit(p, j) == Chain[p][j].kind = "split"

Breakers == {"risky", "condition"}

SplittersReached ==
    \A p \in Profile : \A j \in DOMAIN Chain[p] :
        IsSplit(p, j) =>
            /\ Chain[p][j].to["out"].mode = "a"
            /\ \A i \in DOMAIN Chain[p] : i < j => Chain[p][i].kind \notin Breakers

(* A splitter that passes what it sent stands behind those that drop it:   *)
(* the first splitter of the last part takes the flag away from the rest.  *)
CopiesComeLast ==
    \A p \in Profile : \A i, j \in DOMAIN Chain[p] :
        IsSplit(p, i) /\ IsSplit(p, j) /\ i < j /\ Chain[p][i].nodrop => Chain[p][j].nodrop

NoLater(ps, qs) == ps.n <= qs.n /\ ps.d <= qs.d

LedgerOK == ledger \in [sent : SUBSET Nat, lost : SUBSET Nat, passed : SUBSET Nat,
                        erred : SUBSET Nat]

(* Splitters cut themselves off for the packets of the server alone.       *)
SplittersOpen ==
    \A p \in Profile : \A j \in DOMAIN Chain[p] :
        IsSplit(p, j) => <<p, j, "out">> \notin instance_cutoff \cup cutoff_shim

QueueSorted == \A i, k \in 1 .. Len(delayed) : i < k => NoLater(delayed[i], delayed[k])

(* The parts still queued and the one in the chain make up the rest of the *)
(* replay, and the ledger is of this replay.                               *)
PartGood ==
    /\ replay = NoReplay => ledger = Blank
    /\ replay # NoReplay =>
          /\ replay.count >= 2
          /\ Len(delayed) = replay.count => ledger = Blank /\ run = Idle
    /\ Running /\ ~ Replayed(run.pkt) => replay = NoReplay
    /\ Running /\ Replayed(run.pkt) =>
          /\ replay # NoReplay
          /\ run.pkt.count = replay.count
          /\ run.pkt.part = replay.count - Len(delayed)
          /\ run.pkt.dir = "out" /\ run.pkt.payload = "hello"
          /\ \A i \in 1 .. Len(delayed) : NoLater(run.pkt.tpos, delayed[i])

(* The first part discovers what the others could: the profile stays.      *)
Settled ==
    replay # NoReplay /\ Len(delayed) < replay.count =>
        l7 = "discovered" /\ (replay.host => named)

(* Who sent the hello whole is a splitter that wants the other parts too.  *)
SendersWant ==
    \A j \in ledger.sent :
        /\ j \in DOMAIN Chain[dp] /\ IsSplit(dp, j) /\ "hello" \in Chain[dp][j].payload
        /\ \A i \in 1 .. Len(delayed) : CheckFrom(Chain[dp][j].from["out"], delayed[i])
        /\ Running => CheckFrom(Chain[dp][j].from["out"], run.pkt.tpos)

(* Every sender is still to be called for the packet in the chain.         *)
Ahead == \A j \in ledger.sent : run.at <= j

(* The flag means a sender in this replay, and at the last part there is   *)
(* one left who takes it away.                                             *)
FlagGood ==
    /\ replay_drop => ledger.sent # {}
    /\ replay_drop /\ run = Idle => delayed # <<>>
    /\ replay_drop /\ Running /\ LastPart(run.pkt) => Ahead
    /\ Running /\ Replayed(run.pkt) /\ run.verdict = "DROP" => ledger.sent # {}

HelloInv ==
    /\ IInv /\ LedgerOK /\ SplittersOpen /\ QueueSorted /\ PartGood /\ Settled
    /\ SendersWant /\ FlagGood /\ HelloSurvives

(* Before the last part is over the flag stands for what was sent, and a   *)
(* part that a sender without nodrop has not come to will come to it.      *)
Dropping == \E j \in ledger.sent : ~ Chain[dp][j].nodrop

OnceGood ==
    /\ ledger.sent # {} /\ delayed # <<>> => replay_drop
    /\ Running /\ Replayed(run.pkt) /\ Dropping =>
          run.verdict = "DROP" \/ run.fault \/ (run.pkt.part > 1 /\ replay_drop /\ Ahead)
    /\ Running /\ Replayed(run.pkt) /\ run.pkt.part = 1 => ledger.passed = {}

OnceInv == HelloInv /\ OnceGood /\ SentOnce

(* From its lower bound on an instance is in range.                        *)
LEMMA FromStays ==
    ASSUME NEW b \in Bound, NEW ps \in Position, NEW qs \in Position, NoLater(ps, qs),
           CheckFrom(b, ps)
    PROVE  CheckFrom(b, qs)
<1>1. b.pos \in Nat /\ ps.n \in Nat /\ ps.d \in Nat /\ qs.n \in Nat /\ qs.d \in Nat
  BY DEF Bound, Position
<1>2. b.mode \in {"n", "d"} => ps[b.mode] <= qs[b.mode] /\ ps[b.mode] \in Nat /\ qs[b.mode] \in Nat
  BY <1>1 DEF NoLater
<1> QED
  BY <1>1, <1>2 DEF CheckFrom

(* A sender that is ahead is called for this part.                         *)
LEMMA SenderIsUpcoming ==
    ASSUME SplittersReached, HelloInv, Running, Replayed(run.pkt), NEW j \in ledger.sent,
           run.at <= j
    PROVE  j \in Upcoming /\ j \in DOMAIN Chain[dp] /\ IsSplit(dp, j) /\ j \in Nat
<1>1. /\ dp \in Profile /\ Len(Chain[dp]) \in Nat /\ DOMAIN Chain[dp] = 1 .. Len(Chain[dp])
      /\ run.at \in Nat
  BY ChainType DEF HelloInv, IInv, TypeOK, Running, Runs
<1>2. /\ j \in DOMAIN Chain[dp] /\ IsSplit(dp, j) /\ "hello" \in Chain[dp][j].payload
      /\ CheckFrom(Chain[dp][j].from["out"], run.pkt.tpos)
  BY DEF HelloInv, SendersWant
<1>3. run.pkt.dir = "out" /\ run.pkt.payload = "hello"
  BY DEF HelloInv, PartGood
<1>4. Chain[dp][j].to["out"].mode = "a"
  BY <1>1, <1>2 DEF SplittersReached
<1>5. InRange(Chain[dp][j], run.pkt.dir, run.pkt.tpos)
  BY <1>2, <1>3, <1>4 DEF InRange, CheckTo
<1>6. <<dp, j, run.pkt.dir>> \notin CutOffNow
  BY <1>1, <1>2, <1>3 DEF HelloInv, SplittersOpen, CutOffNow
<1>7. Callable(j)
  BY <1>2, <1>3, <1>5, <1>6 DEF Callable
<1> QED
  BY <1>1, <1>2, <1>7 DEF Upcoming

(* A call of another function than a splitter: it never drops a packet.    *)
Passes(j) ==
    /\ ~ IsSplit(dp, j)
    /\ run'.at = j + 1 \/ Chain[dp][j].kind \in Breakers
    /\ run'.verdict = "DROP" => run.verdict = "DROP"
    /\ run.verdict = "DROP" \/ run.fault => run'.verdict = "DROP" \/ run'.fault
    /\ UNCHANGED <<replay_drop, ledger>>

LEMMA ReturnsVerdict ==
    ASSUME run \in Runs, NEW j \in Nat \ {0}, NEW v \in Verdict
    PROVE  /\ Returns(j, v).verdict = Stronger(run.verdict, v)
           /\ Returns(j, v).fault = run.fault
           /\ Returns(j, v).verdict = "DROP" <=> "DROP" \in {run.verdict, v}
<1> DEFINE w == Stronger(run.verdict, v)
           q == Append(run.calls, j)
<1>1. w = "DROP" <=> "DROP" \in {run.verdict, v}
  BY DEF Stronger
<1>2. Returns(j, v) = [run EXCEPT !.at = j + 1, !.verdict = w, !.calls = q]
  BY DEF Returns, Runs
<1> HIDE DEF w, q
<1>3. Returns(j, v).verdict = w /\ Returns(j, v).fault = run.fault
  BY <1>2 DEF Runs
<1> QED
  BY <1>1, <1>3 DEF w

LEMMA OtherCall ==
    ASSUME TypeOK, CallOnce \/ CallRisky \/ CallOrchestrator
    PROVE  \E j \in DOMAIN Chain[dp] : IsCalled(j) /\ CallOf(j) /\ Passes(j)
<1>0. Running /\ run \in Runs
  BY DEF CallOnce, CallRisky, CallOrchestrator, Running, TypeOK
<1>1. ASSUME NEW kind, NEW j \in Calls(kind)
      PROVE  j \in Nat \ {0} /\ j \in DOMAIN Chain[dp] /\ Chain[dp][j].kind = kind
  BY <1>0, <1>1, CallsUpcoming DEF IsCalled
<1>2. PICK k \in DOMAIN Chain[dp] : IsCalled(k) /\ CallOf(k)
  BY CallShape
<1>3. ASSUME NEW kind, NEW j \in Calls(kind) PROVE j = k
  <2>1. IsCalled(j)
    BY <1>0, <1>3, CallsUpcoming
  <2>2. j \in Upcoming /\ k \in Upcoming
    BY <1>2, <2>1, ChainType DEF IsCalled, Upcoming, TypeOK, Runs
  <2> QED
    BY <1>2, <2>1, <2>2 DEF IsCalled
<1>4. k \in Nat \ {0} => Returns(k, "PASS").verdict = run.verdict
                         /\ Returns(k, "PASS").fault = run.fault
                         /\ Returns(k, "PASS").at = k + 1 /\ Returns(k, "PASS") \in Runs
  <2>1. "PASS" \in Verdict /\ run.verdict \in Verdict
    BY <1>0 DEF Verdict, Runs
  <2>2. Stronger(run.verdict, "PASS") = run.verdict
    BY <2>1 DEF Stronger, Verdict
  <2> QED
    BY <1>0, <2>1, <2>2, ReturnsType, ReturnsVerdict
<1>5. UNCHANGED <<replay_drop, ledger>>
  BY DEF CallOnce, CallRisky, CallOrchestrator
<1>6. CASE CallOnce
  <2>1. PICK j \in Calls("once") : \E v \in {"PASS", "MODIFY"} : run' = Returns(j, v)
    BY <1>6 DEF CallOnce
  <2>2. j = k /\ k \in Nat \ {0} /\ Chain[dp][k].kind = "once"
    BY <1>1, <1>3
  <2>3. PICK v \in {"PASS", "MODIFY"} : run' = Returns(k, v)
    BY <2>1, <2>2
  <2>4. /\ run'.at = k + 1 /\ run'.fault = run.fault
        /\ run'.verdict = "DROP" <=> "DROP" \in {run.verdict, v}
    BY <1>0, <2>2, <2>3, ReturnsType, ReturnsVerdict DEF Verdict
  <2> QED
    BY <1>2, <1>5, <2>2, <2>4 DEF Passes, IsSplit
<1>7. CASE CallRisky
  <2> DEFINE r == Returns(k, "PASS")
  <2>1. PICK j \in Calls("risky") :
          \/ run' = Returns(j, "PASS")
          \/ run' = [Returns(j, "PASS") EXCEPT !.at = Len(Chain[dp]) + 1,
                                               !.verdict = "PASS", !.fault = TRUE]
    BY <1>7 DEF CallRisky
  <2>2. j = k /\ k \in Nat \ {0} /\ Chain[dp][k].kind = "risky"
    BY <1>1, <1>3
  <2>3. r \in Runs /\ r.verdict = run.verdict /\ r.fault = run.fault
    BY <1>4, <2>2
  <2>4. \/ run' = r
        \/ run' = [r EXCEPT !.at = Len(Chain[dp]) + 1, !.verdict = "PASS", !.fault = TRUE]
    BY <2>1, <2>2
  <2> HIDE DEF r
  <2>5. /\ run'.verdict = "DROP" => run.verdict = "DROP"
        /\ run.verdict = "DROP" \/ run.fault => run'.verdict = "DROP" \/ run'.fault
    BY <2>3, <2>4 DEF Runs
  <2> QED
    BY <1>2, <1>5, <2>2, <2>5 DEF Passes, IsSplit, Breakers
<1>8. CASE CallOrchestrator
  <2> DEFINE r == Returns(k, "PASS")
  <2>1. PICK kind \in {"orchestrator", "condition"} : \E j \in Calls(kind) :
          \/ run' = TakesOver(j)
          \/ kind = "condition" /\ run' = [TakesOver(j) EXCEPT !.at = Len(Chain[dp]) + 1]
    BY <1>8 DEF CallOrchestrator
  <2>2. PICK j \in Calls(kind) :
          \/ run' = TakesOver(j)
          \/ kind = "condition" /\ run' = [TakesOver(j) EXCEPT !.at = Len(Chain[dp]) + 1]
    BY <2>1
  <2>3. j = k /\ k \in Nat \ {0} /\ Chain[dp][k].kind = kind
    BY <1>1, <1>3
  <2>4. r \in Runs /\ r.verdict = run.verdict /\ r.fault = run.fault /\ r.at = k + 1
    BY <1>4, <2>3
  <2>5. \/ run' = [r EXCEPT !.plan = TRUE]
        \/ kind = "condition" /\ run' = [[r EXCEPT !.plan = TRUE] EXCEPT !.at = Len(Chain[dp]) + 1]
    BY <2>2, <2>3 DEF TakesOver
  <2> HIDE DEF r
  <2>6. /\ run'.verdict = run.verdict /\ run'.fault = run.fault
        /\ run'.at = k + 1 \/ kind = "condition"
    BY <2>4, <2>5 DEF Runs
  <2> QED
    BY <1>2, <1>5, <2>1, <2>3, <2>6 DEF Passes, IsSplit, Breakers
<1> QED
  BY <1>6, <1>7, <1>8

(* Such a call leaves the senders ahead ahead.                             *)
LEMMA AheadStays ==
    ASSUME SplittersReached, HelloInv, Running, Replayed(run.pkt), Ahead,
           NEW i \in DOMAIN Chain[dp], IsCalled(i), Passes(i)
    PROVE  Ahead'
<1> SUFFICES ASSUME NEW j \in ledger.sent PROVE run'.at <= j
  BY DEF Ahead, Passes
<1>1. j \in Upcoming /\ j \in DOMAIN Chain[dp] /\ IsSplit(dp, j) /\ j \in Nat
  BY SenderIsUpcoming DEF Ahead
<1>2. i \in Nat /\ i <= j
  BY <1>1 DEF IsCalled
<1>3. i # j
  BY <1>1 DEF Passes
<1>4. Chain[dp][i].kind \notin Breakers
  BY <1>1, <1>2, <1>3 DEF SplittersReached, HelloInv, IInv, TypeOK
<1> QED
  BY <1>1, <1>2, <1>3, <1>4 DEF Passes

LEMMA OtherCallHello ==
    ASSUME SplittersReached, HelloInv, CallOnce \/ CallRisky \/ CallOrchestrator
    PROVE  HelloInv' /\ (OnceInv => OnceInv')
<1>0. IInv'
  BY NextGood DEF HelloInv, Next
<1>1. PICK i \in DOMAIN Chain[dp] : IsCalled(i) /\ CallOf(i) /\ Passes(i)
  BY OtherCall DEF HelloInv, IInv
<1>2. /\ UNCHANGED <<dp, l7, named, delayed, replay, replay_drop, ledger>>
      /\ run'.pkt = run.pkt /\ run' \in Runs /\ run' # Idle /\ Running' /\ Running
  BY <1>1, RunsNotIdle DEF CallOf, Passes, Running, IsCalled
<1>3. SplittersOpen'
  <2>1. PICK dirs \in SUBSET Dir : CutOff(i, dirs)
    BY <1>1 DEF CallOf
  <2>2. ASSUME NEW p \in Profile, NEW j \in DOMAIN Chain[p], IsSplit(p, j)
        PROVE  <<p, j, "out">> \notin instance_cutoff' \cup cutoff_shim'
    <3>1. ~ (p = dp /\ j = i)
      BY <1>1, <2>2 DEF Passes
    <3>2. \A d \in dirs : <<dp, i, d>> # <<p, j, "out">>
      BY <3>1
    <3> QED
      BY <2>1, <2>2, <3>2 DEF CutOff, HelloInv, SplittersOpen
  <2> QED
    BY <2>2 DEF SplittersOpen, IsSplit
<1>4. LedgerOK' /\ QueueSorted' /\ Settled' /\ HelloSurvives'
  BY <1>2 DEF HelloInv, LedgerOK, QueueSorted, Settled, HelloSurvives
<1>5. PartGood'
  BY <1>2 DEF HelloInv, PartGood, Running
<1>6. SendersWant'
  BY <1>2 DEF HelloInv, SendersWant, IsSplit
<1>7. Replayed(run.pkt) /\ Ahead => Ahead'
  BY <1>1, <1>2, AheadStays
<1>8. ~ Replayed(run.pkt) => ledger.sent = {}
  BY <1>2 DEF HelloInv, PartGood, Blank
<1>9. FlagGood'
  BY <1>1, <1>2, <1>7, <1>8 DEF HelloInv, FlagGood, Passes
<1>10. ASSUME OnceInv PROVE OnceGood' /\ SentOnce'
  <2>1. Dropping' <=> Dropping
    BY <1>2 DEF Dropping
  <2>2. OnceGood'
    BY <1>1, <1>2, <1>7, <1>10, <2>1 DEF OnceInv, OnceGood, Passes
  <2> QED
    BY <1>2, <1>10, <2>2 DEF OnceInv, SentOnce
<1> QED
  BY <1>0, <1>3, <1>4, <1>5, <1>6, <1>9, <1>10 DEF HelloInv, OnceInv

(* Parts, the queue behind them, and what is the first and the last.       *)
LEMMA PartsLeft ==
    ASSUME HelloInv, Running, Replayed(run.pkt)
    PROVE  /\ LastPart(run.pkt) <=> delayed = <<>>
           /\ FirstPart(run.pkt) <=> run.pkt.part = 1
           /\ run.pkt.part = 1 => delayed # <<>>
<1>1. /\ replay # NoReplay /\ run.pkt.count = replay.count /\ replay.count >= 2
      /\ run.pkt.part = replay.count - Len(delayed)
  BY DEF HelloInv, PartGood
<1>2. replay.count \in Nat /\ delayed \in Seq(Position)
  BY <1>1 DEF HelloInv, IInv, TypeOK
<1>3. Len(delayed) \in Nat /\ (Len(delayed) = 0 <=> delayed = <<>>)
  BY <1>2
<1> QED
  BY <1>1, <1>2, <1>3 DEF LastPart, FirstPart

(* A splitter's call.                                                      *)
LEMMA SplitHello ==
    ASSUME SplittersReached, HelloInv, CallSplit
    PROVE  HelloInv' /\ (CopiesComeLast /\ OnceInv => OnceInv')
<1>0. /\ IInv' /\ run \in Runs /\ Running /\ dp \in Profile /\ replay_drop \in BOOLEAN
      /\ run.verdict \in Verdict
  BY NextGood DEF HelloInv, Next, IInv, TypeOK, CallSplit, Running, Runs
<1>1. PICK j \in Calls("split") :
         /\ CutOff(j, {"in"})
         /\ \/ ~ Splits(run.pkt) /\ LeavesAlone(j)
            \/ Splits(run.pkt) /\ FirstPart(run.pkt) /\ SendsWhole(j)
            \/ Splits(run.pkt) /\ FirstPart(run.pkt) /\ LeavesAlone(j)
            \/ Splits(run.pkt) /\ DropsPart(j)
  BY DEF CallSplit
<1>2. IsCalled(j) /\ IsSplit(dp, j) /\ j \in DOMAIN Chain[dp] /\ j \in Nat \ {0}
  BY <1>0, CallsUpcoming DEF HelloInv, IInv, IsCalled, IsSplit
<1>3. ASSUME NEW v \in Verdict, run' = Returns(j, v)
      PROVE  /\ run' # Idle /\ run'.pkt = run.pkt /\ run'.at = j + 1
             /\ run'.fault = run.fault
             /\ run'.verdict = "DROP" <=> (run.verdict = "DROP" \/ v = "DROP")
  BY <1>0, <1>2, <1>3, ReturnsType, ReturnsVerdict, RunsNotIdle
<1>4. "PASS" \in Verdict /\ "PASS" # "DROP" /\ SplitVerdict(j) \in Verdict
      /\ (SplitVerdict(j) = "DROP" <=> ~ Chain[dp][j].nodrop)
  BY DEF Verdict, SplitVerdict
<1>5. \E v \in Verdict : run' = Returns(j, v)
  BY <1>1, <1>4 DEF SendsWhole, LeavesAlone, DropsPart
<1>6. /\ UNCHANGED <<dp, l7, named, delayed, replay>>
      /\ run' # Idle /\ Running' /\ run'.pkt = run.pkt /\ run'.fault = run.fault
  BY <1>3, <1>5 DEF CallSplit, Running
<1>7. /\ ledger' \in [sent : SUBSET Nat, lost : SUBSET Nat, passed : SUBSET Nat,
                       erred : SUBSET Nat]
      /\ ledger'.lost = ledger.lost /\ ledger'.passed = ledger.passed
      /\ ledger.sent \subseteq ledger'.sent
      /\ ledger'.sent \subseteq ledger.sent \cup {j}
      /\ ~ Replayed(run.pkt) => ledger' = ledger
  BY <1>1, <1>2 DEF HelloInv, LedgerOK, SendsWhole, LeavesAlone, DropsPart
<1>8. SplittersOpen'
  <2>1. ASSUME NEW p \in Profile, NEW k \in DOMAIN Chain[p], IsSplit(p, k)
        PROVE  <<p, k, "out">> \notin instance_cutoff' \cup cutoff_shim'
    BY <1>1, <2>1 DEF CutOff, HelloInv, SplittersOpen
  <2> QED
    BY <2>1 DEF SplittersOpen, IsSplit
<1>9. LedgerOK' /\ QueueSorted' /\ Settled' /\ HelloSurvives'
  BY <1>6, <1>7 DEF HelloInv, LedgerOK, QueueSorted, Settled, HelloSurvives
<1>10. PartGood'
  BY <1>0, <1>6, <1>7 DEF HelloInv, PartGood, Running
<1>11. CASE ~ Replayed(run.pkt)
  <2>1. ledger' = ledger /\ ledger.sent = {} /\ ~ replay_drop
    BY <1>0, <1>7, <1>11 DEF HelloInv, PartGood, FlagGood, Blank
  <2>2. ~ replay_drop'
    BY <1>1, <1>11, <2>1 DEF SendsWhole, LeavesAlone, DropsPart
  <2>3. SendersWant' /\ FlagGood' /\ OnceGood' /\ SentOnce'
    BY <1>6, <1>11, <2>1, <2>2 DEF SendersWant, FlagGood, OnceGood, SentOnce
  <2> QED
    BY <1>0, <1>8, <1>9, <1>10, <2>3 DEF HelloInv, OnceInv
<1>12. CASE Replayed(run.pkt)
  <2>0. /\ run.pkt.dir = "out" /\ run.pkt.payload = "hello" /\ Splits(run.pkt)
        /\ \A i \in 1 .. Len(delayed) : NoLater(run.pkt.tpos, delayed[i])
    BY <1>0, <1>12 DEF HelloInv, PartGood, Splits
  <2>1. /\ LastPart(run.pkt) <=> delayed = <<>>
        /\ FirstPart(run.pkt) <=> run.pkt.part = 1
        /\ run.pkt.part = 1 => delayed # <<>>
    BY <1>0, <1>12, PartsLeft
  <2>2. SendersWant'
    <3>1. /\ "hello" \in Chain[dp][j].payload
          /\ CheckFrom(Chain[dp][j].from["out"], run.pkt.tpos)
      BY <1>2, <2>0 DEF IsCalled, Callable, InRange
    <3>2. Chain[dp][j].from["out"] \in Bound
      <4>1. Chain[dp][j] \in Instance /\ "out" \in Dir
        BY <1>0, <1>2, ChainType DEF Dir
      <4> QED
        BY <4>1 DEF Instance
    <3>3. run.pkt.tpos \in Position /\ delayed \in Seq(Position)
      BY <1>0 DEF Runs, Packet, HelloInv, IInv, TypeOK
    <3>4. \A i \in 1 .. Len(delayed) : CheckFrom(Chain[dp][j].from["out"], delayed[i])
      BY <2>0, <3>1, <3>2, <3>3, FromStays
    <3>5. \A k \in ledger'.sent : k \in ledger.sent \/ k = j
      BY <1>7
    <3> QED
      BY <1>0, <1>2, <1>6, <3>1, <3>4, <3>5 DEF HelloInv, SendersWant, IsSplit
  <2>3. CASE SendsWhole(j) /\ run.pkt.part = 1
    <3>1. replay_drop' /\ j \in ledger'.sent /\ ledger'.sent = ledger.sent \cup {j}
      BY <1>7, <1>12, <2>3 DEF SendsWhole, HelloInv, LedgerOK
    <3>2. run'.verdict = "DROP" <=> (run.verdict = "DROP" \/ ~ Chain[dp][j].nodrop)
      BY <1>3, <1>4, <2>3 DEF SendsWhole
    <3>3. FlagGood'
      BY <1>6, <2>1, <2>3, <3>1 DEF FlagGood
    <3>4. ASSUME OnceInv PROVE OnceGood' /\ SentOnce'
      <4>1. ledger'.passed = {}
        BY <1>0, <1>7, <1>12, <2>3, <3>4 DEF OnceInv, OnceGood
      <4>2. Dropping => run.verdict = "DROP" \/ run.fault
        BY <1>0, <1>12, <2>3, <3>4 DEF OnceInv, OnceGood
      <4>3. Dropping' => Dropping \/ ~ Chain[dp][j].nodrop
        BY <1>6, <3>1 DEF Dropping
      <4>4. OnceGood'
        BY <1>6, <3>1, <3>2, <4>1, <4>2, <4>3 DEF OnceGood
      <4> QED
        BY <4>1, <4>4 DEF SentOnce
    <3> QED
      BY <1>0, <1>8, <1>9, <1>10, <2>2, <3>3, <3>4 DEF HelloInv, OnceInv
  <2>4. CASE LeavesAlone(j) /\ run.pkt.part = 1
    <3>1. replay_drop' = replay_drop /\ ledger' = ledger
      BY <2>4 DEF LeavesAlone
    <3>2. run'.verdict = "DROP" <=> run.verdict = "DROP"
      BY <1>3, <1>4, <2>4 DEF LeavesAlone
    <3>3. FlagGood'
      BY <1>0, <1>6, <1>12, <2>1, <2>4, <3>1, <3>2 DEF HelloInv, FlagGood
    <3>4. ASSUME OnceInv PROVE OnceGood' /\ SentOnce'
      <4>1. Dropping' <=> Dropping
        BY <1>6, <3>1 DEF Dropping
      <4>2. OnceGood'
        BY <1>0, <1>6, <1>12, <2>4, <3>1, <3>2, <3>4, <4>1 DEF OnceInv, OnceGood
      <4> QED
        BY <1>6, <3>1, <3>4, <4>2 DEF OnceInv, SentOnce
    <3> QED
      BY <1>0, <1>8, <1>9, <1>10, <2>2, <3>3, <3>4 DEF HelloInv, OnceInv
  <2>5. CASE DropsPart(j)
    <3>1. ledger' = ledger /\ (replay_drop' <=> replay_drop /\ delayed # <<>>)
      BY <1>0, <1>12, <2>1, <2>5 DEF DropsPart, KeepsDrop
    <3>2. run'.verdict = "DROP" <=>
             (run.verdict = "DROP" \/ (replay_drop /\ ~ Chain[dp][j].nodrop))
      BY <1>3, <1>4, <1>12, <2>5 DEF DropsPart
    <3>3. FlagGood'
      BY <1>0, <1>6, <1>12, <2>1, <3>1, <3>2 DEF HelloInv, FlagGood
    <3>4. ASSUME OnceInv, CopiesComeLast PROVE OnceGood' /\ SentOnce'
      <4>1. Dropping' <=> Dropping
        BY <1>6, <3>1 DEF Dropping
      <4>2. ASSUME Dropping, replay_drop, Ahead PROVE ~ Chain[dp][j].nodrop
        <5>1. PICK k \in ledger.sent : ~ Chain[dp][k].nodrop
          BY <4>2 DEF Dropping
        <5>2. k \in Upcoming /\ k \in DOMAIN Chain[dp] /\ IsSplit(dp, k) /\ k \in Nat
          BY <1>0, <1>12, <4>2, SenderIsUpcoming DEF Ahead
        <5>3. j <= k
          BY <1>2, <5>2 DEF IsCalled
        <5> QED
          BY <1>0, <1>2, <3>4, <5>1, <5>2, <5>3 DEF CopiesComeLast
      <4>3. Dropping => run'.verdict = "DROP" \/ run'.fault
        BY <1>0, <1>6, <1>12, <3>2, <3>4, <4>2 DEF OnceInv, OnceGood
      <4>4. OnceGood'
        BY <1>0, <1>6, <1>12, <3>1, <3>4, <4>1, <4>3 DEF OnceInv, OnceGood
      <4> QED
        BY <1>6, <3>1, <3>4, <4>4 DEF OnceInv, SentOnce
    <3> QED
      BY <1>0, <1>8, <1>9, <1>10, <2>2, <3>3, <3>4 DEF HelloInv, OnceInv
  <2> QED
    BY <1>1, <2>0, <2>1, <2>3, <2>4, <2>5
<1> QED
  BY <1>11, <1>12

(* Packets that are not of a replay: nothing is sent for one, no flag set. *)
LEMMA WaitingHello ==
    ASSUME HelloInv, Waiting
    PROVE  replay = NoReplay /\ run = Idle /\ ledger = Blank /\ ledger.sent = {}
           /\ ~ replay_drop
  BY DEF HelloInv, Waiting, PartGood, FlagGood, Blank

LEMMA LiveHello ==
    ASSUME HelloInv, IInv', Waiting, delayed' = delayed \/ delayed' = <<>>,
           NEW dir, NEW payload, NEW host, Live(dir, payload, host)
    PROVE  HelloInv' /\ (OnceInv => OnceInv')
<1> DEFINE pkt == [dir |-> dir, payload |-> payload, host |-> host, tpos |-> pos'[dir],
                   part |-> 0, count |-> 0]
<1>1. /\ replay' = NoReplay /\ ledger' = Blank /\ ledger'.sent = {} /\ ~ replay_drop'
      /\ ledger = Blank /\ ledger' = ledger
  BY WaitingHello DEF Live, Play
<1>2. PICK at : run' = Starting(pkt, at)
  BY DEF Live, Play, Desync
<1>3. run'.pkt = pkt /\ ~ Replayed(run'.pkt)
  BY <1>2 DEF Starting, Replayed
<1> HIDE DEF pkt
<1>4. SplittersOpen' /\ LedgerOK' /\ HelloSurvives' /\ SentOnce'
  BY <1>1 DEF HelloInv, SplittersOpen, LedgerOK, HelloSurvives, SentOnce, Live, Play, IsSplit,
              Blank
<1>5. QueueSorted'
  <2>1. CASE delayed' = delayed
    BY <2>1 DEF HelloInv, QueueSorted
  <2>2. CASE delayed' = <<>>
    BY <2>2 DEF QueueSorted
  <2> QED
    BY <2>1, <2>2
<1>6. PartGood' /\ Settled' /\ SendersWant' /\ FlagGood' /\ OnceGood'
  BY <1>1, <1>3 DEF PartGood, Settled, SendersWant, FlagGood, OnceGood
<1> QED
  BY <1>4, <1>5, <1>6 DEF HelloInv, OnceInv

(* A part is held behind the others, and the last one starts the replay.   *)
LEMMA HoldHello ==
    ASSUME HelloInv, IInv', HoldPart \/ HoldLastPart
    PROVE  HelloInv' /\ (OnceInv => OnceInv')
<1>1. /\ replay = NoReplay /\ run = Idle /\ ledger = Blank /\ ledger.sent = {} /\ ~ replay_drop
      /\ run' = run /\ ledger' = ledger /\ replay_drop' = replay_drop /\ dp' = dp
      /\ instance_cutoff' = instance_cutoff /\ cutoff_shim' = cutoff_shim
      /\ pos' = Fed("out", "hello") /\ delayed' = Append(delayed, pos'["out"])
  BY WaitingHello DEF HoldPart, HoldLastPart, Hold
<1>2. /\ delayed \in Seq(Position) /\ pos \in [Dir -> Position] /\ pos' \in [Dir -> Position]
      /\ pos["out"] \in Position /\ pos'["out"] \in Position
  BY DEF HelloInv, IInv, TypeOK, Dir
<1>3. NoLater(pos["out"], pos'["out"])
  BY <1>1, FedType DEF HelloInv, IInv, Dir, NoLater
<1>4. /\ Len(delayed) \in Nat /\ Len(delayed') = Len(delayed) + 1
      /\ delayed'[Len(delayed) + 1] = pos'["out"]
      /\ \A i \in 1 .. Len(delayed) : delayed'[i] = delayed[i] /\ delayed[i] \in Position
      /\ delayed' # <<>> /\ (delayed # <<>> => Len(delayed') >= 2)
  <2>1. Len(delayed) \in Nat /\ Len(delayed') = Len(delayed) + 1
    BY <1>1, <1>2
  <2>2. delayed # <<>> => Len(delayed) >= 1
    BY <1>2, <2>1
  <2> QED
    BY <1>1, <1>2, <2>1, <2>2
<1>5. QueueSorted'
  <2> SUFFICES ASSUME NEW i \in 1 .. Len(delayed'), NEW k \in 1 .. Len(delayed'), i < k
               PROVE  NoLater(delayed'[i], delayed'[k])
    BY DEF QueueSorted
  <2>1. i \in 1 .. Len(delayed)
    BY <1>4
  <2>2. CASE k \in 1 .. Len(delayed)
    BY <1>4, <2>1, <2>2 DEF HelloInv, QueueSorted
  <2>3. CASE k = Len(delayed) + 1
    <3>1. NoLater(delayed[i], pos["out"])
      BY <2>1 DEF HelloInv, IInv, QueueGood, NoLater
    <3>2. /\ delayed[i].n \in Nat /\ delayed[i].d \in Nat
          /\ pos["out"].n \in Nat /\ pos["out"].d \in Nat
          /\ pos'["out"].n \in Nat /\ pos'["out"].d \in Nat
      BY <1>2, <1>4, <2>1 DEF Position
    <3>3. NoLater(delayed[i], pos'["out"])
      BY <1>3, <3>1, <3>2 DEF NoLater
    <3> QED
      BY <1>4, <2>1, <2>3, <3>3
  <2> QED
    BY <1>4, <2>2, <2>3
<1>6. SplittersOpen' /\ LedgerOK' /\ HelloSurvives' /\ SentOnce'
  BY <1>1 DEF HelloInv, SplittersOpen, LedgerOK, HelloSurvives, SentOnce, IsSplit, Blank
<1>7. ~ Running'
  BY <1>1 DEF Running
<1>8. replay' = NoReplay \/ \E host \in BOOLEAN : replay' = [count |-> Len(delayed'), host |-> host]
  BY <1>1 DEF HoldPart, HoldLastPart
<1>9. replay' # NoReplay => replay'.count = Len(delayed') /\ replay'.count >= 2
  <2>1. replay' # NoReplay => delayed # <<>>
    BY <1>1 DEF HoldPart, HoldLastPart
  <2> QED
    BY <1>4, <1>8, <2>1
<1>10. PartGood' /\ Settled'
  BY <1>1, <1>4, <1>7, <1>9 DEF PartGood, Settled
<1>11. SendersWant' /\ FlagGood' /\ OnceGood'
  BY <1>1, <1>7 DEF SendersWant, FlagGood, OnceGood
<1> QED
  BY <1>5, <1>6, <1>10, <1>11 DEF HelloInv, OnceInv

(* The replay is over: by then the flag is gone.                           *)
LEMMA EndHello ==
    ASSUME HelloInv, IInv', ReplayEnds
    PROVE  HelloInv' /\ (OnceInv => OnceInv')
<1>1. /\ ledger' = Blank /\ ledger'.sent = {} /\ replay' = NoReplay /\ ~ replay_drop'
      /\ run' = Idle /\ ~ Running' /\ delayed' = delayed /\ delayed = <<>>
      /\ instance_cutoff' = instance_cutoff /\ cutoff_shim' = cutoff_shim
  BY DEF ReplayEnds, HelloInv, FlagGood, Blank, Running
<1>2. SplittersOpen' /\ LedgerOK' /\ HelloSurvives' /\ SentOnce' /\ QueueSorted'
  BY <1>1 DEF HelloInv, SplittersOpen, LedgerOK, HelloSurvives, SentOnce, QueueSorted, IsSplit,
              Blank
<1>3. PartGood' /\ Settled' /\ SendersWant' /\ FlagGood' /\ OnceGood'
  BY <1>1 DEF PartGood, Settled, SendersWant, FlagGood, OnceGood
<1> QED
  BY <1>2, <1>3 DEF HelloInv, OnceInv

(* The verdict: a flag that survives the last part would leave a sender    *)
(* that the chain has not come to.                                         *)
LEMMA FinishHello ==
    ASSUME SplittersReached, HelloInv, IInv', Finish
    PROVE  HelloInv' /\ (OnceInv => OnceInv')
<1>0. Running /\ run \in Runs /\ Upcoming = {}
  BY DEF Finish, Running, HelloInv, IInv, TypeOK
<1>1. /\ run' = Idle /\ ~ Running' /\ ledger'.sent = ledger.sent
      /\ LedgerOK'
      /\ ledger'.lost # ledger.lost => Replayed(run.pkt) /\ run.verdict = "DROP"
      /\ ledger.erred \subseteq ledger'.erred
      /\ ledger'.passed # ledger.passed =>
            /\ Replayed(run.pkt) /\ run.verdict # "DROP"
            /\ run.fault => ledger'.passed = ledger.passed \cup {run.pkt.part}
                            /\ run.pkt.part \in ledger'.erred
      /\ ~ Replayed(run.pkt) => ledger' = ledger
      /\ UNCHANGED <<dp, l7, named, instance_cutoff, cutoff_shim, replay_drop, delayed, replay>>
  <2>1. run.pkt.part \in Nat
    BY <1>0 DEF Runs, Packet
  <2> QED
    BY <1>0, <2>1 DEF Finish, Running, HelloInv, LedgerOK
<1>2. Replayed(run.pkt) /\ Ahead => ledger.sent = {}
  BY <1>0, SenderIsUpcoming DEF Ahead
<1>3. SplittersOpen' /\ QueueSorted' /\ Settled' /\ SendersWant'
  BY <1>1 DEF HelloInv, SplittersOpen, QueueSorted, Settled, SendersWant, IsSplit
<1>4. HelloSurvives'
  BY <1>0, <1>1 DEF HelloInv, HelloSurvives, FlagGood
<1>5. PartGood'
  BY <1>0, <1>1 DEF HelloInv, PartGood, Running
<1>6. FlagGood'
  <2>1. ASSUME replay_drop PROVE delayed # <<>>
    <3>1. Replayed(run.pkt)
      BY <1>0, <2>1 DEF HelloInv, PartGood, FlagGood, Blank
    <3>2. ~ LastPart(run.pkt)
      BY <1>0, <1>2, <2>1, <3>1 DEF HelloInv, FlagGood
    <3> QED
      BY <1>0, <3>1, <3>2, PartsLeft
  <2> QED
    BY <1>1, <2>1 DEF HelloInv, FlagGood
<1>7. ASSUME OnceInv PROVE OnceGood' /\ SentOnce'
  <2>1. OnceGood'
    BY <1>1, <1>7 DEF OnceInv, OnceGood
  <2>2. ASSUME Dropping PROVE ledger'.passed = ledger.passed \/ run.fault
    <3>1. ledger.sent # {}
      BY <2>2 DEF Dropping
    <3> QED
      BY <1>0, <1>1, <1>2, <1>7, <2>2, <3>1 DEF OnceInv, OnceGood
  <2>3. ASSUME Dropping PROVE ledger'.passed \subseteq ledger'.erred
    <3>1. ledger.passed \subseteq ledger.erred
      BY <1>7, <2>3 DEF OnceInv, SentOnce, Dropping
    <3> QED
      BY <1>1, <2>2, <2>3, <3>1
  <2> QED
    BY <1>1, <2>1, <2>3 DEF SentOnce, Dropping
<1> QED
  BY <1>1, <1>3, <1>4, <1>5, <1>6, <1>7 DEF HelloInv, OnceInv

(* A part enters.  After the first one the profile stays, and its chain is *)
(* not passed by while a sender wants the part.                            *)
LEMMA PartHello ==
    ASSUME SplittersReached, HelloInv, IInv', ReplayPart
    PROVE  HelloInv' /\ (OnceInv => OnceInv')
<1> DEFINE pkt == [dir |-> "out", payload |-> "hello", host |-> replay.host,
                   tpos |-> Head(delayed), part |-> PartNumber, count |-> replay.count]
<1>1. /\ run = Idle /\ replay # NoReplay /\ delayed # <<>> /\ delayed' = Tail(delayed)
      /\ Play(pkt) /\ UNCHANGED <<pos, replay, ledger>>
      /\ UNCHANGED <<instance_cutoff, cutoff_shim, replay_drop>>
  BY DEF ReplayPart, Play
<1>2. /\ delayed \in Seq(Position) /\ replay.count \in Nat /\ replay.count >= 2
      /\ Len(delayed) <= replay.count /\ dp \in Profile
  BY <1>1 DEF HelloInv, IInv, TypeOK, PartGood, QueueGood
<1>3. /\ Len(delayed) \in Nat /\ Len(delayed) >= 1 /\ Head(delayed) = delayed[1]
      /\ Len(delayed') = Len(delayed) - 1
      /\ \A i \in 1 .. Len(delayed') : delayed'[i] = delayed[i + 1] /\ i + 1 \in 1 .. Len(delayed)
                                       /\ 1 < i + 1
  BY <1>1, <1>2
<1>4. PICK p \in Profile : /\ p # dp => Discovers(pkt)
                           /\ dp' = p /\ Desync(pkt, p, DpChanged(p))
  BY <1>1 DEF Play
<1>5. /\ pkt.dir = "out" /\ pkt.payload = "hello" /\ pkt.host = replay.host
      /\ pkt.tpos = delayed[1] /\ pkt.part = PartNumber /\ pkt.count = replay.count
      /\ Replayed(pkt)
  BY <1>2, <1>3 DEF Replayed
<1>6. PartNumber = replay.count - Len(delayed')
      /\ (PartNumber = 1 <=> Len(delayed) = replay.count) /\ PartNumber >= 1
      /\ Len(delayed') < replay.count
  BY <1>2, <1>3 DEF PartNumber
<1> HIDE DEF pkt
<1>7. l7' = "discovered" /\ (pkt.host => named')
  BY <1>1, <1>5 DEF Play, TellsL7
<1>8. PICK at : run' = Starting(pkt, at)
                /\ at = IF DpChanged(p)[pkt.dir] \/ AllCutOff(p, pkt) THEN Len(Chain[p]) + 1 ELSE 1
  BY <1>4 DEF Desync
<1>9. /\ run'.pkt = pkt /\ run'.at = at /\ run'.verdict = "PASS" /\ run' # Idle /\ Running'
  <2>1. run'.pkt = pkt /\ run'.at = at /\ run'.verdict = "PASS"
    BY <1>8 DEF Starting
  <2>2. "pkt" \in DOMAIN run' /\ "pkt" \notin DOMAIN Idle
    BY <1>8 DEF Starting, Idle
  <2> QED
    BY <2>1, <2>2 DEF Running
<1>10. ASSUME ledger.sent # {} PROVE dp' = dp /\ run'.at = 1 /\ PartNumber > 1
  <2>1. Len(delayed) < replay.count
    BY <1>1, <1>2, <1>3, <1>10 DEF HelloInv, PartGood, Blank
  <2>2. l7 = "discovered" /\ (replay.host => named)
    BY <1>1, <2>1 DEF HelloInv, Settled
  <2>3. ~ Discovers(pkt)
    BY <1>5, <2>2 DEF Discovers
  <2>4. p = dp
    BY <1>4, <2>3
  <2>5. PICK j \in ledger.sent : TRUE
    BY <1>10
  <2>6. j \in DOMAIN Chain[dp] /\ IsSplit(dp, j)
    BY <2>5 DEF HelloInv, SendersWant
  <2>7. <<dp, j, "out">> \notin instance_cutoff /\ Chain[dp][j].to["out"].mode = "a"
    BY <1>2, <2>6 DEF HelloInv, SplittersOpen, SplittersReached
  <2>8. \A ps : ~ Beyond(Chain[dp][j], "out", ps)
    BY <2>7 DEF Beyond, CheckTo
  <2>9. "out" \in Dir
    BY DEF Dir
  <2>10. ~ lua_cutoff["out"]
    BY <2>6, <2>7, <2>8, <2>9 DEF HelloInv, IInv, CutoffHidesNothing
  <2>11. ~ AllCutOff(dp, pkt)
    BY <1>5, <2>6, <2>7, <2>8 DEF AllCutOff
  <2>12. at = 1
    BY <1>5, <1>8, <2>4, <2>10, <2>11 DEF DpChanged
  <2>13. PartNumber > 1
    BY <1>2, <1>3, <2>1 DEF PartNumber
  <2> QED
    BY <1>4, <1>9, <2>4, <2>12, <2>13
<1>11. ASSUME ledger.sent # {} PROVE Ahead'
  <2>1. \A j \in ledger.sent : j \in Nat /\ 1 <= j
    BY <1>2, ChainType DEF HelloInv, SendersWant
  <2> QED
    BY <1>1, <1>10, <1>11, <2>1 DEF Ahead
<1>12. SplittersOpen' /\ LedgerOK' /\ HelloSurvives'
  BY <1>1 DEF HelloInv, SplittersOpen, LedgerOK, HelloSurvives, IsSplit
<1>13. QueueSorted'
  <2> SUFFICES ASSUME NEW i \in 1 .. Len(delayed'), NEW k \in 1 .. Len(delayed'), i < k
               PROVE  NoLater(delayed'[i], delayed'[k])
    BY DEF QueueSorted
  <2>1. i + 1 < k + 1
    OBVIOUS
  <2> QED
    BY <1>3, <2>1 DEF HelloInv, QueueSorted
<1>14. \A i \in 1 .. Len(delayed') : NoLater(pkt.tpos, delayed'[i])
  BY <1>3, <1>5 DEF HelloInv, QueueSorted
<1>15. PartGood'
  BY <1>1, <1>2, <1>5, <1>6, <1>9, <1>14 DEF HelloInv, PartGood
<1>16. Settled'
  BY <1>1, <1>5, <1>7 DEF Settled
<1>17. SendersWant'
  <2>1. ASSUME NEW j \in ledger.sent
        PROVE  /\ j \in DOMAIN Chain[dp] /\ IsSplit(dp, j) /\ "hello" \in Chain[dp][j].payload
               /\ \A i \in 1 .. Len(delayed') : CheckFrom(Chain[dp][j].from["out"], delayed'[i])
               /\ CheckFrom(Chain[dp][j].from["out"], pkt.tpos)
    BY <1>3, <1>5 DEF HelloInv, SendersWant
  <2> QED
    BY <1>1, <1>9, <1>10, <2>1 DEF SendersWant, IsSplit
<1>18. FlagGood'
  BY <1>1, <1>9, <1>11 DEF HelloInv, FlagGood
<1>19. ASSUME OnceInv PROVE OnceGood' /\ SentOnce'
  <2>1. Dropping' => Dropping /\ ledger.sent # {}
    BY <1>1, <1>10 DEF Dropping
  <2>2. ledger.sent # {} => replay_drop
    BY <1>1, <1>19 DEF OnceInv, OnceGood
  <2>3. PartNumber = 1 => ledger.passed = {}
    BY <1>1, <1>6 DEF HelloInv, PartGood, Blank
  <2>4. OnceGood'
    BY <1>1, <1>5, <1>9, <1>10, <1>11, <2>1, <2>2, <2>3 DEF OnceGood
  <2>5. SentOnce'
    BY <1>1, <1>10, <1>19 DEF OnceInv, SentOnce
  <2> QED
    BY <2>4, <2>5
<1> QED
  BY <1>12, <1>13, <1>15, <1>16, <1>17, <1>18, <1>19 DEF HelloInv, OnceInv

LEMMA HelloInit == Init => OnceInv
<1> SUFFICES ASSUME Init PROVE OnceInv
  OBVIOUS
<1>1. /\ IInv /\ ledger = Blank /\ ledger.sent = {} /\ ~ replay_drop /\ run = Idle
      /\ replay = NoReplay /\ delayed = <<>> /\ instance_cutoff = {} /\ cutoff_shim = {}
  BY InitGood DEF Init, Blank
<1>2. LedgerOK /\ SplittersOpen /\ QueueSorted /\ HelloSurvives /\ SentOnce
  BY <1>1 DEF LedgerOK, Blank, SplittersOpen, QueueSorted, HelloSurvives, SentOnce
<1>3. PartGood /\ Settled /\ SendersWant /\ FlagGood /\ OnceGood
  BY <1>1 DEF PartGood, Running, Settled, SendersWant, FlagGood, OnceGood
<1> QED
  BY <1>1, <1>2, <1>3 DEF OnceInv, HelloInv

LEMMA HelloNext ==
    ASSUME SplittersReached, HelloInv, [Next]_vars
    PROVE  HelloInv' /\ (CopiesComeLast /\ OnceInv => OnceInv')
<1>0. IInv'
  BY NextGood DEF HelloInv
<1>1. CASE ServerPacket \/ ClientPacket \/ ReasmFails
  <2>1. /\ Waiting /\ (delayed' = delayed \/ delayed' = <<>>)
        /\ \E dir, payload, host : Live(dir, payload, host)
    BY <1>1 DEF ServerPacket, ClientPacket, ReasmFails
  <2> QED
    BY <1>0, <2>1, LiveHello
<1>2. CASE HoldPart \/ HoldLastPart
  BY <1>0, <1>2, HoldHello
<1>3. CASE ReplayPart
  BY <1>0, <1>3, PartHello
<1>4. CASE ReplayEnds
  BY <1>0, <1>4, EndHello
<1>5. CASE CallOnce \/ CallRisky \/ CallOrchestrator
  BY <1>5, OtherCallHello
<1>6. CASE CallSplit
  BY <1>6, SplitHello
<1>7. CASE Finish
  BY <1>0, <1>7, FinishHello
<1>8. CASE UNCHANGED vars
  <2>1. HelloInv'
    BY <1>0, <1>8 DEF vars, HelloInv, LedgerOK, SplittersOpen, QueueSorted, PartGood, Settled,
       SendersWant, FlagGood, HelloSurvives, Running, Ahead, IsSplit
  <2>2. OnceInv => OnceInv'
    BY <1>8, <2>1 DEF vars, OnceInv, OnceGood, SentOnce, Dropping, Running, Ahead
  <2> QED
    BY <2>1, <2>2
<1> QED
  BY <1>1, <1>2, <1>3, <1>4, <1>5, <1>6, <1>7, <1>8 DEF Next

(* Where every part comes to every splitter, a part of a hello is only      *)
(* dropped if a splitter has sent the whole in this very replay            *)
(* (replay_drop of lua/zapret-lib.lua), whatever the number of parts and    *)
(* splitters and wherever discoveries lead.                                *)
THEOREM HellosSurvive ==
    ASSUME SplittersReached
    PROVE  Spec => []HelloSurvives
<1>1. Init => HelloInv
  BY HelloInit DEF OnceInv
<1>2. HelloInv /\ [Next]_vars => HelloInv'
  BY HelloNext
<1>3. HelloInv => HelloSurvives
  BY DEF HelloInv
<1> QED
  BY <1>1, <1>2, <1>3, PTL DEF Spec

(* With the splitters that pass what they sent behind those that drop it,  *)
(* nothing that was sent whole leaves a second time but the parts whose    *)
(* own run ended with an instance's error: an error in one part does not   *)
(* make the later ones pass.                                               *)
THEOREM HellosAreSentOnce ==
    ASSUME SplittersReached, CopiesComeLast
    PROVE  Spec => []SentOnce
<1>1. OnceInv /\ [Next]_vars => OnceInv'
  BY HelloNext DEF OnceInv
<1>2. OnceInv => SentOnce
  BY DEF OnceInv
<1> QED
  BY <1>1, <1>2, HelloInit, PTL DEF Spec
=============================================================================
