----------------------------- MODULE DesyncChain -----------------------------
(***************************************************************************)
(* The chain of Lua instances that every packet of a tracked connection    *)
(* goes through: desync() of nfq2/desync.c and what surrounds its call     *)
(* (the discovery that may change the profile, the packets held until a    *)
(* hello is complete and their replay), the cut-offs of nfq2/lua.c and     *)
(* lua/zapret-lib.lua, the orchestrators that take the rest of the chain   *)
(* over, and the splitters of lua/zapret-antidpi.lua, which send a hello   *)
(* whole and drop its replayed parts.                                      *)
(*                                                                         *)
(* A profile that its host lists do not admit is one with an empty chain.  *)
(* Ranges are by the counters n and d; the modes b, s and p, the packets   *)
(* of untracked connections and a packet that Lua modified beyond repair   *)
(* are left out.  A reassembly that fails sends what it held past Lua:     *)
(* DelayedReasm is about that, here it only empties the queue.             *)
(***************************************************************************)
EXTENDS Naturals, Sequences

CONSTANTS
    NProfile,         \* number of profiles
    Chain,            \* per profile, its instances (dp->lua_desync)
    MaxOut, MaxIn,    \* packets of the client and of the server (bound)
    MaxHeld           \* packets a reassembly holds (bound)

Dir     == {"out", "in"}
Payload == {"empty", "unknown", "hello", "reply"}
Verdict == {"PASS", "MODIFY", "DROP"}
Kind    == {"split", "once", "risky", "orchestrator", "condition"}
Bound   == [mode : {"a", "x", "n", "d"}, pos : Nat]

\* What the command line says of an instance: its function, the payloads and
\* the range it wants per direction, and whether it leaves the packet alone
\* that it replaced.
Instance == [kind : Kind, nodrop : BOOLEAN, payload : SUBSET Payload,
             from : [Dir -> Bound], to : [Dir -> Bound], upper : BOOLEAN]

Profile == 1 .. NProfile

ASSUME ChainAssumption ==
    /\ NProfile \in Nat \ {0} /\ MaxOut \in Nat /\ MaxIn \in Nat /\ MaxHeld \in Nat
    /\ Chain \in [Profile -> Seq(Instance)]

VARIABLES
    dp,               \* profile of the connection
    l7,               \* protocol: "unknown", "known", or "discovered"
    named,            \* hostname_discovered
    pos,              \* per direction, packets and packets with payload
    lua_cutoff,       \* per direction, b_lua_out_cutoff and b_lua_in_cutoff
    instance_cutoff,  \* instances cut off in C: profile, number, direction
    cutoff_shim,      \* the same for calls that an orchestrator makes
    replay_drop,      \* lua_state[replay_drop_key]
    delayed,          \* positions of the held packets
    replay,           \* the replay in progress, or NoReplay
    run,              \* the packet in the chain, or Idle
    asked,            \* every cut-off ever asked for
    ledger            \* what became of the hello in this replay

vars == <<dp, l7, named, pos, lua_cutoff, instance_cutoff, cutoff_shim,
          replay_drop, delayed, replay, run, asked, ledger>>

Position == [n : Nat, d : Nat]
NoReplay == [count |-> 0]
Idle     == [verdict |-> "none"]

\* Nothing was sent whole, no part was dropped or passed, none met an error.
Blank == [sent |-> {}, lost |-> {}, passed |-> {}, erred |-> {}]

Init ==
    /\ dp \in Profile
    /\ l7 = "unknown" /\ named = FALSE
    /\ pos = [d \in Dir |-> [n |-> 0, d |-> 0]]
    /\ lua_cutoff = [d \in Dir |-> FALSE]
    /\ instance_cutoff = {} /\ cutoff_shim = {} /\ asked = {}
    /\ replay_drop = FALSE
    /\ delayed = <<>> /\ replay = NoReplay
    /\ run = Idle /\ ledger = Blank

-----------------------------------------------------------------------------
(* Ranges.                                                                 *)

\* check_pos_from
CheckFrom(b, ps) == b.mode = "a" \/ (b.mode \in {"n", "d"} /\ ps[b.mode] >= b.pos)

\* check_pos_to
CheckTo(b, upper, ps) ==
    \/ b.mode = "a"
    \/ /\ b.mode \in {"n", "d"}
       /\ \/ ps[b.mode] < b.pos
          \/ ~ upper /\ ps[b.mode] = b.pos

InRange(c, dir, ps) == CheckFrom(c.from[dir], ps) /\ CheckTo(c.to[dir], c.upper, ps)

\* check_pos_cutoff: past the upper bound, where no later packet comes back.
Beyond(c, dir, ps) == ~ CheckTo(c.to[dir], c.upper, ps)

-----------------------------------------------------------------------------
(* A packet enters.  In a packet, count is the number of parts of a replay *)
(* and part the one this is; of a packet that is not replayed both are 0.  *)

Packet == [dir : Dir, payload : Payload, host : BOOLEAN, tpos : Position,
           part : Nat, count : Nat]

Replayed(pkt) == pkt.count > 0
LastPart(pkt) == pkt.part >= pkt.count

\* replay_first
FirstPart(pkt) == ~ Replayed(pkt) \/ pkt.part = 1

\* The prescan: no instance of the chain can want a packet of the direction
\* any more.
AllCutOff(p, pkt) ==
    \A j \in DOMAIN Chain[p] :
        \/ <<p, j, pkt.dir>> \in instance_cutoff
        \/ Beyond(Chain[p][j], pkt.dir, pkt.tpos)

Starting(pkt, at) ==
    [pkt |-> pkt, at |-> at, plan |-> FALSE, verdict |-> "PASS", calls |-> <<>>,
     fault |-> FALSE]

\* desync() up to its first call: with the direction cut off, or the chain
\* empty, the packet passes the chain by.
Desync(pkt, p, cut) ==
    LET over == cut[pkt.dir] \/ AllCutOff(p, pkt)
    IN  /\ lua_cutoff' = [cut EXCEPT ![pkt.dir] = over /\ (@ \/ Chain[p] # <<>>)]
        /\ run' = Starting(pkt, IF over THEN Len(Chain[p]) + 1 ELSE 1)

Mut_DpChanged_Nothing(p) == lua_cutoff

\* dp_changed
DpChanged(p) == IF p = dp THEN lua_cutoff ELSE [d \in Dir |-> FALSE]

TellsL7(pkt) == l7 # "unknown" \/ pkt.payload \in {"hello", "reply"}

\* The packet tells the protocol or the host name first: any profile may fit.
Discovers(pkt) == (TellsL7(pkt) /\ l7 # "discovered") \/ (pkt.host /\ ~ named)

Play(pkt) ==
    /\ \E p \in Profile :
          /\ p # dp => Discovers(pkt)
          /\ dp' = p
          /\ Desync(pkt, p, DpChanged(p))
    /\ l7' = IF TellsL7(pkt) THEN "discovered" ELSE l7
    /\ named' = (named \/ pkt.host)
    /\ UNCHANGED <<instance_cutoff, cutoff_shim, asked, replay_drop>>

\* The counters of a direction with one packet more.
Fed(dir, payload) ==
    [pos EXCEPT ![dir] = [n |-> @.n + 1, d |-> @.d + (IF payload = "empty" THEN 0 ELSE 1)]]

Waiting == run = Idle /\ replay = NoReplay

Live(dir, payload, host) ==
    /\ pos' = Fed(dir, payload)
    /\ Play([dir |-> dir, payload |-> payload, host |-> host, tpos |-> pos'[dir],
             part |-> 0, count |-> 0])
    /\ UNCHANGED <<replay, ledger>>

ServerPacket ==
    /\ Waiting /\ pos["in"].n < MaxIn
    /\ \E payload \in {"empty", "unknown", "reply"} : Live("in", payload, FALSE)
    /\ UNCHANGED delayed

\* A packet of the client that is not held: an acknowledgement, or a payload
\* while no hello is being put together.
ClientPacket ==
    /\ Waiting /\ pos["out"].n < MaxOut
    /\ \E payload \in {"empty", "unknown", "hello"}, host \in BOOLEAN :
          /\ delayed # <<>> => payload = "empty"
          /\ host => payload = "hello"
          /\ Live("out", payload, host)
    /\ UNCHANGED delayed

\* A payload that the reassembly does not accept: what is held leaves without
\* Lua, and the packet goes on.
ReasmFails ==
    /\ Waiting /\ pos["out"].n < MaxOut
    /\ delayed # <<>> /\ delayed' = <<>>
    /\ \E payload \in {"unknown", "hello"} : Live("out", payload, FALSE)

\* A part of a hello is held; the protocol is known from the first one on.
Hold ==
    /\ Waiting /\ pos["out"].n < MaxOut
    /\ Len(delayed) < MaxHeld
    /\ pos' = Fed("out", "hello")
    /\ delayed' = Append(delayed, pos'["out"])
    /\ l7' = IF l7 = "unknown" THEN "known" ELSE l7
    /\ UNCHANGED <<dp, named, lua_cutoff, instance_cutoff, cutoff_shim, asked,
                   replay_drop, run>>

\* The part does not complete the hello, or it does: then all parts are
\* played again, each as part of the whole, which may tell a host.
HoldPart == Hold /\ UNCHANGED <<replay, ledger>>

HoldLastPart ==
    /\ delayed # <<>>
    /\ Hold
    /\ \E host \in BOOLEAN : replay' = [count |-> Len(delayed'), host |-> host]
    /\ UNCHANGED ledger

\* Parts are numbered from 1 to the count.
PartNumber == replay.count - Len(delayed) + 1

\* replay_queue, one part; until its run is over nothing else comes in.
ReplayPart ==
    /\ run = Idle /\ replay # NoReplay /\ delayed # <<>>
    /\ Play([dir |-> "out", payload |-> "hello", host |-> replay.host,
             tpos |-> Head(delayed), part |-> PartNumber,
             count |-> replay.count])
    /\ delayed' = Tail(delayed)
    /\ UNCHANGED <<pos, replay, ledger>>

ReplayEnds ==
    /\ run = Idle /\ replay # NoReplay /\ delayed = <<>>
    /\ replay' = NoReplay /\ ledger' = Blank
    /\ UNCHANGED <<dp, l7, named, pos, lua_cutoff, instance_cutoff, cutoff_shim,
                   replay_drop, delayed, run, asked>>

-----------------------------------------------------------------------------
(* The calls.  The loop in C and the plan of an orchestrator pass over the *)
(* same instances under the same filters, each with its own cut-offs.      *)

Mut_CutOffNow_OneTable == instance_cutoff

\* lua_instance_cutoff_check, cutoff_shim_check
CutOffNow == IF run.plan THEN cutoff_shim ELSE instance_cutoff

Callable(j) ==
    /\ <<dp, j, run.pkt.dir>> \notin CutOffNow
    /\ InRange(Chain[dp][j], run.pkt.dir, run.pkt.tpos)
    /\ run.pkt.payload \in Chain[dp][j].payload

Upcoming == {j \in run.at .. Len(Chain[dp]) : Callable(j)}

Running == run # Idle

\* The instance to be called now, if it is of the kind.
Calls(kind) ==
    {j \in Upcoming : Chain[dp][j].kind = kind /\ \A k \in Upcoming : j <= k}

Mut_Stronger_Last(v1, v2) == v2

\* verdict_aggregate, and the switch after lua_pcall
Stronger(v1, v2) ==
    IF "DROP" \in {v1, v2} THEN "DROP" ELSE IF "MODIFY" \in {v1, v2} THEN "MODIFY" ELSE "PASS"

\* The run after the call of j with verdict v.
Returns(j, v) ==
    [run EXCEPT !.at = j + 1, !.verdict = Stronger(@, v), !.calls = Append(@, j)]

\* instance_cutoff_shim: through C where the instance has a context, in the
\* table in lua_state where it was called by an orchestrator.
CutOff(j, dirs) ==
    /\ instance_cutoff' = instance_cutoff \cup (IF run.plan THEN {} ELSE {<<dp, j, d>> : d \in dirs})
    /\ cutoff_shim' = cutoff_shim \cup (IF run.plan THEN {<<dp, j, d>> : d \in dirs} ELSE {})
    /\ asked' = asked \cup {<<dp, j, d>> : d \in dirs}

\* wsize, wssize, synack and others: done with one or both directions after
\* some packet.
CallOnce ==
    /\ Running
    /\ \E j \in Calls("once") : \E v \in {"PASS", "MODIFY"}, dirs \in SUBSET Dir :
          /\ run' = Returns(j, v)
          /\ CutOff(j, dirs)
    /\ UNCHANGED <<dp, l7, named, pos, lua_cutoff, replay_drop, delayed, replay, ledger>>

\* A function that may raise an error: the packet passes unmodified, and the
\* chain ends.
CallRisky ==
    /\ Running
    /\ \E j \in Calls("risky") :
          \/ run' = Returns(j, "PASS")
          \/ run' = [Returns(j, "PASS") EXCEPT !.at = Len(Chain[dp]) + 1,
                                               !.verdict = "PASS", !.fault = TRUE]
    /\ UNCHANGED <<dp, l7, named, pos, lua_cutoff, instance_cutoff, cutoff_shim,
                   replay_drop, delayed, replay, asked, ledger>>

Mut_TakesOver_All(j) == [Returns(j, "PASS") EXCEPT !.plan = TRUE, !.at = 1]

\* orchestrate: the rest of the chain becomes the plan; one that runs in a
\* plan goes on with that plan.
TakesOver(j) == [Returns(j, "PASS") EXCEPT !.plan = TRUE]

\* desync_orchestrator_example; a condition drops the plan when it is false.
CallOrchestrator ==
    /\ Running
    /\ \/ \E j \in Calls("orchestrator") \cup Calls("condition") : run' = TakesOver(j)
       \/ \E j \in Calls("condition") :
             run' = [TakesOver(j) EXCEPT !.at = Len(Chain[dp]) + 1]
    /\ UNCHANGED <<dp, l7, named, pos, lua_cutoff, instance_cutoff, cutoff_shim,
                   replay_drop, delayed, replay, asked, ledger>>

-----------------------------------------------------------------------------
(* The splitters: multisplit, multidisorder, hostfakesplit, fakedsplit and *)
(* fakeddisorder send the payload, of a replay the whole hello, in pieces  *)
(* of their own.                                                           *)

\* A splitter acts on known payloads of the client.
Splits(pkt) == pkt.dir = "out" /\ pkt.payload = "hello"

SplitVerdict(j) == IF Chain[dp][j].nodrop THEN "PASS" ELSE "DROP"

\* Every piece was sent.
SendsWhole(j) ==
    /\ run' = Returns(j, SplitVerdict(j))
    /\ replay_drop' = (replay_drop \/ Replayed(run.pkt))
    /\ ledger' = IF Replayed(run.pkt) THEN [ledger EXCEPT !.sent = @ \cup {j}] ELSE ledger

\* The packet is nothing for a splitter, or a piece could not be sent.
LeavesAlone(j) == run' = Returns(j, "PASS") /\ UNCHANGED <<replay_drop, ledger>>

Mut_KeepsDrop_Always(pkt) == TRUE

\* The flag is for the parts that follow in the same replay.
KeepsDrop(pkt) == Replayed(pkt) /\ ~ LastPart(pkt)

\* replay_drop: a later part, or a payload with no place to split at.
DropsPart(j) ==
    /\ run' = Returns(j, IF Replayed(run.pkt) /\ replay_drop THEN SplitVerdict(j) ELSE "PASS")
    /\ replay_drop' = (replay_drop /\ KeepsDrop(run.pkt))
    /\ UNCHANGED ledger

CallSplit ==
    /\ Running
    /\ \E j \in Calls("split") :
          /\ CutOff(j, {"in"})
          /\ \/ ~ Splits(run.pkt) /\ LeavesAlone(j)
             \/ Splits(run.pkt) /\ FirstPart(run.pkt) /\ SendsWhole(j)
             \/ Splits(run.pkt) /\ FirstPart(run.pkt) /\ LeavesAlone(j)
             \/ Splits(run.pkt) /\ DropsPart(j)
    /\ UNCHANGED <<dp, l7, named, pos, lua_cutoff, delayed, replay>>

\* The verdict of the chain: of a replay, the part leaves or is dropped.  After
\* an error it leaves, whatever the instances before the error returned.
Finish ==
    /\ Running /\ Upcoming = {}
    /\ run' = Idle
    /\ LET part == {run.pkt.part} IN
       ledger' =
          IF ~ Replayed(run.pkt) THEN ledger
          ELSE IF run.verdict = "DROP" THEN [ledger EXCEPT !.lost = @ \cup part]
          ELSE [ledger EXCEPT !.passed = @ \cup part,
                              !.erred = IF run.fault THEN @ \cup part ELSE @]
    /\ UNCHANGED <<dp, l7, named, pos, lua_cutoff, instance_cutoff, cutoff_shim,
                   replay_drop, delayed, replay, asked>>

Next ==
    \/ ServerPacket \/ ClientPacket \/ ReasmFails \/ HoldPart \/ HoldLastPart
    \/ ReplayPart \/ ReplayEnds
    \/ CallOnce \/ CallRisky \/ CallOrchestrator \/ CallSplit \/ Finish

Spec == Init /\ [][Next]_vars

-----------------------------------------------------------------------------
(* Properties.                                                             *)

Runs == [pkt : Packet, at : Nat \ {0}, plan : BOOLEAN, verdict : Verdict, calls : Seq(Nat),
         fault : BOOLEAN]

TypeOK ==
    /\ dp \in Profile
    /\ l7 \in {"unknown", "known", "discovered"} /\ named \in BOOLEAN
    /\ pos \in [Dir -> Position]
    /\ lua_cutoff \in [Dir -> BOOLEAN]
    /\ replay_drop \in BOOLEAN
    /\ delayed \in Seq(Position)
    /\ replay = NoReplay \/ replay \in [count : Nat, host : BOOLEAN]
    /\ run = Idle \/ (run \in Runs /\ run.pkt.part <= run.pkt.count)

(* No instance sees a packet twice, and none sees it before one that       *)
(* stands ahead of it: an orchestrator that takes the rest of the chain    *)
(* over and the loop in C never both run it (execution_plan and            *)
(* execution_plan_cancel in nfq2/lua.c).                                   *)
CalledInOrder ==
    Running => \A k, m \in DOMAIN run.calls : k < m => run.calls[k] < run.calls[m]

(* An instance that cut itself off in a direction is never called for it   *)
(* again, whoever calls, also after the connection left the profile and    *)
(* came back to it.                                                        *)
CutoffIsFinal ==
    [][\A j \in DOMAIN Chain[dp] :
          Running /\ run' # Idle /\ run'.calls = Append(run.calls, j)
          => <<dp, j, run.pkt.dir>> \notin asked]_vars

(* A direction of which the packets pass the chain by is one in which no   *)
(* instance of the profile of now could still want a packet.               *)
CutoffHidesNothing ==
    \A d \in Dir : lua_cutoff[d] =>
        \A j \in DOMAIN Chain[dp] :
            \/ <<dp, j, d>> \in instance_cutoff
            \/ Beyond(Chain[dp][j], d, pos[d])

(* A part of a hello is only dropped where a splitter has sent the whole   *)
(* in this very replay: no byte of the client is lost to a flag that an    *)
(* earlier hello left.                                                     *)
HelloSurvives == ledger.lost # {} => ledger.sent # {}

(* What a splitter without nodrop has sent whole leaves a second time only *)
(* in a part whose own run ended with an instance's error, which passes    *)
(* unmodified whatever was returned before ("desync ERROR", desync.c):     *)
(* every other part of the replay gets VERDICT_DROP (manual.md,            *)
(* multisplit), also the ones after the error.                             *)
SentOnce ==
    (\E j \in ledger.sent : ~ Chain[dp][j].nodrop) => ledger.passed \subseteq ledger.erred

=============================================================================
