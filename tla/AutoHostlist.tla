---------------------------- MODULE AutoHostlist ----------------------------
(***************************************************************************)
(* The failure detector of nfqws2 and the host lists it fills: per tracked *)
(* connection the choice of a profile, the host list check and the verdict *)
(* on the connection (nfq2/desync.c); per profile the failure counters     *)
(* (nfq2/pools.c); the list files, which others write to at the same time; *)
(* SIGHUP, the end of the process and its restart (nfq2/nfqws.c).          *)
(***************************************************************************)
EXTENDS HostLists

CONSTANTS
    Visited,          \* hosts that connections go to
    Entry,            \* hosts that others write to list files (bound)
    Conn,             \* tuples of connections
    L4,               \* per tuple, its protocol: "tcp" or "udp"
    FitsOf,           \* per L4 protocol and whether L7 is known, the
                      \*   profiles whose filters pass the connection
    FailThreshold,    \* --hostlist-auto-fail-threshold
    FailTime,         \* --hostlist-auto-fail-time
    RetransThreshold, \* --hostlist-auto-retrans-threshold
    UdpOut, UdpIn,    \* --hostlist-auto-udp-out, --hostlist-auto-udp-in
    EditorRaces,      \* whether a file may change between two steps of a write
    MaxEdits,         \* changes others make to list files (bound)
    MaxNow            \* seconds a run lasts (bound)

ASSUME AutoHostlistAssumption ==
    /\ Visited \subseteq Host /\ Entry \subseteq Host /\ IsFiniteSet(Entry)
    /\ FailThreshold \in Nat \ {0} /\ FailTime \in Nat \ {0}
    /\ RetransThreshold \in Nat \ {0, 1}
    /\ UdpOut \in Nat /\ UdpIn \in Nat
    /\ L4 \in [Conn -> {"tcp", "udp"}]
    /\ EditorRaces \in BOOLEAN /\ MaxEdits \in Nat /\ MaxNow \in Nat
    /\ \A l4 \in {"tcp", "udp"}, l7 \in BOOLEAN : FitsOf[l4][l7] \subseteq Profile

VARIABLES
    disk,             \* the list files
    lists,            \* the lists in memory
    fails,            \* per profile, its hostlist_auto_fail_counters
    purged,           \* host_fail_purge_prev, one for all profiles
    track,            \* per tuple, the connection's track, or Closed
    adding,           \* the host being written to a list file, or NotAdding
    blind,            \* the list files and signatures that were taken for
                      \*   loaded although the last reload had failed
    up,               \* the process runs
    now, edits,       \* clock; changes of files so far
    judged,           \* per tuple, verdicts passed on its connection
    trail             \* per profile and host, times of the last failures
                      \*   since a success, an addition or the start, at most
                      \*   FailThreshold of them

vars == <<disk, lists, fails, purged, track, adding, blind, up, now, edits, judged, trail>>

Stop == -1            \* RETRANS_COUNTER_STOP
Counters == [expire : Nat, counter : Nat]

\* In a track, sent and rcvd are the packet counters of a UDP connection,
\* told apart up to what the thresholds distinguish.
Track == [l4 : {"tcp", "udp"}, dp : Profile, host : Host \cup {NoHost},
          discovered : BOOLEAN, l7 : BOOLEAN, done : BOOLEAN, result : BOOLEAN,
          excluded : BOOLEAN, ah_check : BOOLEAN, finalized : BOOLEAN,
          retrans : -1 .. RetransThreshold - 1, sent : Nat, rcvd : Nat]
Closed == [l4 |-> "none"]
IsOpen(c) == track[c] # Closed

Adding == [dp : Profile, host : Host, blind : BOOLEAN, stage : {"append", "stat"}]
NotAdding == [stage |-> "none"]

Init ==
    /\ disk = [f \in ListFile |-> [there |-> TRUE, readable |-> TRUE, hosts |-> {},
                                   mtime |-> 1, size |-> 0]]
    /\ lists = AutolistsNonEmpty([f \in ListFile |-> Load(disk, [g \in ListFile |-> Unloaded], f)])
    /\ fails = [p \in Profile |-> <<>>]
    /\ purged = 0 /\ now = 1 /\ edits = 0 /\ up = TRUE
    /\ track = [c \in Conn |-> Closed]
    /\ adding = NotAdding /\ blind = {}
    /\ judged = [c \in Conn |-> 0]
    /\ trail = [p \in Profile |-> [h \in Host |-> <<>>]]

-----------------------------------------------------------------------------
(* The failure counters.                                                   *)

Without(counters, H) == [h \in DOMAIN counters \ H |-> counters[h]]

Expired(counters) == {h \in DOMAIN counters : now >= counters[h].expire}

\* HostFailPoolPurgeRateLimited on the profile of the packet: once a second,
\* whichever profile comes first.
Purged(p) ==
    IF purged = now THEN fails
    ELSE [fails EXCEPT ![p] = Without(@, Expired(@))]

\* HostFailPoolFind, HostFailPoolAdd and the increment.
Counted(counters, h) ==
    [x \in DOMAIN counters \cup {h} |->
        IF x # h THEN counters[x]
        ELSE IF h \in DOMAIN counters THEN [counters[h] EXCEPT !.counter = @ + 1]
        ELSE [expire |-> now + FailTime, counter |-> 1]]

-----------------------------------------------------------------------------
(* One packet of a connection.  Its handler works on the track t, which a  *)
(* first packet creates, and on the lists.                                 *)

\* A new track: the profile is chosen by what is known, the name that the
\* IP cache has for the address included.
New(l4, cached, d) ==
    [lists |-> d.lists,
     t |-> [l4 |-> l4, dp |-> d.dp, host |-> cached,
            discovered |-> FALSE, l7 |-> FALSE, done |-> FALSE, result |-> FALSE,
            excluded |-> FALSE, ah_check |-> FALSE, finalized |-> FALSE,
            retrans |-> 0, sent |-> 0, rcvd |-> 0]]

Opened(l4, cached) == New(l4, cached, DpFind(disk, lists, FitsOf[l4][FALSE], cached))

\* The track of the next packet of c: the one there is, or a new one.
Current(c, cached) ==
    IF IsOpen(c) THEN [lists |-> lists, t |-> track[c]] ELSE Opened(L4[c], cached)

\* The profile is searched again when the application protocol or the host
\* name was discovered by this packet.
Rechosen(t, name, named, known, d) ==
    [lists |-> d.lists,
     t |-> [t EXCEPT !.host = name, !.discovered = @ \/ named, !.l7 = known,
                     !.dp = d.dp, !.done = d.looked, !.result = d.looked,
                     !.excluded = FALSE]]

Researched(ls, t, host, l7) ==
    LET named == host # NoHost /\ ~ t.discovered
        known == t.l7 \/ l7
        name  == IF named THEN host ELSE t.host
    IN  IF ~ named /\ known = t.l7 THEN [lists |-> ls, t |-> t]
        ELSE Rechosen(t, name, named, known, DpFind(disk, ls, FitsOf[t.l4][known], name))

Mut_Observed_Always(ls, t) ==
    [lists |-> ls, t |-> [t EXCEPT !.ah_check = AutoList[t.dp] # NoFile /\ ~ t.excluded]]

\* A host that does not pass is observed where the profile has an auto list.
Observed(ls, t) ==
    [lists |-> ls,
     t |-> IF t.result THEN [t EXCEPT !.retrans = IF t.ah_check THEN Stop ELSE @]
           ELSE [t EXCEPT !.ah_check = AutoList[t.dp] # NoFile /\ ~ t.excluded]]

\* The host list check is made once and kept with the track.
Keep(t, check) ==
    Observed(check.lists, [t EXCEPT !.done = TRUE, !.result = check.pass,
                                    !.excluded = check.excluded])

Checked(ls, t, host) ==
    IF host = NoHost \/ ProfileHostlistsEmpty(ls, t.dp) THEN [lists |-> ls, t |-> t]
    ELSE IF t.done THEN Observed(ls, t)
    ELSE Keep(t, HostlistCheck(disk, ls, t.dp, host))

CheckedIn(r, host) == Checked(r.lists, r.t, host)

Discovered(ls, t, told) == CheckedIn(Researched(ls, t, told.host, told.l7), told.host)

-----------------------------------------------------------------------------
(* The verdicts on a connection.                                           *)

Mut_Judges_Again(t) == t.ah_check /\ t.host # NoHost

\* Connections under observation that no verdict was passed on yet.
Judges(t) == t.ah_check /\ t.host # NoHost /\ ~ t.finalized

Finalized(t) == [t EXCEPT !.finalized = TRUE]
Stopped(t)   == [t EXCEPT !.retrans = Stop]

\* auto_hostlist_retrans: what the client sent is "far" beyond
\* hostlist_auto_retrans_maxseq, or within it "repeated" or "new".
RetransVerdict(t, sent) ==
    IF ~ Judges(t) \/ t.retrans = Stop THEN "none"
    ELSE IF sent = "far" THEN "ok"
    ELSE IF sent = "repeated" /\ t.retrans + 1 >= RetransThreshold THEN "fail" ELSE "none"

AfterRetrans(t, sent) ==
    IF RetransVerdict(t, sent) # "none" THEN Stopped(Finalized(t))
    ELSE IF Judges(t) /\ t.retrans # Stop /\ sent = "repeated"
    THEN [t EXCEPT !.retrans = @ + 1] ELSE t

\* The reply is "far" beyond hostlist_auto_incoming_maxseq; or it is within it
\* and "bad", an RST or a redirection to another domain; or it is neither, the
\* start of the stream included.
ReplyVerdict(t, reply) ==
    IF ~ Judges(t) THEN "none"
    ELSE IF reply = "far" THEN "ok"
    ELSE IF reply = "bad" THEN "fail" ELSE "none"

\* process_udp_fail
UdpVerdict(t) ==
    IF ~ Judges(t) \/ UdpOut = 0 THEN "none"
    ELSE IF t.rcvd > UdpIn THEN "ok"
    ELSE IF t.sent >= UdpOut THEN "fail" ELSE "none"

AfterVerdict(t, v) == IF v = "none" THEN t ELSE Finalized(t)

Mut_Reached_OneShort(counters, h) == Counted(counters, h)[h].counter + 1 >= FailThreshold

Reached(counters, h) == Counted(counters, h)[h].counter >= FailThreshold

Recent(s) == IF Len(s) <= FailThreshold THEN s ELSE Tail(s)

\* The second half of auto_hostlist_failed, up to the write: the lists are
\* looked at again, and the host joins the list in memory.  That they could
\* not be read stops nothing.
Unread(ls, f) == disk[f].there /\ (Stale(disk, ls, f) \/ <<f, ls[f].sig>> \in blind)

AddUnless(check, p, h) ==
    IF check.pass \/ check.excluded
    THEN lists' = check.lists /\ adding' = NotAdding
    ELSE /\ lists' = [check.lists EXCEPT ![AutoList[p]].hosts = @ \cup {h}]
         /\ adding' = [dp |-> p, host |-> h, stage |-> "append",
                        blind |-> Unread(check.lists, AutoList[p])]

\* auto_hostlist_reset_fail_counter
Reset(ls, counters, p, h) ==
    /\ fails' = [counters EXCEPT ![p] = Without(@, {h})]
    /\ lists' = ls /\ adding' = NotAdding
    /\ trail' = [trail EXCEPT ![p][h] = <<>>]

\* auto_hostlist_failed
Failed(ls, counters, p, h) ==
    /\ IF Reached(counters[p], h)
       THEN /\ fails' = [counters EXCEPT ![p] = Without(@, {h})]
            /\ AddUnless(HostlistCheck(disk, ls, p, h), p, h)
       ELSE /\ fails' = [counters EXCEPT ![p] = Counted(@, h)]
            /\ lists' = ls /\ adding' = NotAdding
    /\ trail' = [trail EXCEPT ![p][h] = Recent(Append(@, now))]

\* The end of the handler: t is the track, v the verdict on it.  Counters
\* of the profile the packet came in with, p0, were purged at its start; n
\* verdicts were passed on the connection before.
Finish(c, ls, p0, t, n, v) ==
    /\ track' = [track EXCEPT ![c] = t]
    /\ purged' = now
    /\ judged' = [judged EXCEPT ![c] = n + (IF v = "none" THEN 0 ELSE 1)]
    /\ \/ /\ v = "none"
          /\ lists' = ls /\ fails' = Purged(p0) /\ UNCHANGED <<adding, trail>>
       \/ v = "ok"   /\ Reset(ls, Purged(p0), t.dp, t.host)
       \/ v = "fail" /\ Failed(ls, Purged(p0), t.dp, t.host)
    /\ UNCHANGED <<disk, blind, up, now, edits>>

\* The process waits for a packet.
Ready == up /\ adding = NotAdding

Names == Visited \cup {NoHost}

\* What a payload of either side may tell: a host only with its protocol, and
\* of a known protocol nothing new.
Tells(t) == {told \in [host : Names, l7 : BOOLEAN] : told.host # NoHost \/ t.l7 => told.l7}

\* A handshake packet opens the connection or restarts its track; the name
\* in the IP cache is asked for a SYN only, and without it there is none.
Open(c) ==
    /\ Ready /\ L4[c] = "tcp"
    /\ \E cached \in Names :
          \E o \in {Opened("tcp", cached)} : Finish(c, o.lists, o.t.dp, o.t, 0, "none")

\* A payload of the client: its retransmissions are judged first, then what
\* it tells of the host and the protocol is used.
ClientPayload(c) ==
    /\ Ready /\ IsOpen(c) /\ L4[c] = "tcp"
    /\ \E told \in Tells(track[c]), sent \in {"far", "repeated", "new"} :
          /\ Judges(track[c]) \/ sent = "new"
          /\ \E t \in {AfterRetrans(track[c], sent)} :
             \E d \in {Discovered(lists, t, told)} :
                Finish(c, d.lists, t.dp, d.t, judged[c], RetransVerdict(track[c], sent))

\* A packet of the server; its payload may tell the protocol.
ServerPacket(c) ==
    /\ Ready /\ IsOpen(c) /\ L4[c] = "tcp"
    /\ \E told \in Tells(track[c]), reply \in {"far", "bad", "other"} :
          /\ told.host = NoHost
          /\ Judges(track[c]) \/ reply = "other"
          /\ \E v \in {ReplyVerdict(track[c], reply)} :
             \E d \in {Discovered(lists, AfterVerdict(track[c], v), told)} :
                Finish(c, d.lists, track[c].dp, d.t, judged[c], v)

\* A TCP payload whose handshake was not seen has no track: lists are loaded
\* and counters purged for it, nothing else is kept.
Untracked(c) ==
    /\ Ready /\ ~ IsOpen(c) /\ L4[c] = "tcp"
    /\ \E o \in {Opened("tcp", NoHost)} : \E told \in Tells(o.t) :
          /\ lists' = Discovered(o.lists, o.t, told).lists
          /\ fails' = Purged(o.t.dp)
    /\ purged' = now
    /\ UNCHANGED <<disk, track, adding, blind, up, now, edits, judged, trail>>

Capped(n, bound) == IF n < bound THEN n + 1 ELSE n

\* A UDP packet of either side, the first one included; the name in the IP
\* cache is only asked for the client's.
UdpPacket(c) ==
    /\ Ready /\ L4[c] = "udp"
    /\ \E fromClient \in BOOLEAN, cached \in Names :
          /\ IsOpen(c) \/ ~ fromClient => cached = NoHost
          /\ \E b \in {Current(c, cached)} : \E told \in Tells(b.t) :
             /\ told.host # NoHost => fromClient
             /\ \E t \in {IF fromClient THEN [b.t EXCEPT !.sent = Capped(@, UdpOut)]
                          ELSE [b.t EXCEPT !.rcvd = Capped(@, UdpIn + 1)]} :
                \E d \in {Discovered(b.lists, t, told)} :
                \E v \in {UdpVerdict(d.t)} :
                   Finish(c, d.lists, t.dp, AfterVerdict(d.t, v), judged[c], v)

\* The track is purged: the next packet on the tuple is a new connection's.
Close(c) ==
    /\ Ready /\ IsOpen(c)
    /\ track' = [track EXCEPT ![c] = Closed]
    /\ judged' = [judged EXCEPT ![c] = 0]
    /\ UNCHANGED <<disk, lists, fails, purged, adding, blind, up, now, edits, trail>>

-----------------------------------------------------------------------------
(* The write to the list file, and others who write.                       *)

Written(file, H) ==
    [file EXCEPT !.there = TRUE, !.hosts = (IF file.there THEN @ ELSE {}) \cup H,
                 !.size = (IF file.there THEN @ ELSE 0) + 1, !.mtime = now]

\* append_to_list_file; where it fails nothing more is done.
AppendHost ==
    /\ up /\ adding.stage = "append"
    /\ trail' = [trail EXCEPT ![adding.dp][adding.host] = <<>>]
    /\ \/ /\ disk' = [disk EXCEPT ![AutoList[adding.dp]] = Written(@, {adding.host})]
          /\ adding' = [adding EXCEPT !.stage = "stat"]
       \/ /\ adding' = NotAdding /\ UNCHANGED disk
    /\ UNCHANGED <<lists, fails, purged, track, blind, up, now, edits, judged>>

\* file_mod_signature: the file as it now is counts as loaded.
StatFile ==
    /\ up /\ adding.stage = "stat"
    /\ LET f == AutoList[adding.dp]
       IN  /\ lists' = [lists EXCEPT ![f].sig = IF disk[f].there THEN SigOf(disk[f])
                                                ELSE NoSig]
           /\ blind' = IF adding.blind THEN blind \cup {<<f, lists'[f].sig>>} ELSE blind
    /\ adding' = NotAdding
    /\ UNCHANGED <<disk, fails, purged, track, up, now, edits, judged, trail>>

Rewritten(file, H, r) == [file EXCEPT !.there = TRUE, !.hosts = H, !.readable = r,
                                      !.size = Cardinality(H), !.mtime = now]

Put(f, file) == disk' = [disk EXCEPT ![f] = file]

\* Others append to a file at any time; they rewrite, create or delete one,
\* in another second than that of its last change.
Edit ==
    /\ edits < MaxEdits
    /\ adding = NotAdding \/ EditorRaces
    /\ \E f \in ListFile :
          \/ disk[f].there /\ \E h \in Entry : Put(f, Written(disk[f], {h}))
          \/ /\ now # disk[f].mtime
             /\ \/ \E H \in SUBSET Entry, r \in BOOLEAN : Put(f, Rewritten(disk[f], H, r))
                \/ Put(f, [disk[f] EXCEPT !.there = FALSE])
          \/ Put(f, [disk[f] EXCEPT !.readable = ~ @])
    /\ edits' = edits + 1
    /\ UNCHANGED <<lists, fails, purged, track, adding, blind, up, now, judged, trail>>

Tick ==
    /\ now < MaxNow /\ (adding = NotAdding \/ EditorRaces)
    /\ now' = now + 1
    /\ UNCHANGED <<disk, lists, fails, purged, track, adding, blind, up, edits, judged, trail>>

-----------------------------------------------------------------------------
(* SIGHUP and the process.                                                 *)

\* LoadAllHostLists under lists whose signatures were forgotten.
LoadAll(ls) == [f \in ListFile |-> Load(disk, ls, f)]

AllLoad(ls) == \A f \in ListFile : LoadOk(disk, ls, f)

Forgotten(ls) == [f \in ListFile |-> [ls[f] EXCEPT !.sig = NoSig]]

\* ReloadCheck after SIGHUP, before the next packet is handled.
Hangup ==
    /\ Ready /\ AllLoad(Forgotten(lists))
    /\ lists' = AutolistsNonEmpty(LoadAll(Forgotten(lists)))
    /\ UNCHANGED <<disk, fails, purged, track, adding, blind, up, now, edits, judged, trail>>

\* The process ends: killed at any point, or because a reload failed.
Die ==
    /\ up
    /\ up' = FALSE
    /\ adding' = NotAdding /\ blind' = {}
    /\ track' = [c \in Conn |-> Closed] /\ judged' = [c \in Conn |-> 0]
    /\ fails' = [p \in Profile |-> <<>>] /\ purged' = 0
    /\ lists' = [f \in ListFile |-> Unloaded]
    /\ trail' = [p \in Profile |-> [h \in Host |-> <<>>]]
    /\ UNCHANGED <<disk, now, edits>>

\* It starts where every list file that is there can be read.
Start ==
    /\ ~ up /\ AllLoad(lists)
    /\ up' = TRUE
    /\ lists' = AutolistsNonEmpty(LoadAll(lists))
    /\ UNCHANGED <<disk, fails, purged, track, adding, blind, now, edits, judged, trail>>

Next ==
    \/ \E c \in Conn : \/ Open(c) \/ ClientPayload(c) \/ ServerPacket(c)
                       \/ Untracked(c) \/ UdpPacket(c) \/ Close(c)
    \/ AppendHost \/ StatFile \/ Edit \/ Tick \/ Hangup \/ Die \/ Start

Spec == Init /\ [][Next]_vars

-----------------------------------------------------------------------------
(* The types of the variables.                                             *)
TypeOK ==
    /\ disk \in [ListFile -> File]
    /\ lists \in [ListFile -> List]
    /\ \A p \in Profile : /\ DOMAIN fails[p] \subseteq Host
                          /\ \A h \in DOMAIN fails[p] : fails[p][h] \in Counters
    /\ track \in [Conn -> Track \cup {Closed}]
    /\ adding \in Adding \cup {NotAdding}
    /\ judged \in [Conn -> Nat]
    /\ trail \in [Profile -> [Host -> Seq(Nat)]]
    /\ up \in BOOLEAN /\ purged \in Nat /\ now \in Nat /\ edits \in Nat

(* A list whose signature is the file's has all the hosts of the file, so  *)
(* that the check "up to date" never hides an entry: through reloads,      *)
(* additions, deletions and changes by others, the signature of an         *)
(* addition behind a failed reload excepted.                               *)
NothingMissed ==
    Ready => \A f \in ListFile :
        disk[f].there /\ ~ Stale(disk, lists, f) /\ <<f, lists[f].sig>> \notin blind =>
            disk[f].hosts \subseteq lists[f].hosts

(* A connection counts once: whatever happens on it later, it adds at most *)
(* one failure or resets the counter at most once.                         *)
JudgedOnce == \A c \in Conn : judged[c] <= 1

(* Only connections that no strategy is applied to are observed, and only  *)
(* in a profile that has a list to add to: the flag survives no change of  *)
(* profile that would leave auto_hostlist_failed without a list.           *)
ObservedUntouched ==
    \A c \in Conn : IsOpen(c) /\ track[c].ah_check =>
        /\ track[c].done /\ ~ track[c].result
        /\ AutoList[track[c].dp] # NoFile /\ track[c].host # NoHost

(* A host is added only after FailThreshold connections to it failed since *)
(* the last one that succeeded, in one life of the process.                *)
AddedIsEarned ==
    [][adding'.stage = "append" /\ adding.stage = "none" =>
          Len(trail'[adding'.dp][adding'.host]) >= FailThreshold]_vars

\* The lists of the profile can be read and are not under an excepted signature.
Visible(p) == \A i \in 1 .. Len(Include[p] \o Exclude[p]) :
                  LET f == (Include[p] \o Exclude[p])[i]
                  IN  disk[f].there /\ disk[f].readable /\ <<f, lists[f].sig>> \notin blind

OnDisk(fs, h) == \E i \in 1 .. Len(fs) : disk[fs[i]].hosts \cap Suffixes[h] # {}

(* What is written is neither covered by the include files of the profile  *)
(* already nor excluded by its exclude files, as the files are when it is  *)
(* written: others may have changed them since the connection was checked. *)
WritesNothingListed ==
    [][(adding.stage = "append" /\ disk' # disk /\ Visible(adding.dp)) =>
          /\ ~ OnDisk(Include[adding.dp], adding.host)
          /\ ~ OnDisk(Exclude[adding.dp], adding.host)]_vars

=============================================================================
