------------------------- MODULE AutoHostlistProofs -------------------------
(***************************************************************************)
(* What holds of the failure detector of nfqws2 and the lists it fills, for *)
(* any profiles, lists, thresholds and edits of the list files: a           *)
(* connection is judged at most once, and observed only while no strategy   *)
(* applies to it and its profile has a list to add to; what is added has    *)
(* failed often enough; and, where nobody else writes between the steps of  *)
(* an addition, no entry is missed and nothing is written that is listed.   *)
(***************************************************************************)
EXTENDS AutoHostlist, Lemmas, FiniteSetTheorems

Lists == [ListFile -> List]

(* The list in memory is as old as the file or older, by modification time *)
(* and then size, and where it is not older it holds the file's hosts.     *)
Covers(ls, f) ==
    /\ \/ ls[f].sig.mtime < disk[f].mtime
       \/ ls[f].sig.mtime = disk[f].mtime /\ ls[f].sig.size <= disk[f].size
    /\ ls[f].sig = SigOf(disk[f]) /\ <<f, ls[f].sig>> \notin blind =>
          disk[f].hosts \subseteq ls[f].hosts

Fine == {ls \in Lists : ~ EditorRaces => \A f \in ListFile : Covers(ls, f)}

DiskFine ==
    /\ disk \in [ListFile -> File] /\ now \in Nat
    /\ \A f \in ListFile : /\ 1 <= disk[f].mtime /\ disk[f].mtime <= now
                           /\ ~ disk[f].there => disk[f].mtime < now

(* A connection under observation had its host and protocol discovered, so *)
(* that its profile is never searched again.                               *)
Sound(t) ==
    /\ t \in Track
    /\ t.ah_check => /\ t.done /\ ~ t.result /\ t.discovered /\ t.l7
                     /\ AutoList[t.dp] # NoFile
    /\ t.discovered => t.host # NoHost

SoundTrack(c) == IsOpen(c) => Sound(track[c])

(* Verdicts are counted where the track says that one was passed.          *)
CountedOnce(c) == judged[c] = IF IsOpen(c) /\ track[c].finalized THEN 1 ELSE 0

Tracks == /\ track \in [Conn -> Track \cup {Closed}] /\ judged \in [Conn -> Nat]
          /\ \A c \in Conn : SoundTrack(c) /\ CountedOnce(c)

(* A counter shows no more failures than there were.                       *)
FailsFine(fs, tr) ==
    /\ DOMAIN fs = Profile /\ tr \in [Profile -> [Host -> Seq(Nat)]]
    /\ \A p \in Profile, h \in Host : Len(tr[p][h]) <= FailThreshold
    /\ \A p \in Profile : /\ DOMAIN fs[p] \subseteq Host
                          /\ \A h \in DOMAIN fs[p] : /\ fs[p][h] \in Counters
                                                     /\ fs[p][h].counter <= Len(tr[p][h])

(* What an addition relies on: the file's hosts are in the list, and the   *)
(* file does not list the host.                                            *)
Relied ==
    LET f == AutoList[adding.dp]
    IN  /\ adding.host \in lists[f].hosts
        /\ ~ adding.blind /\ disk[f].there => disk[f].hosts \subseteq lists[f].hosts
        /\ adding.stage = "stat" => disk[f].there
        /\ adding.stage = "append" /\ Visible(adding.dp) =>
              /\ ~ OnDisk(Include[adding.dp], adding.host)
              /\ ~ OnDisk(Exclude[adding.dp], adding.host)

AddingFine ==
    adding # NotAdding => /\ adding \in Adding /\ AutoList[adding.dp] # NoFile
                          /\ adding.host \notin DOMAIN fails[adding.dp]
                          /\ ~ EditorRaces => Relied

Typed == /\ up \in BOOLEAN /\ purged \in Nat /\ edits \in Nat
         /\ blind \subseteq ListFile \X Sig
         /\ adding # NotAdding => up

IInv == DiskFine /\ lists \in Fine /\ Tracks /\ FailsFine(fails, trail) /\ AddingFine /\ Typed

-----------------------------------------------------------------------------
(* Constants.                                                              *)

LEMMA Constants ==
    /\ NoHost \notin Host /\ Impossible \notin Host /\ NoFile \notin ListFile
    /\ NProfile \in Nat /\ Profile \subseteq Nat /\ 0 \in Profile
    /\ Visited \subseteq Host /\ Entry \subseteq Host /\ IsFiniteSet(Entry)
    /\ FailThreshold \in Nat /\ FailThreshold >= 1 /\ FailTime \in Nat
    /\ RetransThreshold \in Nat /\ RetransThreshold >= 2
    /\ L4 \in [Conn -> {"tcp", "udp"}]
  BY HostListsAssumption, AutoHostlistAssumption DEF Profile

LEMMA ProfileLists ==
    ASSUME NEW p \in Profile
    PROVE  Include[p] \in Seq(ListFile) /\ Exclude[p] \in Seq(ListFile)
  BY HostListsAssumption

LEMMA AutoIsFile ==
    ASSUME NEW p \in Profile, AutoList[p] # NoFile
    PROVE  AutoList[p] \in ListFile
  <1>1. PICK i \in 1 .. Len(Include[p]) : Include[p][i] = AutoList[p]
    BY HostListsAssumption
  <1> QED
    BY <1>1, ProfileLists

-----------------------------------------------------------------------------
(* Reloads.                                                                *)

LEMMA LoadFine ==
    ASSUME DiskFine, NEW ls \in Fine, NEW f \in ListFile
    PROVE  /\ Load(disk, ls, f) \in List
           /\ ~ EditorRaces =>
                LET s == Load(disk, ls, f).sig
                IN  /\ s.mtime < disk[f].mtime \/ (s.mtime = disk[f].mtime /\ s.size <= disk[f].size)
                    /\ s = SigOf(disk[f]) /\ <<f, s>> \notin blind =>
                          disk[f].hosts \subseteq Load(disk, ls, f).hosts
           /\ LoadOk(disk, ls, f) /\ disk[f].there => Load(disk, ls, f).sig = SigOf(disk[f])
  <1>1. disk[f] \in File /\ ls[f] \in List
    BY DEF DiskFine, Fine, Lists
  <1>2. SigOf(disk[f]) \in Sig /\ disk[f].hosts \subseteq Host
    BY <1>1 DEF SigOf, Sig, File
  <1>3. CASE ~ Stale(disk, ls, f)
    BY <1>1, <1>3 DEF Load, Fine, Covers, Stale
  <1>4. CASE Stale(disk, ls, f) /\ disk[f].readable
    <2>1. Load(disk, ls, f) = [hosts |-> disk[f].hosts, sig |-> SigOf(disk[f])]
      BY <1>4 DEF Load
    <2>2. SigOf(disk[f]).mtime = disk[f].mtime /\ SigOf(disk[f]).size = disk[f].size
      BY DEF SigOf
    <2>3. disk[f].size \in Nat /\ disk[f].mtime \in Nat
      BY <1>1 DEF File
    <2> QED
      BY <1>2, <2>1, <2>2, <2>3 DEF List
  <1>5. CASE Stale(disk, ls, f) /\ ~ disk[f].readable
    <2>1. Load(disk, ls, f) = [ls[f] EXCEPT !.hosts = {}]
      BY <1>5 DEF Load
    <2>2. Load(disk, ls, f).sig = ls[f].sig /\ Load(disk, ls, f) \in List
      BY <1>1, <2>1 DEF List
    <2>3. ls[f].sig # SigOf(disk[f])
      BY <1>5 DEF Stale
    <2> QED
      BY <1>5, <2>2, <2>3 DEF LoadOk, Fine, Covers
  <1> QED
    BY <1>3, <1>4, <1>5

LEMMA NonEmptyFine ==
    ASSUME DiskFine, NEW ls \in Fine
    PROVE  /\ AutolistsNonEmpty(ls) \in Fine
           /\ \A f \in ListFile : AutolistsNonEmpty(ls)[f].sig = ls[f].sig
  <1> DEFINE u == AutolistsNonEmpty(ls)
  <1>1. ls \in [ListFile -> List]
    BY DEF Fine, Lists
  <1>2. ASSUME NEW f \in ListFile
        PROVE  u[f] \in List /\ u[f].sig = ls[f].sig /\ ls[f].hosts \subseteq u[f].hosts
    <2>1. u[f] = IF ls[f].hosts = {} /\ \E p \in Profile : AutoList[p] = f
                 THEN [ls[f] EXCEPT !.hosts = {Impossible}] ELSE ls[f]
      BY <1>1 DEF AutolistsNonEmpty
    <2>2. ls[f] \in List
      BY <1>1
    <2> QED
      BY <2>1, <2>2 DEF List
  <1>3. u \in [ListFile -> List]
    BY <1>1, <1>2 DEF AutolistsNonEmpty
  <1> HIDE DEF u
  <1>4. ~ EditorRaces => \A f \in ListFile : Covers(u, f)
    <2> SUFFICES ASSUME ~ EditorRaces, NEW f \in ListFile PROVE Covers(u, f)
      OBVIOUS
    <2>1. Covers(ls, f)
      BY DEF Fine
    <2> QED
      BY <1>2, <2>1 DEF Covers
  <1>5. u \in Fine
    BY <1>3, <1>4 DEF Fine, Lists
  <1> QED
    BY <1>2, <1>5 DEF u

(* A reload leaves every list as fine as it was; without a failure those   *)
(* of its files that are there are up to date, and those that were stay so.*)
LEMMA CheckFine ==
    ASSUME DiskFine, NEW ls \in Fine, NEW fs \in Seq(ListFile),
           NEW r, r = ReloadCheck(disk, ls, fs)
    PROVE  /\ r.lists \in Fine
           /\ r.ok => \A i \in 1 .. Len(fs) : ~ Stale(disk, r.lists, fs[i])
           /\ \A f \in ListFile : ~ Stale(disk, ls, f) => ~ Stale(disk, r.lists, f)
  <1> DEFINE bad == {i \in 1 .. Len(fs) : ~ LoadOk(disk, ls, fs[i])}
             reached == {fs[i] : i \in {j \in 1 .. Len(fs) : \A b \in bad : j <= b}}
             loaded == [f \in ListFile |-> IF f \in reached THEN Load(disk, ls, f) ELSE ls[f]]
  <1>1. r.ok = (bad = {}) /\ r.lists = IF bad = {} THEN AutolistsNonEmpty(loaded) ELSE loaded
    BY DEF ReloadCheck
  <1>2. bad = {} => \A i \in 1 .. Len(fs) : fs[i] \in reached /\ LoadOk(disk, ls, fs[i])
    OBVIOUS
  <1> HIDE DEF bad, reached
  <1>3. ls \in [ListFile -> List]
    BY DEF Fine, Lists
  <1>4. loaded \in [ListFile -> List]
    BY <1>3, LoadFine
  <1>5. \A f \in ListFile : loaded[f] = IF f \in reached THEN Load(disk, ls, f) ELSE ls[f]
    OBVIOUS
  <1> HIDE DEF loaded
  <1>6. loaded \in Fine
    <2> SUFFICES ASSUME ~ EditorRaces, NEW f \in ListFile PROVE Covers(loaded, f)
      BY <1>4 DEF Fine, Lists
    <2>1. CASE f \in reached
      BY <1>5, <2>1, LoadFine DEF Covers
    <2>2. CASE f \notin reached
      <3>1. Covers(ls, f) /\ loaded[f] = ls[f]
        BY <1>5, <2>2 DEF Fine
      <3> QED
        BY <3>1 DEF Covers
    <2> QED
      BY <2>1, <2>2
  <1>7. \A f \in ListFile : r.lists[f].sig = loaded[f].sig
    BY <1>1, <1>6, NonEmptyFine
  <1>8. r.lists \in Fine
    BY <1>1, <1>6, NonEmptyFine
  <1>9. ASSUME r.ok, NEW i \in 1 .. Len(fs) PROVE ~ Stale(disk, r.lists, fs[i])
    <2>1. PICK f \in ListFile : f = fs[i]
      OBVIOUS
    <2>2. bad = {}
      BY <1>1, <1>9
    <2>3. f \in reached /\ LoadOk(disk, ls, f)
      BY <1>2, <2>1, <2>2
    <2>4. disk[f].there => loaded[f].sig = SigOf(disk[f])
      BY <1>5, <2>3, LoadFine
    <2> QED
      BY <1>7, <2>1, <2>4 DEF Stale
  <1>10. ASSUME NEW f \in ListFile, ~ Stale(disk, ls, f) PROVE ~ Stale(disk, r.lists, f)
    <2>1. Load(disk, ls, f) = ls[f]
      BY <1>10 DEF Load
    <2>2. loaded[f].sig = ls[f].sig
      BY <1>5, <2>1
    <2> QED
      BY <1>7, <1>10, <2>2 DEF Stale
  <1> QED
    BY <1>8, <1>9, <1>10

LEMMA ProfileFine ==
    ASSUME DiskFine, NEW ls \in Fine, NEW p \in Profile, NEW r, r = ReloadProfile(disk, ls, p)
    PROVE  /\ r.lists \in Fine
           /\ r.ok => /\ \A i \in 1 .. Len(Include[p]) : ~ Stale(disk, r.lists, Include[p][i])
                      /\ \A i \in 1 .. Len(Exclude[p]) : ~ Stale(disk, r.lists, Exclude[p][i])
  <1> DEFINE inc == ReloadCheck(disk, ls, Include[p])
  <1>1. /\ inc.lists \in Fine
        /\ inc.ok => \A i \in 1 .. Len(Include[p]) : ~ Stale(disk, inc.lists, Include[p][i])
    BY CheckFine, ProfileLists
  <1>2. r = IF inc.ok THEN ReloadCheck(disk, inc.lists, Exclude[p]) ELSE inc
    BY DEF ReloadProfile, ThenExclude
  <1> HIDE DEF inc
  <1>3. CASE inc.ok
    <2>1. r = ReloadCheck(disk, inc.lists, Exclude[p])
      BY <1>2, <1>3
    <2>2. /\ r.lists \in Fine
          /\ r.ok => \A i \in 1 .. Len(Exclude[p]) : ~ Stale(disk, r.lists, Exclude[p][i])
          /\ \A f \in ListFile : ~ Stale(disk, inc.lists, f) => ~ Stale(disk, r.lists, f)
      BY <1>1, <2>1, CheckFine, ProfileLists
    <2>3. \A i \in 1 .. Len(Include[p]) : Include[p][i] \in ListFile
      BY ProfileLists
    <2> QED
      BY <1>1, <1>3, <2>2, <2>3
  <1>4. CASE ~ inc.ok
    BY <1>1, <1>2, <1>4
  <1> QED
    BY <1>3, <1>4

(* The search of a profile finds one that there is.                        *)
Finds == [lists : Fine, dp : Profile, looked : BOOLEAN]

LEMMA SearchFinds ==
    ASSUME DiskFine, NEW d \in Finds, NEW n \in Profile, NEW Fits, NEW h
    PROVE  Search(disk, d, n, Fits, h) \in Finds
  <1> DEFINE r == ReloadProfile(disk, d.lists, n)
             m == DpMatch(disk, d.lists, n, Fits, h)
  <1>1. CASE d.dp # 0
    BY <1>1 DEF Search
  <1>2. CASE d.dp = 0
    <2>1. Search(disk, d, n, Fits, h) = Taken(m, n)
      BY <1>2 DEF Search
    <2>2. d.lists \in Fine
      BY DEF Finds
    <2>3. r.lists \in Fine
      BY <2>2, ProfileFine
    <2>4. m.lists = r.lists /\ m.looked \in BOOLEAN /\ m.match \in BOOLEAN
      <3>1. m = MatchOf(r, n, Fits, h)
        BY DEF DpMatch
      <3> HIDE DEF m, r
      <3> QED
        BY <3>1 DEF MatchOf
    <2> HIDE DEF m, r
    <2>5. Taken(m, n) = [lists |-> r.lists, dp |-> IF m.match THEN n ELSE 0,
                         looked |-> m.match /\ m.looked]
      BY <2>4 DEF Taken
    <2> QED
      BY <2>1, <2>3, <2>4, <2>5, Constants DEF Finds
  <1> QED
    BY <1>1, <1>2

LEMMA DpFinds ==
    ASSUME DiskFine, NEW ls \in Fine, NEW Fits, NEW h
    PROVE  DpFind(disk, ls, Fits, h) \in Finds
  <1> DEFINE v == [lists |-> ls, dp |-> 0, looked |-> FALSE]
             step == [x \in Nat \X Finds |->
                        IF x[1] \in Profile THEN Search(disk, x[2], x[1], Fits, h) ELSE x[2]]
             Equation(g) == g = [n \in Profile |-> IF n = 0 THEN v
                                                  ELSE Search(disk, g[n - 1], n, Fits, h)]
             g0 == CHOOSE g : Equation(g)
  <1>1. v \in Finds
    BY Constants DEF Finds
  <1>2. step \in [Nat \X Finds -> Finds]
    BY SearchFinds
  <1>3. \A n \in Nat, d \in Finds :
           step[<<n, d>>] = IF n \in Profile THEN Search(disk, d, n, Fits, h) ELSE d
    OBVIOUS
  <1> HIDE DEF v, step
  <1>4. PICK f : /\ f \in [Nat -> Finds]
                 /\ \A n \in Nat : f[n] = IF n = 0 THEN v ELSE step[<<n, f[n - 1]>>]
    <2>1. Steps(Finds, v, step)
      BY <1>1, <1>2 DEF Steps
    <2>2. \E f : Solves(Finds, v, step, f)
      BY <2>1, Recursion
    <2> QED
      BY <2>2 DEF Solves
  <1> DEFINE e == [n \in Profile |-> f[n]]
  <1>5. Equation(e)
    <2>1. ASSUME NEW n \in Profile
          PROVE  e[n] = IF n = 0 THEN v ELSE Search(disk, e[n - 1], n, Fits, h)
      <3>1. n \in Nat
        BY Constants
      <3>2. CASE n = 0
        BY <1>4, <3>2
      <3>3. CASE n # 0
        <4>1. n - 1 \in Nat /\ n - 1 \in Profile
          BY <3>1, <3>3, Constants DEF Profile
        <4>2. e[n] = step[<<n, f[n - 1]>>] /\ f[n - 1] \in Finds /\ e[n - 1] = f[n - 1]
          BY <1>4, <3>1, <3>3, <4>1
        <4> QED
          BY <1>3, <3>1, <3>3, <4>2
      <3> QED
        BY <3>2, <3>3
    <2> QED
      BY <2>1
  <1> HIDE DEF e
  <1>6. Equation(g0)
    BY <1>5
  <1>7. DpFind(disk, ls, Fits, h) = g0[NProfile]
    BY DEF DpFind, v
  <1> HIDE DEF g0
  <1> DEFINE T == {n \in Nat : n \in Profile => g0[n] \in Finds}
  <1>8. 0 \in T
    <2>1. g0[0] = v
      BY <1>6, Constants
    <2> QED
      BY <1>1, <2>1
  <1>9. ASSUME NEW n \in T PROVE n + 1 \in T
    <2>1. CASE n + 1 \in Profile
      <3>1. n \in Profile /\ n + 1 # 0 /\ (n + 1) - 1 = n
        BY <2>1, Constants DEF Profile
      <3>2. g0[n + 1] = Search(disk, g0[n], n + 1, Fits, h)
        BY <1>6, <2>1, <3>1
      <3> QED
        BY <2>1, <3>1, <3>2, SearchFinds
    <2> QED
      BY <2>1
  <1> HIDE DEF T
  <1>10. T \in SUBSET Nat
    BY DEF T
  <1>11. NProfile \in T /\ NProfile \in Profile
    BY <1>8, <1>9, <1>10, Induction, Constants DEF Profile
  <1> QED
    BY <1>7, <1>11 DEF T

-----------------------------------------------------------------------------
(* The tracks.                                                             *)

(* A track that is sound is no closed one.                                 *)
LEMMA SoundIsOpen ==
    ASSUME NEW t, Sound(t)
    PROVE  t # Closed
  <1>1. DOMAIN Closed = {"l4"} /\ DOMAIN t # {"l4"}
    BY DEF Closed, Sound, Track
  <1> QED
    BY <1>1

(* A new track is sound and nothing was judged on it.                      *)
LEMMA OpenedSound ==
    ASSUME DiskFine, lists \in Fine, NEW l4 \in {"tcp", "udp"}, NEW cached \in Names
    PROVE  LET o == Opened(l4, cached)
           IN  o.lists \in Fine /\ Sound(o.t) /\ ~ o.t.finalized
  <1> DEFINE d == DpFind(disk, lists, FitsOf[l4][FALSE], cached)
  <1>1. d \in Finds
    BY DpFinds
  <1> HIDE DEF d
  <1>2. /\ d.lists \in Fine /\ d.dp \in Profile /\ cached \in Host \cup {NoHost}
        /\ 0 \in -1 .. RetransThreshold - 1
    BY <1>1, Constants DEF Finds, Names
  <1>3. Opened(l4, cached) = New(l4, cached, d)
    BY DEF Opened, d
  <1> QED
    BY <1>2, <1>3 DEF New, Sound, Track

(* Searching the profile again leaves a track under observation alone.     *)
LEMMA ResearchedSound ==
    ASSUME DiskFine, NEW ls \in Fine, NEW t, NEW host \in Names, NEW l7 \in BOOLEAN,
           Sound(t), host # NoHost => l7
    PROVE  LET r == Researched(ls, t, host, l7)
           IN  /\ r.lists \in Fine /\ Sound(r.t) /\ r.t.finalized = t.finalized
               /\ host # NoHost => r.t.discovered /\ r.t.l7
               /\ t.ah_check => r.t = t
  <1> DEFINE named == host # NoHost /\ ~ t.discovered
             known == t.l7 \/ l7
             name  == IF named THEN host ELSE t.host
             d     == DpFind(disk, ls, FitsOf[t.l4][known], name)
             r     == Researched(ls, t, host, l7)
  <1>0. t \in Track
    BY DEF Sound
  <1>1. CASE ~ named /\ known = t.l7
    <2>1. r = [lists |-> ls, t |-> t]
      BY <1>1 DEF Researched
    <2> QED
      BY <1>1, <2>1
  <1>2. CASE ~ (~ named /\ known = t.l7)
    <2>1. r = Rechosen(t, name, named, known, d)
      BY <1>2 DEF Researched
    <2>2. ~ t.ah_check
      BY <1>0, <1>2 DEF Sound, Track
    <2>3. d \in Finds
      BY DpFinds
    <2>4. /\ name \in Host \cup {NoHost} /\ named \in BOOLEAN /\ known \in BOOLEAN
          /\ name # NoHost \/ ~ (t.discovered \/ named)
      BY <1>0, Constants DEF Track, Names, Sound
    <2>5. host # NoHost => (t.discovered \/ named) /\ known
      OBVIOUS
    <2> HIDE DEF d, named, known, name
    <2>6. d.lists \in Fine /\ d.dp \in Profile /\ d.looked \in BOOLEAN
      BY <2>3 DEF Finds
    <2> HIDE DEF r
    <2> DEFINE u1 == [t EXCEPT !.host = name, !.discovered = @ \/ named, !.l7 = known]
               u2 == [u1 EXCEPT !.dp = d.dp, !.done = d.looked]
               u3 == [u2 EXCEPT !.result = d.looked, !.excluded = FALSE]
    <2>7. r.lists = d.lists /\ r.t = u3
      BY <2>1 DEF Rechosen
    <2>8. /\ u1 \in Track /\ u1.host = name /\ u1.discovered = (t.discovered \/ named)
          /\ u1.l7 = known /\ u1.ah_check = t.ah_check /\ u1.finalized = t.finalized
      BY <1>0, <2>4 DEF Track
    <2> HIDE DEF u1
    <2>9. /\ u2 \in Track /\ u2.host = name /\ u2.discovered = (t.discovered \/ named)
          /\ u2.l7 = known /\ u2.ah_check = t.ah_check /\ u2.finalized = t.finalized
      BY <2>6, <2>8 DEF Track
    <2> HIDE DEF u2
    <2>10. /\ u3 \in Track /\ u3.host = name /\ u3.discovered = (t.discovered \/ named)
           /\ u3.l7 = known /\ u3.ah_check = t.ah_check /\ u3.finalized = t.finalized
      BY <2>6, <2>9 DEF Track
    <2> HIDE DEF u3
    <2> QED
      BY <2>2, <2>4, <2>5, <2>6, <2>7, <2>10 DEF Sound, r
  <1> QED
    BY <1>1, <1>2

(* The host list check keeps the observation to profiles with a list to    *)
(* add to, and to hosts it did not pass.                                   *)
LEMMA ObservedSound ==
    ASSUME NEW ls \in Fine, NEW t, Sound(t), t.done, t.discovered, t.l7
    PROVE  LET r == Observed(ls, t)
           IN  /\ r.lists \in Fine /\ Sound(r.t) /\ r.t.finalized = t.finalized
               /\ r.t.dp = t.dp /\ r.t.host = t.host
  <1>0. t \in Track /\ Stop \in -1 .. RetransThreshold - 1
    BY Constants DEF Sound, Stop
  <1>1. CASE t.result
    <2>1. ~ t.ah_check
      BY <1>1 DEF Sound
    <2>2. Observed(ls, t).t = [t EXCEPT !.retrans = @]
      BY <1>0, <1>1, <2>1 DEF Observed, Track
    <2>3. Observed(ls, t).t = t
      BY <1>0, <2>2 DEF Track
    <2> QED
      BY <2>3 DEF Observed
  <1>2. CASE ~ t.result
    <2> DEFINE b == AutoList[t.dp] # NoFile /\ ~ t.excluded
               u == [t EXCEPT !.ah_check = b]
    <2>1. Observed(ls, t) = [lists |-> ls, t |-> u]
      BY <1>2 DEF Observed
    <2>2. b \in BOOLEAN /\ (b => AutoList[t.dp] # NoFile)
      OBVIOUS
    <2> HIDE DEF b
    <2>3. /\ u \in Track /\ u.ah_check = b /\ u.done /\ u.discovered /\ u.l7 /\ ~ u.result
          /\ u.dp = t.dp /\ u.host = t.host /\ u.finalized = t.finalized
      BY <1>0, <1>2, <2>2 DEF Track
    <2> HIDE DEF u
    <2> QED
      BY <2>1, <2>2, <2>3 DEF Sound
  <1> QED
    BY <1>1, <1>2

LEMMA CheckedSound ==
    ASSUME DiskFine, NEW ls \in Fine, NEW t, NEW host, Sound(t),
           host # NoHost => t.discovered /\ t.l7
    PROVE  LET r == Checked(ls, t, host)
           IN  /\ r.lists \in Fine /\ Sound(r.t) /\ r.t.finalized = t.finalized
               /\ r.t.dp = t.dp /\ r.t.host = t.host
  <1> DEFINE check == HostlistCheck(disk, ls, t.dp, host)
             w == [t EXCEPT !.done = TRUE, !.result = check.pass, !.excluded = check.excluded]
  <1>0. t \in Track /\ t.dp \in Profile
    BY DEF Sound, Track
  <1>1. CASE host = NoHost \/ ProfileHostlistsEmpty(ls, t.dp)
    BY <1>1 DEF Checked
  <1>2. CASE ~ (host = NoHost \/ ProfileHostlistsEmpty(ls, t.dp)) /\ t.done
    BY <1>2, ObservedSound DEF Checked
  <1>3. CASE ~ (host = NoHost \/ ProfileHostlistsEmpty(ls, t.dp)) /\ ~ t.done
    <2>1. Checked(ls, t, host) = Observed(check.lists, w)
      BY <1>3 DEF Checked, Keep
    <2>2. check.lists \in Fine /\ check.pass \in BOOLEAN /\ check.excluded \in BOOLEAN
      <3>1. check = Answer(ReloadProfile(disk, ls, t.dp), t.dp, host)
        BY DEF HostlistCheck
      <3>2. ReloadProfile(disk, ls, t.dp).lists \in Fine
        BY <1>0, ProfileFine
      <3> HIDE DEF check
      <3> QED
        BY <3>1, <3>2 DEF Answer, Passes, Excluded, InLists
    <2> HIDE DEF check
    <2>3. /\ w \in Track /\ w.done /\ w.discovered /\ w.l7 /\ ~ w.ah_check
          /\ w.finalized = t.finalized /\ w.dp = t.dp /\ w.host = t.host
      BY <1>0, <1>3, <2>2 DEF Sound, Track
    <2> HIDE DEF w
    <2>4. Sound(w)
      BY <1>3, <2>3 DEF Sound
    <2> QED
      BY <2>1, <2>2, <2>3, <2>4, ObservedSound
  <1> QED
    BY <1>1, <1>2, <1>3

LEMMA DiscoveredSound ==
    ASSUME DiskFine, NEW ls \in Fine, NEW t, NEW told \in [host : Names, l7 : BOOLEAN],
           Sound(t), told.host # NoHost => told.l7
    PROVE  LET r == Discovered(ls, t, told)
           IN  /\ r.lists \in Fine /\ Sound(r.t) /\ r.t.finalized = t.finalized
               /\ t.ah_check => r.t.dp = t.dp /\ r.t.host = t.host
  <1> DEFINE r == Researched(ls, t, told.host, told.l7)
  <1>1. /\ r.lists \in Fine /\ Sound(r.t) /\ r.t.finalized = t.finalized
        /\ told.host # NoHost => r.t.discovered /\ r.t.l7
        /\ t.ah_check => r.t = t
    BY ResearchedSound
  <1>2. Discovered(ls, t, told) = Checked(r.lists, r.t, told.host)
    BY DEF Discovered, CheckedIn
  <1> HIDE DEF r
  <1> QED
    BY <1>1, <1>2, CheckedSound

(* What is judged has a list to be added to.                               *)
LEMMA JudgedHasList ==
    ASSUME NEW t, Sound(t), Judges(t)
    PROVE  /\ t.ah_check /\ ~ t.finalized /\ t.dp \in Profile /\ AutoList[t.dp] # NoFile
           /\ t.host \in Host
  BY DEF Judges, Sound, Track

LEMMA AfterVerdictSound ==
    ASSUME NEW t, NEW v, Sound(t), v # "none" => ~ t.finalized
    PROVE  LET u == AfterVerdict(t, v)
           IN  /\ Sound(u) /\ u.dp = t.dp /\ u.host = t.host /\ u.ah_check = t.ah_check
               /\ v # "none" => u.finalized
               /\ v = "none" => u.finalized = t.finalized
  BY DEF AfterVerdict, Finalized, Sound, Track

LEMMA RetransSound ==
    ASSUME NEW t, NEW sent, Sound(t)
    PROVE  LET u == AfterRetrans(t, sent)
               v == RetransVerdict(t, sent)
           IN  /\ Sound(u) /\ u.dp = t.dp /\ u.host = t.host /\ u.ah_check = t.ah_check
               /\ v # "none" => u.finalized /\ Judges(t)
               /\ v = "none" => u.finalized = t.finalized
  <1> DEFINE u == AfterRetrans(t, sent)
             v == RetransVerdict(t, sent)
  <1>0. /\ t \in Track /\ Stop \in -1 .. RetransThreshold - 1 /\ t.retrans \in Int
        /\ RetransThreshold \in Nat
    BY Constants DEF Sound, Stop, Track
  <1>1. CASE v # "none"
    <2>1. u = Stopped(Finalized(t))
      BY <1>1 DEF AfterRetrans
    <2>2. Judges(t)
      BY <1>1 DEF RetransVerdict
    <2> DEFINE w == Finalized(t)
    <2>3. /\ w \in Track /\ w.finalized /\ w.dp = t.dp /\ w.host = t.host
          /\ w.ah_check = t.ah_check /\ w.done = t.done /\ w.result = t.result
          /\ w.discovered = t.discovered /\ w.l7 = t.l7
      BY <1>0 DEF Finalized, Track
    <2> HIDE DEF w
    <2>4. u = [w EXCEPT !.retrans = Stop]
      BY <2>1 DEF Stopped, w
    <2> HIDE DEF u
    <2>5. /\ u \in Track /\ u.finalized /\ u.dp = t.dp /\ u.host = t.host
          /\ u.ah_check = t.ah_check /\ u.done = t.done /\ u.result = t.result
          /\ u.discovered = t.discovered /\ u.l7 = t.l7
      BY <1>0, <2>3, <2>4 DEF Track
    <2> QED
      BY <1>1, <2>2, <2>5 DEF Sound, u
  <1>2. CASE v = "none" /\ Judges(t) /\ t.retrans # Stop /\ sent = "repeated"
    <2>1. u = [t EXCEPT !.retrans = @ + 1]
      BY <1>2 DEF AfterRetrans
    <2>2. t.retrans + 1 \in -1 .. RetransThreshold - 1
      <3>1. ~ (t.retrans + 1 >= RetransThreshold)
        BY <1>2 DEF RetransVerdict
      <3>2. t.retrans \in -1 .. RetransThreshold - 1
        BY <1>0 DEF Track
      <3> QED
        BY <1>0, <3>1, <3>2
    <2> HIDE DEF u
    <2>3. /\ u \in Track /\ u.finalized = t.finalized /\ u.dp = t.dp /\ u.host = t.host
          /\ u.ah_check = t.ah_check /\ u.done = t.done /\ u.result = t.result
          /\ u.discovered = t.discovered /\ u.l7 = t.l7
      BY <1>0, <2>1, <2>2 DEF Track
    <2> QED
      BY <1>2, <2>3 DEF Sound, u
  <1>3. CASE v = "none" /\ ~ (Judges(t) /\ t.retrans # Stop /\ sent = "repeated")
    <2>1. u = t
      BY <1>3 DEF AfterRetrans
    <2> QED
      BY <1>3, <2>1
  <1> QED
    BY <1>1, <1>2, <1>3

(* The track of a packet that needs none before it.                        *)
LEMMA CurrentSound ==
    ASSUME DiskFine, lists \in Fine, Tracks, NEW c \in Conn, NEW cached \in Names
    PROVE  LET r == Current(c, cached)
           IN  /\ r.lists \in Fine /\ Sound(r.t)
               /\ judged[c] = IF r.t.finalized THEN 1 ELSE 0
  <1>1. CASE IsOpen(c)
    BY <1>1 DEF Current, Tracks, SoundTrack, CountedOnce
  <1>2. CASE ~ IsOpen(c)
    <2>1. L4[c] \in {"tcp", "udp"} /\ Current(c, cached) = Opened(L4[c], cached)
      BY <1>2, Constants DEF Current
    <2>2. judged[c] = 0
      BY <1>2 DEF Tracks, CountedOnce
    <2> QED
      BY <2>1, <2>2, OpenedSound
  <1> QED
    BY <1>1, <1>2

-----------------------------------------------------------------------------
(* Counters and additions.                                                 *)

IsWithout(gs, fs, p, H) == gs = [fs EXCEPT ![p] = Without(fs[p], H)]

LEMMA WithoutFine ==
    ASSUME NEW fs, NEW tr, FailsFine(fs, tr), NEW p \in Profile, NEW H,
           NEW gs, IsWithout(gs, fs, p, H)
    PROVE  /\ FailsFine(gs, tr)
           /\ \A q \in Profile : DOMAIN gs[q] \subseteq DOMAIN fs[q]
           /\ \A h \in H : h \notin DOMAIN gs[p]
  <1> DEFINE w == Without(fs[p], H)
  <1>1. DOMAIN w = DOMAIN fs[p] \ H /\ \A h \in DOMAIN w : w[h] = fs[p][h]
    BY DEF Without
  <1> HIDE DEF w
  <1>2. DOMAIN gs = Profile /\ gs[p] = w /\ \A q \in Profile : q # p => gs[q] = fs[q]
    BY DEF FailsFine, IsWithout, w
  <1> QED
    BY <1>1, <1>2 DEF FailsFine

LEMMA PurgedFine ==
    ASSUME FailsFine(fails, trail), NEW p \in Profile
    PROVE  /\ FailsFine(Purged(p), trail)
           /\ \A q \in Profile : DOMAIN Purged(p)[q] \subseteq DOMAIN fails[q]
  BY WithoutFine DEF Purged, IsWithout

LEMMA RecentIs ==
    ASSUME NEW s \in Seq(Nat), Len(s) <= FailThreshold, NEW n \in Nat
    PROVE  LET r == Recent(Append(s, n))
           IN  /\ r \in Seq(Nat) /\ Len(r) <= FailThreshold
               /\ Len(r) = Len(s) + 1 \/ Len(r) = FailThreshold
  <1> DEFINE a == Append(s, n)
  <1>1. a \in Seq(Nat) /\ Len(a) = Len(s) + 1 /\ Len(s) \in Nat
    OBVIOUS
  <1> HIDE DEF a
  <1>2. CASE Len(a) <= FailThreshold
    BY <1>1, <1>2 DEF Recent, a
  <1>3. CASE ~ (Len(a) <= FailThreshold)
    <2>1. Recent(a) = Tail(a)
      BY <1>3 DEF Recent
    <2>2. Tail(a) \in Seq(Nat) /\ Len(Tail(a)) = Len(a) - 1
      BY <1>1, <1>3
    <2> QED
      BY <1>1, <1>3, <2>1, <2>2, Constants DEF a
  <1> QED
    BY <1>2, <1>3

(* Trails of other hosts are as they were.                                 *)
LEMMA TrailFine ==
    ASSUME NEW fs, FailsFine(fs, trail), NEW p \in Profile, NEW h \in Host, NEW s \in Seq(Nat),
           Len(s) <= FailThreshold, trail' = [trail EXCEPT ![p][h] = s],
           h \in DOMAIN fs[p] => fs[p][h].counter <= Len(s)
    PROVE  FailsFine(fs, trail')
  <1>1. trail' \in [Profile -> [Host -> Seq(Nat)]]
    BY DEF FailsFine
  <1>2. trail'[p][h] = s
    BY DEF FailsFine
  <1>3. \A q \in Profile, g \in Host : q # p \/ g # h => trail'[q][g] = trail[q][g]
    BY DEF FailsFine
  <1>4. ASSUME NEW q \in Profile, NEW g \in Host PROVE Len(trail'[q][g]) <= FailThreshold
    BY <1>2, <1>3 DEF FailsFine
  <1>5. ASSUME NEW q \in Profile, NEW g \in DOMAIN fs[q]
        PROVE  fs[q][g].counter <= Len(trail'[q][g])
    <2>1. g \in Host
      BY DEF FailsFine
    <2> QED
      BY <2>1, <1>2, <1>3 DEF FailsFine
  <1> QED
    BY <1>1, <1>4, <1>5 DEF FailsFine

LEMMA CountedFine ==
    ASSUME NEW fs, FailsFine(fs, trail), NEW p \in Profile, NEW h \in Host, now \in Nat,
           trail' = [trail EXCEPT ![p][h] = Recent(Append(@, now))]
    PROVE  /\ Reached(fs[p], h) => Len(trail'[p][h]) >= FailThreshold
           /\ Reached(fs[p], h) => FailsFine([fs EXCEPT ![p] = Without(@, {h})], trail')
           /\ ~ Reached(fs[p], h) => FailsFine([fs EXCEPT ![p] = Counted(@, h)], trail')
  <1> DEFINE s == Recent(Append(trail[p][h], now))
             k == Counted(fs[p], h)
             gs == [fs EXCEPT ![p] = Without(@, {h})]
             hs == [fs EXCEPT ![p] = k]
  <1>1. trail[p][h] \in Seq(Nat) /\ Len(trail[p][h]) <= FailThreshold /\ Len(trail[p][h]) \in Nat
    BY DEF FailsFine
  <1>2. /\ s \in Seq(Nat) /\ Len(s) <= FailThreshold
        /\ Len(s) = Len(trail[p][h]) + 1 \/ Len(s) = FailThreshold
    BY <1>1, RecentIs
  <1> HIDE DEF s
  <1>3. trail' = [trail EXCEPT ![p][h] = s] /\ trail'[p][h] = s
    BY DEF FailsFine, s
  <1>4. /\ DOMAIN k = DOMAIN fs[p] \cup {h} /\ k[h] \in Counters
        /\ k[h].counter <= Len(trail[p][h]) + 1
        /\ \A x \in DOMAIN fs[p] : x # h => k[x] = fs[p][x]
    <2>1. DOMAIN k = DOMAIN fs[p] \cup {h} /\ \A x \in DOMAIN fs[p] : x # h => k[x] = fs[p][x]
      BY DEF Counted
    <2>2. CASE h \in DOMAIN fs[p]
      <3>1. k[h] = [fs[p][h] EXCEPT !.counter = @ + 1]
        BY <2>2 DEF Counted
      <3>2. fs[p][h] \in Counters /\ fs[p][h].counter <= Len(trail[p][h])
        BY <2>2 DEF FailsFine
      <3> HIDE DEF k
      <3>3. k[h] \in Counters /\ k[h].counter = fs[p][h].counter + 1 /\ fs[p][h].counter \in Nat
        BY <3>1, <3>2 DEF Counters
      <3> QED
        BY <1>1, <2>1, <3>2, <3>3
    <2>3. CASE h \notin DOMAIN fs[p]
      <3>1. k[h] = [expire |-> now + FailTime, counter |-> 1]
        BY <2>3 DEF Counted
      <3> HIDE DEF k
      <3>2. k[h] \in Counters /\ k[h].counter = 1
        BY <3>1, Constants DEF Counters
      <3> QED
        BY <1>1, <2>1, <3>2
    <2> QED
      BY <2>2, <2>3
  <1>5. Reached(fs[p], h) <=> k[h].counter >= FailThreshold
    BY DEF Reached
  <1> HIDE DEF k
  <1>6. Reached(fs[p], h) => Len(s) >= FailThreshold
    BY <1>1, <1>2, <1>4, <1>5, Constants DEF Counters
  <1>7. FailsFine(gs, trail')
    <2>2. PICK H : H = {h}
      OBVIOUS
    <2>3. IsWithout(gs, fs, p, H)
      BY <2>2 DEF IsWithout
    <2> HIDE DEF gs, hs
    <2>4. FailsFine(gs, trail)
      BY <2>3, WithoutFine
    <2>5. h \notin DOMAIN gs[p]
      BY <2>2, <2>3, WithoutFine
    <2> QED
      BY <1>2, <1>3, <2>4, <2>5, TrailFine
  <1>8. ASSUME ~ Reached(fs[p], h) PROVE FailsFine(hs, trail')
    <2>1. k[h].counter <= Len(s) /\ k[h].counter \in Nat
      BY <1>1, <1>2, <1>4, <1>5, <1>8, Constants DEF Counters
    <2>2. DOMAIN hs = Profile /\ hs[p] = k /\ \A q \in Profile : q # p => hs[q] = fs[q]
      BY DEF FailsFine
    <2> HIDE DEF hs
    <2>3. trail' \in [Profile -> [Host -> Seq(Nat)]]
      BY <1>2, <1>3 DEF FailsFine
    <2>4. \A q \in Profile, g \in Host : q # p \/ g # h => trail'[q][g] = trail[q][g]
      BY <1>3 DEF FailsFine
    <2>5. ASSUME NEW q \in Profile, NEW g \in Host PROVE Len(trail'[q][g]) <= FailThreshold
      BY <1>2, <1>3, <2>4 DEF FailsFine
    <2>6. ASSUME NEW q \in Profile
          PROVE  /\ DOMAIN hs[q] \subseteq Host
                 /\ \A g \in DOMAIN hs[q] : /\ hs[q][g] \in Counters
                                            /\ hs[q][g].counter <= Len(trail'[q][g])
      <3>1. CASE q = p
        <4>1. DOMAIN k \subseteq Host
          BY <1>4 DEF FailsFine
        <4>2. ASSUME NEW g \in DOMAIN k
              PROVE  k[g] \in Counters /\ k[g].counter <= Len(trail'[p][g])
          <5>1. CASE g = h
            BY <1>3, <1>4, <2>1, <5>1
          <5>2. CASE g # h
            BY <1>4, <2>4, <4>1, <5>2 DEF FailsFine
          <5> QED
            BY <5>1, <5>2
        <4> QED
          BY <2>2, <3>1, <4>1, <4>2
      <3>2. CASE q # p
        <4>1. hs[q] = fs[q] /\ \A g \in Host : trail'[q][g] = trail[q][g]
          BY <2>2, <2>4, <3>2
        <4> QED
          BY <4>1 DEF FailsFine
      <3> QED
        BY <3>1, <3>2
    <2> QED
      BY <2>2, <2>3, <2>5, <2>6 DEF FailsFine
  <1> QED
    BY <1>3, <1>6, <1>7, <1>8 DEF k

-----------------------------------------------------------------------------
(* An addition.                                                            *)

LEMMA FineSame ==
    ASSUME disk' = disk, blind' = blind
    PROVE  Fine' = Fine
  BY DEF Fine, Lists, Covers

(* Readable files are reloaded.                                            *)
LEMMA ReadableLoads ==
    ASSUME NEW ls, NEW p \in Profile, NEW r, r = ReloadProfile(disk, ls, p),
           \A i \in 1 .. Len(Include[p]) : disk[Include[p][i]].readable,
           \A i \in 1 .. Len(Exclude[p]) : disk[Exclude[p][i]].readable
    PROVE  r.ok
  <1>1. ASSUME NEW us PROVE ReloadCheck(disk, us, Include[p]).ok
    BY DEF ReloadCheck, LoadOk
  <1>2. ASSUME NEW us PROVE ReloadCheck(disk, us, Exclude[p]).ok
    BY DEF ReloadCheck, LoadOk
  <1> QED
    BY <1>1, <1>2 DEF ReloadProfile, ThenExclude

Seen(f) == disk[f].there /\ disk[f].readable /\ <<f, lists[f].sig>> \notin blind

AllSeen(p) == /\ \A i \in 1 .. Len(Include[p]) : Seen(Include[p][i])
              /\ \A i \in 1 .. Len(Exclude[p]) : Seen(Exclude[p][i])

LEMMA VisibleLists ==
    ASSUME NEW p \in Profile
    PROVE  Visible(p) => AllSeen(p)
  <1> DEFINE s == Include[p]
             e == Exclude[p]
             b == s \o e
  <1>1. s \in Seq(ListFile) /\ e \in Seq(ListFile)
    BY ProfileLists
  <1> HIDE DEF s, e
  <1>2. /\ Len(b) = Len(s) + Len(e) /\ Len(s) \in Nat /\ Len(e) \in Nat
        /\ \A i \in 1 .. Len(s) : b[i] = s[i]
        /\ \A i \in 1 .. Len(e) : b[Len(s) + i] = e[i]
    BY <1>1
  <1>3. Visible(p) <=> \A i \in 1 .. Len(b) : Seen(b[i])
    BY DEF Visible, Seen, s, e
  <1> HIDE DEF b
  <1>4. ASSUME \A i \in 1 .. Len(b) : Seen(b[i])
        PROVE  (\A i \in 1 .. Len(s) : Seen(s[i])) /\ \A i \in 1 .. Len(e) : Seen(e[i])
    <2>1. ASSUME NEW i \in 1 .. Len(s) PROVE Seen(s[i])
      BY <1>2, <1>4
    <2>2. ASSUME NEW i \in 1 .. Len(e) PROVE Seen(e[i])
      <3>1. Len(s) + i \in 1 .. Len(b) /\ b[Len(s) + i] = e[i]
        BY <1>2
      <3> QED
        BY <1>4, <3>1
    <2> QED
      BY <2>1, <2>2
  <1> QED
    BY <1>3, <1>4 DEF AllSeen, s, e

LEMMA VisibleListsNext ==
    ASSUME NEW p \in Profile
    PROVE  Visible(p)' => AllSeen(p)'
  <1>1. Visible(p) => AllSeen(p)
    BY VisibleLists
  <1> QED
    BY <1>1, PTL

(* What the lists r of a profile do not answer after a reload, its files   *)
(* do not hold either, where they could be read.                           *)
LEMMA UnansweredIsUnlisted ==
    ASSUME DiskFine, ~ EditorRaces, NEW us \in Fine, NEW p \in Profile, NEW h \in Host,
           NEW r, r = ReloadProfile(disk, us, p), r.ok,
           ~ Passes(r.lists, p, h), ~ Excluded(r.lists, p, h),
           \A i \in 1 .. Len(Include[p]) :
              disk[Include[p][i]].there /\ <<Include[p][i], r.lists[Include[p][i]].sig>> \notin blind,
           \A i \in 1 .. Len(Exclude[p]) :
              disk[Exclude[p][i]].there /\ <<Exclude[p][i], r.lists[Exclude[p][i]].sig>> \notin blind
    PROVE  ~ OnDisk(Include[p], h) /\ ~ OnDisk(Exclude[p], h)
  <1> DEFINE ls == r.lists
  <1>1. /\ ls \in Fine
        /\ \A i \in 1 .. Len(Include[p]) : ~ Stale(disk, ls, Include[p][i])
        /\ \A i \in 1 .. Len(Exclude[p]) : ~ Stale(disk, ls, Exclude[p][i])
    BY ProfileFine
  <1>2. /\ \A i \in 1 .. Len(Include[p]) : ~ InList(ls, Include[p][i], h)
        /\ \A i \in 1 .. Len(Exclude[p]) : ~ InList(ls, Exclude[p][i], h)
    BY DEF Passes, Excluded, InLists
  <1> HIDE DEF ls
  <1>3. ASSUME NEW f \in ListFile, ~ Stale(disk, ls, f), disk[f].there,
               <<f, ls[f].sig>> \notin blind, ~ InList(ls, f, h)
        PROVE  disk[f].hosts \cap Suffixes[h] = {}
    <2>1. disk[f].hosts \subseteq ls[f].hosts
      BY <1>1, <1>3 DEF Fine, Covers, Stale
    <2> QED
      BY <1>3, <2>1 DEF InList
  <1>4. ASSUME NEW i \in 1 .. Len(Include[p])
        PROVE  disk[Include[p][i]].hosts \cap Suffixes[h] = {}
    <2>1. PICK f \in ListFile : f = Include[p][i]
      BY ProfileLists
    <2> QED
      BY <1>1, <1>2, <1>3, <2>1 DEF ls
  <1>5. ASSUME NEW i \in 1 .. Len(Exclude[p])
        PROVE  disk[Exclude[p][i]].hosts \cap Suffixes[h] = {}
    <2>1. PICK f \in ListFile : f = Exclude[p][i]
      BY ProfileLists
    <2> QED
      BY <1>1, <1>2, <1>3, <2>1 DEF ls
  <1> QED
    BY <1>4, <1>5 DEF OnDisk

IsGrown(us, ls, f, h) == us = [ls EXCEPT ![f].hosts = @ \cup {h}]

LEMMA GrownFine ==
    ASSUME NEW ls \in Fine, NEW f \in ListFile, NEW h \in Host, NEW us, IsGrown(us, ls, f, h)
    PROVE  /\ us \in Fine /\ h \in us[f].hosts
           /\ \A g \in ListFile : us[g].sig = ls[g].sig /\ ls[g].hosts \subseteq us[g].hosts
  <1>1. ls \in [ListFile -> List]
    BY DEF Fine, Lists
  <1>2. ASSUME NEW g \in ListFile
        PROVE  /\ us[g] \in List /\ us[g].sig = ls[g].sig /\ ls[g].hosts \subseteq us[g].hosts
               /\ g = f => h \in us[g].hosts
    <2>1. ls[g] \in List
      BY <1>1
    <2>2. CASE g = f
      <3>1. us[g] = [ls[g] EXCEPT !.hosts = @ \cup {h}]
        BY <1>1, <2>2 DEF IsGrown
      <3> QED
        BY <2>1, <3>1 DEF List
    <2>3. CASE g # f
      <3>1. us[g] = ls[g]
        BY <1>1, <2>3 DEF IsGrown
      <3> QED
        BY <2>1, <2>3, <3>1
    <2> QED
      BY <2>2, <2>3
  <1>3. us \in [ListFile -> List]
    BY <1>1, <1>2 DEF IsGrown
  <1>4. ASSUME ~ EditorRaces, NEW g \in ListFile PROVE Covers(us, g)
    <2>1. Covers(ls, g)
      BY <1>4 DEF Fine
    <2> QED
      BY <1>2, <2>1 DEF Covers
  <1> QED
    BY <1>2, <1>3, <1>4 DEF Fine, Lists

(* What is added was looked up in files that could be read, and joins the  *)
(* list in memory.                                                         *)
LEMMA AddFine ==
    ASSUME DiskFine, NEW ls \in Fine, NEW p \in Profile, NEW h \in Host, AutoList[p] # NoFile,
           disk' = disk, blind' = blind, AddUnless(HostlistCheck(disk, ls, p, h), p, h)
    PROVE  /\ lists' \in Fine
           /\ adding' # NotAdding =>
                 /\ adding' \in Adding /\ adding'.dp = p /\ adding'.host = h
                 /\ ~ EditorRaces => Relied'
  <1> DEFINE r == ReloadProfile(disk, ls, p)
             check == HostlistCheck(disk, ls, p, h)
             f == AutoList[p]
  <1>1. /\ check.lists = r.lists /\ check.pass = (r.ok /\ Passes(r.lists, p, h))
        /\ check.excluded = (r.ok /\ Excluded(r.lists, p, h))
    BY DEF HostlistCheck, Answer
  <1>2. r.lists \in Fine
    BY ProfileFine
  <1>3. f \in ListFile
    BY AutoIsFile
  <1>4. AddUnless(check, p, h)
    OBVIOUS
  <1> HIDE DEF r, check, f
  <1>5. CASE check.pass \/ check.excluded
    BY <1>1, <1>2, <1>4, <1>5 DEF AddUnless
  <1>6. CASE ~ (check.pass \/ check.excluded)
    <2>1. IsGrown(lists', r.lists, f, h)
      BY <1>1, <1>4, <1>6 DEF AddUnless, IsGrown, f
    <2>2. adding' = [dp |-> p, host |-> h, stage |-> "append", blind |-> Unread(r.lists, f)]
      BY <1>1, <1>4, <1>6 DEF AddUnless, f
    <2>3. /\ lists' \in Fine /\ h \in lists'[f].hosts
          /\ \A g \in ListFile : /\ lists'[g].sig = r.lists[g].sig
                                 /\ r.lists[g].hosts \subseteq lists'[g].hosts
      BY <1>2, <1>3, <2>1, GrownFine
    <2>4. /\ adding' \in Adding /\ adding'.dp = p /\ adding'.host = h
          /\ adding'.stage = "append" /\ adding'.blind = Unread(r.lists, f)
      <3>1. Unread(r.lists, f) \in BOOLEAN
        BY <1>3 DEF Unread, DiskFine, File
      <3> QED
        BY <2>2, <3>1 DEF Adding
    <2>5. ASSUME ~ EditorRaces PROVE Relied'
      <3>1. ~ Unread(r.lists, f) /\ disk[f].there => disk[f].hosts \subseteq lists'[f].hosts
        <4>1. Covers(r.lists, f)
          BY <1>2, <1>3, <2>5 DEF Fine
        <4> QED
          BY <1>3, <2>3, <4>1 DEF Unread, Stale, Covers
      <3>2. ASSUME Visible(p)'
            PROVE  ~ OnDisk(Include[p], h)' /\ ~ OnDisk(Exclude[p], h)'
        <4>1. /\ \A i \in 1 .. Len(Include[p]) : Seen(Include[p][i])'
              /\ \A i \in 1 .. Len(Exclude[p]) : Seen(Exclude[p][i])'
          BY <3>2, VisibleListsNext DEF AllSeen
        <4>2. \A g \in ListFile : Seen(g)' => /\ disk[g].there /\ disk[g].readable
                                              /\ <<g, r.lists[g].sig>> \notin blind
          BY <2>3 DEF Seen
        <4>3. /\ \A i \in 1 .. Len(Include[p]) : Include[p][i] \in ListFile
              /\ \A i \in 1 .. Len(Exclude[p]) : Exclude[p][i] \in ListFile
          BY ProfileLists
        <4>4. /\ \A i \in 1 .. Len(Include[p]) :
                    /\ disk[Include[p][i]].there /\ disk[Include[p][i]].readable
                    /\ <<Include[p][i], r.lists[Include[p][i]].sig>> \notin blind
              /\ \A i \in 1 .. Len(Exclude[p]) :
                    /\ disk[Exclude[p][i]].there /\ disk[Exclude[p][i]].readable
                    /\ <<Exclude[p][i], r.lists[Exclude[p][i]].sig>> \notin blind
          BY <4>1, <4>2, <4>3
        <4>5. r.ok
          BY <4>4, ReadableLoads DEF r
        <4>6. ~ OnDisk(Include[p], h) /\ ~ OnDisk(Exclude[p], h)
          BY <1>1, <1>6, <2>5, <4>4, <4>5, UnansweredIsUnlisted DEF r
        <4> QED
          BY <4>6 DEF OnDisk
      <3> QED
        BY <2>3, <2>4, <3>1, <3>2 DEF Relied, f
    <2> QED
      BY <2>3, <2>4, <2>5
  <1> QED
    BY <1>5, <1>6

-----------------------------------------------------------------------------
(* The end of a packet's handler.                                          *)

(* What is added now has failed often enough.                              *)
Earned == adding'.stage = "append" /\ adding.stage = "none" =>
              Len(trail'[adding'.dp][adding'.host]) >= FailThreshold

(* A verdict concerns a host, and a profile that has a list to add it to.  *)
Concerns(t, v) == v # "none" => /\ t.dp \in Profile /\ AutoList[t.dp] # NoFile
                                /\ t.host \in Host

(* The lists, counters and the addition are as the invariant asks.         *)
Noted == /\ lists' \in Fine /\ FailsFine(fails', trail')
         /\ adding' # NotAdding =>
               /\ adding' \in Adding /\ AutoList[adding'.dp] # NoFile
               /\ adding'.host \notin DOMAIN fails'[adding'.dp]
               /\ ~ EditorRaces => Relied'
         /\ Earned

LEMMA ResetNotes ==
    ASSUME IInv, NEW ls \in Fine, NEW fs, FailsFine(fs, trail), NEW p \in Profile, NEW h \in Host,
           Reset(ls, fs, p, h)
    PROVE  Noted
  <1>1. PICK H : H = {h}
    OBVIOUS
  <1>2. IsWithout(fails', fs, p, H)
    BY <1>1 DEF Reset, IsWithout
  <1>3. FailsFine(fails', trail) /\ h \notin DOMAIN fails'[p]
    BY <1>1, <1>2, WithoutFine
  <1>4. trail' = [trail EXCEPT ![p][h] = <<>>] /\ <<>> \in Seq(Nat) /\ Len(<<>>) <= FailThreshold
    BY Constants DEF Reset
  <1>5. FailsFine(fails', trail')
    BY <1>3, <1>4, TrailFine
  <1> QED
    BY <1>5 DEF Reset, Noted, Earned, NotAdding

LEMMA FailedNotes ==
    ASSUME IInv, NEW ls \in Fine, NEW fs, FailsFine(fs, trail), NEW p \in Profile, NEW h \in Host,
           AutoList[p] # NoFile, disk' = disk, blind' = blind, Failed(ls, fs, p, h)
    PROVE  Noted
  <1>1. trail' = [trail EXCEPT ![p][h] = Recent(Append(@, now))] /\ now \in Nat
    BY DEF Failed, IInv, DiskFine
  <1>2. CASE Reached(fs[p], h)
    <2>1. fails' = [fs EXCEPT ![p] = Without(@, {h})] /\ AddUnless(HostlistCheck(disk, ls, p, h), p, h)
      BY <1>2 DEF Failed
    <2>2. FailsFine(fails', trail') /\ Len(trail'[p][h]) >= FailThreshold
      BY <1>1, <1>2, <2>1, CountedFine
    <2>3. h \notin DOMAIN fails'[p]
      <3>1. DOMAIN fs = Profile
        BY DEF FailsFine
      <3> QED
        BY <2>1, <3>1 DEF Without
    <2>4. /\ lists' \in Fine
          /\ adding' # NotAdding => /\ adding' \in Adding /\ adding'.dp = p /\ adding'.host = h
                                    /\ ~ EditorRaces => Relied'
      BY <2>1, AddFine DEF IInv
    <2> QED
      BY <2>2, <2>3, <2>4 DEF Noted, Earned, NotAdding
  <1>3. CASE ~ Reached(fs[p], h)
    <2>1. fails' = [fs EXCEPT ![p] = Counted(@, h)] /\ lists' = ls /\ adding' = NotAdding
      BY <1>3 DEF Failed
    <2>2. FailsFine(fails', trail')
      BY <1>1, <1>3, <2>1, CountedFine
    <2> QED
      BY <2>1, <2>2 DEF Noted, Earned, NotAdding
  <1> QED
    BY <1>2, <1>3

(* The invariant does not depend on how the parts of the step came about.  *)
LEMMA NotedKeeps ==
    ASSUME IInv, Noted, Tracks', up, purged' \in Nat, UNCHANGED <<disk, blind, up, now, edits>>
    PROVE  IInv' /\ Earned
  <1>1. DiskFine' /\ Typed'
    BY DEF IInv, DiskFine, Typed
  <1>2. lists' \in Fine'
    BY FineSame DEF Noted
  <1>3. AddingFine'
    BY DEF Noted, AddingFine
  <1> QED
    BY <1>1, <1>2, <1>3 DEF IInv, Noted

LEMMA TracksKept ==
    ASSUME Tracks, NEW c \in Conn, NEW t, Sound(t), NEW n, n = IF t.finalized THEN 1 ELSE 0,
           track' = [track EXCEPT ![c] = t], judged' = [judged EXCEPT ![c] = n]
    PROVE  Tracks'
  <1>1. track' \in [Conn -> Track \cup {Closed}] /\ judged' \in [Conn -> Nat]
    BY DEF Tracks, Sound
  <1>2. ASSUME NEW x \in Conn PROVE SoundTrack(x)' /\ CountedOnce(x)'
    <2>1. CASE x = c
      <3>1. track'[x] = t /\ judged'[x] = IF t.finalized THEN 1 ELSE 0
        BY <2>1 DEF Tracks
      <3>2. IsOpen(x)'
        BY <3>1, SoundIsOpen DEF IsOpen
      <3> QED
        BY <3>1, <3>2 DEF SoundTrack, CountedOnce
    <2>2. CASE x # c
      <3>1. track'[x] = track[x] /\ judged'[x] = judged[x]
        BY <2>2 DEF Tracks
      <3>2. SoundTrack(x) /\ CountedOnce(x)
        BY DEF Tracks
      <3> QED
        BY <3>1, <3>2 DEF SoundTrack, CountedOnce, IsOpen
    <2> QED
      BY <2>1, <2>2
  <1> QED
    BY <1>1, <1>2 DEF Tracks

LEMMA FinishKeeps ==
    ASSUME IInv, Ready, NEW c \in Conn, NEW ls \in Fine, NEW p0 \in Profile,
           NEW t, NEW n, NEW v, Sound(t), Concerns(t, v),
           n + (IF v = "none" THEN 0 ELSE 1) = IF t.finalized THEN 1 ELSE 0,
           Finish(c, ls, p0, t, n, v)
    PROVE  IInv' /\ Earned
  <1>1. Tracks'
    BY TracksKept DEF Finish, IInv
  <1>2. FailsFine(Purged(p0), trail)
    BY PurgedFine DEF IInv
  <1>3. Noted
    <2>1. CASE v = "none" /\ lists' = ls /\ fails' = Purged(p0) /\ UNCHANGED <<adding, trail>>
      BY <1>2, <2>1 DEF Noted, Earned, Ready, NotAdding
    <2>2. CASE v = "ok" /\ Reset(ls, Purged(p0), t.dp, t.host)
      <3>1. t.dp \in Profile /\ t.host \in Host
        BY <2>2 DEF Concerns
      <3> QED
        BY <1>2, <2>2, <3>1, ResetNotes
    <2>3. CASE v = "fail" /\ Failed(ls, Purged(p0), t.dp, t.host)
      <3>1. t.dp \in Profile /\ t.host \in Host /\ AutoList[t.dp] # NoFile
        BY <2>3 DEF Concerns
      <3>2. disk' = disk /\ blind' = blind
        BY DEF Finish
      <3> QED
        BY <1>2, <2>3, <3>1, <3>2, FailedNotes
    <2> QED
      BY <2>1, <2>2, <2>3 DEF Finish
  <1>4. up /\ purged' \in Nat /\ UNCHANGED <<disk, blind, up, now, edits>>
    BY DEF Finish, Ready, IInv, DiskFine
  <1> QED
    BY <1>1, <1>3, <1>4, NotedKeeps

-----------------------------------------------------------------------------
(* Packets.                                                                *)

LEMMA OpenKeeps ==
    ASSUME IInv, NEW c \in Conn, Open(c)
    PROVE  IInv' /\ Earned
  <1>1. PICK cached \in Names : \E o \in {Opened("tcp", cached)} :
                                   Finish(c, o.lists, o.t.dp, o.t, 0, "none")
    BY DEF Open
  <1> DEFINE o == Opened("tcp", cached)
  <1>2. Finish(c, o.lists, o.t.dp, o.t, 0, "none") /\ Ready
    BY <1>1 DEF Open
  <1>3. o.lists \in Fine /\ Sound(o.t) /\ ~ o.t.finalized
    BY OpenedSound DEF IInv
  <1> HIDE DEF o
  <1>4. o.t.dp \in Profile /\ Concerns(o.t, "none")
    BY <1>3 DEF Sound, Track, Concerns
  <1> QED
    BY <1>2, <1>3, <1>4, FinishKeeps

LEMMA ClientPayloadKeeps ==
    ASSUME IInv, NEW c \in Conn, ClientPayload(c)
    PROVE  IInv' /\ Earned
  <1>1. PICK told \in Tells(track[c]), sent \in {"far", "repeated", "new"} :
            \E t \in {AfterRetrans(track[c], sent)} : \E d \in {Discovered(lists, t, told)} :
               Finish(c, d.lists, t.dp, d.t, judged[c], RetransVerdict(track[c], sent))
    BY DEF ClientPayload
  <1> DEFINE t == AfterRetrans(track[c], sent)
             v == RetransVerdict(track[c], sent)
             d == Discovered(lists, t, told)
  <1>2. Finish(c, d.lists, t.dp, d.t, judged[c], v) /\ Ready
    BY <1>1 DEF ClientPayload
  <1>3. Sound(track[c]) /\ judged[c] = IF track[c].finalized THEN 1 ELSE 0
    BY DEF ClientPayload, IInv, Tracks, SoundTrack, CountedOnce
  <1>4. /\ Sound(t) /\ t.dp = track[c].dp /\ t.host = track[c].host
        /\ t.ah_check = track[c].ah_check
        /\ v # "none" => t.finalized /\ Judges(track[c])
        /\ v = "none" => t.finalized = track[c].finalized
    BY <1>3, RetransSound
  <1> HIDE DEF t, v
  <1>5. /\ d.lists \in Fine /\ Sound(d.t) /\ d.t.finalized = t.finalized
        /\ t.ah_check => d.t.dp = t.dp /\ d.t.host = t.host
    BY <1>4, DiscoveredSound DEF Tells, IInv
  <1> HIDE DEF d
  <1>6. judged[c] + (IF v = "none" THEN 0 ELSE 1) = IF d.t.finalized THEN 1 ELSE 0
    BY <1>3, <1>4, <1>5 DEF Judges
  <1>7. Concerns(d.t, v)
    BY <1>3, <1>4, <1>5, JudgedHasList DEF Concerns
  <1>8. t.dp \in Profile
    BY <1>4 DEF Sound, Track
  <1> QED
    BY <1>2, <1>5, <1>6, <1>7, <1>8, FinishKeeps

LEMMA ServerPacketKeeps ==
    ASSUME IInv, NEW c \in Conn, ServerPacket(c)
    PROVE  IInv' /\ Earned
  <1>1. PICK told \in Tells(track[c]), reply \in {"far", "bad", "other"} :
            \E v \in {ReplyVerdict(track[c], reply)} :
            \E d \in {Discovered(lists, AfterVerdict(track[c], v), told)} :
               Finish(c, d.lists, track[c].dp, d.t, judged[c], v)
    BY DEF ServerPacket
  <1> DEFINE v == ReplyVerdict(track[c], reply)
             t == AfterVerdict(track[c], v)
             d == Discovered(lists, t, told)
  <1>2. Finish(c, d.lists, track[c].dp, d.t, judged[c], v) /\ Ready
    BY <1>1 DEF ServerPacket
  <1>3. Sound(track[c]) /\ judged[c] = IF track[c].finalized THEN 1 ELSE 0
    BY DEF ServerPacket, IInv, Tracks, SoundTrack, CountedOnce
  <1>4. v # "none" => Judges(track[c]) /\ ~ track[c].finalized
    BY DEF ReplyVerdict, Judges
  <1> HIDE DEF v
  <1>5. /\ Sound(t) /\ t.dp = track[c].dp /\ t.host = track[c].host
        /\ t.ah_check = track[c].ah_check
        /\ v # "none" => t.finalized
        /\ v = "none" => t.finalized = track[c].finalized
    BY <1>3, <1>4, AfterVerdictSound
  <1> HIDE DEF t
  <1>6. /\ d.lists \in Fine /\ Sound(d.t) /\ d.t.finalized = t.finalized
        /\ t.ah_check => d.t.dp = t.dp /\ d.t.host = t.host
    BY <1>5, DiscoveredSound DEF Tells, IInv
  <1> HIDE DEF d
  <1>7. judged[c] + (IF v = "none" THEN 0 ELSE 1) = IF d.t.finalized THEN 1 ELSE 0
    BY <1>3, <1>4, <1>5, <1>6
  <1>8. Concerns(d.t, v)
    BY <1>3, <1>4, <1>5, <1>6, JudgedHasList DEF Concerns
  <1>9. track[c].dp \in Profile
    BY <1>3 DEF Sound, Track
  <1> QED
    BY <1>2, <1>6, <1>7, <1>8, <1>9, FinishKeeps

LEMMA UntrackedKeeps ==
    ASSUME IInv, NEW c \in Conn, Untracked(c)
    PROVE  IInv' /\ Earned
  <1> DEFINE o == Opened("tcp", NoHost)
  <1>1. PICK told \in Tells(o.t) : /\ lists' = Discovered(o.lists, o.t, told).lists
                                   /\ fails' = Purged(o.t.dp)
    BY DEF Untracked
  <1>2. o.lists \in Fine /\ Sound(o.t)
    BY OpenedSound DEF IInv, Names
  <1> HIDE DEF o
  <1>3. lists' \in Fine
    BY <1>1, <1>2, DiscoveredSound DEF Tells, IInv
  <1>4. o.t.dp \in Profile
    BY <1>2 DEF Sound, Track
  <1>5. FailsFine(fails', trail)
    BY <1>1, <1>4, PurgedFine DEF IInv
  <1>6. Noted
    BY <1>3, <1>5 DEF Noted, Earned, Untracked, Ready, NotAdding
  <1>7. Tracks'
    BY DEF Untracked, IInv, Tracks, SoundTrack, CountedOnce, IsOpen
  <1> QED
    BY <1>6, <1>7, NotedKeeps DEF Untracked, Ready, IInv, DiskFine

LEMMA UdpPacketKeeps ==
    ASSUME IInv, NEW c \in Conn, UdpPacket(c)
    PROVE  IInv' /\ Earned
  <1> DEFINE Counts(fromClient, b, told) ==
               \E t \in {IF fromClient THEN [b.t EXCEPT !.sent = Capped(@, UdpOut)]
                         ELSE [b.t EXCEPT !.rcvd = Capped(@, UdpIn + 1)]} :
               \E d \in {Discovered(b.lists, t, told)} :
               \E v \in {UdpVerdict(d.t)} :
                  Finish(c, d.lists, t.dp, AfterVerdict(d.t, v), judged[c], v)
  <1>1. PICK fromClient \in BOOLEAN, cached \in Names :
            /\ IsOpen(c) \/ ~ fromClient => cached = NoHost
            /\ \E b \in {Current(c, cached)} : \E told \in Tells(b.t) :
               (told.host # NoHost => fromClient) /\ Counts(fromClient, b, told)
    BY DEF UdpPacket
  <1> DEFINE b == Current(c, cached)
  <1>10. PICK told \in Tells(b.t) : Counts(fromClient, b, told)
    <2> HIDE DEF Counts
    <2> QED
      BY <1>1
  <1> DEFINE t == IF fromClient THEN [b.t EXCEPT !.sent = Capped(@, UdpOut)]
                  ELSE [b.t EXCEPT !.rcvd = Capped(@, UdpIn + 1)]
             d == Discovered(b.lists, t, told)
             v == UdpVerdict(d.t)
             u == AfterVerdict(d.t, v)
  <1>2. Finish(c, d.lists, t.dp, u, judged[c], v) /\ Ready
    BY <1>10 DEF UdpPacket
  <1>3. b.lists \in Fine /\ Sound(b.t) /\ judged[c] = IF b.t.finalized THEN 1 ELSE 0
    BY CurrentSound DEF IInv
  <1> HIDE DEF b
  <1>4. Sound(t) /\ t.finalized = b.t.finalized
    <2>1. b.t \in Track /\ Capped(b.t.sent, UdpOut) \in Nat /\ Capped(b.t.rcvd, UdpIn + 1) \in Nat
      BY <1>3 DEF Sound, Track, Capped
    <2> QED
      BY <1>3, <2>1 DEF Sound, Track
  <1> HIDE DEF t
  <1>5. d.lists \in Fine /\ Sound(d.t) /\ d.t.finalized = t.finalized
    BY <1>3, <1>4, DiscoveredSound DEF Tells, IInv
  <1> HIDE DEF d
  <1>6. v # "none" => Judges(d.t) /\ ~ d.t.finalized
    BY DEF UdpVerdict, Judges
  <1> HIDE DEF v
  <1>7. /\ Sound(u) /\ u.dp = d.t.dp /\ u.host = d.t.host
        /\ v # "none" => u.finalized
        /\ v = "none" => u.finalized = d.t.finalized
    BY <1>5, <1>6, AfterVerdictSound
  <1> HIDE DEF u
  <1>8. judged[c] + (IF v = "none" THEN 0 ELSE 1) = IF u.finalized THEN 1 ELSE 0
    BY <1>3, <1>4, <1>5, <1>6, <1>7
  <1>9. Concerns(u, v) /\ t.dp \in Profile
    BY <1>4, <1>5, <1>6, <1>7, JudgedHasList DEF Concerns, Sound, Track
  <1> QED
    BY <1>2, <1>5, <1>7, <1>8, <1>9, FinishKeeps

LEMMA CloseKeeps ==
    ASSUME IInv, NEW c \in Conn, Close(c)
    PROVE  IInv' /\ Earned
  <1>1. track' = [track EXCEPT ![c] = Closed] /\ judged' = [judged EXCEPT ![c] = 0]
    BY DEF Close
  <1>2. track' \in [Conn -> Track \cup {Closed}] /\ judged' \in [Conn -> Nat]
    BY <1>1 DEF IInv, Tracks
  <1>3. ASSUME NEW x \in Conn PROVE SoundTrack(x)' /\ CountedOnce(x)'
    <2>1. CASE x = c
      BY <1>1, <2>1 DEF IInv, Tracks, SoundTrack, CountedOnce, IsOpen
    <2>2. CASE x # c
      <3>1. track'[x] = track[x] /\ judged'[x] = judged[x]
        BY <1>1, <2>2 DEF IInv, Tracks
      <3> QED
        BY <3>1 DEF IInv, Tracks, SoundTrack, CountedOnce, IsOpen
    <2> QED
      BY <2>1, <2>2
  <1>4. Tracks'
    BY <1>2, <1>3 DEF Tracks
  <1>5. Noted
    BY DEF Close, Ready, NotAdding, IInv, Noted, Earned
  <1> QED
    BY <1>4, <1>5, NotedKeeps DEF Close, Ready, IInv, Typed

-----------------------------------------------------------------------------
(* Changes of the files.                                                   *)

(* Whoever changes a file, the list in memory is not newer, and where it   *)
(* is as new it holds what is in the file.                                 *)
Changes(f, file) ==
    /\ file \in File /\ 1 <= file.mtime /\ file.mtime <= now
    /\ ~ file.there => file.mtime < now
    /\ \/ file.mtime = disk[f].mtime /\ file.size = disk[f].size /\ file.hosts = disk[f].hosts
       \/ file.mtime > disk[f].mtime
       \/ file.mtime = disk[f].mtime /\ file.size > disk[f].size

LEMMA ChangeKeeps ==
    ASSUME DiskFine, lists \in Fine, NEW f \in ListFile, NEW file, Changes(f, file),
           disk' = [disk EXCEPT ![f] = file], UNCHANGED <<lists, blind, now>>
    PROVE  DiskFine' /\ lists' \in Fine'
  <1>1. disk' \in [ListFile -> File] /\ disk'[f] = file
    BY DEF DiskFine, Changes
  <1>2. \A g \in ListFile : g # f => disk'[g] = disk[g]
    BY DEF DiskFine
  <1>3. DiskFine'
    <2>1. ASSUME NEW g \in ListFile
          PROVE  1 <= disk'[g].mtime /\ disk'[g].mtime <= now /\ (~ disk'[g].there => disk'[g].mtime < now)
      BY <1>1, <1>2 DEF DiskFine, Changes
    <2> QED
      BY <1>1, <2>1 DEF DiskFine
  <1>4. ASSUME ~ EditorRaces, NEW g \in ListFile PROVE Covers(lists, g)'
    <2>1. Covers(lists, g)
      BY <1>4 DEF Fine
    <2>2. CASE g = f
      <3>1. /\ lists[f].sig.mtime \in Nat /\ lists[f].sig.size \in Nat
            /\ disk[f].mtime \in Nat /\ disk[f].size \in Nat
            /\ file.mtime \in Nat /\ file.size \in Nat
        BY DEF Fine, Lists, List, Sig, DiskFine, File, Changes
      <3>2. Changes(f, file)
        OBVIOUS
      <3> QED
        BY <1>1, <2>1, <2>2, <3>1, <3>2 DEF Covers, Changes, SigOf
    <2>3. CASE g # f
      BY <1>2, <2>1, <2>3 DEF Covers
    <2> QED
      BY <2>2, <2>3
  <1>5. lists' \in Lists
    BY DEF Fine
  <1> QED
    BY <1>3, <1>4, <1>5 DEF Fine, Lists

LEMMA WrittenChanges ==
    ASSUME DiskFine, NEW f \in ListFile, NEW h \in Host, NEW file, file = Written(disk[f], {h})
    PROVE  /\ Changes(f, file) /\ file.there
           /\ file.hosts = (IF disk[f].there THEN disk[f].hosts ELSE {}) \cup {h}
  <1>1. disk[f] \in File /\ now \in Nat
    BY DEF DiskFine
  <1> DEFINE H  == (IF disk[f].there THEN disk[f].hosts ELSE {}) \cup {h}
             n  == (IF disk[f].there THEN disk[f].size ELSE 0) + 1
             d1 == [disk[f] EXCEPT !.there = TRUE, !.hosts = H]
  <1>4. H \in SUBSET Host /\ n \in Nat
    BY <1>1 DEF File
  <1>5. file = [d1 EXCEPT !.size = n, !.mtime = now]
    BY <1>1 DEF Written, File
  <1> HIDE DEF H, n
  <1>6. d1 \in File /\ d1.there /\ d1.hosts = H
    BY <1>1, <1>4 DEF File
  <1> HIDE DEF d1
  <1>7. /\ file \in File /\ file.there /\ file.mtime = now /\ file.hosts = H /\ file.size = n
    BY <1>1, <1>4, <1>5, <1>6 DEF File
  <1>2. /\ file.there /\ file.mtime = now
        /\ file.hosts = (IF disk[f].there THEN disk[f].hosts ELSE {}) \cup {h}
        /\ file.size = (IF disk[f].there THEN disk[f].size ELSE 0) + 1
    BY <1>7 DEF H, n
  <1>3. file \in File
    BY <1>7
  <1>8. 1 <= now /\ disk[f].mtime <= now /\ disk[f].mtime \in Nat /\ disk[f].size \in Nat
    BY <1>1 DEF DiskFine, File
  <1>9. disk[f].mtime = now => file.size > disk[f].size
    BY <1>1, <1>2, <1>8 DEF DiskFine
  <1>10. file.mtime > disk[f].mtime \/ (file.mtime = disk[f].mtime /\ file.size > disk[f].size)
    BY <1>1, <1>2, <1>8, <1>9
  <1>11. Changes(f, file)
    <2>1. file \in File /\ 1 <= file.mtime /\ file.mtime <= now /\ file.there
      BY <1>1, <1>2, <1>3, <1>8
    <2> QED
      BY <1>10, <2>1 DEF Changes
  <1> QED
    BY <1>2, <1>11

LEMMA RewrittenChanges ==
    ASSUME DiskFine, NEW f \in ListFile, now # disk[f].mtime, NEW H \in SUBSET Entry,
           NEW r \in BOOLEAN, NEW file, file = Rewritten(disk[f], H, r)
    PROVE  Changes(f, file)
  <1> DEFINE d1 == [disk[f] EXCEPT !.there = TRUE, !.hosts = H, !.readable = r]
             n  == Cardinality(H)
  <1>1. disk[f] \in File /\ now \in Nat /\ n \in Nat
    BY Constants, FS_Subset, FS_CardinalityType DEF DiskFine
  <1> HIDE DEF n
  <1>2. file = [d1 EXCEPT !.size = n, !.mtime = now]
    BY <1>1 DEF File, Rewritten, n
  <1>3. d1 \in File /\ d1.there
    BY <1>1, Constants DEF File
  <1> HIDE DEF d1
  <1>4. file \in File /\ file.there /\ file.mtime = now
    BY <1>1, <1>2, <1>3 DEF File
  <1> QED
    BY <1>1, <1>4 DEF Changes, DiskFine, File

(* A file that is deleted, or made readable or not, keeps its signature.   *)
LEMMA MarkedChanges ==
    ASSUME DiskFine, NEW f \in ListFile, NEW file,
           \/ now # disk[f].mtime /\ file = [disk[f] EXCEPT !.there = FALSE]
           \/ file = [disk[f] EXCEPT !.readable = ~ @]
    PROVE  Changes(f, file)
  <1>1. disk[f] \in File /\ now \in Nat
    BY DEF DiskFine
  <1>2. CASE now # disk[f].mtime /\ file = [disk[f] EXCEPT !.there = FALSE]
    <2>1. /\ file \in File /\ file.mtime = disk[f].mtime /\ file.size = disk[f].size
          /\ file.hosts = disk[f].hosts
      BY <1>1, <1>2 DEF File
    <2> QED
      BY <1>1, <1>2, <2>1 DEF Changes, DiskFine, File
  <1>3. CASE file = [disk[f] EXCEPT !.readable = ~ @]
    <2>1. /\ file \in File /\ file.mtime = disk[f].mtime /\ file.size = disk[f].size
          /\ file.hosts = disk[f].hosts /\ file.there = disk[f].there
      BY <1>1, <1>3 DEF File
    <2> QED
      BY <1>1, <2>1 DEF Changes, DiskFine
  <1> QED
    BY <1>2, <1>3

LEMMA EditKeeps ==
    ASSUME IInv, Edit
    PROVE  IInv' /\ Earned
  <1>1. PICK f \in ListFile :
           \/ disk[f].there /\ \E h \in Entry : Put(f, Written(disk[f], {h}))
           \/ /\ now # disk[f].mtime
              /\ \/ \E H \in SUBSET Entry, r \in BOOLEAN : Put(f, Rewritten(disk[f], H, r))
                 \/ Put(f, [disk[f] EXCEPT !.there = FALSE])
           \/ Put(f, [disk[f] EXCEPT !.readable = ~ @])
    BY DEF Edit
  <1>2. \E file : Changes(f, file) /\ Put(f, file)
    <2>1. CASE disk[f].there /\ \E h \in Entry : Put(f, Written(disk[f], {h}))
      <3>1. PICK h \in Entry : Put(f, Written(disk[f], {h}))
        BY <2>1
      <3>2. Changes(f, Written(disk[f], {h}))
        BY WrittenChanges, Constants DEF IInv
      <3> QED
        BY <3>1, <3>2
    <2>2. CASE /\ now # disk[f].mtime
               /\ \E H \in SUBSET Entry, r \in BOOLEAN : Put(f, Rewritten(disk[f], H, r))
      <3>1. PICK H \in SUBSET Entry, r \in BOOLEAN : Put(f, Rewritten(disk[f], H, r))
        BY <2>2
      <3>2. Changes(f, Rewritten(disk[f], H, r))
        BY <2>2, RewrittenChanges DEF IInv
      <3> QED
        BY <3>1, <3>2
    <2>3. CASE now # disk[f].mtime /\ Put(f, [disk[f] EXCEPT !.there = FALSE])
      BY <2>3, MarkedChanges DEF IInv
    <2>4. CASE Put(f, [disk[f] EXCEPT !.readable = ~ @])
      BY <2>4, MarkedChanges DEF IInv
    <2> QED
      BY <1>1, <2>1, <2>2, <2>3, <2>4
  <1>3. DiskFine' /\ lists' \in Fine'
    <2>1. PICK file : Changes(f, file) /\ Put(f, file)
      BY <1>2
    <2> QED
      BY <2>1, ChangeKeeps DEF Edit, Put, IInv
  <1>4. AddingFine'
    BY DEF Edit, IInv, AddingFine
  <1>5. Tracks' /\ Typed' /\ FailsFine(fails, trail)' /\ Earned
    BY DEF Edit, IInv, Typed, Tracks, SoundTrack, CountedOnce, IsOpen, Earned
  <1> QED
    BY <1>3, <1>4, <1>5 DEF IInv

LEMMA AppendHostKeeps ==
    ASSUME IInv, AppendHost
    PROVE  IInv' /\ Earned
  <1> DEFINE p == adding.dp
             h == adding.host
             f == AutoList[p]
  <1>1. /\ adding \in Adding /\ p \in Profile /\ h \in Host /\ f \in ListFile
        /\ h \notin DOMAIN fails[p] /\ AutoList[p] # NoFile
        /\ ~ EditorRaces => Relied
    <2>1. adding # NotAdding
      BY DEF AppendHost, NotAdding
    <2> QED
      BY <2>1, AutoIsFile DEF IInv, AddingFine, Adding
  <1>2. FailsFine(fails, trail')
    <2>1. <<>> \in Seq(Nat) /\ Len(<<>>) <= FailThreshold
      BY Constants
    <2>2. trail' = [trail EXCEPT ![p][h] = <<>>]
      BY DEF AppendHost
    <2>3. FailsFine(fails, trail)
      BY DEF IInv
    <2> HIDE DEF p, h
    <2> QED
      BY <1>1, <2>1, <2>2, <2>3, TrailFine
  <1>3. Tracks' /\ Typed' /\ FailsFine(fails, trail)' /\ Earned
    <2>1. Earned
      BY DEF AppendHost, Earned
    <2>2. Tracks' /\ Typed'
      BY DEF AppendHost, IInv, Typed, Tracks, SoundTrack, CountedOnce, IsOpen
    <2> QED
      BY <1>2, <2>1, <2>2 DEF AppendHost
  <1>4. CASE adding' = NotAdding /\ UNCHANGED disk
    <2>1. DiskFine' /\ lists' \in Fine' /\ AddingFine'
      BY <1>4, FineSame DEF AppendHost, IInv, DiskFine, AddingFine
    <2> QED
      BY <1>3, <2>1 DEF IInv
  <1>5. CASE /\ disk' = [disk EXCEPT ![f] = Written(@, {h})]
             /\ adding' = [adding EXCEPT !.stage = "stat"]
    <2> DEFINE file == Written(disk[f], {h})
    <2>1. disk' = [disk EXCEPT ![f] = file] /\ UNCHANGED <<lists, blind, now>> /\ fails' = fails
      BY <1>5 DEF AppendHost
    <2>2. Changes(f, file) /\ file.there
          /\ file.hosts = (IF disk[f].there THEN disk[f].hosts ELSE {}) \cup {h}
      BY <1>1, WrittenChanges DEF IInv
    <2> HIDE DEF file
    <2>3. DiskFine' /\ lists' \in Fine'
      BY <1>1, <2>1, <2>2, ChangeKeeps DEF IInv
    <2>4. /\ adding' \in Adding /\ adding'.dp = p /\ adding'.host = h /\ adding'.stage = "stat"
          /\ adding'.blind = adding.blind
      BY <1>1, <1>5 DEF Adding
    <2>5. disk'[f] = file
      BY <1>1, <2>1 DEF IInv, DiskFine
    <2>6. ~ EditorRaces => Relied'
      <3> SUFFICES ASSUME ~ EditorRaces PROVE Relied'
        OBVIOUS
      <3>1. Relied
        BY <1>1
      <3> QED
        BY <2>1, <2>2, <2>4, <2>5, <3>1 DEF Relied
    <2>7. AddingFine'
      BY <1>1, <2>1, <2>4, <2>6 DEF AddingFine
    <2> QED
      BY <1>3, <2>3, <2>7 DEF IInv
  <1> QED
    BY <1>4, <1>5 DEF AppendHost
LEMMA StatFileKeeps ==
    ASSUME IInv, StatFile
    PROVE  IInv' /\ Earned
  <1> DEFINE f == AutoList[adding.dp]
             s == IF disk[f].there THEN SigOf(disk[f]) ELSE NoSig
  <1>1. /\ adding \in Adding /\ f \in ListFile /\ adding.stage = "stat"
        /\ ~ EditorRaces => Relied
    <2>1. adding # NotAdding
      BY DEF StatFile, NotAdding
    <2> QED
      BY <2>1, AutoIsFile DEF IInv, AddingFine, Adding, StatFile
  <1>2. /\ lists' = [lists EXCEPT ![f].sig = s] /\ UNCHANGED disk
        /\ blind' = IF adding.blind THEN blind \cup {<<f, lists'[f].sig>>} ELSE blind
    BY DEF StatFile
  <1>3. s \in Sig
    <2>1. disk[f] \in File
      BY <1>1 DEF IInv, DiskFine
    <2> QED
      BY <2>1 DEF Sig, SigOf, NoSig, File
  <1>4. s # SigOf(disk[f]) => EditorRaces
    BY <1>1 DEF Relied
  <1>7. ~ EditorRaces => /\ disk[f].there /\ s = SigOf(disk[f])
                         /\ ~ adding.blind => disk[f].hosts \subseteq lists[f].hosts
    BY <1>1 DEF Relied
  <1> HIDE DEF f, s
  <1>5. /\ lists \in [ListFile -> List] /\ lists' \in [ListFile -> List]
        /\ lists'[f].sig = s /\ lists'[f].hosts = lists[f].hosts
        /\ \A g \in ListFile : g # f => lists'[g] = lists[g]
    <2>1. lists \in [ListFile -> List]
      BY DEF IInv, Fine, Lists
    <2>2. lists' = [lists EXCEPT ![f] = [lists[f] EXCEPT !.sig = s]]
      BY <1>2
    <2> DEFINE l == [lists[f] EXCEPT !.sig = s]
    <2>3. l \in List /\ l.sig = s /\ l.hosts = lists[f].hosts
      BY <1>1, <1>3, <2>1 DEF List
    <2> HIDE DEF l
    <2> QED
      BY <1>1, <2>1, <2>2, <2>3 DEF l
  <1>6. lists' \in Fine'
    <2>1. ASSUME ~ EditorRaces, NEW g \in ListFile PROVE Covers(lists, g)'
      <3>1. Covers(lists, g)
        BY <2>1 DEF IInv, Fine
      <3>2. CASE g = f
        <4>1. s.mtime = disk[f].mtime /\ s.size = disk[f].size
          BY <1>7, <2>1 DEF SigOf
        <4>2. disk[f].size \in Nat
          BY <1>1 DEF IInv, DiskFine, File
        <4>3. adding.blind => <<f, s>> \in blind'
          BY <1>2, <1>5
        <4> QED
          BY <1>2, <1>5, <1>7, <2>1, <3>2, <4>1, <4>2, <4>3 DEF Covers
      <3>3. CASE g # f
        <4>1. lists'[g] = lists[g] /\ disk' = disk /\ blind \subseteq blind'
          BY <1>2, <1>5, <3>3
        <4> QED
          BY <3>1, <4>1 DEF Covers
      <3> QED
        BY <3>2, <3>3
    <2> QED
      BY <1>5, <2>1 DEF Fine, Lists
  <1>8. blind' \subseteq ListFile \X Sig
    BY <1>1, <1>2, <1>3, <1>5 DEF IInv, Typed
  <1>9. DiskFine' /\ AddingFine' /\ Earned
    BY DEF StatFile, IInv, DiskFine, AddingFine, Earned, NotAdding
  <1>10. Tracks' /\ Typed' /\ FailsFine(fails, trail)'
    BY <1>8 DEF StatFile, IInv, Typed, Tracks, SoundTrack, CountedOnce, IsOpen
  <1> QED
    BY <1>6, <1>9, <1>10 DEF IInv

LEMMA TickKeeps ==
    ASSUME IInv, Tick
    PROVE  IInv' /\ Earned
  <1>1. DiskFine'
    <2>1. now \in Nat /\ now' = now + 1 /\ disk' = disk
      BY DEF Tick, IInv, DiskFine
    <2>2. ASSUME NEW f \in ListFile PROVE disk[f].mtime \in Nat
      BY DEF IInv, DiskFine, File
    <2> QED
      BY <2>1, <2>2 DEF IInv, DiskFine
  <1>2. lists' \in Fine'
    BY FineSame DEF Tick, IInv
  <1>3. AddingFine'
    BY DEF Tick, IInv, AddingFine
  <1>4. Tracks' /\ Typed' /\ FailsFine(fails, trail)' /\ Earned
    BY DEF Tick, IInv, Typed, Tracks, SoundTrack, CountedOnce, IsOpen, Earned
  <1> QED
    BY <1>1, <1>2, <1>3, <1>4 DEF IInv

-----------------------------------------------------------------------------
(* SIGHUP and the process.                                                 *)

LEMMA LoadAllFine ==
    ASSUME DiskFine, NEW ls \in Fine
    PROVE  AutolistsNonEmpty(LoadAll(ls)) \in Fine
  <1> DEFINE u == LoadAll(ls)
  <1>1. \A f \in ListFile : u[f] = Load(disk, ls, f)
    BY DEF LoadAll
  <1>2. u \in [ListFile -> List]
    BY LoadFine DEF LoadAll
  <1> HIDE DEF u
  <1>3. ASSUME ~ EditorRaces, NEW f \in ListFile PROVE Covers(u, f)
    BY <1>1, <1>3, LoadFine DEF Covers
  <1>4. u \in Fine
    BY <1>2, <1>3 DEF Fine, Lists
  <1> QED
    BY <1>4, NonEmptyFine DEF u

(* Lists without a signature are older than any file.                      *)
LEMMA UnsignedFine ==
    ASSUME DiskFine, NEW ls \in Lists, \A f \in ListFile : ls[f].sig = NoSig
    PROVE  ls \in Fine
  <1>1. ASSUME NEW f \in ListFile PROVE Covers(ls, f)
    <2>1. disk[f].mtime \in Nat /\ 1 <= disk[f].mtime /\ ls[f].sig.mtime = 0
      BY DEF DiskFine, File, NoSig
    <2> QED
      BY <2>1 DEF Covers, SigOf
  <1> QED
    BY <1>1 DEF Fine

LEMMA UnloadedFine ==
    ASSUME DiskFine
    PROVE  [f \in ListFile |-> Unloaded] \in Fine
  <1>1. Unloaded \in List /\ Unloaded.sig = NoSig
    BY DEF Unloaded, List, NoSig, Sig
  <1> HIDE DEF Unloaded
  <1> QED
    BY <1>1, UnsignedFine DEF Lists

LEMMA HangupKeeps ==
    ASSUME IInv, Hangup
    PROVE  IInv' /\ Earned
  <1> DEFINE u == Forgotten(lists)
  <1>1. lists \in [ListFile -> List]
    BY DEF IInv, Fine, Lists
  <1>2. u \in Lists /\ \A f \in ListFile : u[f].sig = NoSig
    BY <1>1 DEF Forgotten, Lists, List, NoSig, Sig
  <1>3. u \in Fine
    BY <1>2, UnsignedFine DEF IInv
  <1> HIDE DEF u
  <1>4. lists' \in Fine
    BY <1>3, LoadAllFine DEF Hangup, IInv, u
  <1>5. Noted
    BY <1>4 DEF Hangup, Ready, NotAdding, IInv, Noted, Earned
  <1>6. Tracks'
    BY DEF Hangup, IInv, Tracks, SoundTrack, CountedOnce, IsOpen
  <1> QED
    BY <1>5, <1>6, NotedKeeps DEF Hangup, Ready, IInv, Typed

LEMMA StartKeeps ==
    ASSUME IInv, Start
    PROVE  IInv' /\ Earned
  <1>1. lists' \in Fine
    BY LoadAllFine DEF Start, IInv
  <1>2. lists' \in Fine'
    BY <1>1, FineSame DEF Start
  <1>3. DiskFine' /\ AddingFine'
    <2>1. UNCHANGED <<disk, now, adding, fails, blind>>
      BY DEF Start
    <2>2. adding = NotAdding
      BY DEF Start, IInv, Typed
    <2> QED
      BY <2>1, <2>2 DEF IInv, DiskFine, AddingFine
  <1>4. Tracks' /\ Typed' /\ FailsFine(fails, trail)' /\ Earned
    BY DEF Start, IInv, Typed, Tracks, SoundTrack, CountedOnce, IsOpen, Earned
  <1> QED
    BY <1>2, <1>3, <1>4 DEF IInv

LEMMA NothingFailed ==
    FailsFine([p \in Profile |-> <<>>], [p \in Profile |-> [h \in Host |-> <<>>]])
  BY Constants DEF FailsFine

LEMMA DieKeeps ==
    ASSUME IInv, Die
    PROVE  IInv' /\ Earned
  <1>1. DiskFine'
    BY DEF Die, IInv, DiskFine
  <1>2. lists' \in Fine'
    <2>1. lists' = [f \in ListFile |-> Unloaded]
      BY DEF Die
    <2>2. (DiskFine => [f \in ListFile |-> Unloaded] \in Fine)'
      BY UnloadedFine, PTL
    <2> QED
      BY <1>1, <2>1, <2>2
  <1>3. FailsFine(fails, trail)'
    BY NothingFailed DEF Die
  <1>4. Tracks' /\ Typed' /\ AddingFine' /\ Earned
    BY DEF Die, IInv, Typed, Tracks, SoundTrack, CountedOnce, IsOpen, AddingFine, Earned, NotAdding
  <1> QED
    BY <1>1, <1>2, <1>3, <1>4 DEF IInv

LEMMA InitHolds ==
    ASSUME Init
    PROVE  IInv
  <1>1. DiskFine
    <2> DEFINE file == [there |-> TRUE, readable |-> TRUE, hosts |-> {}, mtime |-> 1, size |-> 0]
    <2>1. file \in File /\ file.there /\ file.mtime = 1
      BY DEF File
    <2>2. disk = [f \in ListFile |-> file] /\ now = 1
      BY DEF Init
    <2> HIDE DEF file
    <2> QED
      BY <2>1, <2>2 DEF DiskFine
  <1>2. lists \in Fine
    <2>1. [f \in ListFile |-> Unloaded] \in Fine
      BY <1>1, UnloadedFine
    <2> QED
      BY <1>1, <2>1, LoadAllFine DEF Init, LoadAll
  <1>3. FailsFine(fails, trail)
    BY NothingFailed DEF Init
  <1>4. Tracks /\ Typed /\ AddingFine
    BY DEF Init, Typed, Tracks, SoundTrack, CountedOnce, IsOpen, AddingFine
  <1> QED
    BY <1>1, <1>2, <1>3, <1>4 DEF IInv

-----------------------------------------------------------------------------
(* The theorems.                                                           *)

LEMMA NextKeeps ==
    ASSUME IInv, [Next]_vars
    PROVE  IInv' /\ Earned
  <1>1. ASSUME NEW c \in Conn, Open(c) PROVE IInv' /\ Earned
    BY <1>1, OpenKeeps
  <1>2. ASSUME NEW c \in Conn, ClientPayload(c) PROVE IInv' /\ Earned
    BY <1>2, ClientPayloadKeeps
  <1>3. ASSUME NEW c \in Conn, ServerPacket(c) PROVE IInv' /\ Earned
    BY <1>3, ServerPacketKeeps
  <1>4. ASSUME NEW c \in Conn, Untracked(c) PROVE IInv' /\ Earned
    BY <1>4, UntrackedKeeps
  <1>5. ASSUME NEW c \in Conn, UdpPacket(c) PROVE IInv' /\ Earned
    BY <1>5, UdpPacketKeeps
  <1>6. ASSUME NEW c \in Conn, Close(c) PROVE IInv' /\ Earned
    BY <1>6, CloseKeeps
  <1>7. CASE AppendHost
    BY <1>7, AppendHostKeeps
  <1>8. CASE StatFile
    BY <1>8, StatFileKeeps
  <1>9. CASE Edit
    BY <1>9, EditKeeps
  <1>10. CASE Tick
    BY <1>10, TickKeeps
  <1>11. CASE Hangup
    BY <1>11, HangupKeeps
  <1>12. CASE Die
    BY <1>12, DieKeeps
  <1>13. CASE Start
    BY <1>13, StartKeeps
  <1>14. CASE UNCHANGED vars
    <2>2. UNCHANGED vars
      BY <1>14
    <2>3. DiskFine' /\ lists' \in Fine'
      BY <2>2, FineSame DEF vars, IInv, DiskFine
    <2>4. AddingFine'
      BY <2>2 DEF vars, IInv, AddingFine, Relied, Visible, OnDisk
    <2>5. Tracks' /\ Typed' /\ FailsFine(fails, trail)' /\ Earned
      BY <2>2 DEF vars, IInv, Typed, Tracks, SoundTrack, CountedOnce, IsOpen, Earned
    <2> QED
      BY <2>3, <2>4, <2>5 DEF IInv
  <1> QED
    BY <1>1, <1>2, <1>3, <1>4, <1>5, <1>6, <1>7, <1>8, <1>9, <1>10, <1>11, <1>12,
       <1>13, <1>14 DEF Next

LEMMA InvHolds == Spec => []IInv
  <1>1. Init => IInv
    BY InitHolds
  <1>2. IInv /\ [Next]_vars => IInv'
    BY NextKeeps
  <1> QED
    BY <1>1, <1>2, PTL DEF Spec

(* TypeOK: every variable keeps its type, tracks and counters included.    *)
THEOREM TypeCorrect == Spec => []TypeOK
  <1>1. IInv => TypeOK
    BY DEF IInv, DiskFine, Fine, Lists, Tracks, FailsFine, AddingFine, Typed, TypeOK
  <1> QED
    BY <1>1, InvHolds, PTL

(* JudgedOnce: whatever happens on a connection, at most one failure is    *)
(* counted or one success noted for it.                                    *)
THEOREM ConnectionJudgedOnce == Spec => []JudgedOnce
  <1>1. IInv => JudgedOnce
    BY DEF IInv, Tracks, CountedOnce, JudgedOnce
  <1> QED
    BY <1>1, InvHolds, PTL

(* ObservedUntouched: a connection under observation did not pass its host *)
(* list check and its profile has an auto list: no later change of profile *)
(* leaves auto_hostlist_failed without one.                                *)
THEOREM ObservedIsUntouched == Spec => []ObservedUntouched
  <1>1. IInv => ObservedUntouched
    BY DEF IInv, Tracks, SoundTrack, Sound, ObservedUntouched
  <1> QED
    BY <1>1, InvHolds, PTL

(* AddedIsEarned: a host is added only after FailThreshold failures since  *)
(* its last success, whatever the profiles share and however counters      *)
(* expire, are purged or lost with the process.                            *)
THEOREM AddedHostsHaveFailed == Spec => AddedIsEarned
  <1>1. IInv /\ [Next]_vars => [Earned]_vars
    BY NextKeeps
  <1>2. [Earned]_vars <=> [adding'.stage = "append" /\ adding.stage = "none" =>
                             Len(trail'[adding'.dp][adding'.host]) >= FailThreshold]_vars
    BY DEF Earned
  <1> QED
    BY <1>1, <1>2, InvHolds, PTL DEF Spec, AddedIsEarned

(* NothingMissed: where others do not write between the steps of an        *)
(* addition, a list that counts as up to date has every entry of its file. *)
THEOREM NothingIsMissed ==
    ASSUME ~ EditorRaces
    PROVE  Spec => []NothingMissed
  <1>1. IInv => NothingMissed
    BY DEF IInv, Fine, Covers, NothingMissed, Stale
  <1> QED
    BY <1>1, InvHolds, PTL

(* WritesNothingListed: under the same condition the file written to, and  *)
(* every other list of the profile that can be read, neither list nor      *)
(* exclude the host that is written.                                       *)
THEOREM NothingListedIsWritten ==
    ASSUME ~ EditorRaces
    PROVE  Spec => WritesNothingListed
  <1> DEFINE Unlisted == (adding.stage = "append" /\ disk' # disk /\ Visible(adding.dp)) =>
                            /\ ~ OnDisk(Include[adding.dp], adding.host)
                            /\ ~ OnDisk(Exclude[adding.dp], adding.host)
  <1>1. IInv => Unlisted
    <2>1. adding.stage = "append" => adding # NotAdding
      BY DEF NotAdding
    <2> QED
      BY <2>1 DEF IInv, AddingFine, Relied
  <1>2. IInv /\ [Next]_vars => [Unlisted]_vars
    BY <1>1
  <1> QED
    BY <1>2, InvHolds, PTL DEF Spec, WritesNothingListed

=============================================================================
