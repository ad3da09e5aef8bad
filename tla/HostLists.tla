----------------------------- MODULE HostLists ------------------------------
(***************************************************************************)
(* The host list files of nfqws2, as nfq2/hostlist.c keeps them in memory: *)
(* loaded, reloaded when the file's signature differs from the one the     *)
(* content was loaded under, and searched.  "disk" is what is in the       *)
(* files, "lists" what the process has of them.                            *)
(***************************************************************************)
EXTENDS Integers, Sequences, FiniteSets

CONSTANTS
    Host,             \* host names
    NoHost,           \* no host name is known
    Suffixes,         \* per host, the names SearchHostList tries: itself and
                      \*   the domains it is in
    Impossible,       \* the entry "@&()" that no host name equals
    ListFile,         \* host list files
    NoFile,           \* the profile has no auto list
    NProfile,         \* user defined profiles are 1 .. NProfile; 0 follows
                      \*   them and takes what they do not
    Include, Exclude, \* per profile, its include and exclude lists in order
    AutoList              \* per profile, the include list it adds hosts to

Profile == 0 .. NProfile

ASSUME HostListsAssumption ==
    /\ NoHost \notin Host /\ Impossible \notin Host /\ NoFile \notin ListFile
    /\ \A h \in Host : h \in Suffixes[h] /\ Suffixes[h] \subseteq Host
    /\ NProfile \in Nat
    /\ Include \in [Profile -> Seq(ListFile)]
    /\ Exclude \in [Profile -> Seq(ListFile)]
    /\ Include[0] = <<>> /\ Exclude[0] = <<>> /\ AutoList[0] = NoFile
    /\ \A p \in Profile : AutoList[p] # NoFile => \E i \in 1 .. Len(Include[p]) :
                                                  Include[p][i] = AutoList[p]

\* file_mod_sig: modification time in seconds and size.
Sig   == [mtime : Nat, size : Nat]
NoSig == [mtime |-> 0, size |-> 0]

File == [there : BOOLEAN, readable : BOOLEAN, hosts : SUBSET Host,
         mtime : Nat, size : Nat]
List == [hosts : SUBSET (Host \cup {Impossible}), sig : Sig]
Unloaded == [hosts |-> {}, sig |-> NoSig]

Mut_SigOf_TimeOnly(file) == [mtime |-> file.mtime, size |-> 0]

SigOf(file) == [mtime |-> file.mtime, size |-> file.size]

\* LoadHostList: a file that cannot be examined leaves its list as it is.
Stale(disk, lists, f) == disk[f].there /\ lists[f].sig # SigOf(disk[f])

Load(disk, lists, f) ==
    IF ~ Stale(disk, lists, f) THEN lists[f]
    ELSE IF disk[f].readable
         THEN [hosts |-> disk[f].hosts, sig |-> SigOf(disk[f])]
         ELSE [lists[f] EXCEPT !.hosts = {}]

LoadOk(disk, lists, f) == Stale(disk, lists, f) => disk[f].readable

\* MakeAutolistsNonEmpty
AutolistsNonEmpty(lists) ==
    [f \in DOMAIN lists |->
        IF lists[f].hosts = {} /\ \E p \in Profile : AutoList[p] = f
        THEN [lists[f] EXCEPT !.hosts = {Impossible}] ELSE lists[f]]

\* HostlistsReloadCheck: the lists are loaded in order up to the first
\* failure; ok tells that there was none.
ReloadCheck(disk, lists, fs) ==
    LET bad     == {i \in 1 .. Len(fs) : ~ LoadOk(disk, lists, fs[i])}
        reached == {fs[i] : i \in {j \in 1 .. Len(fs) : \A b \in bad : j <= b}}
        loaded  == [f \in ListFile |-> IF f \in reached THEN Load(disk, lists, f)
                                       ELSE lists[f]]
    IN  [lists |-> IF bad = {} THEN AutolistsNonEmpty(loaded) ELSE loaded,
         ok    |-> bad = {}]

Mut_ReloadProfile_IncludeOnly(disk, lists, p) == ReloadCheck(disk, lists, Include[p])

\* HostlistsReloadCheckForProfile: the include lists, then the exclude lists.
ThenExclude(disk, inc, p) == IF inc.ok THEN ReloadCheck(disk, inc.lists, Exclude[p]) ELSE inc

ReloadProfile(disk, lists, p) == ThenExclude(disk, ReloadCheck(disk, lists, Include[p]), p)

\* SearchHostList
InList(lists, f, h) == lists[f].hosts \cap Suffixes[h] # {}

InLists(lists, fs, h) == \E i \in 1 .. Len(fs) : InList(lists, fs[i], h)

\* hostlist_collection_is_empty, PROFILE_HOSTLISTS_EMPTY
NoEntries(lists, fs) == \A i \in 1 .. Len(fs) : lists[fs[i]].hosts = {}

ProfileHostlistsEmpty(lists, p) == /\ NoEntries(lists, Include[p])
                                   /\ NoEntries(lists, Exclude[p])

Excluded(lists, p, h) == InLists(lists, Exclude[p], h)

\* HostlistCheck_ after its reload: exclusion first; include lists that are
\* all empty let every host pass.
Passes(lists, p, h) ==
    /\ ~ Excluded(lists, p, h)
    /\ NoEntries(lists, Include[p]) \/ InLists(lists, Include[p], h)

\* HostlistCheck after its reload r; a failed reload means that the host does
\* not pass and is not excluded.
Answer(r, p, h) == [lists    |-> r.lists,
                    pass     |-> r.ok /\ Passes(r.lists, p, h),
                    excluded |-> r.ok /\ Excluded(r.lists, p, h)]

HostlistCheck(disk, lists, p, h) == Answer(ReloadProfile(disk, lists, p), p, h)

\* dp_match after its reload r: Fits are the profiles whose L3, L4, L7 and
\* ipset filters the connection passes.  "looked" tells that the host lists
\* decided.
MatchOf(r, p, Fits, h) ==
    LET empty == ProfileHostlistsEmpty(r.lists, p)
        fills == AutoList[p] # NoFile /\ h # NoHost
        looks == ~ fills /\ ~ empty /\ h # NoHost
    IN  [lists  |-> r.lists,
         match  |-> /\ r.ok /\ p \in Fits
                    /\ fills \/ empty \/ (looks /\ Passes(r.lists, p, h)),
         looked |-> looks]

DpMatch(disk, lists, p, Fits, h) == MatchOf(ReloadProfile(disk, lists, p), p, Fits, h)

\* dp_find: the first profile that matches, with the lists as the searches
\* before it left them.
Taken(d, n) ==
    [lists |-> d.lists, dp |-> IF d.match THEN n ELSE 0, looked |-> d.match /\ d.looked]

Search(disk, before, n, Fits, h) ==
    IF before.dp # 0 THEN before
    ELSE Taken(DpMatch(disk, before.lists, n, Fits, h), n)

DpFind(disk, lists, Fits, h) ==
    LET found[n \in Profile] ==
          IF n = 0 THEN [lists |-> lists, dp |-> 0, looked |-> FALSE]
          ELSE Search(disk, found[n - 1], n, Fits, h)
    IN  found[NProfile]

=============================================================================
