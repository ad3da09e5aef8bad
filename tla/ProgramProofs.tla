---------------------------- MODULE ProgramProofs ----------------------------
(***************************************************************************)
(* The two programs, each as it runs, and the IP cache of the first.        *)
(* The daemon, for any number of lists, changes and signals: a reload ends  *)
(* the process only for a list that was changed since its user's access was *)
(* tested, and a verdict is found with the lists as the files are, but for  *)
(* those whose signature may be that of other content.                     *)
(* mdig, for any number of threads and any input: every line comes into one *)
(* log once and is counted, and what the outputs say of each other is true. *)
(* The cache, for any connections: a name is lent while it is the last one  *)
(* heard of and not too old, a TTL to connections of its path.              *)
(***************************************************************************)
EXTENDS Daemon, Mdig, IpCache, FiniteSetTheorems, TLAPS

Starting  == {"options", "access", "load", "pidfile", "droproot", "lists", "scripts", "raw", "lua", "queue"}
Looping   == {"loop", "reload", "rereads", "packet", "reads", "verdict", "passby"}
Over      == {"failed", "ended", "killed", "fatal"}
Reloading == {"reload", "rereads"}
Checking  == {"packet", "reads"}
Reading   == {"rereads", "reads"}
\* Where the process still has the privileges it began with, and where the
\* user's access has been tested.
Privileged == {"options", "access", "load", "pidfile", "droproot"}
Tested     == {"scripts", "raw", "lua", "queue", "fatal"} \cup Looping

Typed ==
    /\ pc \in Starting \cup Looping \cup Over
    /\ at \in Lists
    /\ bReload \in BOOLEAN /\ root \in BOOLEAN /\ handles \in BOOLEAN
    /\ signalled \subseteq Lists
    /\ edits \in Nat /\ fsig \in 0 .. edits + 1
    /\ disk \in [Lists -> File] /\ \A l \in Lists : disk[l].sig <= edits + 1
    /\ mem \in [Lists -> Nat] /\ was \in [Lists -> Nat]
    /\ noted \in [Lists -> 0 .. edits + 1]
    /\ pc \in Looping => handles

\* What the user of the process may read.
Access ==
    /\ Droproot \/ root
    /\ pc \in (Starting \ Privileged) \cup Looping => (Droproot => ~ root)
    /\ Droproot /\ pc \in Tested => \A l \in Lists : l \in touched \/ Readable(l)
    /\ pc \in Reading => at \in touched \/ disk[at].there
    /\ FatalIsEarned

\* A noted signature that is that of the file stands for the content that was
\* read.
Noted == \A l \in Lists : noted[l] = disk[l].sig => l \in twin \/ mem[l] = disk[l].content

\* A reload has answered the signal for the lists it has been at, unless it
\* came again meanwhile; it reads all the others.
Reload ==
    /\ ~ bReload => signalled \subseteq late
    /\ pc \in Reloading => /\ \A l \in Lists : l < at /\ l \in signalled => l \in late
                           /\ \A l \in Lists : l >= at => noted[l] = NoSig

\* The lists that the check for a packet has been at.
Check ==
    /\ pc \in Checking => \A l \in Lists : l < at => mem[l] = was[l] \/ l \in twin
    /\ pc = "verdict" => \A l \in Lists : mem[l] = was[l] \/ l \in twin

IInv == Typed /\ Access /\ Noted /\ Reload /\ Check

LEMMA Constants == NList \in Nat /\ NList > 0 /\ Droproot \in BOOLEAN /\ Lists = 1 .. NList
  BY DaemonAssumption DEF Lists

LEMMA StagesAre ==
    /\ {Stages[i] : i \in DOMAIN Stages} = Starting
    /\ After("options") = "access" /\ After("access") = "load" /\ After("load") = "pidfile"
    /\ After("pidfile") = "droproot" /\ After("droproot") = "lists" /\ After("lists") = "scripts"
    /\ After("scripts") = "raw" /\ After("raw") = "lua" /\ After("lua") = "queue"
  <1>1. DOMAIN Stages = 1 .. 10
    BY DEF Stages
  <1>2. /\ Stages[1] = "options" /\ Stages[2] = "access" /\ Stages[3] = "load" /\ Stages[4] = "pidfile"
        /\ Stages[5] = "droproot" /\ Stages[6] = "lists" /\ Stages[7] = "scripts" /\ Stages[8] = "raw"
        /\ Stages[9] = "lua" /\ Stages[10] = "queue"
    BY DEF Stages
  <1> HIDE DEF Stages
  <1>3. {Stages[i] : i \in DOMAIN Stages} = Starting
    BY <1>1, <1>2 DEF Starting
  <1>4. \A i, j \in DOMAIN Stages : Stages[i] = Stages[j] => i = j
    BY <1>1, <1>2
  <1>5. \A i \in DOMAIN Stages : StageOf(Stages[i]) = i
    BY <1>4 DEF StageOf
  <1>6. /\ StageOf("options") = 1 /\ StageOf("access") = 2 /\ StageOf("load") = 3 /\ StageOf("pidfile") = 4
        /\ StageOf("droproot") = 5 /\ StageOf("lists") = 6 /\ StageOf("scripts") = 7
        /\ StageOf("raw") = 8 /\ StageOf("lua") = 9
    BY <1>1, <1>2, <1>5
  <1> QED
    BY <1>2, <1>3, <1>6 DEF After

LEMMA IInvInit == Init => IInv
  <1> SUFFICES ASSUME Init PROVE IInv
    OBVIOUS
  <1>1. Typed
    <2>1. disk \in [Lists -> File] /\ \A l \in Lists : disk[l].sig = 1
      BY DEF Init, File
    <2>2. edits = 0 /\ fsig = 0 /\ 0 \in 0 .. edits + 1 /\ 1 <= edits + 1
      BY DEF Init, NoSig
    <2>3. /\ mem \in [Lists -> Nat] /\ was \in [Lists -> Nat]
          /\ noted \in [Lists -> 0 .. edits + 1]
      BY <2>2 DEF Init, NoSig, Unread
    <2>4. at \in Lists
      BY Constants DEF Init
    <2>5. pc = "options" /\ bReload = FALSE /\ root = TRUE /\ handles = FALSE /\ signalled = {}
      BY DEF Init
    <2>6. \A l \in Lists : disk[l].sig <= edits + 1
      BY <2>1, <2>2
    <2> QED
      BY <2>1, <2>2, <2>3, <2>4, <2>5, <2>6 DEF Typed, Starting, Looping
  <1>2. Access
    BY DEF Init, Access, FatalIsEarned, Starting, Looping, Privileged, Reading, Tested
  <1>3. Noted
    BY DEF Init, Noted, NoSig
  <1>4. Reload /\ Check
    BY DEF Init, Reload, Check, Reloading, Checking
  <1> QED
    BY <1>1, <1>2, <1>3, <1>4 DEF IInv

-----------------------------------------------------------------------------
(* The start.                                                              *)

\* While it starts the process has signalled nothing and read at most once.
LEMMA StartKeeps ==
    ASSUME IInv, pc \in Starting,
           pc' \in Starting \cup Over \cup {"loop"}, pc' # "fatal",
           at' = at, bReload' = bReload, handles' \in BOOLEAN, pc' = "loop" => handles',
           UNCHANGED <<mem, noted, fsig, disk, edits, twin, signalled, late, was>>,
           root' \in BOOLEAN, Droproot \/ root',
           pc' \in (Starting \ Privileged) \cup Looping => (Droproot => ~ root'),
           Droproot /\ pc' \in Tested => \A l \in Lists : l \in touched' \/ Readable(l)'
    PROVE  IInv'
  <1>1. Typed'
    BY DEF IInv, Typed, Looping, Starting, Over
  <1>2. pc' \notin Reading /\ pc' \notin Reloading /\ pc' \notin Checking /\ pc' # "verdict"
    BY DEF Starting, Over, Reading, Reloading, Checking
  <1>3. Access'
    BY <1>2 DEF Access, FatalIsEarned
  <1>4. Noted'
    BY DEF IInv, Noted
  <1>5. Reload' /\ Check'
    BY <1>2 DEF IInv, Reload, Check
  <1> QED
    BY <1>1, <1>3, <1>4, <1>5 DEF IInv

LEMMA PlainStages == IInv /\ (Options \/ Pidfile \/ Scripts \/ Raw \/ LuaInit) => IInv'
  <1> SUFFICES ASSUME IInv, NEW s \in {"options", "pidfile", "scripts", "raw", "lua"}, Step(s) PROVE IInv'
    BY DEF Options, Pidfile, Scripts, Raw, LuaInit
  <1>1. /\ pc = s /\ UNCHANGED <<at, bReload, root, mem, noted, fsig, disk, edits, history>>
        /\ \/ pc' = After(s) /\ handles' = handles
           \/ pc' = "failed" /\ handles' = FALSE
    BY DEF Step, Proceed, Fail
  <1>2. /\ s \in Starting
        /\ After(s) \in Starting
        /\ After(s) \in Tested => s \in Tested
        /\ After(s) \in (Starting \ Privileged) \cup Looping => s \in (Starting \ Privileged) \cup Looping
    BY StagesAre DEF Starting, Tested, Looping, Privileged
  <1>3. "failed" \in Over /\ "failed" \notin Starting \cup Looping \cup Tested /\ "loop" \notin Starting
    BY DEF Over, Starting, Looping, Tested
  <1>4. Droproot /\ pc' \in Tested => \A l \in Lists : l \in touched' \/ Readable(l)'
    BY <1>1, <1>2, <1>3 DEF IInv, Access, history, Readable
  <1>5. pc' \in (Starting \ Privileged) \cup Looping => (Droproot => ~ root')
    BY <1>1, <1>2, <1>3 DEF IInv, Access
  <1>6. pc' # "fatal"
    BY <1>1, <1>2 DEF Starting
  <1> QED
    BY <1>1, <1>2, <1>3, <1>4, <1>5, <1>6, StartKeeps DEF IInv, Typed, Access, history

LEMMA AccessTested == IInv /\ TestsAccess => IInv'
  <1> SUFFICES ASSUME IInv, TestsAccess PROVE IInv'
    OBVIOUS
  <1>1. /\ pc = "access" /\ UNCHANGED <<at, bReload, root, mem, noted, fsig, disk, edits, history>>
        /\ \/ pc' = "load" /\ handles' = handles
           \/ pc' = "failed" /\ handles' = FALSE
    BY StagesAre DEF TestsAccess, Proceed, Fail
  <1> QED
    BY <1>1, StartKeeps DEF IInv, Typed, Access, history, Starting, Over, Looping, Tested, Privileged

LEMMA ListsTested == IInv /\ TestsLists => IInv'
  <1> SUFFICES ASSUME IInv, TestsLists PROVE IInv'
    OBVIOUS
  <1>1. /\ pc = "lists" /\ UNCHANGED <<at, bReload, root, mem, noted, fsig, disk, edits, twin, signalled, late, was>>
        /\ \/ pc' = "scripts" /\ handles' = handles /\ (Droproot => test_list_files)
           \/ pc' = "failed" /\ handles' = FALSE
    BY StagesAre, Constants DEF TestsLists, Proceed, Fail
  <1>2. Droproot /\ pc' \in Tested => \A l \in Lists : Readable(l)'
    BY <1>1 DEF test_list_files, Tested, Looping, Readable
  <1> QED
    BY <1>1, <1>2, StartKeeps DEF IInv, Typed, Access, Starting, Over, Looping, Privileged

LEMMA RootDropped == IInv /\ DropRoot => IInv'
  <1> SUFFICES ASSUME IInv, DropRoot PROVE IInv'
    OBVIOUS
  <1>1. /\ pc = "droproot" /\ UNCHANGED <<at, bReload, mem, noted, fsig, disk, edits, history>>
        /\ \/ pc' = "failed" /\ handles' = FALSE /\ root' = root
           \/ pc' = "lists" /\ handles' = handles /\ root' = (root /\ ~ Droproot)
    BY StagesAre DEF DropRoot, Fail
  <1>2. root' \in BOOLEAN /\ (Droproot \/ root') /\ (pc' = "lists" => (Droproot => ~ root'))
    BY <1>1, Constants DEF IInv, Typed, Access
  <1> QED
    BY <1>1, <1>2, StartKeeps DEF IInv, Typed, history, Starting, Over, Looping, Tested

LEMMA QueueBound == IInv /\ BindQueue => IInv'
  <1> SUFFICES ASSUME IInv, BindQueue PROVE IInv'
    OBVIOUS
  <1>1. /\ pc = "queue" /\ UNCHANGED <<at, bReload, root, mem, noted, fsig, disk, edits, history>>
        /\ \/ pc' = "failed" /\ handles' = FALSE
           \/ pc' = "loop" /\ handles' = TRUE
    BY DEF BindQueue, Fail
  <1>2. Droproot /\ pc' \in Tested => \A l \in Lists : l \in touched' \/ Readable(l)'
    BY <1>1 DEF IInv, Access, history, Readable, Tested
  <1> QED
    BY <1>1, <1>2, StartKeeps DEF IInv, Typed, Access, history, Starting, Over, Looping, Tested, Privileged

\* The first reading of the lists: noted signatures stand for what was read.
LEMMA ListsLoaded == IInv /\ LoadAll => IInv'
  <1> SUFFICES ASSUME IInv, LoadAll PROVE IInv'
    OBVIOUS
  <1>1. /\ pc = "load" /\ UNCHANGED <<at, bReload, root, fsig, disk, edits, signalled, late, touched, was>>
    BY DEF LoadAll, Fail
  <1>2. CASE pc' = "failed" /\ handles' = FALSE /\ UNCHANGED <<mem, noted, twin>>
    BY <1>1, <1>2, StartKeeps DEF IInv, Typed, Access, Starting, Over, Looping, Tested, Privileged
  <1>3. CASE /\ mem' = [l \in Lists |-> IF disk[l].there THEN disk[l].content ELSE Unread]
             /\ noted' = [l \in Lists |-> IF disk[l].there THEN disk[l].sig ELSE NoSig]
             /\ pc' = "pidfile" /\ handles' = handles
    <2>1. pc' \notin Reading /\ pc' \notin Reloading /\ pc' \notin Checking /\ pc' # "verdict"
          /\ pc' \notin Tested /\ pc' \in Privileged /\ pc' \in Starting /\ pc' \notin Looping
      BY <1>3 DEF Reading, Reloading, Checking, Tested, Looping, Privileged, Starting
    <2>2. \A l \in Lists : disk[l].content \in Nat /\ disk[l].sig \in 1 .. edits + 1
                         /\ 0 \in 0 .. edits + 1 /\ disk[l].sig \in 0 .. edits + 1
      BY DEF IInv, Typed, File
    <2>3. Typed'
      <3>1. mem' \in [Lists -> Nat] /\ noted' \in [Lists -> 0 .. edits + 1]
        BY <1>3, <2>2 DEF Unread, NoSig
      <3> QED
        BY <1>1, <1>3, <2>1, <3>1 DEF IInv, Typed
    <2>4. Noted'
      BY <1>1, <1>3, <2>2 DEF Noted, NoSig
    <2>5. Access'
      BY <1>1, <1>3, <2>1 DEF IInv, Access, FatalIsEarned
    <2>6. Reload' /\ Check'
      BY <1>1, <1>3, <2>1 DEF IInv, Reload, Check
    <2> QED
      BY <2>3, <2>4, <2>5, <2>6 DEF IInv
  <1> QED
    BY <1>2, <1>3, StagesAre DEF LoadAll, Fail

-----------------------------------------------------------------------------
(* The loop.                                                               *)

LEMMA Woken == IInv /\ Wake => IInv'
  <1> SUFFICES ASSUME IInv, Wake PROVE IInv'
    OBVIOUS
  <1>1. /\ pc = "loop" /\ at' = 1
        /\ UNCHANGED <<bReload, root, handles, mem, fsig, disk, edits, twin, signalled, late, touched, was>>
        /\ \/ pc' = "reload" /\ bReload /\ noted' = [l \in Lists |-> NoSig]
           \/ pc' = "packet" /\ noted' = noted
    BY DEF Wake, history, IInv, Typed
  <1>2. \A l \in Lists : ~ (l < 1) /\ 1 \in Lists
    BY Constants
  <1>3. Typed'
    <2>1. noted' \in [Lists -> 0 .. edits + 1]
      BY <1>1 DEF IInv, Typed, NoSig
    <2> QED
      BY <1>1, <1>2, <2>1, Constants DEF IInv, Typed, Looping
  <1>4. Access'
    BY <1>1 DEF IInv, Access, FatalIsEarned, Readable, Looping, Reading, Tested
  <1>5. Noted'
    BY <1>1 DEF IInv, Noted, Typed, File, NoSig
  <1>6. Reload'
    BY <1>1, <1>2 DEF IInv, Reload, Reloading, Typed
  <1>7. Check'
    BY <1>1, <1>2 DEF Check, Checking
  <1> QED
    BY <1>3, <1>4, <1>5, <1>6, <1>7 DEF IInv

LEMMA ReceiveFailed == IInv /\ RecvFails => IInv'
  <1> SUFFICES ASSUME IInv, RecvFails PROVE IInv'
    OBVIOUS
  <1>1. /\ pc = "loop"
        /\ UNCHANGED <<at, bReload, root, mem, noted, fsig, disk, edits, twin, signalled, late, touched, was>>
        /\ \/ pc' = "loop" /\ handles' = handles
           \/ pc' = "ended" /\ handles' = FALSE
    BY DEF RecvFails, history
  <1> QED
    BY <1>1 DEF IInv, Typed, Access, FatalIsEarned, Readable, Noted, Reload, Check,
                Starting, Looping, Over, Reading, Reloading, Checking, Privileged, Tested

LEMMA VerdictGiven == IInv /\ Verdict => IInv'
  <1> SUFFICES ASSUME IInv, Verdict PROVE IInv'
    OBVIOUS
  <1>1. /\ pc \in {"verdict", "passby"} /\ pc' = "loop"
        /\ UNCHANGED <<at, bReload, root, handles, mem, noted, fsig, disk, edits, twin, signalled, late, touched, was>>
    BY DEF Verdict, history
  <1> QED
    BY <1>1 DEF IInv, Typed, Access, FatalIsEarned, Readable, Noted, Reload, Check,
                Starting, Looping, Over, Reading, Reloading, Checking, Privileged, Tested

\* Where the process is after a list.
LEMMA ListPassed ==
    ASSUME IInv, NEW ctx \in {"reload", "packet"}, NextList(ctx)
    PROVE  \/ pc' = ctx /\ at' = at + 1 /\ at < NList /\ bReload' = bReload
           \/ at = NList /\ at' = 1 /\ ctx = "reload" /\ pc' = "packet" /\ bReload' = FALSE
           \/ at = NList /\ at' = 1 /\ ctx = "packet" /\ pc' = "verdict" /\ bReload' = bReload
  <1>1. at \in 1 .. NList /\ NList \in Nat
    BY Constants DEF IInv, Typed
  <1>2. CASE at < NList
    BY <1>2 DEF NextList
  <1>3. CASE ctx = "reload" /\ ~ (at < NList)
    <2>1. pc' = "packet" /\ at' = 1 /\ bReload' = FALSE
      BY <1>3 DEF NextList, Behind
    <2> QED
      BY <1>1, <1>3, <2>1
  <1>4. CASE ctx = "packet" /\ ~ (at < NList)
    <2>1. pc' = "verdict" /\ at' = 1 /\ bReload' = bReload
      BY <1>4, Zenon DEF NextList, Behind
    <2> QED
      BY <1>1, <1>4, <2>1
  <1> QED
    BY <1>2, <1>3, <1>4

\* Going on to the next list, or behind them all, after the one at hand: what
\* is known of it then holds of all that were passed.
LEMMA PassedOn ==
    ASSUME IInv, NEW ctx \in {"reload", "packet"}, NextList(ctx),
           pc \in {ctx, IF ctx = "reload" THEN "rereads" ELSE "reads"},
           UNCHANGED <<root, handles, fsig, disk, edits, touched>>,
           mem' \in [Lists -> Nat], was' \in [Lists -> Nat], noted' \in [Lists -> 0 .. edits + 1],
           \A l \in Lists : l # at => mem'[l] = mem[l] /\ was'[l] = was[l] /\ noted'[l] = noted[l],
           \A l \in Lists : l # at => (l \in twin' <=> l \in twin),
           mem'[at] = was'[at] \/ at \in twin',
           noted'[at] = disk[at].sig => at \in twin' \/ mem'[at] = disk[at].content,
           NEW done \in BOOLEAN, Answered(done), ctx = "reload" => done
    PROVE  IInv'
  <1>1. at \in 1 .. NList /\ NList \in Nat /\ Lists = 1 .. NList
    BY Constants DEF IInv, Typed
  <1>2. \/ pc' = ctx /\ at' = at + 1 /\ at < NList /\ bReload' = bReload
        \/ at = NList /\ at' = 1 /\ ctx = "reload" /\ pc' = "packet" /\ bReload' = FALSE
        \/ at = NList /\ at' = 1 /\ ctx = "packet" /\ pc' = "verdict" /\ bReload' = bReload
    BY ListPassed
  <1>3. /\ pc \in Looping /\ pc' \in {"reload", "packet", "verdict"}
        /\ pc' \in Looping /\ pc' \notin Reading
        /\ ctx = "reload" => pc \in Reloading
        /\ ctx = "packet" => pc \in Checking
    BY <1>2 DEF Looping, Reading, Reloading, Checking
  <1>4. /\ at' \in 1 .. NList
        /\ pc' \in Reloading => pc \in Reloading /\ at' = at + 1 /\ ctx = "reload"
        /\ pc' \in Checking /\ at' # 1 => pc \in Checking /\ at' = at + 1
        /\ pc' = "verdict" => pc \in Checking /\ at = NList
        /\ bReload' = bReload \/ (bReload' = FALSE /\ ctx = "reload" /\ at = NList)
    <2>1. CASE pc' = ctx /\ at' = at + 1 /\ at < NList /\ bReload' = bReload
      BY <1>1, <1>3, <2>1 DEF Reloading, Checking
    <2>2. CASE at = NList /\ at' = 1 /\ ctx = "reload" /\ pc' = "packet" /\ bReload' = FALSE
      BY <1>1, <2>2 DEF Reloading, Checking
    <2>3. CASE at = NList /\ at' = 1 /\ ctx = "packet" /\ pc' = "verdict" /\ bReload' = bReload
      BY <1>1, <1>3, <2>3 DEF Reloading, Checking
    <2> QED
      BY <1>2, <2>1, <2>2, <2>3
  <1>5. Typed'
    BY <1>1, <1>3, <1>4 DEF IInv, Typed, Answered
  <1>6. Access'
    BY <1>3 DEF IInv, Access, FatalIsEarned, Readable, Tested
  <1>7. Noted'
    BY DEF IInv, Noted
  <1>8. Check'
    <2>1. pc \in Checking => \A l \in Lists : l <= at => mem'[l] = was'[l] \/ l \in twin'
      <3> SUFFICES ASSUME pc \in Checking, NEW l \in Lists, l <= at, l # at
                   PROVE  mem'[l] = was'[l] \/ l \in twin'
        OBVIOUS
      <3>1. l < at /\ (mem[l] = was[l] \/ l \in twin)
        BY <1>1 DEF IInv, Check
      <3> QED
        BY <3>1
    <2>2. pc' \in Checking => \A l \in Lists : l < at' => mem'[l] = was'[l] \/ l \in twin'
      <3>1. \A l \in Lists : l < at + 1 => l <= at
        BY <1>1
      <3>2. \A l \in Lists : ~ (l < 1)
        BY <1>1
      <3>3. pc' \in Checking => (at' = 1 \/ (pc \in Checking /\ at' = at + 1))
        BY <1>4
      <3> QED
        BY <2>1, <3>1, <3>2, <3>3
    <2>3. pc' = "verdict" => \A l \in Lists : mem'[l] = was'[l] \/ l \in twin'
      BY <1>1, <1>4, <2>1
    <2> QED
      BY <2>2, <2>3 DEF Check
  <1>9. /\ signalled' = IF done THEN signalled \ {at} ELSE signalled
        /\ late' = IF done THEN late \ {at} ELSE late
    BY DEF Answered
  <1>10. Reload'
    <2>1. ASSUME ~ bReload' PROVE signalled' \subseteq late'
      <3>1. CASE ~ bReload
        BY <1>9, <3>1 DEF IInv, Reload
      <3>2. CASE ctx = "reload" /\ at = NList
        <4>1. \A l \in Lists : l < at /\ l \in signalled => l \in late
          BY <1>3, <3>2 DEF IInv, Reload
        <4>2. signalled' = signalled \ {at} /\ late' = late \ {at}
          BY <1>9, <3>2
        <4>3. ASSUME NEW l \in Lists, l \in signalled, l # at PROVE l \in late
          BY <1>1, <3>2, <4>1, <4>3
        <4> QED
          BY <4>2, <4>3 DEF IInv, Typed
      <3> QED
        BY <1>4, <2>1, <3>1, <3>2
    <2>2. ASSUME pc' \in Reloading, NEW l \in Lists
          PROVE  (l < at' /\ l \in signalled' => l \in late') /\ (l >= at' => noted'[l] = NoSig)
      <3>1. /\ pc \in Reloading /\ at' = at + 1 /\ ctx = "reload"
            /\ signalled' = signalled \ {at} /\ late' = late \ {at}
        BY <1>4, <1>9, <2>2
      <3>2. /\ l < at /\ l \in signalled => l \in late
            /\ l >= at => noted[l] = NoSig
        BY <3>1 DEF IInv, Reload
      <3>3. l < at' => l < at \/ l = at
        BY <1>1, <3>1
      <3>4. l >= at' => l >= at /\ l # at
        BY <1>1, <3>1
      <3> QED
        BY <3>1, <3>2, <3>3, <3>4
    <2> QED
      BY <2>1, <2>2 DEF Reload
  <1> QED
    BY <1>5, <1>6, <1>7, <1>8, <1>10 DEF IInv

LEMMA SignatureTaken ==
    ASSUME IInv, NEW ctx \in {"reload", "packet"}, Stat(ctx)
    PROVE  IInv'
  <1>1. /\ pc = ctx /\ at \in Lists /\ at \in 1 .. NList /\ NList \in Nat
        /\ UNCHANGED <<root, handles, mem, noted, disk, edits, twin, touched>>
        /\ was' = [was EXCEPT ![at] = IF disk[at].there THEN disk[at].content ELSE mem[at]]
        /\ disk[at].content \in Nat /\ mem[at] \in Nat /\ disk[at].sig \in 1 .. edits + 1
    <2>1. at \in Lists /\ disk[at] \in File /\ disk[at].sig <= edits + 1 /\ edits \in Nat /\ mem[at] \in Nat
      BY DEF IInv, Typed
    <2>2. /\ pc = ctx /\ UNCHANGED <<root, handles, mem, noted, disk, edits, twin, touched>>
          /\ was' = [was EXCEPT ![at] = IF disk[at].there THEN disk[at].content ELSE mem[at]]
      BY DEF Stat
    <2> QED
      BY <2>1, <2>2, Constants DEF File
  <1>2. was' \in [Lists -> Nat] /\ \A l \in Lists : l # at => was'[l] = was[l]
    BY <1>1 DEF IInv, Typed
  <1>3. CASE disk[at].there /\ disk[at].sig # noted[at]
    <2>1. /\ pc' = IF ctx = "reload" THEN "rereads" ELSE "reads"
          /\ fsig' = disk[at].sig
          /\ at' = at /\ bReload' = bReload /\ signalled' = signalled /\ late' = late
      BY <1>1, <1>3 DEF Stat, Answered
    <2>2. Typed'
      BY <1>1, <1>2, <2>1 DEF IInv, Typed, Looping
    <2>3. Access'
      BY <1>1, <1>3, <2>1 DEF IInv, Access, FatalIsEarned, Readable, Tested, Looping
    <2>4. Noted'
      BY <1>1 DEF IInv, Noted
    <2>5. Reload'
      BY <1>1, <2>1 DEF IInv, Reload, Reloading
    <2>6. Check'
      BY <1>1, <1>2, <2>1 DEF IInv, Check, Checking
    <2> QED
      BY <2>2, <2>3, <2>4, <2>5, <2>6 DEF IInv
  <1>4. CASE ~ (disk[at].there /\ disk[at].sig # noted[at])
    <2> DEFINE done == ctx = "reload" /\ ~ disk[at].there
    <2>1. NextList(ctx) /\ fsig' = fsig /\ Answered(done) /\ done \in BOOLEAN
      BY <1>4 DEF Stat
    <2>2. ctx = "reload" => done
      <3> SUFFICES ASSUME ctx = "reload" PROVE ~ disk[at].there
        OBVIOUS
      <3>1. noted[at] = NoSig
        BY <1>1 DEF IInv, Reload, Reloading
      <3> QED
        BY <1>1, <1>4, <3>1 DEF NoSig
    <2>3. noted'[at] = disk[at].sig => at \in twin' \/ mem'[at] = disk[at].content
      BY <1>1 DEF IInv, Noted
    <2>4. mem'[at] = was'[at] \/ at \in twin'
      BY <1>1, <1>4, <2>3 DEF IInv, Typed
    <2> HIDE DEF done
    <2>5. mem' \in [Lists -> Nat] /\ noted' \in [Lists -> 0 .. edits + 1]
      BY <1>1 DEF IInv, Typed
    <2> QED
      BY <1>1, <1>2, <2>1, <2>2, <2>3, <2>4, <2>5, PassedOn
  <1> QED
    BY <1>3, <1>4

LEMMA ListRead ==
    ASSUME IInv, NEW ctx \in {"reload", "packet"}, Read(ctx)
    PROVE  IInv'
  <1>1. /\ pc = (IF ctx = "reload" THEN "rereads" ELSE "reads") /\ pc \in Reading /\ pc \in Looping
        /\ at \in Lists /\ Answered(TRUE)
        /\ UNCHANGED <<root, handles, fsig, disk, edits, hups, touched>>
    BY DEF Read, ReadAt, IInv, Typed, Reading, Looping
  <1>2. disk[at].content \in Nat /\ mem[at] \in Nat /\ fsig \in 0 .. edits + 1
    BY <1>1 DEF IInv, Typed, File
  <1>3. CASE Readable(at)
    <2>1. /\ mem' = [mem EXCEPT ![at] = disk[at].content]
          /\ was' = [was EXCEPT ![at] = disk[at].content]
          /\ noted' = [noted EXCEPT ![at] = fsig]
          /\ twin' = twin \ {at} /\ NextList(ctx)
      BY <1>3 DEF Read
    <2>2. mem' \in [Lists -> Nat] /\ was' \in [Lists -> Nat] /\ noted' \in [Lists -> 0 .. edits + 1]
      BY <1>2, <2>1 DEF IInv, Typed
    <2>3. /\ \A l \in Lists : l # at => mem'[l] = mem[l] /\ was'[l] = was[l] /\ noted'[l] = noted[l]
          /\ mem'[at] = disk[at].content /\ was'[at] = disk[at].content
      BY <1>1, <2>1 DEF IInv, Typed
    <2>4. \A l \in Lists : l # at => (l \in twin' <=> l \in twin)
      BY <2>1
    <2> QED
      BY <1>1, <2>1, <2>2, <2>3, <2>4, PassedOn
  <1>4. CASE ~ Readable(at)
    <2>1. /\ mem' = [mem EXCEPT ![at] = Unread]
          /\ pc' = (IF ctx = "reload" THEN "fatal" ELSE "passby")
          /\ twin' = twin \cup {at}
          /\ UNCHANGED <<at, bReload, noted, was>>
      BY <1>4 DEF Read
    <2>2. /\ signalled' = signalled \ {at} /\ late' = late \ {at}
      BY <1>1 DEF Answered
    <2>3. Typed'
      <3>1. mem' \in [Lists -> Nat]
        BY <2>1 DEF IInv, Typed, Unread
      <3>2. pc' \in Looping \cup Over /\ (pc' \in Looping => pc \in Looping)
        BY <1>1, <2>1 DEF Looping, Over
      <3> QED
        BY <1>1, <2>1, <2>2, <3>1, <3>2 DEF IInv, Typed
    <2>4. at \in touched
      <3>1. pc \in Tested /\ (Droproot => at \in touched \/ Readable(at)) /\ (Droproot \/ root)
            /\ (at \in touched \/ disk[at].there)
        BY <1>1 DEF IInv, Access, Tested
      <3> QED
        BY <1>4, <3>1 DEF Readable
    <2>5. Access'
      <3>1. pc' \in (Starting \ Privileged) \cup Looping => pc \in Looping
        BY <1>1
      <3>2. pc' \notin Reading /\ pc \in Tested
        BY <1>1, <2>1 DEF Reading, Tested
      <3> QED
        BY <1>1, <2>1, <2>4, <3>1, <3>2 DEF IInv, Access, FatalIsEarned, Readable
    <2>6. Noted'
      BY <1>1, <2>1 DEF IInv, Noted, Typed
    <2>7. Reload'
      BY <2>1, <2>2 DEF IInv, Reload, Reloading
    <2>8. Check'
      BY <2>1 DEF Check, Checking
    <2> QED
      BY <2>3, <2>5, <2>6, <2>7, <2>8 DEF IInv
  <1> QED
    BY <1>3, <1>4

-----------------------------------------------------------------------------
(* The others.                                                             *)

LEMMA RunningIs == /\ Running <=> pc \in Starting \cup Looping
                   /\ InLoop <=> pc \in Looping
  BY StagesAre DEF Running, InLoop, Looping

LEMMA Signalled == IInv /\ Hup => IInv'
  <1> SUFFICES ASSUME IInv, Hup PROVE IInv'
    OBVIOUS
  <1>1. UNCHANGED <<at, root, mem, noted, fsig, disk, edits, twin, touched, was>>
    BY DEF Hup
  <1>2. CASE InLoop
    <2>1. /\ bReload' = TRUE /\ signalled' = Lists /\ UNCHANGED <<pc, handles>>
          /\ late' = IF pc \in {"reload", "rereads"} THEN Lists ELSE {}
      BY <1>2 DEF Hup
    <2>2. Typed'
      BY <1>1, <2>1 DEF IInv, Typed
    <2>3. Access' /\ Noted' /\ Check'
      BY <1>1, <2>1 DEF IInv, Access, FatalIsEarned, Readable, Noted, Check
    <2>4. Reload'
      BY <1>1, <2>1 DEF IInv, Reload, Reloading
    <2> QED
      BY <2>2, <2>3, <2>4 DEF IInv
  <1>3. CASE ~ InLoop
    <2>1. pc' = "killed" /\ handles' = FALSE /\ UNCHANGED <<bReload, signalled, late>>
      BY <1>3 DEF Hup
    <2> QED
      BY <1>1, <2>1 DEF IInv, Typed, Access, FatalIsEarned, Readable, Noted, Reload, Check,
                        Starting, Looping, Over, Reading, Reloading, Checking, Privileged, Tested
  <1> QED
    BY <1>2, <1>3

\* Another content or another access of one file.
LEMMA Edited ==
    ASSUME IInv, NEW l \in Lists, NEW file \in File, Edit(l, file), file.sig <= edits + 2,
           twin' = twin \/ twin' = twin \cup {l},
           noted[l] = file.sig => l \in twin' \/ mem[l] = file.content
    PROVE  IInv'
  <1>1. /\ disk' = [disk EXCEPT ![l] = file] /\ touched' = touched \cup {l} /\ edits' = edits + 1
        /\ UNCHANGED <<pc, at, bReload, root, handles, mem, noted, fsig, signalled, late, was>>
        /\ pc # "fatal"
    BY RunningIs DEF Edit, process, Starting, Looping
  <1>2. /\ disk' \in [Lists -> File] /\ disk'[l] = file
        /\ \A k \in Lists : k # l => disk'[k] = disk[k]
    BY <1>1 DEF IInv, Typed
  <1>3. /\ edits \in Nat /\ noted \in [Lists -> 0 .. edits + 1] /\ \A k \in Lists : disk[k].sig <= edits + 1
        /\ fsig \in 0 .. edits + 1 /\ \A k \in Lists : disk[k] \in File
    BY DEF IInv, Typed
  <1>4. Typed'
    <2>1. \A k \in Lists : disk'[k].sig <= edits + 2
      BY <1>2, <1>3 DEF File
    <2>2. noted \in [Lists -> 0 .. edits + 2] /\ fsig \in 0 .. edits + 2
      BY <1>3
    <2>3. edits' \in Nat /\ edits' + 1 = edits + 2
      BY <1>1, <1>3
    <2> QED
      BY <1>1, <1>2, <2>1, <2>2, <2>3 DEF IInv, Typed
  <1>5. Access'
    BY <1>1, <1>2 DEF IInv, Access, FatalIsEarned, Readable
  <1>6. Noted'
    <2> SUFFICES ASSUME NEW k \in Lists, noted[k] = disk'[k].sig
                 PROVE  k \in twin' \/ mem[k] = disk'[k].content
      BY <1>1 DEF Noted
    <2> QED
      BY <1>2 DEF IInv, Noted
  <1>7. Reload'
    BY <1>1 DEF IInv, Reload
  <1>8. Check'
    BY <1>1 DEF IInv, Check
  <1> QED
    BY <1>4, <1>5, <1>6, <1>7, <1>8 DEF IInv

LEMMA OthersEdit ==
    ASSUME IInv, NEW l \in Lists, Rewrite(l) \/ Restore(l) \/ Protect(l) \/ Hide(l)
    PROVE  IInv'
  <1>1. /\ edits \in Nat /\ noted[l] \in 0 .. edits + 1 /\ disk[l].sig <= edits + 1
        /\ disk[l] \in File /\ disk[l].content \in Nat /\ disk[l].sig \in Nat \ {0}
        /\ noted[l] = disk[l].sig => l \in twin \/ mem[l] = disk[l].content
    BY DEF IInv, Typed, Noted, File
  <1>2. ASSUME Edit(l, [disk[l] EXCEPT !.content = @ + 1, !.sig = edits + 2]), twin' = twin
        PROVE  IInv'
    <2> DEFINE file == [disk[l] EXCEPT !.content = @ + 1, !.sig = edits + 2]
    <2> DEFINE f1 == [disk[l] EXCEPT !.content = disk[l].content + 1]
    <2>1. file = [f1 EXCEPT !.sig = edits + 2]
      OBVIOUS
    <2>2. f1 \in File
      BY <1>1 DEF File
    <2>3. Edit(l, file)
      BY <1>2
    <2> HIDE DEF file, f1
    <2>4. file \in File /\ file.sig = edits + 2
      BY <1>1, <2>1, <2>2 DEF File
    <2>5. noted[l] # file.sig
      BY <1>1, <2>4
    <2> QED
      BY <1>1, <1>2, <2>3, <2>4, <2>5, Edited
  <1>3. ASSUME Edit(l, [disk[l] EXCEPT !.content = @ + 1]), twin' = twin \cup {l}
        PROVE  IInv'
    <2> DEFINE file == [disk[l] EXCEPT !.content = @ + 1]
    <2>1. file \in File /\ file.sig = disk[l].sig /\ file.sig <= edits + 2
      BY <1>1 DEF File
    <2> HIDE DEF file
    <2> QED
      BY <1>3, <2>1, Edited DEF file
  <1>4. ASSUME Restore(l) PROVE IInv'
    <2> DEFINE file == [disk[l] EXCEPT !.content = 1, !.sig = 1]
    <2> DEFINE f1 == [disk[l] EXCEPT !.content = 1]
    <2>0. file = [f1 EXCEPT !.sig = 1] /\ f1 \in File /\ f1.content = 1
      BY <1>1 DEF File
    <2> HIDE DEF file, f1
    <2>1. file \in File /\ file.sig = 1 /\ file.content = 1 /\ file.sig <= edits + 2
      BY <1>1, <2>0 DEF File
    <2>2. Edit(l, file) /\ twin' = (IF noted[l] = 1 /\ mem[l] # 1 THEN twin \cup {l} ELSE twin)
      BY <1>4 DEF Restore, file
    <2>3. noted[l] = file.sig => l \in twin' \/ mem[l] = file.content
      BY <2>1, <2>2
    <2> QED
      BY <2>1, <2>2, <2>3, Edited
  <1>5. ASSUME NEW a \in {"all", "root"}, Edit(l, [disk[l] EXCEPT !.access = a]), twin' = twin
        PROVE  IInv'
    <2> DEFINE file == [disk[l] EXCEPT !.access = a]
    <2>1. file \in File /\ file.sig = disk[l].sig /\ file.content = disk[l].content /\ file.sig <= edits + 2
      BY <1>1 DEF File
    <2> HIDE DEF file
    <2> QED
      BY <1>1, <1>5, <2>1, Edited DEF file
  <1>6. ASSUME NEW t \in BOOLEAN, Edit(l, [disk[l] EXCEPT !.there = t]), twin' = twin
        PROVE  IInv'
    <2> DEFINE file == [disk[l] EXCEPT !.there = t]
    <2>1. file \in File /\ file.sig = disk[l].sig /\ file.content = disk[l].content /\ file.sig <= edits + 2
      BY <1>1 DEF File
    <2> HIDE DEF file
    <2> QED
      BY <1>1, <1>6, <2>1, Edited DEF file
  <1> QED
    BY <1>2, <1>3, <1>4, <1>5, <1>6 DEF Rewrite, Protect, Hide

LEMMA IInvStep == IInv /\ [Next]_vars => IInv'
  <1> SUFFICES ASSUME IInv, [Next]_vars PROVE IInv'
    OBVIOUS
  <1>1. CASE UNCHANGED vars
    BY <1>1 DEF vars, process, history, IInv, Typed, Access, FatalIsEarned, Readable, Noted, Reload, Check
  <1>2. CASE Options \/ Pidfile \/ Scripts \/ Raw \/ LuaInit
    BY <1>2, PlainStages
  <1>3. CASE TestsAccess \/ LoadAll \/ DropRoot \/ TestsLists \/ BindQueue
    BY <1>3, AccessTested, ListsLoaded, RootDropped, ListsTested, QueueBound
  <1>4. CASE Wake \/ RecvFails \/ Verdict
    BY <1>4, Woken, ReceiveFailed, VerdictGiven
  <1>5. CASE ReloadStat \/ PacketStat
    BY <1>5, SignatureTaken DEF ReloadStat, PacketStat
  <1>6. CASE ReloadRead \/ PacketRead
    BY <1>6, ListRead DEF ReloadRead, PacketRead
  <1>7. CASE Hup
    BY <1>7, Signalled
  <1>8. CASE \E l \in Lists : Rewrite(l) \/ Restore(l) \/ Protect(l) \/ Hide(l)
    BY <1>8, OthersEdit
  <1> QED
    BY <1>1, <1>2, <1>3, <1>4, <1>5, <1>6, <1>7, <1>8 DEF Next

LEMMA Invariance == Spec => []IInv
  BY IInvInit, IInvStep, PTL DEF Spec

(* However the files are edited and whenever signals come, a process that  *)
(* is in its loop has bound the queue and dropped what it had to drop.     *)
THEOREM TypeCorrect == Spec => []TypeOK
  <1>1. IInv => TypeOK
    <2> SUFFICES ASSUME IInv PROVE TypeOK
      OBVIOUS
    <2>1. InLoop \/ Running \/ pc \in {"failed", "ended", "killed", "fatal"}
      BY RunningIs DEF IInv, Typed, Over
    <2>2. at \in Lists /\ {bReload, root, handles} \subseteq BOOLEAN /\ \A l \in Lists : disk[l] \in File
      BY DEF IInv, Typed
    <2>3. InLoop => handles /\ (Droproot => ~ root)
      BY RunningIs DEF IInv, Typed, Access
    <2> QED
      BY <2>1, <2>2, <2>3 DEF TypeOK
  <1> QED
    BY <1>1, Invariance, PTL

(* A reload that fails, which ends the process, fails for a list that was  *)
(* changed since the user's access was tested.                             *)
THEOREM FatalOnlyWhenEarned == Spec => []FatalIsEarned
  <1>1. IInv => FatalIsEarned
    BY DEF IInv, Access
  <1> QED
    BY <1>1, Invariance, PTL

(* A verdict is found with lists as they were in the files when the packet *)
(* was at them, but for those whose signature may stand for other content; *)
(* and of these none has an unanswered signal that came before the reload. *)
THEOREM VerdictsAreCurrent == Spec => []ListsAreCurrent
  <1>1. IInv => ListsAreCurrent
    BY DEF IInv, Check, Reload, ListsAreCurrent
  <1> QED
    BY <1>1, Invariance, PTL

-----------------------------------------------------------------------------
(* mdig.                                                                   *)

\* A thread has a line that it took and did not count yet.
Busy(t) == thr[t].pc \in {"resolve", "print", "log", "count"}
Workers == {t \in Thread : Busy(t)}
Works(t, n) == Busy(t) /\ thr[t].line = n

\* How many of the first m are true.
Trues(c, m) == Cardinality({k \in 1 .. m : c[k]})

ThreadTyped(t) ==
    /\ thr[t] \in Task
    /\ Busy(t) => thr[t].line \in 1 .. next
    /\ t > main.made => thr[t].pc = "none"

Streams ==
    /\ out \in Seq(Nat \X Nat \X Nat) /\ resolved \in Seq(Nat) /\ failed \in Seq(Nat)
    /\ reports \in Seq([ct : Nat, ok : Nat]) /\ counted \in Seq(BOOLEAN)

MdigTyped ==
    /\ main \in [at : {"create", "join", "last", "done"}, made : 0 .. NThread]
    /\ thr \in [Thread -> Task] /\ \A t \in Thread : ThreadTyped(t)
    /\ flock \in Thread \cup {Free}
    /\ fed \in Nat /\ next \in Nat /\ next <= fed /\ fed <= Len(Kind)
    /\ closed \in BOOLEAN /\ (closed => fed = Len(Kind))
    /\ Streams
    /\ stats_ct = Len(counted) /\ stats_ct_ok \in Nat

\* One thread at most waits for a line, and it has the lock and the next line.
LockGood ==
    \A t \in Thread : /\ thr[t].pc = "reading" <=> flock = t
                      /\ thr[t].pc = "reading" => thr[t].line = next + 1

Unlogged(n) == Times(resolved, n) = 0 /\ Times(failed, n) = 0
Finished(n) ==
    Kind[n] # "empty" /\ LogsResolved /\ LogsFailed =>
        Times(resolved, n) + Times(failed, n) = 1

\* How far a thread is with its line.
TaskGood(t) ==
    LET n == thr[t].line
    IN  /\ thr[t].pc \in {"resolve", "print", "log"} => Unlogged(n)
        /\ thr[t].pc = "resolve" => Printed(n) = {} /\ ~ thr[t].ok
        /\ thr[t].pc = "print" => /\ thr[t].ok /\ thr[t].addr = Cardinality(Printed(n)) + 1
                                  /\ thr[t].addr <= thr[t].count /\ OneOf(n, thr[t].count)
        /\ thr[t].pc = "log" => (thr[t].ok <=> Printed(n) # {}) /\ OneOf(n, Cardinality(Printed(n)))
        /\ thr[t].pc = "count" => Finished(n)

Logged(n) == Times(resolved, n) + Times(failed, n) <= 1

\* A line is not yet taken, or one thread works at it, or it is finished.
LinesGood ==
    /\ \A n \in LineNo : n > next => Unlogged(n) /\ Printed(n) = {}
    /\ \A n \in 1 .. next : Finished(n) \/ \E t \in Thread : Works(t, n)
    /\ \A t, u \in Thread : Busy(t) /\ Busy(u) /\ thr[t].line = thr[u].line => t = u
    /\ \A n \in LineNo : Logged(n)
    /\ \A t \in Thread : TaskGood(t)
    /\ OutputMatchesLog

\* Every line taken is at work or counted, and what was taken from the
\* counters was true when it was taken.
CountsGood ==
    /\ StatsEvery > 0 => stats_ct + Cardinality(Workers) = next
    /\ stats_ct_ok = Trues(counted, stats_ct)
    /\ \A t \in Thread : thr[t].pc = "report" =>
          thr[t].ct <= stats_ct /\ thr[t].ct_ok = Trues(counted, thr[t].ct)
    /\ \A i \in 1 .. Len(reports) :
          reports[i].ct <= stats_ct /\ reports[i].ok = Trues(counted, reports[i].ct)

EndGood ==
    /\ \A t \in Thread : thr[t].pc = "ended" => closed /\ next = fed
    /\ main.at \in {"last", "done"} => \A t \in 1 .. main.made : thr[t].pc = "ended"

MdigIInv == MdigTyped /\ LockGood /\ LinesGood /\ CountsGood /\ EndGood

-----------------------------------------------------------------------------
LEMMA MdigSizes ==
    /\ NThread \in Nat /\ NThread >= 1 /\ Thread = 1 .. NThread /\ Free \notin Thread
    /\ Len(Kind) \in Nat /\ LineNo = 1 .. Len(Kind) /\ \A n \in LineNo : Kind[n] \in LineKind
    /\ StatsEvery \in Nat /\ MaxAddr \in Nat
  BY MdigAssumption DEF Thread, LineNo, Free

LEMMA FirstOnes == \A k \in Nat : IsFiniteSet(1 .. k)
  BY FS_Interval

(* What an element behind a sequence adds to the places where P holds.      *)
Where(s, P) == {i \in DOMAIN s : P[s[i]]}

LEMMA Places ==
    ASSUME NEW S, NEW s \in Seq(S), NEW x \in S, NEW P \in [S -> BOOLEAN]
    PROVE  /\ Cardinality(Where(s, P)) \in Nat
           /\ Cardinality(Where(Append(s, x), P)) =
                 IF P[x] THEN Cardinality(Where(s, P)) + 1 ELSE Cardinality(Where(s, P))
<1> DEFINE old == Where(s, P)
           new == Where(Append(s, x), P)
<1>1. /\ Len(s) \in Nat /\ DOMAIN s = 1 .. Len(s) /\ DOMAIN Append(s, x) = 1 .. Len(s) + 1
      /\ Append(s, x)[Len(s) + 1] = x /\ \A i \in 1 .. Len(s) : Append(s, x)[i] = s[i]
  OBVIOUS
<1>2. IsFiniteSet(old) /\ Cardinality(old) \in Nat
  <2>1. old \in SUBSET (1 .. Len(s))
    BY <1>1 DEF Where
  <2>2. IsFiniteSet(1 .. Len(s))
    BY <1>1, FirstOnes
  <2> QED
    BY <2>1, <2>2, FS_Subset, FS_CardinalityType
<1>3. new = IF P[x] THEN old \cup {Len(s) + 1} ELSE old
  BY <1>1 DEF Where
<1>4. Len(s) + 1 \notin old
  BY <1>1 DEF Where
<1> HIDE DEF old, new
<1>5. Cardinality(new) = IF P[x] THEN Cardinality(old) + 1 ELSE Cardinality(old)
  BY <1>2, <1>3, <1>4, FS_AddElement
<1> QED
  BY <1>2, <1>5 DEF old, new

LEMMA TimesAppend ==
    ASSUME NEW s \in Seq(Nat), NEW x \in Nat, NEW n \in Nat
    PROVE  /\ Times(s, n) \in Nat
           /\ Times(Append(s, x), n) = Times(s, n) + (IF x = n THEN 1 ELSE 0)
<1> DEFINE P == [y \in Nat |-> y = n]
<1>1. P \in [Nat -> BOOLEAN] /\ (P[x] <=> x = n)
  OBVIOUS
<1>2. \A q \in Seq(Nat) : Where(q, P) = {i \in DOMAIN q : q[i] = n}
  <2> SUFFICES ASSUME NEW q \in Seq(Nat) PROVE Where(q, P) = {i \in DOMAIN q : q[i] = n}
    OBVIOUS
  <2>1. \A i \in DOMAIN q : q[i] \in Nat
    OBVIOUS
  <2> QED
    BY <2>1 DEF Where
<1>3. Append(s, x) \in Seq(Nat)
  OBVIOUS
<1>4. /\ Times(s, n) = Cardinality(Where(s, P))
      /\ Times(Append(s, x), n) = Cardinality(Where(Append(s, x), P))
  BY <1>2, <1>3 DEF Times
<1> HIDE DEF P
<1>5. /\ Cardinality(Where(s, P)) \in Nat
      /\ Cardinality(Where(Append(s, x), P)) =
            IF P[x] THEN Cardinality(Where(s, P)) + 1 ELSE Cardinality(Where(s, P))
  BY <1>1, Places
<1> QED
  BY <1>1, <1>4, <1>5

LEMMA TruesAppend ==
    ASSUME NEW c \in Seq(BOOLEAN), NEW x \in BOOLEAN
    PROVE  /\ \A m \in 0 .. Len(c) : Trues(Append(c, x), m) = Trues(c, m)
           /\ Trues(Append(c, x), Len(c) + 1) = Trues(c, Len(c)) + (IF x THEN 1 ELSE 0)
           /\ Trues(c, Len(c)) \in Nat
<1> DEFINE P == [y \in BOOLEAN |-> y]
<1>1. P \in [BOOLEAN -> BOOLEAN] /\ P[x] = x
  OBVIOUS
<1>2. /\ Len(c) \in Nat /\ DOMAIN c = 1 .. Len(c) /\ Len(Append(c, x)) = Len(c) + 1
      /\ Append(c, x) \in Seq(BOOLEAN)
      /\ \A k \in 1 .. Len(c) : Append(c, x)[k] = c[k]
  OBVIOUS
<1>3. \A q \in Seq(BOOLEAN) : Where(q, P) = {k \in 1 .. Len(q) : q[k]}
  BY DEF Where
<1>4. ASSUME NEW m \in 0 .. Len(c) PROVE Trues(Append(c, x), m) = Trues(c, m)
  <2>1. {k \in 1 .. m : Append(c, x)[k]} = {k \in 1 .. m : c[k]}
    BY <1>2
  <2> QED
    BY <2>1 DEF Trues
<1>5. /\ Trues(c, Len(c)) = Cardinality(Where(c, P))
      /\ Trues(Append(c, x), Len(c) + 1) = Cardinality(Where(Append(c, x), P))
  BY <1>2, <1>3 DEF Trues
<1> HIDE DEF P
<1>6. /\ Cardinality(Where(c, P)) \in Nat
      /\ Cardinality(Where(Append(c, x), P)) =
            IF P[x] THEN Cardinality(Where(c, P)) + 1 ELSE Cardinality(Where(c, P))
  BY <1>1, Places
<1> QED
  BY <1>1, <1>4, <1>5, <1>6

(* An address of n behind the others.                                      *)
LEMMA PrintedAppend ==
    ASSUME out \in Seq(Nat \X Nat \X Nat), NEW n \in Nat, NEW a \in Nat, NEW m \in Nat,
           out' = Append(out, <<n, a, m>>), NEW e \in Nat, e = Len(out) + 1
    PROVE  /\ \A k \in Nat : k # n => Printed(k)' = Printed(k) /\ \A x : OneOf(k, x)' = OneOf(k, x)
           /\ Printed(n)' = Printed(n) \cup {e}
           /\ Cardinality(Printed(n)') = Cardinality(Printed(n)) + 1
           /\ Cardinality(Printed(n)) \in Nat
           /\ \A i \in DOMAIN out : PrintedBy(i)' = PrintedBy(i) /\ out'[i] = out[i]
           /\ PrintedBy(e)' = Cardinality(Printed(n)) + 1
           /\ OneOf(n, m) => OneOf(n, m)'
<1> DEFINE last == <<n, a, m>>
<1>0. last \in Nat \X Nat \X Nat /\ last[1] = n /\ last[3] = m /\ out' = Append(out, last)
  OBVIOUS
<1> HIDE DEF last
<1>1. /\ Len(out) \in Nat /\ DOMAIN out = 1 .. Len(out) /\ DOMAIN out' = 1 .. e
      /\ out'[e][1] = n /\ out'[e][3] = m
      /\ \A i \in 1 .. Len(out) : out'[i] = out[i]
  BY <1>0
<1>8. /\ DOMAIN out' = DOMAIN out \cup {e} /\ e \notin DOMAIN out
      /\ \A i \in DOMAIN out : out'[i][1] = out[i][1]
  <2> DEFINE l == Len(out)
  <2>1. l \in Nat /\ e = l + 1 /\ DOMAIN out = 1 .. l /\ DOMAIN out' = 1 .. e
    BY <1>1
  <2> HIDE DEF l
  <2>2. 1 .. e = (1 .. l) \cup {e} /\ e \notin 1 .. l
    BY <2>1
  <2>3. \A i \in DOMAIN out : out'[i] = out[i]
    BY <1>1
  <2>4. DOMAIN out' = DOMAIN out \cup {e} /\ e \notin DOMAIN out
    BY <2>1, <2>2
  <2>5. \A i \in DOMAIN out : out'[i][1] = out[i][1]
    BY <2>3
  <2> QED
    BY <2>4, <2>5
<1>2. \A k \in Nat : k # n => Printed(k)' = Printed(k) /\ \A x : OneOf(k, x)' = OneOf(k, x)
  <2> SUFFICES ASSUME NEW k \in Nat, k # n
               PROVE  Printed(k)' = Printed(k) /\ \A y : OneOf(k, y)' = OneOf(k, y)
    OBVIOUS
  <2>1. Printed(k)' = Printed(k)
    BY <1>1 DEF Printed
  <2>2. \A i \in Printed(k) : out'[i] = out[i]
    BY <1>1 DEF Printed
  <2> QED
    BY <2>1, <2>2 DEF OneOf
<1>3. Printed(n)' = Printed(n) \cup {e}
  <2>1. \A i : i \in Printed(n)' <=> i \in DOMAIN out' /\ out'[i][1] = n
    BY DEF Printed
  <2>2. \A i : i \in Printed(n) <=> i \in DOMAIN out /\ out[i][1] = n
    BY DEF Printed
  <2>3. \A i : i \in Printed(n)' <=> i \in Printed(n) \/ i = e
    BY <1>1, <1>8, <2>1, <2>2, Zenon
  <2> QED
    BY <2>3, Zenon
<1>4. /\ Cardinality(Printed(n)') = Cardinality(Printed(n)) + 1
      /\ Cardinality(Printed(n)) \in Nat
  <2>1. Printed(n) \in SUBSET (1 .. Len(out))
    BY <1>1 DEF Printed
  <2>2. IsFiniteSet(1 .. Len(out))
    BY <1>1, FirstOnes
  <2>3. IsFiniteSet(Printed(n)) /\ e \notin Printed(n)
    BY <1>1, <2>1, <2>2, FS_Subset
  <2> QED
    BY <1>3, <2>3, FS_AddElement, FS_CardinalityType
<1>5. ASSUME NEW i \in DOMAIN out PROVE PrintedBy(i)' = PrintedBy(i) /\ out'[i] = out[i]
  <2>0. i \in Nat /\ i < e
    BY <1>1, <1>5
  <2>1. {k \in Printed(out[i][1])' : k <= i} = {k \in Printed(out[i][1]) : k <= i}
    <3> DEFINE m0 == out[i][1]
    <3>1. \A k : k \in Printed(m0)' <=> k \in DOMAIN out' /\ out'[k][1] = m0
      BY <1>1, <1>5 DEF Printed
    <3>2. \A k : k \in Printed(m0) <=> k \in DOMAIN out /\ out[k][1] = m0
      BY DEF Printed
    <3> HIDE DEF m0
    <3>3. \A k : k \in DOMAIN out' /\ k <= i => k \in DOMAIN out
      BY <1>1, <2>0
    <3> QED
      BY <1>8, <3>1, <3>2, <3>3 DEF m0
  <2> QED
    BY <1>1, <1>5, <2>1 DEF PrintedBy, Printed
<1>6. PrintedBy(e)' = Cardinality(Printed(n)) + 1
  <2>1. out'[e][1] = n
    BY <1>1
  <2>2. {k \in {i \in DOMAIN out' : out'[i][1] = out'[e][1]} : k <= e} = Printed(n)'
    BY <1>1, <2>1 DEF Printed
  <2> QED
    BY <1>4, <2>2 DEF PrintedBy, Printed
<1>7. OneOf(n, m) => OneOf(n, m)'
  <2>1. \A i \in Printed(n) : out'[i] = out[i]
    BY <1>1 DEF Printed
  <2> QED
    BY <1>1, <1>3, <2>1 DEF OneOf
<1> QED
  BY <1>2, <1>3, <1>4, <1>5, <1>6, <1>7

-----------------------------------------------------------------------------
(* A step of one thread, which becomes task.                               *)
AtWork == {"resolve", "print", "log", "count"}

Moves(t, task) ==
    /\ t \in Thread /\ thr[t].pc \notin {"none", "ended"}
    /\ task \in Task /\ Goes(t, task)
    /\ UNCHANGED <<main, fed, closed>>

LEMMA OthersStay ==
    ASSUME MdigTyped, NEW t, NEW task, Moves(t, task)
    PROVE  /\ thr' \in [Thread -> Task] /\ thr'[t] = task /\ t \in Thread
           /\ \A u \in Thread : u # t => thr'[u] = thr[u]
           /\ t <= main.made /\ Busy(t)' = (task.pc \in AtWork)
           /\ \A u \in Thread : u # t => Busy(u)' = Busy(u)
<1>1. /\ thr' \in [Thread -> Task] /\ thr'[t] = task /\ t \in Thread
      /\ \A u \in Thread : u # t => thr'[u] = thr[u]
  BY DEF MdigTyped, Moves, Goes
<1>2. t <= main.made
  <2>1. ~ (t > main.made) /\ t \in Nat /\ main.made \in Nat
    BY MdigSizes DEF MdigTyped, ThreadTyped, Moves
  <2> QED
    BY <2>1
<1> QED
  BY <1>1, <1>2 DEF Busy, AtWork

(* What a step leaves right that takes no lock and ends no thread.         *)
LEMMA MovesGood ==
    ASSUME MdigIInv, NEW t, NEW task, Moves(t, task), UNCHANGED <<flock, next>>,
           thr[t].pc # "reading", task.pc \notin {"none", "ended", "reading"},
           task.pc \in AtWork => thr[t].pc \in AtWork /\ task.line = thr[t].line,
           Streams', stats_ct' = Len(counted'), stats_ct_ok' \in Nat
    PROVE  MdigTyped' /\ LockGood' /\ EndGood'
<1>1. /\ thr' \in [Thread -> Task] /\ thr'[t] = task /\ t \in Thread
      /\ \A u \in Thread : u # t => thr'[u] = thr[u]
      /\ t <= main.made /\ Busy(t)' = (task.pc \in AtWork)
      /\ \A u \in Thread : u # t => Busy(u)' = Busy(u)
  BY OthersStay DEF MdigIInv
<1>2. main' = main /\ fed' = fed /\ closed' = closed
  BY DEF Moves
<1>3. \A u \in Thread : ThreadTyped(u)'
  <2>1. t \in Nat /\ main.made \in Nat
    BY MdigSizes, <1>1 DEF MdigIInv, MdigTyped
  <2>2. ThreadTyped(t)'
    BY <1>1, <1>2, <2>1 DEF MdigIInv, MdigTyped, ThreadTyped, Busy, AtWork
  <2>3. \A u \in Thread : u # t => ThreadTyped(u)'
    BY <1>1, <1>2 DEF MdigIInv, MdigTyped, ThreadTyped
  <2> QED
    BY <2>2, <2>3
<1>4. MdigTyped'
  BY <1>1, <1>2, <1>3 DEF MdigIInv, MdigTyped
<1>5. LockGood'
  BY <1>1 DEF MdigIInv, LockGood
<1>6. EndGood'
  <2>1. t \in 1 .. main.made
    BY <1>1, MdigSizes DEF MdigIInv, MdigTyped
  <2> QED
    BY <1>1, <1>2, <2>1 DEF MdigIInv, EndGood, Moves
<1> QED
  BY <1>4, <1>5, <1>6

(* The streams stay: so does what is known of the lines, if the line of t  *)
(* is still its own or is finished.                                        *)
LEMMA LinesFrame ==
    ASSUME LinesGood, UNCHANGED <<streams, next>>, NEW t \in Thread,
           \A u \in Thread : u # t => thr'[u] = thr[u],
           Busy(t)' => Busy(t) /\ thr'[t].line = thr[t].line,
           Busy(t) => Busy(t)' \/ Finished(thr[t].line),
           TaskGood(t)'
    PROVE  LinesGood'
<1>1. /\ \A n : /\ Times(resolved, n)' = Times(resolved, n) /\ Times(failed, n)' = Times(failed, n)
                /\ Printed(n)' = Printed(n) /\ \A m : OneOf(n, m)' = OneOf(n, m)
      /\ out' = out /\ resolved' = resolved /\ failed' = failed /\ next' = next
  BY DEF streams, Times, Printed, OneOf
<1>2. \A n : /\ Unlogged(n)' = Unlogged(n) /\ Finished(n)' = Finished(n)
             /\ Logged(n)' = Logged(n)
  BY <1>1 DEF Unlogged, Finished, Logged
<1>3. \A u \in Thread : u # t => Busy(u)' = Busy(u) /\ TaskGood(u)' = TaskGood(u)
  BY <1>1, <1>2 DEF Busy, TaskGood
<1>4. \A n \in LineNo : n > next' => Unlogged(n)' /\ Printed(n)' = {}
  BY <1>1, <1>2 DEF LinesGood
<1>5. ASSUME NEW n \in 1 .. next' PROVE Finished(n)' \/ \E u \in Thread : Works(u, n)'
  <2>1. Finished(n) \/ \E u \in Thread : Works(u, n)
    BY <1>1, <1>5 DEF LinesGood
  <2>2. ASSUME NEW u \in Thread, Works(u, n), u # t PROVE Works(u, n)'
    BY <1>3, <2>2 DEF Works
  <2>3. ASSUME Works(t, n) PROVE Finished(n) \/ Works(t, n)'
    BY <2>3 DEF Works
  <2> QED
    BY <1>2, <2>1, <2>2, <2>3
<1>6. \A u, v \in Thread : Busy(u)' /\ Busy(v)' /\ thr'[u].line = thr'[v].line => u = v
  BY <1>3 DEF LinesGood
<1>7. OutputMatchesLog'
  BY <1>1 DEF LinesGood, OutputMatchesLog, PrintedBy
<1>8. \A n \in LineNo : Logged(n)'
  BY <1>2 DEF LinesGood
<1>9. \A u \in Thread : TaskGood(u)'
  BY <1>3 DEF LinesGood
<1> QED
  BY <1>4, <1>5, <1>6, <1>7, <1>8, <1>9 DEF LinesGood

(* How many threads are at work.                                           *)
LEMMA WorkersMove ==
    ASSUME NEW t \in Thread, \A u \in Thread : u # t => Busy(u)' = Busy(u)
    PROVE  /\ Cardinality(Workers) \in Nat
           /\ (Busy(t) <=> Busy(t)') => Workers' = Workers
           /\ ~ Busy(t) /\ Busy(t)' => Cardinality(Workers') = Cardinality(Workers) + 1
           /\ Busy(t) /\ ~ Busy(t)' => Cardinality(Workers') = Cardinality(Workers) - 1
<1>1. IsFiniteSet(Workers)
  <2>1. IsFiniteSet(1 .. NThread) /\ Workers \in SUBSET (1 .. NThread)
    BY MdigSizes, FirstOnes DEF Workers
  <2> QED
    BY <2>1, FS_Subset
<1>2. /\ (Busy(t) <=> Busy(t)') => Workers' = Workers
      /\ ~ Busy(t) /\ Busy(t)' => t \notin Workers /\ Workers' = Workers \cup {t}
      /\ Busy(t) /\ ~ Busy(t)' => t \in Workers /\ Workers' = Workers \ {t}
  BY DEF Workers
<1> QED
  BY <1>1, <1>2, FS_AddElement, FS_RemoveElement, FS_CardinalityType

(* The counters and the reports stay, and so many are at work.             *)
LEMMA CountsFrame ==
    ASSUME CountsGood, UNCHANGED <<counters, reports, next>>,
           StatsEvery > 0 => Workers' = Workers,
           \A u \in Thread : thr'[u].pc = "report" => thr'[u] = thr[u]
    PROVE  CountsGood'
  BY DEF CountsGood, counters, Trues

-----------------------------------------------------------------------------
(* The actions.                                                            *)
LEMMA TaskFields ==
    ASSUME NEW r \in Task
    PROVE  /\ r.pc \in Place /\ r.line \in Nat /\ r.tries \in Nat /\ r.addr \in Nat
           /\ r.count \in Nat /\ r.ok \in BOOLEAN /\ r.ct \in Nat /\ r.ct_ok \in Nat
           /\ \A p \in Place :
                 LET q == [r EXCEPT !.pc = p]
                 IN  q \in Task /\ q.pc = p /\ q.line = r.line /\ q.ok = r.ok /\ q.addr = r.addr
  BY DEF Task

LEMMA NoTaskIsTask == NoTask \in Task
  BY DEF NoTask, Task, Place

LEMMA GetGood ==
    ASSUME MdigIInv, NEW t \in Thread, Get(t)
    PROVE  MdigIInv'
<1> DEFINE task == [NoTask EXCEPT !.pc = "reading", !.line = next + 1]
<1>1. /\ thr[t].pc = "get" /\ flock = Free /\ flock' = t
      /\ UNCHANGED <<main, input, next, streams, counters, reports>>
      /\ Goes(t, task)
  BY DEF Get, Lock
<1>2. task \in Task /\ task.pc = "reading" /\ task.line = next + 1
  <2>1. next + 1 \in Nat /\ "reading" \in Place
    BY DEF MdigIInv, MdigTyped, Place
  <2> QED
    BY <2>1 DEF Task, NoTask
<1>3. Moves(t, task)
  BY <1>1, <1>2 DEF Moves, input
<1> HIDE DEF task
<1>4. /\ thr' \in [Thread -> Task] /\ thr'[t] = task
      /\ \A u \in Thread : u # t => thr'[u] = thr[u]
      /\ t <= main.made /\ ~ Busy(t)'
      /\ \A u \in Thread : u # t => Busy(u)' = Busy(u)
  BY <1>2, <1>3, OthersStay DEF MdigIInv, AtWork
<1>5. ~ Busy(t)
  BY <1>1 DEF Busy
<1>6. LinesGood'
  <2>1. TaskGood(t)'
    BY <1>2, <1>4 DEF TaskGood
  <2> QED
    BY <1>1, <1>4, <1>5, <2>1, LinesFrame DEF MdigIInv
<1>7. CountsGood'
  <2>1. Workers' = Workers
    BY <1>4, <1>5, WorkersMove
  <2>2. \A u \in Thread : thr'[u].pc = "report" => thr'[u] = thr[u]
    BY <1>2, <1>4
  <2> QED
    BY <1>1, <2>1, <2>2, CountsFrame DEF MdigIInv
<1>8. MdigTyped'
  <2>1. t \in Nat /\ main.made \in Nat
    BY MdigSizes DEF MdigIInv, MdigTyped
  <2>2. ThreadTyped(t)'
    BY <1>1, <1>2, <1>4, <2>1 DEF ThreadTyped
  <2>3. \A u \in Thread : u # t => ThreadTyped(u)'
    BY <1>1, <1>4 DEF MdigIInv, MdigTyped, ThreadTyped
  <2>4. Streams'
    BY <1>1 DEF MdigIInv, MdigTyped, Streams, streams, counters
  <2> QED
    BY <1>1, <1>4, <2>2, <2>3, <2>4 DEF MdigIInv, MdigTyped, input, counters
<1>9. LockGood'
  <2>1. \A u \in Thread : u # Free
    BY MdigSizes
  <2> QED
    BY <1>1, <1>2, <1>4, <2>1 DEF MdigIInv, LockGood
<1>10. EndGood'
  <2>1. t \in 1 .. main.made
    BY <1>4, MdigSizes DEF MdigIInv, MdigTyped
  <2> QED
    BY <1>1, <1>2, <1>4, <2>1 DEF MdigIInv, EndGood, input
<1> QED
  BY <1>6, <1>7, <1>8, <1>9, <1>10 DEF MdigIInv

(* Whoever waits for a line has the lock, and will get the next one.        *)
LEMMA ReaderHolds ==
    ASSUME MdigIInv, NEW t \in Thread, thr[t].pc = "reading"
    PROVE  flock = t /\ thr[t].line = next + 1
  BY DEF MdigIInv, LockGood

(* What is begun with a line.                                              *)
LEMMA BeginsType ==
    ASSUME NEW n \in LineNo
    PROVE  /\ Begins(n) \in Task /\ Begins(n).line = n
           /\ Begins(n).pc \in AtWork
           /\ Begins(n).pc = "count" <=> Kind[n] = "empty"
           /\ Begins(n).pc = "resolve" => ~ Begins(n).ok
           /\ Begins(n).pc = "print" => Begins(n).ok /\ Begins(n).addr = 1 /\ Begins(n).count = 1
           /\ Begins(n).pc = "log" => ~ Begins(n).ok
<1>1. Kind[n] \in LineKind /\ n \in Nat
  BY MdigSizes
<1>2. CASE Kind[n] = "empty"
  BY <1>1, <1>2 DEF Begins, NoTask, Task, Place, AtWork
<1>3. CASE Kind[n] = "refused"
  BY <1>1, <1>3 DEF Begins, NoTask, Task, Place, AtWork
<1>4. CASE Kind[n] = "address"
  BY <1>1, <1>4 DEF Begins, NoTask, Task, Place, AtWork
<1>5. CASE Kind[n] = "name"
  BY <1>1, <1>5 DEF Begins, NoTask, Task, Place, AtWork
<1> QED
  BY <1>1, <1>2, <1>3, <1>4, <1>5 DEF LineKind

(* A line is taken: its number is the next one, and it is untouched.       *)
LEMMA TakeGood ==
    ASSUME MdigIInv, NEW t \in Thread, Fgets(t), next < fed, next' = next + 1,
           Goes(t, Begins(thr[t].line))
    PROVE  MdigIInv'
<1> DEFINE n == next + 1
           task == Begins(n)
<1>1. /\ thr[t].pc = "reading" /\ thr[t].line = n /\ flock = t /\ flock' = Free
      /\ UNCHANGED <<main, input, streams, counters, reports>>
  <2>1. /\ thr[t].pc = "reading" /\ flock' = Free
        /\ UNCHANGED <<main, input, streams, counters, reports>>
    BY DEF Fgets
  <2>2. flock = t /\ thr[t].line = next + 1
    BY <2>1, ReaderHolds
  <2> QED
    BY <2>1, <2>2
<1>2. /\ n \in LineNo /\ n \in Nat /\ next \in Nat /\ fed \in Nat /\ n > next
  BY MdigSizes DEF MdigIInv, MdigTyped
<1>3. /\ task \in Task /\ task.line = n /\ task.pc \in AtWork
      /\ (task.pc = "count" => Kind[n] = "empty")
      /\ (task.pc = "resolve" => ~ task.ok)
      /\ (task.pc = "print" => task.ok /\ task.addr = 1 /\ task.count = 1)
      /\ (task.pc = "log" => ~ task.ok)
  BY <1>2, BeginsType
<1>4. Moves(t, task)
  BY <1>1, <1>3 DEF Moves, input
<1>5. /\ thr' \in [Thread -> Task] /\ thr'[t] = task
      /\ \A u \in Thread : u # t => thr'[u] = thr[u]
      /\ t <= main.made /\ Busy(t)'
      /\ \A u \in Thread : u # t => Busy(u)' = Busy(u)
  BY <1>3, <1>4, OthersStay DEF MdigIInv
<1> HIDE DEF n, task
<1>6. ~ Busy(t) /\ next' = n
  BY <1>1 DEF Busy, n
<1>7. /\ \A m : /\ Times(resolved, m)' = Times(resolved, m) /\ Times(failed, m)' = Times(failed, m)
                /\ Printed(m)' = Printed(m) /\ \A k : OneOf(m, k)' = OneOf(m, k)
      /\ out' = out
  BY <1>1 DEF streams, Times, Printed, OneOf
<1>8. \A m : /\ Unlogged(m)' = Unlogged(m) /\ Finished(m)' = Finished(m) /\ Logged(m)' = Logged(m)
  BY <1>7 DEF Unlogged, Finished, Logged
<1>9. \A u \in Thread : Busy(u) => thr[u].line \in 1 .. next
  BY DEF MdigIInv, MdigTyped, ThreadTyped
<1>10. LinesGood'
  <2>1. Unlogged(n) /\ Printed(n) = {}
    BY <1>2 DEF MdigIInv, LinesGood
  <2>2. TaskGood(t)'
    <3>1. PICK m \in Nat : m = n
      BY <1>2
    <3>2. Unlogged(m)' /\ Printed(m)' = {} /\ Cardinality(Printed(m)') = 0
      BY <1>7, <1>8, <2>1, <3>1, FS_EmptySet
    <3>7. \A k : OneOf(m, k)'
      BY <3>2 DEF OneOf
    <3>3. Kind[m] = "empty" => Finished(m)'
      BY DEF Finished
    <3>4. thr'[t].line = m
      BY <1>3, <1>5, <3>1
    <3>5. /\ thr'[t].pc = "resolve" => ~ thr'[t].ok
          /\ thr'[t].pc = "print" => thr'[t].ok /\ thr'[t].addr = 1 /\ thr'[t].count = 1
          /\ thr'[t].pc = "log" => ~ thr'[t].ok
          /\ thr'[t].pc = "count" => Kind[m] = "empty"
      BY <1>3, <1>5, <3>1
    <3>6. thr'[t].pc = "print" => /\ thr'[t].addr = Cardinality(Printed(m)') + 1
                                  /\ thr'[t].addr <= thr'[t].count
      BY <3>2, <3>5
    <3> QED
      BY <3>2, <3>3, <3>4, <3>5, <3>6, <3>7 DEF TaskGood
  <2>3. \A u \in Thread : u # t => TaskGood(u)'
    BY <1>5, <1>7, <1>8 DEF MdigIInv, LinesGood, TaskGood
  <2>4. \A m \in LineNo : m > next' => Unlogged(m)' /\ Printed(m)' = {}
    <3>1. \A m \in LineNo : m > n => m > next
      BY <1>2, MdigSizes
    <3> QED
      BY <1>6, <1>7, <1>8, <3>1 DEF MdigIInv, LinesGood
  <2>5. ASSUME NEW m \in 1 .. next' PROVE Finished(m)' \/ \E u \in Thread : Works(u, m)'
    <3>1. CASE m = n
      BY <1>3, <1>5, <3>1 DEF Works
    <3>2. CASE m # n
      <4>1. m \in 1 .. next
        BY <1>2, <1>6, <2>5, <3>2 DEF n
      <4>2. Finished(m) \/ \E u \in Thread : Works(u, m)
        BY <4>1 DEF MdigIInv, LinesGood
      <4>3. \A u \in Thread : Works(u, m) => Works(u, m)'
        BY <1>5, <1>6 DEF Works
      <4> QED
        BY <1>8, <4>2, <4>3
    <3> QED
      BY <3>1, <3>2
  <2>6. ASSUME NEW u \in Thread, NEW v \in Thread, Busy(u)', Busy(v)', thr'[u].line = thr'[v].line
        PROVE  u = v
    <3>1. \A w \in Thread : w # t /\ Busy(w)' => thr'[w].line # n
      BY <1>2, <1>5, <1>9
    <3> QED
      BY <1>3, <1>5, <2>6, <3>1 DEF MdigIInv, LinesGood
  <2>7. \A m \in LineNo : Logged(m)'
    BY <1>8 DEF MdigIInv, LinesGood
  <2>8. OutputMatchesLog'
    BY <1>7 DEF MdigIInv, LinesGood, OutputMatchesLog, PrintedBy
  <2> QED
    BY <2>2, <2>3, <2>4, <2>5, <2>6, <2>7, <2>8 DEF LinesGood
<1>11. CountsGood'
  <2>1. Cardinality(Workers') = Cardinality(Workers) + 1 /\ Cardinality(Workers) \in Nat
    BY <1>5, <1>6, WorkersMove
  <2>2. StatsEvery > 0 => stats_ct' + Cardinality(Workers') = next'
    <3>1. stats_ct \in Nat
      BY DEF MdigIInv, MdigTyped, Streams
    <3> QED
      BY <1>1, <1>2, <1>6, <2>1, <3>1 DEF MdigIInv, CountsGood, counters, n
  <2>3. \A u \in Thread : thr'[u].pc = "report" => thr'[u] = thr[u]
    BY <1>3, <1>5 DEF AtWork
  <2>4. UNCHANGED <<stats_ct, stats_ct_ok, counted, reports>> /\ CountsGood
    BY <1>1 DEF MdigIInv, counters
  <2>5. \A u \in Thread : thr'[u].pc = "report" =>
            thr'[u].ct <= stats_ct /\ thr'[u].ct_ok = Trues(counted, thr'[u].ct)
    BY <2>3, <2>4 DEF CountsGood
  <2>6. \A m : Trues(counted, m)' = Trues(counted, m)
    BY <2>4 DEF Trues
  <2>7. stats_ct_ok' = Trues(counted, stats_ct)'
    BY <2>4, <2>6 DEF CountsGood
  <2>8. \A i \in 1 .. Len(reports') :
            reports'[i].ct <= stats_ct' /\ reports'[i].ok = Trues(counted, reports'[i].ct)
    BY <2>4 DEF CountsGood
  <2> HIDE DEF Trues
  <2>9. (\A u \in Thread : thr[u].pc = "report" =>
            thr[u].ct <= stats_ct /\ thr[u].ct_ok = Trues(counted, thr[u].ct))'
    BY <2>4, <2>5, <2>6
  <2>10. (\A i \in 1 .. Len(reports) :
            reports[i].ct <= stats_ct /\ reports[i].ok = Trues(counted, reports[i].ct))'
    BY <2>4, <2>6, <2>8
  <2> QED
    BY <2>2, <2>7, <2>9, <2>10 DEF CountsGood
<1>12. MdigTyped'
  <2>1. t \in Nat /\ main.made \in Nat /\ n \in 1 .. n
    BY <1>2, MdigSizes DEF MdigIInv, MdigTyped
  <2>2. ThreadTyped(t)'
    BY <1>1, <1>3, <1>5, <1>6, <2>1 DEF ThreadTyped
  <2>3. \A m \in 1 .. next : m \in 1 .. n
    BY <1>2
  <2>4. \A u \in Thread : u # t => ThreadTyped(u)'
    BY <1>1, <1>5, <1>6, <2>3 DEF MdigIInv, MdigTyped, ThreadTyped
  <2>5. Streams'
    BY <1>1 DEF MdigIInv, MdigTyped, Streams, streams, counters
  <2>6. next' \in Nat /\ next' <= fed
    BY <1>2, <1>6 DEF n
  <2> QED
    BY <1>1, <1>5, <2>2, <2>4, <2>5, <2>6 DEF MdigIInv, MdigTyped, input, counters
<1>13. LockGood'
  <2>1. \A u \in Thread : u # Free
    BY MdigSizes
  <2> QED
    BY <1>1, <1>3, <1>5, <2>1 DEF MdigIInv, LockGood, AtWork
<1>14. EndGood'
  <2>1. t \in 1 .. main.made
    BY <1>5, MdigSizes DEF MdigIInv, MdigTyped
  <2>2. next # fed
    BY <1>2
  <2> QED
    BY <1>1, <1>3, <1>5, <2>1, <2>2 DEF MdigIInv, EndGood, input, AtWork
<1> QED
  BY <1>10, <1>11, <1>12, <1>13, <1>14 DEF MdigIInv

(* The end of the input: the thread returns.                               *)
LEMMA StopGood ==
    ASSUME MdigIInv, NEW t \in Thread, Fgets(t), closed, next = fed, UNCHANGED next,
           Goes(t, [NoTask EXCEPT !.pc = "ended"])
    PROVE  MdigIInv'
<1> DEFINE task == [NoTask EXCEPT !.pc = "ended"]
<1>1. /\ thr[t].pc = "reading" /\ flock = t /\ flock' = Free
      /\ UNCHANGED <<main, input, next, streams, counters, reports>>
  <2>1. /\ thr[t].pc = "reading" /\ flock' = Free
        /\ UNCHANGED <<main, input, streams, counters, reports>>
    BY DEF Fgets
  <2>2. flock = t /\ thr[t].line = next + 1
    BY <2>1, ReaderHolds
  <2> QED
    BY <2>1, <2>2
<1>2. task \in Task /\ task.pc = "ended"
  BY DEF Task, NoTask, Place
<1>3. Moves(t, task)
  BY <1>1, <1>2 DEF Moves, input
<1> HIDE DEF task
<1>4. /\ thr' \in [Thread -> Task] /\ thr'[t] = task
      /\ \A u \in Thread : u # t => thr'[u] = thr[u]
      /\ t <= main.made /\ ~ Busy(t)'
      /\ \A u \in Thread : u # t => Busy(u)' = Busy(u)
  BY <1>2, <1>3, OthersStay DEF MdigIInv, AtWork
<1>5. ~ Busy(t)
  BY <1>1 DEF Busy
<1>6. LinesGood'
  <2>1. TaskGood(t)'
    BY <1>2, <1>4 DEF TaskGood
  <2> QED
    BY <1>1, <1>4, <1>5, <2>1, LinesFrame DEF MdigIInv
<1>7. CountsGood'
  <2>1. Workers' = Workers
    BY <1>4, <1>5, WorkersMove
  <2>2. \A u \in Thread : thr'[u].pc = "report" => thr'[u] = thr[u]
    BY <1>2, <1>4
  <2> QED
    BY <1>1, <2>1, <2>2, CountsFrame DEF MdigIInv
<1>8. MdigTyped'
  <2>1. t \in Nat /\ main.made \in Nat
    BY MdigSizes DEF MdigIInv, MdigTyped
  <2>2. ThreadTyped(t)'
    BY <1>1, <1>2, <1>4, <2>1 DEF ThreadTyped
  <2>3. \A u \in Thread : u # t => ThreadTyped(u)'
    BY <1>1, <1>4 DEF MdigIInv, MdigTyped, ThreadTyped
  <2>4. Streams'
    BY <1>1 DEF MdigIInv, MdigTyped, Streams, streams, counters
  <2> QED
    BY <1>1, <1>4, <2>2, <2>3, <2>4 DEF MdigIInv, MdigTyped, input, counters
<1>9. LockGood'
  <2>1. \A u \in Thread : u # Free
    BY MdigSizes
  <2> QED
    BY <1>1, <1>2, <1>4, <2>1 DEF MdigIInv, LockGood
<1>10. EndGood'
  <2>1. \A u \in 1 .. main.made : u \in Thread
    BY MdigSizes DEF MdigIInv, MdigTyped
  <2> QED
    BY <1>1, <1>2, <1>4, <2>1 DEF MdigIInv, EndGood, input
<1> QED
  BY <1>6, <1>7, <1>8, <1>9, <1>10 DEF MdigIInv

LEMMA ReadGood ==
    ASSUME MdigIInv, NEW t \in Thread, Fgets(t)
    PROVE  MdigIInv'
  BY TakeGood, StopGood DEF Fgets

(* The resolver answers: the thread goes on with its line.                 *)
LEMMA ResolveGood ==
    ASSUME MdigIInv, NEW t \in Thread, Resolve(t)
    PROVE  MdigIInv'
<1>1. thr[t] \in Task /\ thr[t].pc = "resolve" /\ ~ thr[t].ok /\ thr[t].ok \in BOOLEAN
  BY TaskFields DEF Resolve, MdigIInv, MdigTyped, LinesGood, TaskGood
<1>2. PICK task \in Task : /\ Goes(t, task) /\ task.line = thr[t].line
                           /\ \/ task.pc = "print" /\ task.ok /\ task.addr = 1 /\ 1 <= task.count
                              \/ task.pc \in {"log", "resolve"} /\ ~ task.ok
  <2>1. CASE \E n \in 1 .. MaxAddr :
                Goes(t, [thr[t] EXCEPT !.pc = "print", !.ok = TRUE, !.addr = 1, !.count = n])
    <3>1. PICK n \in 1 .. MaxAddr :
                Goes(t, [thr[t] EXCEPT !.pc = "print", !.ok = TRUE, !.addr = 1, !.count = n])
      BY <2>1
    <3>2. n \in Nat /\ 1 <= n /\ 1 \in Nat /\ "print" \in Place
      BY MdigSizes DEF Place
    <3> DEFINE task == [thr[t] EXCEPT !.pc = "print", !.ok = TRUE, !.addr = 1, !.count = n]
    <3>3. /\ task \in Task /\ task.line = thr[t].line
          /\ task.pc = "print" /\ task.ok /\ task.addr = 1 /\ 1 <= task.count
      BY <1>1, <3>2 DEF Task
    <3> QED
      BY <3>1, <3>3
  <2>2. CASE Goes(t, [thr[t] EXCEPT !.pc = "log"])
    <3> DEFINE task == [thr[t] EXCEPT !.pc = "log"]
    <3>1. "log" \in Place
      BY DEF Place
    <3>2. task \in Task /\ task.pc = "log" /\ task.line = thr[t].line /\ ~ task.ok
      BY <1>1, <3>1, TaskFields
    <3> QED
      BY <2>2, <3>2
  <2>3. CASE Goes(t, Again(thr[t])) /\ thr[t].tries + 1 < RESOLVER_EAGAIN_ATTEMPTS
    <3> DEFINE task == [thr[t] EXCEPT !.tries = @ + 1]
    <3>1. thr[t].tries + 1 \in Nat
      BY <1>1, TaskFields
    <3>2. task \in Task /\ task.pc = "resolve" /\ task.line = thr[t].line /\ ~ task.ok
      BY <1>1, <3>1 DEF Task
    <3>3. Again(thr[t]) = task
      BY <2>3 DEF Again
    <3> QED
      BY <2>3, <3>2, <3>3
  <2>4. CASE Goes(t, Again(thr[t])) /\ ~ (thr[t].tries + 1 < RESOLVER_EAGAIN_ATTEMPTS)
    <3>1. Again(thr[t]) = [thr[t] EXCEPT !.pc = "log"]
      BY <2>4 DEF Again
    <3> QED
      BY <2>2, <2>4, <3>1
  <2> QED
    BY <2>1, <2>2, <2>3, <2>4 DEF Resolve
<1>3. UNCHANGED <<main, flock, input, next, streams, counters, reports>>
  BY DEF Resolve
<1>4. Moves(t, task)
  BY <1>1, <1>2, <1>3 DEF Moves, input
<1>5. /\ thr'[t] = task /\ \A u \in Thread : u # t => thr'[u] = thr[u]
      /\ Busy(t)' /\ Busy(t) /\ \A u \in Thread : u # t => Busy(u)' = Busy(u)
  BY <1>1, <1>2, <1>4, OthersStay DEF MdigIInv, AtWork, Busy
<1>6. MdigTyped' /\ LockGood' /\ EndGood'
  <2>1. Streams' /\ stats_ct' = Len(counted') /\ stats_ct_ok' \in Nat
    BY <1>3 DEF MdigIInv, MdigTyped, Streams, streams, counters
  <2> QED
    BY <1>1, <1>2, <1>3, <1>4, <2>1, MovesGood DEF AtWork
<1>7. LinesGood'
  <2>1. Unlogged(thr[t].line) /\ Printed(thr[t].line) = {}
    BY <1>1 DEF MdigIInv, LinesGood, TaskGood
  <2>2. Unlogged(thr[t].line)' /\ Printed(thr[t].line)' = {}
    BY <1>2, <1>3, <1>5, <2>1 DEF Unlogged, Printed, Times, streams
  <2>3. TaskGood(t)'
    <3>1. Cardinality(Printed(thr[t].line)') = 0
      BY <2>2, FS_EmptySet
    <3>2. \A k : OneOf(thr[t].line, k)'
      BY <1>2, <1>3, <1>5, <2>1 DEF OneOf, Printed, streams
    <3> QED
      BY <1>2, <1>5, <2>2, <3>1, <3>2 DEF TaskGood
  <2> QED
    BY <1>2, <1>3, <1>5, <2>3, LinesFrame DEF MdigIInv
<1>8. CountsGood'
  <2>1. Workers' = Workers
    BY <1>5, WorkersMove
  <2>2. \A u \in Thread : thr'[u].pc = "report" => thr'[u] = thr[u]
    BY <1>2, <1>5
  <2> QED
    BY <1>3, <2>1, <2>2, CountsFrame DEF MdigIInv
<1> QED
  BY <1>6, <1>7, <1>8 DEF MdigIInv

(* One more address of a line is on the output: the lines.                 *)
LEMMA PrintLines ==
    ASSUME MdigIInv, NEW t \in Thread, NEW task \in Task, NEW n \in Nat, NEW a \in Nat, NEW m \in Nat, NEW e \in Nat,
           n = thr[t].line, a = thr[t].addr, m = thr[t].count, e = Len(out) + 1, thr[t].pc = "print",
           Moves(t, task), out' = Append(out, <<n, a, m>>), UNCHANGED <<next, resolved, failed>>,
           task.line = n, task.ok,
           \/ task.pc = "log" /\ a = m
           \/ task.pc = "print" /\ task.addr = a + 1 /\ task.count = m /\ a # m
    PROVE  LinesGood'
<1>1. /\ thr'[t] = task /\ \A u \in Thread : u # t => thr'[u] = thr[u]
      /\ Busy(t) /\ Busy(t)' /\ \A u \in Thread : u # t => Busy(u)' = Busy(u)
  BY OthersStay DEF MdigIInv, AtWork, Busy
<1>2. /\ \A k \in Nat : k # n => Printed(k)' = Printed(k) /\ \A x : OneOf(k, x)' = OneOf(k, x)
      /\ Printed(n)' = Printed(n) \cup {e}
      /\ Cardinality(Printed(n)') = Cardinality(Printed(n)) + 1
      /\ Cardinality(Printed(n)) \in Nat
      /\ \A i \in DOMAIN out : PrintedBy(i)' = PrintedBy(i) /\ out'[i] = out[i]
      /\ PrintedBy(e)' = Cardinality(Printed(n)) + 1
      /\ OneOf(n, m) => OneOf(n, m)'
  BY PrintedAppend DEF MdigIInv, MdigTyped, Streams
<1>3. \A k : /\ Times(resolved, k)' = Times(resolved, k) /\ Times(failed, k)' = Times(failed, k)
             /\ Unlogged(k)' = Unlogged(k) /\ Finished(k)' = Finished(k) /\ Logged(k)' = Logged(k)
  BY DEF Times, Unlogged, Finished, Logged
<1>4. /\ n \in 1 .. next /\ Unlogged(n) /\ a = Cardinality(Printed(n)) + 1
      /\ a <= m /\ OneOf(n, m)
  BY <1>1 DEF MdigIInv, MdigTyped, ThreadTyped, LinesGood, TaskGood
<1>5. \A u \in Thread : thr[u].line \in Nat
  BY TaskFields DEF MdigIInv, MdigTyped
<1>6. next \in Nat /\ \A k \in LineNo : k \in Nat
  BY MdigSizes DEF MdigIInv, MdigTyped
<1>7. \A k \in LineNo : k > next' => Unlogged(k)' /\ Printed(k)' = {}
  <2>1. \A k \in LineNo : k > next => k # n
    BY <1>4, <1>6
  <2> QED
    BY <1>2, <1>3, <1>6, <2>1 DEF MdigIInv, LinesGood
<1>8. \A k \in 1 .. next' : Finished(k)' \/ \E u \in Thread : Works(u, k)'
  <2>1. \A u \in Thread : \A k : Works(u, k) => Works(u, k)'
    BY <1>1 DEF Works
  <2> QED
    BY <1>3, <2>1 DEF MdigIInv, LinesGood
<1>9. \A u, v \in Thread : Busy(u)' /\ Busy(v)' /\ thr'[u].line = thr'[v].line => u = v
  BY <1>1 DEF MdigIInv, LinesGood
<1>10. \A k \in LineNo : Logged(k)'
  BY <1>3 DEF MdigIInv, LinesGood
<1>11. \A u \in Thread : TaskGood(u)'
  <2>1. TaskGood(t)'
    <3>1. OneOf(n, m)' /\ (a = m => OneOf(n, Cardinality(Printed(n)))')
      BY <1>2, <1>4
    <3>2. Cardinality(Printed(n)') = a /\ Printed(n)' # {} /\ Unlogged(n)'
      BY <1>2, <1>3, <1>4
    <3>3. task.pc = "log" => OneOf(n, Cardinality(Printed(n)))'
      BY <3>1
    <3>4. task.pc = "print" => task.addr <= task.count /\ task.addr = Cardinality(Printed(n)') + 1
      BY <1>4, <3>2
    <3> QED
      BY <1>1, <3>1, <3>2, <3>3, <3>4 DEF TaskGood
  <2>2. ASSUME NEW u \in Thread, u # t PROVE TaskGood(u)'
    <3>1. Busy(u) => thr[u].line # n
      BY <1>1, <2>2 DEF MdigIInv, LinesGood
    <3>2. Busy(u) => /\ Printed(thr[u].line)' = Printed(thr[u].line)
                     /\ \A x : OneOf(thr[u].line, x)' = OneOf(thr[u].line, x)
      BY <1>1, <1>2, <1>5, <2>2, <3>1
    <3>3. TaskGood(u)
      BY DEF MdigIInv, LinesGood
    <3> QED
      BY <1>1, <1>3, <2>2, <3>2, <3>3 DEF TaskGood, Busy
  <2> QED
    BY <2>1, <2>2
<1>12. OutputMatchesLog'
  <2>1. ASSUME NEW i \in DOMAIN out' PROVE out'[i][2] = PrintedBy(i)'
    <3>0. out \in Seq(Nat \X Nat \X Nat) /\ <<n, a, m>> \in Nat \X Nat \X Nat
      BY DEF MdigIInv, MdigTyped, Streams
    <3>1. /\ Len(out) \in Nat /\ DOMAIN out = 1 .. Len(out) /\ DOMAIN out' = 1 .. e
          /\ out'[e] = <<n, a, m>>
      BY <3>0
    <3>2. CASE i = e
      BY <1>2, <1>4, <3>1, <3>2
    <3>3. CASE i \in DOMAIN out
      BY <1>2, <3>3 DEF MdigIInv, LinesGood, OutputMatchesLog
    <3> QED
      BY <2>1, <3>1, <3>2, <3>3
  <2>2. ASSUME NEW k \in LineNo
        PROVE  /\ Times(resolved, k)' > 0 => Printed(k)' # {} /\ OneOf(k, Cardinality(Printed(k)))'
               /\ Times(failed, k)' > 0 => Printed(k)' = {}
    <3>1. CASE k = n
      BY <1>2, <1>3, <1>4, <3>1 DEF Unlogged
    <3>2. CASE k # n
      BY <1>2, <1>3, <1>6, <3>2 DEF MdigIInv, LinesGood, OutputMatchesLog
    <3> QED
      BY <3>1, <3>2
  <2> QED
    BY <2>1, <2>2 DEF OutputMatchesLog
<1> QED
  BY <1>7, <1>8, <1>9, <1>10, <1>11, <1>12 DEF LinesGood

(* One more address of the line is on the output.                          *)
LEMMA PrintAddrinfoGood ==
    ASSUME MdigIInv, NEW t \in Thread, PrintAddrinfo(t)
    PROVE  MdigIInv'
<1> DEFINE n == thr[t].line
           a == thr[t].addr
           m == thr[t].count
           e == Len(out) + 1
<1>1. /\ thr[t] \in Task /\ thr[t].pc = "print" /\ Busy(t)
      /\ out' = Append(out, <<n, a, m>>)
      /\ UNCHANGED <<main, flock, input, next, resolved, failed, counters, reports>>
  BY DEF PrintAddrinfo, MdigIInv, MdigTyped, Busy
<1>2. /\ n \in Nat /\ a \in Nat /\ m \in Nat /\ n \in 1 .. next /\ out \in Seq(Nat \X Nat \X Nat) /\ e \in Nat
      /\ thr[t].ok
  BY <1>1, TaskFields DEF MdigIInv, MdigTyped, ThreadTyped, Streams, LinesGood, TaskGood
<1>3. PICK task \in Task : /\ Goes(t, task) /\ task.line = n /\ task.ok
                           /\ \/ task.pc = "log" /\ a = m
                              \/ task.pc = "print" /\ task.addr = a + 1 /\ task.count = m /\ a # m
  <2>1. CASE thr[t].addr = thr[t].count
    <3> DEFINE task == [thr[t] EXCEPT !.pc = "log"]
    <3>1. "log" \in Place
      BY DEF Place
    <3>2. task \in Task /\ task.pc = "log" /\ task.line = n /\ task.ok
      BY <1>1, <1>2, <2>1, <3>1, TaskFields
    <3>3. Goes(t, task)
      BY <2>1 DEF PrintAddrinfo, NoneLeft
    <3> QED
      BY <2>1, <3>2, <3>3
  <2>2. CASE thr[t].addr # thr[t].count
    <3> DEFINE task == [thr[t] EXCEPT !.addr = @ + 1]
    <3>1. a + 1 \in Nat
      BY <1>2
    <3>2. task \in Task /\ task.pc = "print" /\ task.line = n /\ task.ok /\ task.addr = a + 1 /\ task.count = m
      BY <1>1, <1>2, <3>1 DEF Task
    <3>3. Goes(t, task)
      BY <2>2 DEF PrintAddrinfo, NoneLeft
    <3> QED
      BY <2>2, <3>2, <3>3
  <2> QED
    BY <2>1, <2>2
<1>4. Moves(t, task)
  BY <1>1, <1>3 DEF Moves, input
<1>5. /\ thr'[t] = task /\ \A u \in Thread : u # t => thr'[u] = thr[u]
      /\ Busy(t)' /\ \A u \in Thread : u # t => Busy(u)' = Busy(u)
  <2>1. task.pc \in AtWork
    BY <1>3 DEF AtWork
  <2> QED
    BY <1>4, <2>1, OthersStay DEF MdigIInv
<1>6. MdigTyped' /\ LockGood' /\ EndGood'
  <2>1. out' \in Seq(Nat \X Nat \X Nat)
    BY <1>1, <1>2
  <2>2. Streams' /\ stats_ct' = Len(counted') /\ stats_ct_ok' \in Nat
    BY <1>1, <2>1 DEF MdigIInv, MdigTyped, Streams, counters
  <2> QED
    BY <1>1, <1>3, <1>4, <2>2, MovesGood DEF AtWork
<1>7. LinesGood'
  <2>1. \E n0, a0, m0, e0 \in Nat : n0 = n /\ a0 = a /\ m0 = m /\ e0 = e
    BY <1>2
  <2> QED
    BY <1>1, <1>2, <1>3, <1>4, <2>1, PrintLines
<1>8. CountsGood'
  <2>1. Workers' = Workers
    BY <1>1, <1>5, WorkersMove
  <2>2. \A u \in Thread : thr'[u].pc = "report" => thr'[u] = thr[u]
    BY <1>3, <1>5
  <2> QED
    BY <1>1, <2>1, <2>2, CountsFrame DEF MdigIInv
<1> QED
  BY <1>6, <1>7, <1>8 DEF MdigIInv

(* A line comes into one log, if it is there: the lines.                   *)
LEMMA LogLines ==
    ASSUME MdigIInv, NEW t \in Thread, NEW task \in Task, NEW n \in Nat,
           n = thr[t].line, thr[t].pc = "log",
           Moves(t, task), UNCHANGED <<next, out>>, task.line = n, task.pc = "count",
           \/ /\ thr[t].ok /\ failed' = failed
              /\ resolved' = IF LogsResolved THEN Append(resolved, n) ELSE resolved
           \/ /\ ~ thr[t].ok /\ resolved' = resolved
              /\ failed' = IF LogsFailed THEN Append(failed, n) ELSE failed
    PROVE  LinesGood'
<1>1. /\ thr'[t] = task /\ \A u \in Thread : u # t => thr'[u] = thr[u]
      /\ Busy(t) /\ Busy(t)' /\ \A u \in Thread : u # t => Busy(u)' = Busy(u)
  BY OthersStay DEF MdigIInv, AtWork, Busy
<1>2. /\ n \in 1 .. next /\ Times(resolved, n) = 0 /\ Times(failed, n) = 0
      /\ thr[t].ok <=> Printed(n) # {}
      /\ OneOf(n, Cardinality(Printed(n)))
  <2>1. TaskGood(t) /\ n \in 1 .. next
    BY <1>1 DEF MdigIInv, MdigTyped, ThreadTyped, LinesGood
  <2>2. Unlogged(n) /\ (thr[t].ok <=> Printed(n) # {}) /\ OneOf(n, Cardinality(Printed(n)))
    BY <2>1 DEF TaskGood
  <2> QED
    BY <2>1, <2>2 DEF Unlogged
<1>3. resolved \in Seq(Nat) /\ failed \in Seq(Nat)
  BY DEF MdigIInv, MdigTyped, Streams
<1>4. /\ LogsResolved \in BOOLEAN /\ LogsFailed \in BOOLEAN
      /\ next \in Nat /\ \A m \in LineNo : m \in Nat
  BY MdigSizes, MdigAssumption DEF MdigIInv, MdigTyped
<1>5. \A m \in Nat : m # n => /\ Times(resolved, m)' = Times(resolved, m)
                              /\ Times(failed, m)' = Times(failed, m)
  <2> SUFFICES ASSUME NEW m \in Nat, m # n
               PROVE  Times(resolved', m) = Times(resolved, m) /\ Times(failed', m) = Times(failed, m)
    BY DEF Times
  <2>1. /\ Times(Append(resolved, n), m) = Times(resolved, m)
        /\ Times(Append(failed, n), m) = Times(failed, m)
    <3>1. \A q \in Seq(Nat) : Times(q, m) \in Nat /\ Times(Append(q, n), m) = Times(q, m) + 0
      BY TimesAppend
    <3> QED
      BY <1>3, <3>1
  <2> QED
    BY <1>4, <2>1
<1>6. /\ Times(resolved, n)' = IF thr[t].ok /\ LogsResolved THEN 1 ELSE 0
      /\ Times(failed, n)' = IF ~ thr[t].ok /\ LogsFailed THEN 1 ELSE 0
  <2> SUFFICES /\ Times(resolved', n) = IF thr[t].ok /\ LogsResolved THEN 1 ELSE 0
               /\ Times(failed', n) = IF ~ thr[t].ok /\ LogsFailed THEN 1 ELSE 0
    BY DEF Times
  <2>1. Times(Append(resolved, n), n) = 1 /\ Times(Append(failed, n), n) = 1
    <3>1. \A q \in Seq(Nat) : Times(Append(q, n), n) = Times(q, n) + 1
      BY TimesAppend
    <3> QED
      BY <1>2, <1>3, <3>1
  <2> QED
    BY <1>2, <1>4, <2>1
<1>7. /\ \A m \in Nat : m # n => /\ Unlogged(m)' = Unlogged(m) /\ Finished(m)' = Finished(m)
                                 /\ Logged(m)' = Logged(m)
      /\ \A m : Printed(m)' = Printed(m) /\ \A k : OneOf(m, k)' = OneOf(m, k)
      /\ Finished(n)' /\ Logged(n)'
  <2>1. \A m \in Nat : m # n => /\ Unlogged(m)' = Unlogged(m) /\ Finished(m)' = Finished(m)
                                /\ Logged(m)' = Logged(m)
    BY <1>5 DEF Unlogged, Finished, Logged
  <2>2. \A m : Printed(m)' = Printed(m) /\ \A k : OneOf(m, k)' = OneOf(m, k)
    BY DEF Printed, OneOf
  <2>3. Finished(n)' /\ Logged(n)'
    BY <1>4, <1>6 DEF Finished, Logged
  <2> QED
    BY <2>1, <2>2, <2>3
<1>8. \A u \in Thread : thr[u].line \in Nat
  BY TaskFields DEF MdigIInv, MdigTyped
<1>9. \A m \in LineNo : m > next' => Unlogged(m)' /\ Printed(m)' = {}
  <2>1. \A m \in LineNo : m > next => m # n
    BY <1>2, <1>4
  <2> QED
    BY <1>4, <1>7, <2>1 DEF MdigIInv, LinesGood
<1>10. \A m \in 1 .. next' : Finished(m)' \/ \E u \in Thread : Works(u, m)'
  <2>1. \A u \in Thread : \A m : Works(u, m) => Works(u, m)'
    BY <1>1 DEF Works
  <2>2. \A m \in 1 .. next : m \in Nat
    BY <1>4
  <2> QED
    BY <1>7, <2>1, <2>2 DEF MdigIInv, LinesGood
<1>11. \A u, v \in Thread : Busy(u)' /\ Busy(v)' /\ thr'[u].line = thr'[v].line => u = v
  BY <1>1 DEF MdigIInv, LinesGood
<1>12. \A m \in LineNo : Logged(m)'
  BY <1>4, <1>7 DEF MdigIInv, LinesGood
<1>13. \A u \in Thread : TaskGood(u)'
  <2>1. TaskGood(t)'
    BY <1>1, <1>7 DEF TaskGood
  <2>2. ASSUME NEW u \in Thread, u # t PROVE TaskGood(u)'
    <3>1. Busy(u) => thr[u].line # n
      BY <1>1, <2>2 DEF MdigIInv, LinesGood
    <3>2. TaskGood(u)
      BY DEF MdigIInv, LinesGood
    <3> QED
      BY <1>1, <1>7, <1>8, <2>2, <3>1, <3>2 DEF TaskGood, Busy
  <2> QED
    BY <2>1, <2>2
<1>14. OutputMatchesLog'
  <2>1. \A i \in DOMAIN out' : out'[i][2] = PrintedBy(i)'
    BY DEF MdigIInv, LinesGood, OutputMatchesLog, PrintedBy, Printed
  <2>2. ASSUME NEW m \in LineNo
        PROVE  /\ Times(resolved, m)' > 0 => Printed(m)' # {} /\ OneOf(m, Cardinality(Printed(m)))'
               /\ Times(failed, m)' > 0 => Printed(m)' = {}
    <3>1. CASE m = n
      BY <1>2, <1>6, <1>7, <3>1
    <3>2. CASE m # n
      BY <1>4, <1>5, <1>7, <3>2 DEF MdigIInv, LinesGood, OutputMatchesLog
    <3> QED
      BY <3>1, <3>2
  <2> QED
    BY <2>1, <2>2 DEF OutputMatchesLog
<1> QED
  BY <1>9, <1>10, <1>11, <1>12, <1>13, <1>14 DEF LinesGood

LEMMA LogNameGood ==
    ASSUME MdigIInv, NEW t \in Thread, LogName(t)
    PROVE  MdigIInv'
<1> DEFINE n == thr[t].line
           task == [thr[t] EXCEPT !.pc = "count"]
<1>1. /\ thr[t] \in Task /\ thr[t].pc = "log" /\ Busy(t) /\ n \in Nat
      /\ UNCHANGED <<main, flock, input, next, out, counters, reports>>
      /\ Goes(t, task)
  BY TaskFields DEF LogName, MdigIInv, MdigTyped, Busy
<1>2. task \in Task /\ task.pc = "count" /\ task.line = n
  BY <1>1, TaskFields DEF Place
<1>3. \/ /\ thr[t].ok /\ failed' = failed
         /\ resolved' = IF LogsResolved THEN Append(resolved, n) ELSE resolved
      \/ /\ ~ thr[t].ok /\ resolved' = resolved
         /\ failed' = IF LogsFailed THEN Append(failed, n) ELSE failed
  BY DEF LogName, Logs, IsOk
<1>4. Moves(t, task)
  BY <1>1, <1>2 DEF Moves, input
<1> HIDE DEF task
<1>5. /\ thr'[t] = task /\ \A u \in Thread : u # t => thr'[u] = thr[u]
      /\ Busy(t)' /\ \A u \in Thread : u # t => Busy(u)' = Busy(u)
  BY <1>2, <1>4, OthersStay DEF MdigIInv, AtWork
<1>6. MdigTyped' /\ LockGood' /\ EndGood'
  <2>1. resolved \in Seq(Nat) /\ failed \in Seq(Nat)
    BY DEF MdigIInv, MdigTyped, Streams
  <2>2. resolved' \in Seq(Nat) /\ failed' \in Seq(Nat)
    <3>1. \A q \in Seq(Nat) : Append(q, n) \in Seq(Nat)
      BY <1>1
    <3> QED
      BY <1>3, <2>1, <3>1
  <2>3. Streams' /\ stats_ct' = Len(counted') /\ stats_ct_ok' \in Nat
    BY <1>1, <2>2 DEF MdigIInv, MdigTyped, Streams, counters
  <2> QED
    BY <1>1, <1>2, <1>4, <2>3, MovesGood DEF AtWork
<1>7. LinesGood'
  <2>1. \E n0 \in Nat : n0 = n
    BY <1>1
  <2> QED
    BY <1>1, <1>2, <1>3, <1>4, <2>1, LogLines
<1>8. CountsGood'
  <2>1. Workers' = Workers
    BY <1>1, <1>5, WorkersMove
  <2>2. \A u \in Thread : thr'[u].pc = "report" => thr'[u] = thr[u]
    BY <1>2, <1>5
  <2> QED
    BY <1>1, <2>1, <2>2, CountsFrame DEF MdigIInv
<1> QED
  BY <1>6, <1>7, <1>8 DEF MdigIInv

(* A line is finished: it is counted.                                      *)
LEMMA CountGood ==
    ASSUME MdigIInv, NEW t \in Thread, Count(t)
    PROVE  MdigIInv'
<1>1. /\ thr[t] \in Task /\ thr[t].pc = "count" /\ Busy(t) /\ thr[t].ok \in BOOLEAN
      /\ UNCHANGED <<main, flock, input, next, streams, reports>>
  BY TaskFields DEF Count, MdigIInv, MdigTyped, Busy
<1>2. /\ counted \in Seq(BOOLEAN) /\ stats_ct = Len(counted) /\ stats_ct \in Nat
      /\ stats_ct_ok \in Nat /\ stats_ct_ok = Trues(counted, stats_ct) /\ StatsEvery \in Nat
  BY MdigSizes DEF MdigIInv, MdigTyped, Streams, CountsGood
<1>3. PICK task \in Task : /\ Goes(t, task)
                           /\ \/ task.pc = "get"
                              \/ /\ StatsEvery > 0 /\ task.pc = "report"
                                 /\ task.ct = stats_ct' /\ task.ct_ok = stats_ct_ok'
  <2> DEFINE gets == [thr[t] EXCEPT !.pc = "get"]
             tells == [thr[t] EXCEPT !.pc = "report", !.ct = stats_ct', !.ct_ok = stats_ct_ok']
  <2>1. gets \in Task /\ gets.pc = "get"
    BY <1>1, TaskFields DEF Place
  <2>2. CASE Goes(t, gets)
    BY <2>1, <2>2
  <2>3. CASE /\ StatsEvery > 0 /\ Goes(t, tells) /\ stats_ct' = stats_ct + 1
             /\ stats_ct_ok' = IF thr[t].ok THEN stats_ct_ok + 1 ELSE stats_ct_ok
    <3>1. stats_ct' \in Nat /\ stats_ct_ok' \in Nat /\ "report" \in Place
      BY <1>2, <2>3 DEF Place
    <3>2. /\ tells \in Task /\ tells.pc = "report"
          /\ tells.ct = stats_ct' /\ tells.ct_ok = stats_ct_ok'
      BY <1>1, <3>1 DEF Task
    <3> QED
      BY <2>3, <3>2
  <2> QED
    BY <2>2, <2>3 DEF Count
<1>4. Moves(t, task)
  BY <1>1, <1>3 DEF Moves, input
<1>5. /\ thr'[t] = task /\ \A u \in Thread : u # t => thr'[u] = thr[u]
      /\ ~ Busy(t)' /\ \A u \in Thread : u # t => Busy(u)' = Busy(u)
  BY <1>3, <1>4, OthersStay DEF MdigIInv, AtWork
<1>6. \/ StatsEvery = 0 /\ UNCHANGED counters
      \/ /\ StatsEvery > 0 /\ stats_ct' = stats_ct + 1
         /\ stats_ct_ok' = IF thr[t].ok THEN stats_ct_ok + 1 ELSE stats_ct_ok
         /\ counted' = Append(counted, thr[t].ok)
  BY DEF Count
<1>7. MdigTyped' /\ LockGood' /\ EndGood'
  <2>1. counted' \in Seq(BOOLEAN) /\ stats_ct' = Len(counted') /\ stats_ct_ok' \in Nat
    <3>1. \A x \in BOOLEAN : /\ Append(counted, x) \in Seq(BOOLEAN)
                             /\ Len(Append(counted, x)) = Len(counted) + 1
      BY <1>2
    <3> QED
      BY <1>1, <1>2, <1>6, <3>1 DEF counters
  <2>2. Streams'
    BY <1>1, <2>1 DEF MdigIInv, MdigTyped, Streams, streams
  <2> QED
    BY <1>1, <1>3, <1>4, <2>1, <2>2, MovesGood DEF AtWork
<1>8. LinesGood'
  <2>1. Finished(thr[t].line)
    BY <1>1 DEF MdigIInv, LinesGood, TaskGood
  <2>2. TaskGood(t)'
    BY <1>3, <1>5 DEF TaskGood
  <2> QED
    BY <1>1, <1>5, <2>1, <2>2, LinesFrame DEF MdigIInv
<1>9. CASE StatsEvery = 0 /\ UNCHANGED counters
  <2>1. \A u \in Thread : thr'[u].pc = "report" => thr'[u] = thr[u]
    BY <1>2, <1>3, <1>5, <1>9
  <2>2. CountsGood'
    BY <1>1, <1>2, <1>9, <2>1, CountsFrame DEF MdigIInv
  <2> QED
    BY <1>7, <1>8, <2>2 DEF MdigIInv
<1>10. CASE /\ StatsEvery > 0 /\ stats_ct' = stats_ct + 1
            /\ stats_ct_ok' = IF thr[t].ok THEN stats_ct_ok + 1 ELSE stats_ct_ok
            /\ counted' = Append(counted, thr[t].ok)
  <2>1. /\ \A m \in 0 .. stats_ct : Trues(counted', m) = Trues(counted, m)
        /\ Trues(counted', stats_ct + 1) = Trues(counted, stats_ct) + (IF thr[t].ok THEN 1 ELSE 0)
    BY <1>1, <1>2, <1>10, TruesAppend
  <2>2. stats_ct_ok' = Trues(counted', stats_ct')
    BY <1>1, <1>2, <1>10, <2>1
  <2>3. StatsEvery > 0 => stats_ct' + Cardinality(Workers') = next'
    <3>1. Cardinality(Workers') = Cardinality(Workers) - 1 /\ Cardinality(Workers) \in Nat
      BY <1>1, <1>5, WorkersMove
    <3>2. stats_ct + Cardinality(Workers) = next
      BY <1>10 DEF MdigIInv, CountsGood
    <3> QED
      BY <1>1, <1>2, <1>10, <3>1, <3>2
  <2>4. ASSUME NEW u \in Thread, thr'[u].pc = "report"
        PROVE  thr'[u].ct <= stats_ct' /\ thr'[u].ct_ok = Trues(counted', thr'[u].ct)
    <3>1. CASE u = t
      BY <1>2, <1>3, <1>5, <1>10, <2>2, <2>4, <3>1
    <3>2. CASE u # t
      <4>1. thr'[u] = thr[u] /\ thr[u].ct \in Nat
        BY <1>5, <3>2, TaskFields DEF MdigIInv, MdigTyped
      <4>2. thr[u].ct <= stats_ct /\ thr[u].ct_ok = Trues(counted, thr[u].ct)
        BY <2>4, <4>1 DEF MdigIInv, CountsGood
      <4>3. Trues(counted', thr[u].ct) = Trues(counted, thr[u].ct)
        <5>1. thr[u].ct \in 0 .. stats_ct
          BY <1>2, <4>1, <4>2
        <5> QED
          BY <2>1, <5>1
      <4> QED
        BY <1>2, <1>10, <4>1, <4>2, <4>3
    <3> QED
      BY <3>1, <3>2
  <2>5. ASSUME NEW i \in 1 .. Len(reports)
        PROVE  reports[i].ct <= stats_ct' /\ reports[i].ok = Trues(counted', reports[i].ct)
    <3>1. reports[i].ct \in Nat
      <4>1. reports \in Seq([ct : Nat, ok : Nat])
        BY DEF MdigIInv, MdigTyped, Streams
      <4>2. \A R : \A q \in Seq(R) : \A j \in 1 .. Len(q) : q[j] \in R
        OBVIOUS
      <4>3. reports[i] \in [ct : Nat, ok : Nat]
        BY <2>5, <4>1, <4>2
      <4> QED
        BY <4>3
    <3>2. reports[i].ct <= stats_ct /\ reports[i].ok = Trues(counted, reports[i].ct)
      BY DEF MdigIInv, CountsGood
    <3>3. Trues(counted', reports[i].ct) = Trues(counted, reports[i].ct)
      <4>1. reports[i].ct \in 0 .. stats_ct
        BY <1>2, <3>1, <3>2
      <4> QED
        BY <2>1, <4>1
    <3> QED
      BY <1>2, <1>10, <3>1, <3>2, <3>3
  <2>6. CountsGood'
    <3>1. reports' = reports
      BY <1>1
    <3> QED
      BY <2>2, <2>3, <2>4, <2>5, <3>1 DEF CountsGood, Trues
  <2> QED
    BY <1>7, <1>8, <2>6 DEF MdigIInv
<1> QED
  BY <1>6, <1>9, <1>10

(* A report is printed that was true when it was taken.                    *)
LEMMA ReportsGrow ==
    ASSUME MdigIInv, NEW r \in [ct : Nat, ok : Nat], r.ct <= stats_ct, r.ok = Trues(counted, r.ct),
           Report(r), UNCHANGED <<counters, next>>, StatsEvery > 0 => Workers' = Workers,
           \A u \in Thread : thr'[u].pc = "report" => thr'[u] = thr[u]
    PROVE  CountsGood' /\ reports' \in Seq([ct : Nat, ok : Nat])
<1>1. /\ reports \in Seq([ct : Nat, ok : Nat]) /\ reports' = Append(reports, r)
      /\ Len(reports) \in Nat
  BY DEF MdigIInv, MdigTyped, Streams, Report
<1>2. /\ reports' \in Seq([ct : Nat, ok : Nat]) /\ Len(reports') = Len(reports) + 1
      /\ \A i \in 1 .. Len(reports) : reports'[i] = reports[i]
      /\ reports'[Len(reports) + 1] = r
  BY <1>1
<1>3. ASSUME NEW i \in 1 .. Len(reports')
      PROVE  reports'[i].ct <= stats_ct /\ reports'[i].ok = Trues(counted, reports'[i].ct)
  <2>1. CASE i \in 1 .. Len(reports)
    BY <1>2, <2>1 DEF MdigIInv, CountsGood
  <2>2. CASE i = Len(reports) + 1
    BY <1>2, <2>2
  <2> QED
    BY <1>1, <1>2, <1>3, <2>1, <2>2
<1>4. /\ stats_ct' = stats_ct /\ stats_ct_ok' = stats_ct_ok /\ counted' = counted /\ next' = next
  BY DEF counters
<1>5. \A u \in Thread : thr'[u].pc = "report" =>
          thr'[u].ct <= stats_ct /\ thr'[u].ct_ok = Trues(counted, thr'[u].ct)
  BY DEF MdigIInv, CountsGood
<1>6. /\ StatsEvery > 0 => stats_ct + Cardinality(Workers') = next
      /\ stats_ct_ok = Trues(counted, stats_ct)
  BY DEF MdigIInv, CountsGood
<1>7. CountsGood'
  BY <1>3, <1>4, <1>5, <1>6 DEF CountsGood
<1> QED
  BY <1>2, <1>7

LEMMA PrintStatGood ==
    ASSUME MdigIInv, NEW t \in Thread, PrintStat(t)
    PROVE  MdigIInv'
<1> DEFINE task == [thr[t] EXCEPT !.pc = "get"]
<1>1. /\ thr[t] \in Task /\ thr[t].pc = "report" /\ ~ Busy(t)
      /\ UNCHANGED <<main, flock, input, next, streams, counters>>
      /\ Goes(t, task) /\ Report(Taken(t))
  BY DEF PrintStat, MdigIInv, MdigTyped, Busy
<1>2. task \in Task /\ task.pc = "get"
  BY <1>1, TaskFields DEF Place
<1>3. /\ Taken(t) \in [ct : Nat, ok : Nat] /\ Taken(t).ct <= stats_ct
      /\ Taken(t).ok = Trues(counted, Taken(t).ct)
  BY <1>1, TaskFields DEF Taken, MdigIInv, CountsGood
<1>4. Moves(t, task)
  BY <1>1, <1>2 DEF Moves, input
<1> HIDE DEF task
<1>5. /\ thr'[t] = task /\ \A u \in Thread : u # t => thr'[u] = thr[u]
      /\ ~ Busy(t)' /\ \A u \in Thread : u # t => Busy(u)' = Busy(u)
  BY <1>2, <1>4, OthersStay DEF MdigIInv, AtWork
<1>6. CountsGood' /\ reports' \in Seq([ct : Nat, ok : Nat])
  <2>1. Workers' = Workers
    BY <1>1, <1>5, WorkersMove
  <2>2. \A u \in Thread : thr'[u].pc = "report" => thr'[u] = thr[u]
    BY <1>2, <1>5
  <2> QED
    BY <1>1, <1>3, <2>1, <2>2, ReportsGrow
<1>7. MdigTyped' /\ LockGood' /\ EndGood'
  <2>1. Streams' /\ stats_ct' = Len(counted') /\ stats_ct_ok' \in Nat
    BY <1>1, <1>6 DEF MdigIInv, MdigTyped, Streams, streams, counters
  <2> QED
    BY <1>1, <1>2, <1>4, <2>1, MovesGood DEF AtWork
<1>8. LinesGood'
  <2>1. TaskGood(t)'
    BY <1>2, <1>5 DEF TaskGood
  <2> QED
    BY <1>1, <1>5, <2>1, LinesFrame DEF MdigIInv
<1> QED
  BY <1>6, <1>7, <1>8 DEF MdigIInv

-----------------------------------------------------------------------------
(* What the threads do not do.                                             *)
LEMMA ThreadsStay ==
    ASSUME MdigIInv, UNCHANGED <<thr, next, streams, counters>>
    PROVE  LinesGood' /\ Workers' = Workers
<1>1. 1 \in Thread
  BY MdigSizes
<1>2. \A u \in Thread : Busy(u)' = Busy(u)
  BY DEF Busy
<1>3. TaskGood(1)'
  <2>1. \A n : /\ Unlogged(n)' = Unlogged(n) /\ Finished(n)' = Finished(n) /\ Printed(n)' = Printed(n)
               /\ \A m : OneOf(n, m)' = OneOf(n, m)
    BY DEF Unlogged, Finished, Times, Printed, OneOf, streams
  <2>2. TaskGood(1)
    BY <1>1 DEF MdigIInv, LinesGood
  <2> QED
    BY <2>1, <2>2 DEF TaskGood
<1>4. Workers' = Workers
  BY <1>2 DEF Workers
<1> QED
  BY <1>1, <1>2, <1>3, <1>4, LinesFrame DEF MdigIInv

LEMMA FeedGood ==
    ASSUME MdigIInv, Feed
    PROVE  MdigIInv'
<1>1. UNCHANGED <<main, thr, flock, next, streams, counters, reports>>
  BY DEF Feed
<1>2. LinesGood' /\ CountsGood'
  BY <1>1, ThreadsStay, CountsFrame DEF MdigIInv
<1>3. fed' \in Nat /\ next <= fed' /\ fed' <= Len(Kind) /\ closed' \in BOOLEAN
      /\ (closed' => fed' = Len(Kind)) /\ ~ closed
  <2>1. /\ fed \in Nat /\ next \in Nat /\ next <= fed /\ fed <= Len(Kind) /\ Len(Kind) \in Nat
        /\ closed = FALSE
    BY MdigSizes DEF Feed, MdigIInv, MdigTyped
  <2>2. CASE fed < Len(Kind) /\ fed' = fed + 1 /\ UNCHANGED closed
    <3>1. fed' \in Nat /\ next <= fed' /\ fed' <= Len(Kind)
      BY <2>1, <2>2
    <3>2. closed' = FALSE
      BY <2>1, <2>2
    <3> QED
      BY <2>1, <3>1, <3>2, Zenon
  <2>3. CASE fed = Len(Kind) /\ closed' = TRUE /\ UNCHANGED fed
    <3>1. fed' \in Nat /\ next <= fed' /\ fed' <= Len(Kind) /\ fed' = Len(Kind)
      BY <2>1, <2>3
    <3> QED
      BY <2>1, <2>3, <3>1, Zenon
  <2> QED
    BY <2>2, <2>3 DEF Feed
<1>4. MdigTyped'
  BY <1>1, <1>3 DEF MdigIInv, MdigTyped, ThreadTyped, Busy, Streams, streams, counters
<1>5. LockGood' /\ EndGood'
  BY <1>1, <1>3 DEF MdigIInv, LockGood, EndGood
<1> QED
  BY <1>2, <1>4, <1>5 DEF MdigIInv

(* One more thread.                                                        *)
LEMMA StartGood ==
    ASSUME MdigIInv, NEW t \in Thread, main.at = "create", t = main.made + 1,
           main' = [main EXCEPT !.made = t], thr' = [thr EXCEPT ![t].pc = "get"],
           UNCHANGED <<flock, input, next, streams, counters, reports>>
    PROVE  MdigIInv'
<1>1. /\ main.made \in Nat /\ t \in Nat /\ t > main.made
      /\ thr \in [Thread -> Task] /\ thr[t] \in Task /\ thr[t].pc = "none"
  <2>1. main.made \in Nat /\ t \in Nat /\ t > main.made
    BY MdigSizes DEF MdigIInv, MdigTyped
  <2> QED
    BY <2>1 DEF MdigIInv, MdigTyped, ThreadTyped
<1>2. PICK task \in Task : task.pc = "get" /\ thr' = [thr EXCEPT ![t] = task]
  <2> DEFINE task == [thr[t] EXCEPT !.pc = "get"]
  <2>1. task \in Task /\ task.pc = "get"
    BY <1>1, TaskFields DEF Place
  <2> QED
    BY <2>1
<1>3. /\ main' \in [at : {"create", "join", "last", "done"}, made : 0 .. NThread]
      /\ main'.made = t /\ main'.at = "create"
  <2>1. main \in [at : {"create", "join", "last", "done"}, made : 0 .. NThread] /\ t \in 0 .. NThread
    BY <1>1, MdigSizes DEF MdigIInv, MdigTyped
  <2> QED
    BY <2>1
<1>4. /\ thr' \in [Thread -> Task] /\ thr'[t] = task
      /\ \A u \in Thread : u # t => thr'[u] = thr[u]
      /\ ~ Busy(t) /\ ~ Busy(t)' /\ \A u \in Thread : u # t => Busy(u)' = Busy(u)
  BY <1>1, <1>2 DEF Busy
<1>5. LinesGood'
  <2>1. TaskGood(t)'
    BY <1>2, <1>4 DEF TaskGood
  <2> QED
    BY <1>4, <2>1, LinesFrame DEF MdigIInv
<1>6. CountsGood'
  <2>1. Workers' = Workers
    BY <1>4, WorkersMove
  <2>2. \A u \in Thread : thr'[u].pc = "report" => thr'[u] = thr[u]
    BY <1>2, <1>4
  <2> QED
    BY <2>1, <2>2, CountsFrame DEF MdigIInv
<1>7. MdigTyped'
  <2>1. \A u \in Thread : u > t => u > main.made
    BY <1>1, MdigSizes
  <2>2. ASSUME NEW u \in Thread, u # t PROVE ThreadTyped(u)'
    BY <1>3, <1>4, <2>1, <2>2 DEF MdigIInv, MdigTyped, ThreadTyped
  <2>3. ThreadTyped(t)'
    BY <1>1, <1>2, <1>3, <1>4 DEF ThreadTyped
  <2>4. \A u \in Thread : ThreadTyped(u)'
    BY <2>2, <2>3
  <2>5. Streams'
    BY DEF MdigIInv, MdigTyped, Streams, streams, counters
  <2> QED
    BY <1>3, <1>4, <2>4, <2>5 DEF MdigIInv, MdigTyped, counters, input
<1>8. LockGood' /\ EndGood'
  BY <1>1, <1>2, <1>3, <1>4 DEF MdigIInv, LockGood, EndGood, input
<1> QED
  BY <1>5, <1>6, <1>7, <1>8 DEF MdigIInv

LEMMA CreateGood ==
    ASSUME MdigIInv, Create
    PROVE  MdigIInv'
<1>1. /\ main.at = "create" /\ main.made \in Nat
      /\ UNCHANGED <<flock, input, next, streams, counters, reports>>
      /\ main \in [at : {"create", "join", "last", "done"}, made : 0 .. NThread]
  BY MdigSizes DEF Create, MdigIInv, MdigTyped
<1>2. CASE main' = [main EXCEPT !.at = "join"] /\ UNCHANGED thr
  <2>1. LinesGood' /\ CountsGood'
    BY <1>1, <1>2, ThreadsStay, CountsFrame DEF MdigIInv
  <2>2. /\ main' \in [at : {"create", "join", "last", "done"}, made : 0 .. NThread]
        /\ main'.made = main.made /\ main'.at = "join"
    BY <1>1, <1>2
  <2>3. MdigTyped'
    BY <1>1, <1>2, <2>2 DEF MdigIInv, MdigTyped, ThreadTyped, Busy, Streams, streams, counters, input
  <2>4. LockGood' /\ EndGood'
    BY <1>1, <1>2, <2>2 DEF MdigIInv, LockGood, EndGood, input
  <2> QED
    BY <2>1, <2>3, <2>4 DEF MdigIInv
<1>3. CASE /\ main.made < NThread /\ main' = [main EXCEPT !.made = @ + 1]
           /\ thr' = [thr EXCEPT ![main.made + 1].pc = "get"]
  <2>1. PICK t \in Thread : t = main.made + 1
    BY <1>1, <1>3, MdigSizes
  <2>2. main' = [main EXCEPT !.made = t] /\ thr' = [thr EXCEPT ![t].pc = "get"]
    BY <1>1, <1>3, <2>1
  <2> QED
    BY <1>1, <2>1, <2>2, StartGood
<1> QED
  BY <1>2, <1>3 DEF Create

LEMMA JoinGood ==
    ASSUME MdigIInv, Join
    PROVE  MdigIInv'
<1>1. /\ \A t \in 1 .. main.made : thr[t].pc = "ended"
      /\ main' = [main EXCEPT !.at = "last"]
      /\ UNCHANGED <<thr, flock, input, next, streams, counters, reports>>
      /\ main \in [at : {"create", "join", "last", "done"}, made : 0 .. NThread]
  BY DEF Join, Started, MdigIInv, MdigTyped
<1>2. /\ main' \in [at : {"create", "join", "last", "done"}, made : 0 .. NThread]
      /\ main'.made = main.made
  BY <1>1
<1>3. LinesGood' /\ CountsGood'
  BY <1>1, ThreadsStay, CountsFrame DEF MdigIInv
<1>4. MdigTyped'
  BY <1>1, <1>2 DEF MdigIInv, MdigTyped, ThreadTyped, Busy, Streams, streams, counters, input
<1>5. LockGood' /\ EndGood'
  BY <1>1, <1>2 DEF MdigIInv, LockGood, EndGood, input
<1> QED
  BY <1>3, <1>4, <1>5 DEF MdigIInv

LEMMA LastReportGood ==
    ASSUME MdigIInv, LastReport
    PROVE  MdigIInv'
<1>1. /\ main.at = "last" /\ main' = [main EXCEPT !.at = "done"]
      /\ UNCHANGED <<thr, flock, input, next, streams, counters>>
      /\ main \in [at : {"create", "join", "last", "done"}, made : 0 .. NThread]
  BY DEF LastReport, MdigIInv, MdigTyped
<1>2. /\ main' \in [at : {"create", "join", "last", "done"}, made : 0 .. NThread]
      /\ main'.made = main.made /\ main'.at = "done"
  BY <1>1
<1>3. LinesGood' /\ Workers' = Workers
  BY <1>1, ThreadsStay
<1>4. CountsGood' /\ reports' \in Seq([ct : Nat, ok : Nat])
  <2>1. CASE UNCHANGED reports
    BY <1>1, <1>3, <2>1, CountsFrame DEF MdigIInv, MdigTyped, Streams
  <2>2. CASE Report([ct |-> stats_ct, ok |-> stats_ct_ok])
    <3> DEFINE r == [ct |-> stats_ct, ok |-> stats_ct_ok]
    <3>1. stats_ct \in Nat /\ stats_ct_ok \in Nat /\ stats_ct_ok = Trues(counted, stats_ct)
      BY DEF MdigIInv, MdigTyped, Streams, CountsGood
    <3>2. r \in [ct : Nat, ok : Nat] /\ r.ct <= stats_ct /\ r.ok = Trues(counted, r.ct)
      BY <3>1
    <3> HIDE DEF r
    <3>3. Report(r)
      BY <2>2 DEF r
    <3> QED
      BY <1>1, <1>3, <3>2, <3>3, ReportsGrow
  <2> QED
    BY <2>1, <2>2 DEF LastReport
<1>5. MdigTyped'
  BY <1>1, <1>2, <1>4 DEF MdigIInv, MdigTyped, ThreadTyped, Busy, Streams, streams, counters, input
<1>6. LockGood' /\ EndGood'
  BY <1>1, <1>2 DEF MdigIInv, LockGood, EndGood, input
<1> QED
  BY <1>3, <1>4, <1>5, <1>6 DEF MdigIInv

-----------------------------------------------------------------------------
LEMMA InitGood == MdigInit => MdigIInv
<1> SUFFICES ASSUME MdigInit PROVE MdigIInv
  OBVIOUS
<1>1. /\ thr \in [Thread -> Task] /\ \A t \in Thread : thr[t] = NoTask
      /\ NoTask.pc = "none"
  BY NoTaskIsTask DEF MdigInit, NoTask
<1>2. /\ main = [at |-> "create", made |-> 0] /\ flock = Free /\ fed = 0 /\ closed = FALSE /\ next = 0
      /\ out = <<>> /\ resolved = <<>> /\ failed = <<>>
      /\ stats_ct = 0 /\ stats_ct_ok = 0 /\ reports = <<>> /\ counted = <<>>
  BY DEF MdigInit
<1>3. \A t \in Thread : ~ Busy(t)
  BY <1>1 DEF Busy
<1>4. MdigTyped
  <2>1. \A t \in Thread : ThreadTyped(t)
    BY <1>1, <1>3 DEF ThreadTyped
  <2>2. Streams
    BY <1>2 DEF Streams
  <2>3. /\ main \in [at : {"create", "join", "last", "done"}, made : 0 .. NThread]
        /\ fed \in Nat /\ next \in Nat /\ next <= fed /\ fed <= Len(Kind)
        /\ stats_ct = Len(counted) /\ stats_ct_ok \in Nat /\ flock \in Thread \cup {Free}
    <3>1. 0 \in 0 .. NThread /\ 0 <= Len(Kind)
      BY MdigSizes
    <3> QED
      BY <1>2, <3>1
  <2>4. closed \in BOOLEAN /\ (closed => fed = Len(Kind))
    BY <1>2, Zenon
  <2> QED
    BY <1>1, <2>1, <2>2, <2>3, <2>4 DEF MdigTyped
<1>5. LockGood /\ EndGood
  BY <1>1, <1>2, MdigSizes DEF LockGood, EndGood
<1>6. /\ \A n : Times(resolved, n) = 0 /\ Times(failed, n) = 0 /\ Printed(n) = {}
      /\ DOMAIN out = {} /\ Trues(counted, 0) = 0
  <2>1. {k \in 1 .. 0 : counted[k]} = {}
    OBVIOUS
  <2>2. \A n : {i \in DOMAIN resolved : resolved[i] = n} = {} /\ {i \in DOMAIN failed : failed[i] = n} = {}
    BY <1>2
  <2>3. \A n : Printed(n) = {}
    BY <1>2 DEF Printed
  <2> QED
    BY <1>2, <2>1, <2>2, <2>3, FS_EmptySet DEF Times, Trues
<1>7. LinesGood
  BY <1>1, <1>2, <1>3, <1>6, MdigSizes
     DEF LinesGood, TaskGood, Unlogged, Logged, OutputMatchesLog
<1>8. CountsGood
  <2>1. Workers = {}
    BY <1>3 DEF Workers
  <2> QED
    BY <1>1, <1>2, <1>6, <2>1, FS_EmptySet DEF CountsGood
<1> QED
  BY <1>4, <1>5, <1>7, <1>8 DEF MdigIInv

LEMMA NextGood == MdigIInv /\ [MdigNext]_mdig => MdigIInv'
<1> SUFFICES ASSUME MdigIInv, [MdigNext]_mdig PROVE MdigIInv'
  OBVIOUS
<1>1. CASE UNCHANGED mdig
  <2>1. UNCHANGED <<main, thr, flock, input, next, streams, counters, reports>>
    BY <1>1 DEF mdig, input, streams, counters
  <2>2. LinesGood' /\ CountsGood'
    BY <2>1, ThreadsStay, CountsFrame DEF MdigIInv
  <2>3. MdigTyped'
    BY <2>1 DEF MdigIInv, MdigTyped, ThreadTyped, Busy, Streams, streams, counters, input
  <2>4. LockGood' /\ EndGood'
    BY <2>1 DEF MdigIInv, LockGood, EndGood, input
  <2> QED
    BY <2>2, <2>3, <2>4 DEF MdigIInv
<1>2. CASE Feed
  BY <1>2, FeedGood
<1>3. CASE Create
  BY <1>3, CreateGood
<1>4. CASE Join
  BY <1>4, JoinGood
<1>5. CASE LastReport
  BY <1>5, LastReportGood
<1>6. CASE Done
  BY <1>1, <1>6 DEF Done
<1>7. ASSUME NEW t \in Thread, t_resolver(t) PROVE MdigIInv'
  <2>1. CASE Get(t)
    BY <2>1, GetGood
  <2>2. CASE Fgets(t)
    BY <2>2, ReadGood
  <2>3. CASE Resolve(t)
    BY <2>3, ResolveGood
  <2>4. CASE PrintAddrinfo(t)
    BY <2>4, PrintAddrinfoGood
  <2>5. CASE LogName(t)
    BY <2>5, LogNameGood
  <2>6. CASE Count(t)
    BY <2>6, CountGood
  <2>7. CASE PrintStat(t)
    BY <2>7, PrintStatGood
  <2> QED
    BY <1>7, <2>1, <2>2, <2>3, <2>4, <2>5, <2>6, <2>7 DEF t_resolver
<1> QED
  BY <1>1, <1>2, <1>3, <1>4, <1>5, <1>6, <1>7 DEF MdigNext

LEMMA MdigInvariance == MdigSpec => []MdigIInv
<1> QED
  BY InitGood, NextGood, PTL DEF MdigSpec

LEMMA OnceFromInv == MdigIInv => EachLineOnce
<1> SUFFICES ASSUME MdigIInv PROVE EachLineOnce
  OBVIOUS
<1>1. \A n \in LineNo : Times(resolved, n) + Times(failed, n) <= 1
  BY DEF MdigIInv, LinesGood, Logged
<1>2. ASSUME main.at = "done", main.made > 0
      PROVE  /\ \A n \in LineNo : Finished(n)
             /\ StatsEvery > 0 => stats_ct = Len(Kind)
  <2>1. main.made \in Nat /\ 1 \in 1 .. main.made /\ 1 \in Thread
    BY <1>2, MdigSizes DEF MdigIInv, MdigTyped
  <2>2. \A t \in 1 .. main.made : thr[t].pc = "ended"
    BY <1>2 DEF MdigIInv, EndGood
  <2>3. next = Len(Kind)
    BY <2>1, <2>2 DEF MdigIInv, MdigTyped, EndGood
  <2>4. \A t \in Thread : ~ Busy(t)
    <3>1. \A t \in Thread : t \in 1 .. main.made \/ t > main.made
      BY <2>1, MdigSizes
    <3> QED
      BY <2>2, <3>1 DEF MdigIInv, MdigTyped, ThreadTyped, Busy
  <2>5. \A n \in LineNo : Finished(n)
    BY <2>3, <2>4, MdigSizes DEF MdigIInv, LinesGood, Works
  <2>6. StatsEvery > 0 => stats_ct = Len(Kind)
    <3>1. Workers = {} /\ stats_ct \in Nat
      BY <2>4 DEF Workers, MdigIInv, MdigTyped, Streams
    <3> QED
      BY <2>3, <3>1, FS_EmptySet DEF MdigIInv, CountsGood
  <2> QED
    BY <2>5, <2>6
<1> QED
  BY <1>1, <1>2 DEF EachLineOnce, Finished

LEMMA TrueFromInv == MdigIInv => TotalsAreTrue
<1> SUFFICES ASSUME MdigIInv PROVE TotalsAreTrue
  OBVIOUS
<1>1. DOMAIN reports = 1 .. Len(reports)
  BY DEF MdigIInv, MdigTyped, Streams
<1> QED
  BY <1>1
     DEF MdigIInv, LinesGood, CountsGood, TotalsAreTrue, ReportsAreSnapshots, Trues

(* EachLineOnce: however many threads take lines and whatever the resolver *)
(* answers, none is logged twice; and when the main thread has joined them *)
(* all, each name is in one of the logs and every line is counted.         *)
THEOREM LinesComeOutOnce == MdigSpec => []EachLineOnce
<1> QED
  BY MdigInvariance, OnceFromInv, PTL

(* TotalsAreTrue: the addresses of a name come out in order, all of them    *)
(* before it is logged as resolved, none if it is logged as failed, and     *)
(* every report shows two counters that were true at one time, though it is *)
(* printed outside slock.                                                   *)
THEOREM OutputsAgree == MdigSpec => []TotalsAreTrue
<1> QED
  BY MdigInvariance, TrueFromInv, PTL

-----------------------------------------------------------------------------
(* The IP cache.                                                           *)

\* What the history of a connection holds, and the news of an address.
Past == [came : BOOLEAN, over : SUBSET Iface, own : Name \cup {NoName}, lent : BOOLEAN,
         heard : Name \cup {NoName}, fresh : BOOLEAN, unused : BOOLEAN]
News == [name : Name \cup {NoName}, at : 0 .. MaxNow]
Lately(l, a) == Lifetime = 0 \/ now < l[a].at + Lifetime

\* What a packet may show of an address and an interface: the TTLs it had.
Hads == {x \in Addr \X (Iface \cup {NoIface}) \X Ttl : Had(x[1], x[2], x[3])}

\* A cache ch, last purged at p, next to the news l and the TTLs sn that were had.
TtlsSeen(ch, sn) == \A k \in DOMAIN ch : ch[k].ttl # 0 => <<k[1], k[2], ch[k].ttl>> \in sn
NamesHeard(ch, l) ==
    \A a \in Addr : NameKey(a) \in DOMAIN ch => ch[NameKey(a)].name \in {NoName, l[a].name}
NewsKept(ch, l) ==
    \A a \in Addr : l[a].name # NoName /\ Lately(l, a) =>
       /\ NameKey(a) \in DOMAIN ch
       /\ ch[NameKey(a)].name = l[a].name /\ l[a].at <= ch[NameKey(a)].last
Purged(ch, p) == Lifetime > 0 => \A k \in DOMAIN ch : p < ch[k].last + Lifetime
CacheTyped(ch) == DOMAIN ch \subseteq Key /\ \A k \in DOMAIN ch : ch[k] \in Item

Sound(ch, l, sn, p) ==
    CacheTyped(ch) /\ TtlsSeen(ch, sn) /\ NamesHeard(ch, l) /\ NewsKept(ch, l) /\ Purged(ch, p)

\* The track t of c next to the history p: the name is that of the payload, or
\* the one that was lent.
Named(t, p) ==
    /\ t.discovered <=> p.own # NoName
    /\ t.discovered => t.name = p.own /\ t.is_ip = IsIp[p.own]
    /\ ~ t.discovered => /\ t.name = NoName \/ (p.lent /\ t.name = p.heard)
                         /\ p.lent /\ p.fresh => t.name = p.heard
                         /\ t.name # NoName => ~ p.unused
    /\ \A x \in t.dp : x.name = t.name
OfPath(c, t, p, sn) ==
    /\ t.ttl # 0 => \E i \in p.over : <<AddrOf[c], i, t.ttl>> \in sn
    /\ p.came => t.ttl # 0

CacheStateTyped ==
    /\ now \in 1 .. MaxNow /\ prev \in 0 .. now
    /\ DOMAIN track = Conn /\ past \in [Conn -> Past]
    /\ learnt \in [Addr -> News] /\ \A a \in Addr : learnt[a].at <= now

Tracks ==
    \A c \in Conn :
       \/ track[c] = Closed /\ past[c] = NoPast
       \/ /\ track[c] \in Track /\ track[c].searched
          /\ Named(track[c], past[c]) /\ OfPath(c, track[c], past[c], Hads)

CacheIInv == CacheStateTyped /\ Sound(cache, learnt, Hads, prev) /\ Tracks

LEMMA CacheConstants ==
    /\ NoName \notin Name /\ Lifetime \in Nat /\ CacheHostname \in BOOLEAN
    /\ Ttl \subseteq Nat /\ 0 \notin Ttl /\ MaxNow \in Nat /\ IsIp \in [Name -> BOOLEAN]
  BY IpCacheAssumption

-----------------------------------------------------------------------------
(* What each operation on the cache leaves sound.                          *)

LEMMA KeysAre ==
    ASSUME NEW c \in Conn
    PROVE  /\ AddrOf[c] \in Addr /\ NameKey(AddrOf[c]) \in Key
           /\ \A iface \in Iface : <<AddrOf[c], iface>> \in Key
  BY DEF Addr, NameKey, Key

LEMMA NewItemTyped == CacheStateTyped => NewItem \in Item
  BY CacheConstants DEF NewItem, Item, CacheStateTyped

LEMMA FoundTyped ==
    ASSUME CacheStateTyped, NEW ch, NEW l, NEW sn, NEW p, Sound(ch, l, sn, p), NEW k
    PROVE  Found(ch, k) \in Item
  BY NewItemTyped DEF Found, Sound, CacheTyped

\* Entries that were not used for the lifetime go, those of fresh news stay.
LEMMA PurgeSound ==
    ASSUME CacheStateTyped, NEW l \in [Addr -> News], NEW sn, Sound(cache, l, sn, prev)
    PROVE  /\ Sound(ipcachePurgeRateLimited(cache), l, sn, now)
           /\ \A k : Lifetime > 0 /\ now >= Found(cache, k).last + Lifetime
                        => Found(ipcachePurgeRateLimited(cache), k).name = NoName
  <1> DEFINE ch == ipcachePurgeRateLimited(cache)
  <1>1. now \in Nat /\ Lifetime \in Nat
    BY CacheConstants DEF CacheStateTyped
  <1>2. CASE prev = now
    <2>1. ch = cache
      BY <1>2 DEF ipcachePurgeRateLimited
    <2>2. ASSUME NEW k, Lifetime > 0, now >= Found(cache, k).last + Lifetime
          PROVE  Found(ch, k).name = NoName
      <3>1. k \notin DOMAIN cache
        <4> SUFFICES ASSUME k \in DOMAIN cache PROVE FALSE
          OBVIOUS
        <4>1. now < cache[k].last + Lifetime /\ cache[k].last \in Int
          BY <1>2, <2>2, CacheConstants DEF Sound, Purged, CacheTyped, Item
        <4> QED
          BY <1>1, <2>2, <4>1 DEF Found
      <3> QED
        BY <2>1, <3>1 DEF Found, NewItem
    <2> QED
      BY <1>2, <2>1, <2>2
  <1>3. CASE prev # now /\ Lifetime = 0
    <2>1. ch = cache
      BY <1>3 DEF ipcachePurgeRateLimited, ipcache_purge
    <2> QED
      BY <1>3, <2>1 DEF Sound, Purged
  <1>4. CASE prev # now /\ Lifetime # 0
    <2>1. ch = [k \in {x \in DOMAIN cache : now < cache[x].last + Lifetime} |-> cache[k]]
      BY <1>4 DEF ipcachePurgeRateLimited, ipcache_purge
    <2> HIDE DEF ch
    <2>2. /\ \A k : k \in DOMAIN ch <=> k \in DOMAIN cache /\ now < cache[k].last + Lifetime
          /\ \A k \in DOMAIN ch : ch[k] = cache[k]
      BY <2>1
    <2>3. CacheTyped(ch) /\ TtlsSeen(ch, sn) /\ NamesHeard(ch, l) /\ Purged(ch, now)
      BY <2>2 DEF Sound, CacheTyped, TtlsSeen, NamesHeard, Purged
    <2>4. NewsKept(ch, l)
      <3> SUFFICES ASSUME NEW a \in Addr, l[a].name # NoName, Lately(l, a)
                   PROVE  /\ NameKey(a) \in DOMAIN ch
                          /\ ch[NameKey(a)].name = l[a].name /\ l[a].at <= ch[NameKey(a)].last
        BY DEF NewsKept
      <3>1. /\ NameKey(a) \in DOMAIN cache
            /\ cache[NameKey(a)].name = l[a].name /\ l[a].at <= cache[NameKey(a)].last
            /\ cache[NameKey(a)].last \in Int /\ l[a].at \in Int
        BY CacheConstants DEF Sound, NewsKept, CacheTyped, Item, News
      <3>2. now < cache[NameKey(a)].last + Lifetime
        BY <1>1, <1>4, <3>1 DEF Lately
      <3> QED
        BY <2>2, <3>1, <3>2
    <2>5. ASSUME NEW k, now >= Found(cache, k).last + Lifetime
          PROVE  Found(ch, k).name = NoName
      <3>1. k \notin DOMAIN ch
        <4> SUFFICES ASSUME k \in DOMAIN ch PROVE FALSE
          OBVIOUS
        <4>1. cache[k].last \in Int /\ now < cache[k].last + Lifetime /\ Found(cache, k) = cache[k]
          BY <2>2, CacheConstants DEF Sound, CacheTyped, Item, Found
        <4> QED
          BY <1>1, <2>5, <4>1
      <3> QED
        BY <3>1 DEF Found, NewItem
    <2> QED
      BY <2>3, <2>4, <2>5 DEF Sound, ch
  <1> QED
    BY <1>2, <1>3, <1>4

LEMMA TouchSound ==
    ASSUME CacheStateTyped, NEW l \in [Addr -> News], \A a \in Addr : l[a].at <= now,
           NEW ch, NEW sn, Sound(ch, l, sn, now), NEW k \in Key
    PROVE  /\ Sound(ipcacheTouch(ch, k), l, sn, now)
           /\ k \in DOMAIN ipcacheTouch(ch, k)
           /\ ipcacheTouch(ch, k)[k].last = now
  <1> DEFINE new == ipcacheTouch(ch, k)
             i == Found(ch, k)
  <1>1. /\ now \in Nat /\ now \in 0 .. MaxNow /\ Lifetime \in Nat
    BY CacheConstants DEF CacheStateTyped
  <1>2. i \in Item
    BY FoundTyped
  <1>3. /\ DOMAIN new = DOMAIN ch \cup {k}
        /\ new[k] = [i EXCEPT !.last = now]
        /\ \A x \in DOMAIN ch : x # k => new[x] = ch[x]
    BY DEF ipcacheTouch
  <1>4. k \in DOMAIN ch => i = ch[k]
    BY DEF Found
  <1>5. k \notin DOMAIN ch => i.name = NoName /\ i.ttl = 0
    BY DEF Found, NewItem
  <1> HIDE DEF new, i
  <1>6. /\ new[k] \in Item /\ new[k].last = now
        /\ new[k].name = i.name /\ new[k].ttl = i.ttl
    BY <1>1, <1>2, <1>3 DEF Item
  <1>7. CacheTyped(new)
    BY <1>3, <1>6 DEF Sound, CacheTyped
  <1>8. TtlsSeen(new, sn)
    BY <1>3, <1>4, <1>5, <1>6 DEF Sound, TtlsSeen
  <1>9. NamesHeard(new, l)
    BY <1>3, <1>4, <1>5, <1>6 DEF Sound, NamesHeard
  <1>10. NewsKept(new, l)
    BY <1>3, <1>4, <1>6 DEF Sound, NewsKept
  <1>11. Purged(new, now)
    <2> SUFFICES ASSUME Lifetime > 0, NEW x \in DOMAIN new PROVE now < new[x].last + Lifetime
      BY DEF Purged
    <2>1. CASE x = k
      BY <1>1, <1>6, <2>1
    <2>2. CASE x # k
      BY <1>3, <2>2 DEF Sound, Purged
    <2> QED
      BY <2>1, <2>2
  <1> QED
    BY <1>3, <1>6, <1>7, <1>8, <1>9, <1>10, <1>11 DEF Sound, new

\* A TTL of a packet that came over the path of the key.
LEMMA TtlSetSound ==
    ASSUME CacheStateTyped, NEW l, NEW ch, NEW sn, Sound(ch, l, sn, now), NEW k \in DOMAIN ch,
           NEW ttl \in Ttl, <<k[1], k[2], ttl>> \in sn
    PROVE  Sound([ch EXCEPT ![k].ttl = ttl], l, sn, now)
  <1> DEFINE new == [ch EXCEPT ![k].ttl = ttl]
  <1>1. ch[k] \in Item
    BY DEF Sound, CacheTyped
  <1>2. /\ DOMAIN new = DOMAIN ch /\ new[k] = [ch[k] EXCEPT !.ttl = ttl]
        /\ \A x \in DOMAIN ch : x # k => new[x] = ch[x]
    OBVIOUS
  <1> HIDE DEF new
  <1>3. new[k] \in Item /\ new[k].name = ch[k].name /\ new[k].last = ch[k].last /\ new[k].ttl = ttl
    BY <1>1, <1>2 DEF Item
  <1>4. CacheTyped(new) /\ TtlsSeen(new, sn)
    BY <1>2, <1>3 DEF Sound, CacheTyped, TtlsSeen
  <1>5. NamesHeard(new, l) /\ NewsKept(new, l) /\ Purged(new, now)
    <2>1. \A x \in DOMAIN ch : new[x].name = ch[x].name /\ new[x].last = ch[x].last
      BY <1>2, <1>3
    <2> QED
      BY <1>2, <2>1 DEF Sound, NamesHeard, NewsKept, Purged
  <1> QED
    BY <1>4, <1>5 DEF Sound, new

\* What is heard of an address is put there for all to come.
LEMMA HeardSound ==
    ASSUME CacheStateTyped, NEW ch, NEW sn, Sound(ch, learnt, sn, now), CacheHostname,
           NEW a \in Addr, NEW name \in Name, NEW is_ip \in BOOLEAN
    PROVE  Sound(ipcache_put_hostname(ch, a, name, is_ip),
                 [learnt EXCEPT ![a] = [name |-> name, at |-> now]], sn, now)
  <1> DEFINE k == NameKey(a)
             l == [learnt EXCEPT ![a] = [name |-> name, at |-> now]]
             mid == ipcacheTouch(ch, k)
             new == Put(mid, k, name, is_ip)
  <1>1. k \in Key /\ \A b \in Addr : NameKey(b) = k => b = a
    BY DEF NameKey, Key
  <1>2. /\ Sound(mid, learnt, sn, now) /\ k \in DOMAIN mid /\ mid[k].last = now
    BY <1>1, TouchSound DEF CacheStateTyped
  <1>3. l[a] = [name |-> name, at |-> now] /\ \A b \in Addr : b # a => l[b] = learnt[b]
    BY DEF CacheStateTyped
  <1>4. ipcache_put_hostname(ch, a, name, is_ip) = new
    BY DEF ipcache_put_hostname
  <1> HIDE DEF mid
  <1>5. mid[k] \in Item /\ now \in Nat
    BY <1>2, CacheConstants DEF Sound, CacheTyped, CacheStateTyped
  <1>6. /\ DOMAIN new = DOMAIN mid /\ new[k] \in Item /\ new[k].name = name /\ new[k].last = now
        /\ new[k].ttl = mid[k].ttl /\ \A x \in DOMAIN mid : x # k => new[x] = mid[x]
    <2>1. CASE mid[k].name = name
      BY <1>2, <1>5, <2>1 DEF Put
    <2>2. CASE mid[k].name # name
      <3>1. new = [mid EXCEPT ![k] = [[mid[k] EXCEPT !.name = name] EXCEPT !.is_ip = is_ip]]
        BY <1>2, <2>2 DEF Put
      <3>2. [mid[k] EXCEPT !.name = name] \in Item
        BY <1>5 DEF Item
      <3> QED
        BY <1>2, <1>5, <3>1, <3>2 DEF Item
    <2> QED
      BY <2>1, <2>2
  <1> HIDE DEF new, k, l
  <1>7. CacheTyped(new) /\ TtlsSeen(new, sn) /\ Purged(new, now)
    <2>1. \A x \in DOMAIN mid : new[x].ttl = mid[x].ttl /\ new[x].last = mid[x].last /\ new[x] \in Item
      BY <1>2, <1>6 DEF Sound, CacheTyped
    <2> QED
      BY <1>2, <1>6, <2>1 DEF Sound, CacheTyped, TtlsSeen, Purged
  <1>8. NamesHeard(new, l)
    <2> SUFFICES ASSUME NEW b \in Addr, NameKey(b) \in DOMAIN new
                 PROVE  new[NameKey(b)].name \in {NoName, l[b].name}
      BY DEF NamesHeard
    <2>1. CASE b = a
      BY <1>3, <1>6, <2>1 DEF k
    <2>2. CASE b # a
      <3>1. NameKey(b) # k /\ l[b] = learnt[b] /\ new[NameKey(b)] = mid[NameKey(b)]
        BY <1>1, <1>3, <1>6, <2>2
      <3> QED
        BY <1>2, <1>6, <3>1 DEF Sound, NamesHeard
    <2> QED
      BY <2>1, <2>2
  <1>9. NewsKept(new, l)
    <2> SUFFICES ASSUME NEW b \in Addr, l[b].name # NoName, Lately(l, b)
                 PROVE  /\ NameKey(b) \in DOMAIN new
                        /\ new[NameKey(b)].name = l[b].name /\ l[b].at <= new[NameKey(b)].last
      BY DEF NewsKept
    <2>1. CASE b = a
      BY <1>2, <1>3, <1>5, <1>6, <2>1 DEF k
    <2>2. CASE b # a
      BY <1>1, <1>2, <1>3, <1>6, <2>2 DEF Sound, NewsKept, Lately
    <2> QED
      BY <2>1, <2>2
  <1> QED
    BY <1>4, <1>7, <1>8, <1>9 DEF Sound, k, l, mid

-----------------------------------------------------------------------------
(* One packet of a connection: each stage with the cache and the track that *)
(* the one before left.                                                     *)

\* What a packet finds of its connection.
FoundOpen(c) == \/ Opened(c) = NewTrack /\ past[c] = NoPast
                \/ /\ Opened(c) \in Track /\ Opened(c).searched
                   /\ Named(Opened(c), past[c]) /\ OfPath(c, Opened(c), past[c], Hads)

LEMMA ClosedIsNone == Closed \notin Track
  <1>1. DOMAIN Closed = {"dp"} /\ \A t \in Track : "ttl" \in DOMAIN t
    BY DEF Closed, Track
  <1> QED
    BY <1>1

LEMMA FoundIsOpen ==
    ASSUME CacheIInv, NEW c \in Conn
    PROVE  FoundOpen(c)
  <1>1. CASE track[c] = Closed
    BY <1>1, ClosedIsNone DEF CacheIInv, Tracks, FoundOpen, Opened
  <1>2. CASE track[c] # Closed
    BY <1>2 DEF CacheIInv, Tracks, FoundOpen, Opened
  <1> QED
    BY <1>1, <1>2

LEMMA NewTrackIs ==
    /\ NewTrack \in Track /\ ~ NewTrack.searched /\ NewTrack.name = NoName /\ NewTrack.ttl = 0
    /\ ~ NewTrack.discovered /\ NewTrack.dp = {} /\ ~ NewTrack.l7
    /\ NoPast \in Past /\ ~ NoPast.came /\ NoPast.own = NoName /\ ~ NoPast.lent
  BY DEF NewTrack, Track, NoPast, Past

LEMMA SearchForTyped ==
    ASSUME NEW name \in Name \cup {NoName}, NEW is_ip \in BOOLEAN, NEW l7 \in BOOLEAN
    PROVE  SearchFor(name, is_ip, l7) \in SUBSET Search /\ \A x \in SearchFor(name, is_ip, l7) : x.name = name
  BY DEF SearchFor, Search

\* The history after a packet, field by field.
LEMMA RememberedIs ==
    ASSUME NEW c \in Conn, past[c] \in Past, NEW rev \in BOOLEAN, NEW iface, NEW host
    PROVE  LET q == Remembered(c, rev, iface, host)  p == past[c]  l == learnt[AddrOf[c]]
           IN  /\ q.came = (p.came \/ rev) /\ q.over = p.over \cup {iface}
               /\ q.own = (IF Tells(c, host) THEN host ELSE p.own)
               /\ ~ Asks(c, rev) => /\ q.lent = p.lent /\ q.heard = p.heard
                                    /\ q.fresh = p.fresh /\ q.unused = p.unused
               /\ Asks(c, rev) => /\ q.lent /\ q.heard = l.name
                                  /\ q.fresh <=> Lately(learnt, AddrOf[c])
                                  /\ q.unused <=> (Lifetime > 0 /\ now >= Found(cache, NameKey(AddrOf[c])).last + Lifetime)
  BY DEF Remembered, Past, Lately

\* The names of the track after its first search.
LEMMA FirstSearchSound ==
    ASSUME CacheIInv, NEW c \in Conn, NEW rev \in BOOLEAN, NEW iface, NEW host,
           NEW s, s = FirstSearch(c, Start(c), rev),
           NEW q, q = Remembered(c, rev, iface, host)
    PROVE  /\ Sound(s.cache, learnt, Hads, now)
           /\ DOMAIN s = {"cache", "t"} /\ s.t \in Track /\ s.t.searched
           /\ s.t.ttl = Opened(c).ttl /\ s.t.discovered = Opened(c).discovered
           /\ s.t.discovered => s.t.name = past[c].own /\ s.t.is_ip = IsIp[past[c].own]
           /\ s.t.discovered <=> past[c].own # NoName
           /\ ~ s.t.discovered => /\ s.t.name = NoName \/ (q.lent /\ s.t.name = q.heard)
                                  /\ q.lent /\ q.fresh => s.t.name = q.heard
                                  /\ s.t.name # NoName => ~ q.unused
           /\ \A x \in s.t.dp : x.name = s.t.name
  <1> DEFINE o == Opened(c)  ch == ipcachePurgeRateLimited(cache)  k == NameKey(AddrOf[c])
  <1>1. /\ Sound(ch, learnt, Hads, now)
        /\ \A x : Lifetime > 0 /\ now >= Found(cache, x).last + Lifetime => Found(ch, x).name = NoName
    BY PurgeSound DEF CacheIInv, CacheStateTyped
  <1>2. AddrOf[c] \in Addr /\ k \in Key /\ past[c] \in Past /\ CacheStateTyped
    BY KeysAre DEF CacheIInv, CacheStateTyped
  <1>3. Start(c).cache = ch /\ Start(c).t = o /\ DOMAIN Start(c) = {"cache", "t"}
    BY DEF Start
  <1>4. (o = NewTrack /\ past[c] = NoPast) \/ (o \in Track /\ o.searched /\ Named(o, past[c]))
    BY FoundIsOpen DEF FoundOpen
  <1>5. CASE o.searched
    <2>1. s.cache = ch /\ s.t = o /\ DOMAIN s = {"cache", "t"}
      BY <1>3, <1>5 DEF FirstSearch
    <2>2. o \in Track /\ Named(o, past[c])
      BY <1>4, <1>5, NewTrackIs
    <2>3. q.lent = past[c].lent /\ q.heard = past[c].heard /\ q.fresh = past[c].fresh /\ q.unused = past[c].unused
      BY <1>2, <1>5, RememberedIs DEF Asks
    <2> HIDE DEF o, ch
    <2> QED
      BY <1>1, <1>5, <2>1, <2>2, <2>3 DEF Named, o
  <1>6. CASE ~ o.searched
    <2>1. o = NewTrack /\ past[c] = NoPast
      BY <1>4, <1>6
    <2>2. CASE rev
      <3> DEFINE d == SearchFor(o.name, o.is_ip, o.l7)
      <3>1. /\ s.cache = ch /\ DOMAIN s = {"cache", "t"}
            /\ s.t = [[o EXCEPT !.searched = TRUE] EXCEPT !.dp = d]
        BY <1>3, <1>6, <2>2 DEF FirstSearch
      <3>2. d \in SUBSET Search /\ \A x \in d : x.name = NoName
        BY <2>1, NewTrackIs, SearchForTyped DEF Track
      <3>3. ~ q.lent /\ past[c].own = NoName
        <4>1. ~ Asks(c, rev)
          BY <2>2 DEF Asks
        <4>2. q.lent = past[c].lent
          BY <1>2, <4>1, RememberedIs
        <4> QED
          BY <2>1, <4>2, NewTrackIs
      <3> HIDE DEF o, ch, d
      <3>4. o \in Track /\ ~ o.discovered /\ o.name = NoName /\ o.ttl = 0
        BY <2>1, NewTrackIs
      <3>5. [o EXCEPT !.searched = TRUE] \in Track
        BY <3>4 DEF Track
      <3>6. /\ s.t \in Track /\ s.t.searched /\ s.t.name = NoName /\ s.t.dp = d
            /\ s.t.ttl = o.ttl /\ s.t.discovered = o.discovered
        BY <3>1, <3>2, <3>4, <3>5 DEF Track
      <3> QED
        BY <1>1, <3>1, <3>2, <3>3, <3>4, <3>6 DEF o
    <2>3. CASE ~ rev
      <3> DEFINE g == ipcache_get_hostname(ch, AddrOf[c])
                 d == SearchFor(g.name, g.is_ip, o.l7)
      <3>1. /\ s.cache = g.cache /\ DOMAIN s = {"cache", "t"}
            /\ s.t = [[[o EXCEPT !.name = g.name] EXCEPT !.searched = TRUE] EXCEPT !.dp = d]
        <4>1. ~ (Start(c).t.name # NoName \/ rev) /\ ~ Start(c).t.searched
          BY <1>3, <2>1, <2>3, NewTrackIs
        <4> QED
          BY <1>3, <4>1 DEF FirstSearch
      <3>2. g.name \in Name \cup {NoName} /\ g.is_ip \in BOOLEAN /\ Sound(g.cache, learnt, Hads, now)
        <4>1. CASE CacheHostname
          <5>1. /\ g.cache = ipcacheTouch(ch, k)
                /\ g.name = Found(ch, k).name /\ g.is_ip = Found(ch, k).is_ip
            BY <4>1 DEF ipcache_get_hostname
          <5>2. Found(ch, k) \in Item
            BY <1>1, <1>2, FoundTyped
          <5>3. Sound(ipcacheTouch(ch, k), learnt, Hads, now)
            BY <1>1, <1>2, TouchSound DEF CacheIInv, CacheStateTyped
          <5> HIDE DEF ch, k, g
          <5> QED
            BY <5>1, <5>2, <5>3 DEF Item
        <4>2. CASE ~ CacheHostname
          BY <1>1, <4>2 DEF ipcache_get_hostname
        <4> QED
          BY <4>1, <4>2
      <3>3. /\ g.name = NoName \/ (q.lent /\ g.name = q.heard)
            /\ q.lent /\ q.fresh => g.name = q.heard
            /\ g.name # NoName => ~ q.unused
        <4>1. CASE CacheHostname
          <5>1. g.name = Found(ch, k).name
            BY <4>1 DEF ipcache_get_hostname
          <5>2. Asks(c, rev)
            BY <1>6, <2>3, <4>1 DEF Asks
          <5>3. /\ q.lent /\ q.heard = learnt[AddrOf[c]].name
                /\ q.fresh <=> Lately(learnt, AddrOf[c])
                /\ q.unused <=> (Lifetime > 0 /\ now >= Found(cache, k).last + Lifetime)
            BY <1>2, <5>2, RememberedIs
          <5>4. q.unused => g.name = NoName
            BY <1>1, <5>1, <5>3
          <5>5. g.name \in {NoName, q.heard}
            BY <1>1, <1>2, <5>1, <5>3 DEF Sound, NamesHeard, Found, NewItem
          <5>6. q.fresh => g.name = q.heard
            <6> SUFFICES ASSUME q.fresh, q.heard # NoName PROVE g.name = q.heard
              BY <5>5
            <6>1. Lately(learnt, AddrOf[c]) /\ learnt[AddrOf[c]].name # NoName
              BY <5>3
            <6>2. k \in DOMAIN ch /\ ch[k].name = learnt[AddrOf[c]].name
              BY <1>1, <1>2, <6>1 DEF Sound, NewsKept
            <6> QED
              BY <5>1, <5>3, <6>2 DEF Found
          <5> QED
            BY <5>3, <5>4, <5>5, <5>6
        <4>2. CASE ~ CacheHostname
          <5>1. g.name = NoName
            BY <4>2 DEF ipcache_get_hostname
          <5>2. ~ Asks(c, rev)
            BY <4>2 DEF Asks
          <5>3. ~ q.lent
            BY <1>2, <2>1, <5>2, RememberedIs, NewTrackIs
          <5> QED
            BY <5>1, <5>3
        <4> QED
          BY <4>1, <4>2
      <3>4. d \in SUBSET Search /\ \A x \in d : x.name = g.name
        BY <3>2, <2>1, NewTrackIs, SearchForTyped DEF Track
      <3>5. past[c].own = NoName
        BY <2>1, NewTrackIs
      <3> HIDE DEF o, ch, g, d
      <3>6. o \in Track /\ ~ o.discovered /\ o.name = NoName /\ o.ttl = 0
        BY <2>1, NewTrackIs
      <3>7. [o EXCEPT !.name = g.name] \in Track
        BY <3>2, <3>6 DEF Track
      <3>8. [[o EXCEPT !.name = g.name] EXCEPT !.searched = TRUE] \in Track
        BY <3>7 DEF Track
      <3>9. /\ s.t \in Track /\ s.t.searched /\ s.t.name = g.name /\ s.t.dp = d
            /\ s.t.ttl = o.ttl /\ s.t.discovered = o.discovered
        BY <3>1, <3>4, <3>6, <3>8 DEF Track
      <3> QED
        BY <3>1, <3>2, <3>3, <3>4, <3>5, <3>6, <3>9 DEF o
    <2> QED
      BY <2>2, <2>3
  <1> QED
    BY <1>5, <1>6

LEMMA SoundSeen ==
    ASSUME NEW ch, NEW l, NEW sn, NEW more, NEW p, Sound(ch, l, sn, p), sn \subseteq more
    PROVE  Sound(ch, l, more, p)
  BY DEF Sound, TtlsSeen

\* What was had, sn, after a packet of c by an interface: the TTL that it came
\* with, and what the connection had, unless it kept to the interface, by all.
HadWith(c, rev, iface, ttl, sn) ==
    /\ Hads \subseteq sn
    /\ rev => ttl \in Ttl /\ <<AddrOf[c], iface, ttl>> \in sn
    /\ \A i \in past[c].over, x \in Ttl : <<AddrOf[c], i, x>> \in Hads => <<AddrOf[c], iface, x>> \in sn

TtlReady(c, s) ==
    /\ DOMAIN s = {"cache", "t"} /\ s.t \in Track /\ Sound(s.cache, learnt, Hads, now)
    /\ s.t.ttl # 0 => \E i \in past[c].over : <<AddrOf[c], i, s.t.ttl>> \in Hads

TtlStepped(c, s, rev, iface, sn, s2) ==
    /\ Sound(s2.cache, learnt, sn, now)
    /\ DOMAIN s2 = {"cache", "t"}
    /\ \E x \in Ttl \cup {0} : /\ s2.t = [s.t EXCEPT !.ttl = x]
                               /\ x # 0 => <<AddrOf[c], iface, x>> \in sn
                               /\ rev \/ s.t.ttl # 0 => x # 0

\* The TTL of the track after a packet, and what the cache holds of the path.
LEMMA TtlStepSound ==
    ASSUME CacheIInv, NEW c \in Conn, NEW rev \in BOOLEAN, NEW iface \in Iface, NEW ttl,
           NEW sn, HadWith(c, rev, iface, ttl, sn), NEW s, TtlReady(c, s),
           NEW s2, s2 = TtlStep(c, s, rev, iface, ttl)
    PROVE  TtlStepped(c, s, rev, iface, sn, s2)
  <1> USE DEF TtlReady, TtlStepped
  <1> DEFINE k == <<AddrOf[c], iface>>
  <1>1. k \in Key /\ k[1] = AddrOf[c] /\ k[2] = iface
    BY KeysAre
  <1>2. Sound(s.cache, learnt, sn, now)
    BY SoundSeen DEF HadWith
  <1>3. /\ Sound(ipcacheTouch(s.cache, k), learnt, sn, now)
        /\ k \in DOMAIN ipcacheTouch(s.cache, k)
    BY <1>1, <1>2, TouchSound DEF CacheIInv, CacheStateTyped
  <1>4. /\ s.t.ttl \in Ttl \cup {0} /\ 0 \notin Ttl
        /\ s.t.ttl # 0 => <<AddrOf[c], iface, s.t.ttl>> \in sn
    BY CacheConstants DEF Track, HadWith
  <1>5. CASE rev
    <2> DEFINE x == IF s.t.ttl = 0 THEN ttl ELSE s.t.ttl
               s1 == [s EXCEPT !.t.ttl = IF @ = 0 THEN ttl ELSE @]
    <2>1. x \in Ttl /\ x # 0 /\ <<AddrOf[c], iface, x>> \in sn
      BY <1>4, <1>5 DEF HadWith
    <2>2. s1.cache = s.cache /\ s1.t = [s.t EXCEPT !.ttl = x] /\ DOMAIN s1 = {"cache", "t"}
      OBVIOUS
    <2>3. s2 = ipcache_update_ttl(s1, k)
      BY <1>5 DEF TtlStep
    <2> HIDE DEF s1, x
    <2>4. s1.t.ttl = x
      BY <2>2 DEF Track
    <2>5. /\ s2.cache = [ipcacheTouch(s.cache, k) EXCEPT ![k].ttl = x]
          /\ s2.t = s1.t /\ DOMAIN s2 = {"cache", "t"}
      BY <2>1, <2>2, <2>3, <2>4 DEF ipcache_update_ttl
    <2>6. Sound([ipcacheTouch(s.cache, k) EXCEPT ![k].ttl = x], learnt, sn, now)
      BY <1>1, <1>3, <2>1, TtlSetSound DEF CacheIInv
    <2> QED
      BY <2>1, <2>2, <2>5, <2>6
  <1>6. CASE ~ rev /\ s.t.ttl # 0
    <2>1. s2 = s
      BY <1>6 DEF TtlStep, ipcache_get_ttl
    <2>2. s.t = [s.t EXCEPT !.ttl = s.t.ttl]
      BY DEF Track
    <2> QED
      BY <1>2, <1>4, <1>6, <2>1, <2>2
  <1>7. CASE ~ rev /\ s.t.ttl = 0
    <2> DEFINE x == Found(s.cache, k).ttl
    <2>1. /\ s2.cache = ipcacheTouch(s.cache, k)
          /\ s2.t = [s.t EXCEPT !.ttl = x] /\ DOMAIN s2 = {"cache", "t"}
      BY <1>7 DEF TtlStep, ipcache_get_ttl
    <2>2. x \in Ttl \cup {0}
      BY <1>2, FoundTyped DEF CacheIInv, Item
    <2>3. x # 0 => <<AddrOf[c], iface, x>> \in sn
      BY <1>1, <1>2 DEF Found, NewItem, Sound, TtlsSeen
    <2> HIDE DEF x
    <2> QED
      BY <1>3, <1>7, <2>1, <2>2, <2>3
  <1> QED
    BY <1>5, <1>6, <1>7

LearntWith(c, host) ==
    IF Tells(c, host) /\ CacheHostname
    THEN [learnt EXCEPT ![AddrOf[c]] = [name |-> host, at |-> now]] ELSE learnt

SearchReady(c, s, sn) ==
    /\ DOMAIN s = {"cache", "t"} /\ s.t \in Track /\ Sound(s.cache, learnt, sn, now)
    /\ s.t.discovered = Opened(c).discovered /\ \A x \in s.t.dp : x.name = s.t.name

SearchedAgain(c, s, host, sn, s3) ==
    /\ Sound(s3.cache, LearntWith(c, host), sn, now)
    /\ s3.t \in Track /\ s3.t.searched = s.t.searched /\ s3.t.ttl = s.t.ttl
    /\ Tells(c, host) => s3.t.discovered /\ s3.t.name = host /\ s3.t.is_ip = IsIp[host]
    /\ ~ Tells(c, host) => /\ s3.t.discovered = s.t.discovered
                           /\ s3.t.name = s.t.name /\ s3.t.is_ip = s.t.is_ip
    /\ \A x \in s3.t.dp : x.name = s3.t.name

\* The name of the payload, the protocol, and the second search.
LEMMA SearchAgainSound ==
    ASSUME CacheIInv, NEW c \in Conn, NEW host \in Name \cup {NoName}, NEW l7 \in BOOLEAN,
           NEW s, NEW sn, SearchReady(c, s, sn), NEW s3, s3 = SearchAgain(c, s, host, l7)
    PROVE  SearchedAgain(c, s, host, sn, s3)
  <1> USE DEF SearchReady, SearchedAgain
  <1> DEFINE d0 == Discovered(c, s, host)
             d == [d0 EXCEPT !.t.l7 = @ \/ l7]
             r == SearchFor(d.t.name, d.t.is_ip, d.t.l7)
  <1>1. /\ DOMAIN d0 = {"cache", "t"} /\ Sound(d0.cache, LearntWith(c, host), sn, now)
        /\ d0.t \in Track /\ d0.t.searched = s.t.searched /\ d0.t.ttl = s.t.ttl /\ d0.t.dp = s.t.dp
        /\ d0.t.l7 = s.t.l7
        /\ Tells(c, host) => d0.t.discovered /\ d0.t.name = host /\ d0.t.is_ip = IsIp[host]
        /\ ~ Tells(c, host) => d0.t = s.t
    <2>1. CASE ~ Tells(c, host)
      <3>1. d0 = s
        BY <2>1 DEF Discovered, Tells
      <3> QED
        BY <2>1, <3>1 DEF LearntWith
    <2>2. CASE Tells(c, host)
      <3>1. host \in Name /\ IsIp[host] \in BOOLEAN /\ AddrOf[c] \in Addr
        BY <2>2, CacheConstants, KeysAre DEF Tells
      <3>2. /\ d0.cache = ipcache_put_hostname(s.cache, AddrOf[c], host, IsIp[host])
            /\ d0.t = [[[s.t EXCEPT !.name = host] EXCEPT !.is_ip = IsIp[host]] EXCEPT !.discovered = TRUE]
            /\ DOMAIN d0 = {"cache", "t"}
        BY <2>2 DEF Discovered, Tells
      <3> HIDE DEF d0
      <3>3. [s.t EXCEPT !.name = host] \in Track
        BY DEF Track
      <3>4. [[s.t EXCEPT !.name = host] EXCEPT !.is_ip = IsIp[host]] \in Track
        BY <3>1, <3>3 DEF Track
      <3>5. /\ d0.t \in Track /\ d0.t.searched = s.t.searched /\ d0.t.ttl = s.t.ttl /\ d0.t.dp = s.t.dp
            /\ d0.t.l7 = s.t.l7
            /\ d0.t.discovered /\ d0.t.name = host /\ d0.t.is_ip = IsIp[host]
        BY <3>1, <3>2, <3>4 DEF Track
      <3>6. Sound(d0.cache, LearntWith(c, host), sn, now)
        <4>1. CASE CacheHostname
          BY <2>2, <3>1, <3>2, <4>1, HeardSound DEF LearntWith, CacheIInv
        <4>2. CASE ~ CacheHostname
          BY <3>2, <4>2 DEF LearntWith, ipcache_put_hostname
        <4> QED
          BY <4>1, <4>2
      <3> QED
        BY <2>2, <3>2, <3>5, <3>6
    <2> QED
      BY <2>1, <2>2
  <1> HIDE DEF d0
  <1>2. /\ d.cache = d0.cache /\ DOMAIN d = {"cache", "t"}
        /\ d.t = [d0.t EXCEPT !.l7 = d0.t.l7 \/ l7]
    BY <1>1
  <1>3. d.t \in Track
    BY <1>1, <1>2 DEF Track
  <1>4. /\ d.t.searched = d0.t.searched /\ d.t.ttl = d0.t.ttl /\ d.t.dp = d0.t.dp
        /\ d.t.discovered = d0.t.discovered /\ d.t.name = d0.t.name /\ d.t.is_ip = d0.t.is_ip
    BY <1>1, <1>2 DEF Track
  <1>5. s3 = IF Reveals(s, host, l7) THEN [d EXCEPT !.t.dp = r] ELSE d
    BY DEF SearchAgain, d0
  <1> HIDE DEF d
  <1>6. r \in SUBSET Search /\ \A x \in r : x.name = d.t.name
    BY <1>3, SearchForTyped DEF Track
  <1> HIDE DEF r
  <1>7. CASE Reveals(s, host, l7)
    <2>1. s3.cache = d.cache /\ s3.t = [d.t EXCEPT !.dp = r]
      BY <1>2, <1>5, <1>7
    <2>2. /\ s3.t \in Track /\ s3.t.searched = d.t.searched /\ s3.t.ttl = d.t.ttl /\ s3.t.dp = r
          /\ s3.t.discovered = d.t.discovered /\ s3.t.name = d.t.name /\ s3.t.is_ip = d.t.is_ip
      BY <1>3, <1>6, <2>1 DEF Track
    <2> QED
      BY <1>1, <1>2, <1>4, <1>6, <2>1, <2>2
  <1>8. CASE ~ Reveals(s, host, l7)
    <2>1. s3 = d
      BY <1>5, <1>8
    <2>2. ~ Tells(c, host)
      BY <1>8 DEF Reveals, Tells
    <2> QED
      BY <1>1, <1>2, <1>3, <1>4, <2>1, <2>2
  <1> QED
    BY <1>7, <1>8

\* The whole packet.
LEMMA PlayedSound ==
    ASSUME CacheIInv, NEW c \in Conn, NEW rev \in BOOLEAN, NEW iface \in Iface, NEW ttl,
           NEW sn, HadWith(c, rev, iface, ttl, sn),
           NEW host \in Name \cup {NoName}, NEW l7 \in BOOLEAN,
           NEW s3, s3 = Played(c, rev, iface, ttl, host, l7),
           NEW q, q = Remembered(c, rev, iface, host)
    PROVE  /\ Sound(s3.cache, LearntWith(c, host), sn, now)
           /\ s3.t \in Track /\ s3.t.searched
           /\ Named(s3.t, q) /\ OfPath(c, s3.t, q, sn)
  <1> DEFINE s1 == FirstSearch(c, Start(c), rev)
             s2 == TtlStep(c, s1, rev, iface, ttl)
             p == past[c]
  <1>1. s3 = SearchAgain(c, s2, host, l7)
    BY DEF Played
  <1>2. p \in Past /\ 0 \notin Ttl /\ NoName \notin Name
    BY CacheConstants DEF CacheIInv, CacheStateTyped
  <1>3. /\ Sound(s1.cache, learnt, Hads, now)
        /\ DOMAIN s1 = {"cache", "t"} /\ s1.t \in Track /\ s1.t.searched
        /\ s1.t.ttl = Opened(c).ttl /\ s1.t.discovered = Opened(c).discovered
        /\ s1.t.discovered => s1.t.name = p.own /\ s1.t.is_ip = IsIp[p.own]
        /\ s1.t.discovered <=> p.own # NoName
        /\ ~ s1.t.discovered => /\ s1.t.name = NoName \/ (q.lent /\ s1.t.name = q.heard)
                                /\ q.lent /\ q.fresh => s1.t.name = q.heard
                                /\ s1.t.name # NoName => ~ q.unused
        /\ \A x \in s1.t.dp : x.name = s1.t.name
    BY FirstSearchSound
  <1>4. /\ Opened(c).ttl # 0 => \E i \in p.over : <<AddrOf[c], i, Opened(c).ttl>> \in Hads
        /\ p.came => Opened(c).ttl # 0
    BY FoundIsOpen, NewTrackIs DEF FoundOpen, OfPath
  <1>5. /\ q.came = (p.came \/ rev) /\ iface \in q.over
        /\ q.own = (IF Tells(c, host) THEN host ELSE p.own)
    BY <1>2, RememberedIs
  <1>0. s2 = TtlStep(c, s1, rev, iface, ttl) /\ p = past[c]
    OBVIOUS
  <1> HIDE DEF s1, s2, p
  <1>6. /\ Sound(s2.cache, learnt, sn, now) /\ DOMAIN s2 = {"cache", "t"}
        /\ \E x \in Ttl \cup {0} : /\ s2.t = [s1.t EXCEPT !.ttl = x]
                                   /\ x # 0 => <<AddrOf[c], iface, x>> \in sn
                                   /\ rev \/ s1.t.ttl # 0 => x # 0
    <2>1. s1.t.ttl # 0 => \E i \in past[c].over : <<AddrOf[c], i, s1.t.ttl>> \in Hads
      BY <1>0, <1>3, <1>4
    <2>2. TtlReady(c, s1)
      BY <1>3, <2>1 DEF TtlReady
    <2>3. TtlStepped(c, s1, rev, iface, sn, s2)
      BY <1>0, <2>2, TtlStepSound
    <2> QED
      BY <2>3 DEF TtlStepped
  <1>7. /\ s2.t \in Track /\ s2.t.searched = s1.t.searched /\ s2.t.discovered = s1.t.discovered
        /\ s2.t.name = s1.t.name /\ s2.t.is_ip = s1.t.is_ip /\ s2.t.dp = s1.t.dp
        /\ s2.t.ttl # 0 => <<AddrOf[c], iface, s2.t.ttl>> \in sn
        /\ rev \/ s1.t.ttl # 0 => s2.t.ttl # 0
    BY <1>3, <1>6 DEF Track
  <1>8. /\ Sound(s3.cache, LearntWith(c, host), sn, now)
        /\ s3.t \in Track /\ s3.t.searched = s2.t.searched /\ s3.t.ttl = s2.t.ttl
        /\ Tells(c, host) => s3.t.discovered /\ s3.t.name = host /\ s3.t.is_ip = IsIp[host]
        /\ ~ Tells(c, host) => /\ s3.t.discovered = s2.t.discovered
                               /\ s3.t.name = s2.t.name /\ s3.t.is_ip = s2.t.is_ip
        /\ \A x \in s3.t.dp : x.name = s3.t.name
    <2>1. /\ s2.t.discovered = Opened(c).discovered /\ \A x \in s2.t.dp : x.name = s2.t.name
          /\ Sound(s2.cache, learnt, sn, now) /\ DOMAIN s2 = {"cache", "t"} /\ s2.t \in Track
      BY <1>3, <1>6, <1>7
    <2>2. SearchReady(c, s2, sn)
      BY <2>1 DEF SearchReady
    <2>3. SearchedAgain(c, s2, host, sn, s3)
      BY <1>1, <2>2, SearchAgainSound
    <2> QED
      BY <2>3 DEF SearchedAgain
  <1>9. Named(s3.t, q)
    <2>1. CASE Tells(c, host)
      <3>1. host # NoName /\ q.own = host
        BY <1>5, <2>1 DEF Tells
      <3> QED
        BY <1>8, <2>1, <3>1 DEF Named
    <2>2. CASE ~ Tells(c, host)
      <3>1. q.own = p.own
        BY <1>5, <2>2
      <3> QED
        BY <1>3, <1>7, <1>8, <2>2, <3>1 DEF Named
    <2> QED
      BY <2>1, <2>2
  <1>10. OfPath(c, s3.t, q, sn)
    <2>1. q.came => rev \/ s1.t.ttl # 0
      BY <1>3, <1>4, <1>5
    <2> QED
      BY <1>5, <1>7, <1>8, <2>1 DEF OfPath
  <1> QED
    BY <1>3, <1>7, <1>8, <1>9, <1>10

LEMMA RememberedTyped ==
    ASSUME CacheIInv, NEW c \in Conn, NEW rev \in BOOLEAN, NEW iface \in Iface,
           NEW host \in Name \cup {NoName}
    PROVE  Remembered(c, rev, iface, host) \in Past
  <1> DEFINE p == past[c]
             p0 == [p EXCEPT !.came = @ \/ rev]
             p1 == [p0 EXCEPT !.over = @ \cup {iface}]
             q == [p1 EXCEPT !.own = IF Tells(c, host) THEN host ELSE @]
             l == learnt[AddrOf[c]]
  <1>1. p \in Past /\ l \in News
    BY KeysAre DEF CacheIInv, CacheStateTyped
  <1>2. p1 \in Past
    <2>1. p0 \in Past
      BY <1>1 DEF Past
    <2> HIDE DEF p0
    <2> QED
      BY <2>1 DEF Past
  <1>3. q \in Past
    BY <1>2 DEF Past
  <1>4. CASE ~ Asks(c, rev)
    BY <1>3, <1>4 DEF Remembered
  <1>5. CASE Asks(c, rev)
    <2> DEFINE fr == Lifetime = 0 \/ now < l.at + Lifetime
               un == Lifetime > 0 /\ now >= Found(cache, NameKey(AddrOf[c])).last + Lifetime
               q1 == [q EXCEPT !.lent = TRUE]
               q2 == [q1 EXCEPT !.heard = l.name]
               q3 == [q2 EXCEPT !.fresh = fr]
    <2>1. Remembered(c, rev, iface, host) = [q3 EXCEPT !.unused = un]
      BY <1>5 DEF Remembered
    <2>2. fr \in BOOLEAN /\ un \in BOOLEAN /\ l.name \in Name \cup {NoName}
      BY <1>1 DEF News
    <2> HIDE DEF fr, un, q
    <2>3. q1 \in Past
      BY <1>3 DEF Past
    <2> HIDE DEF q1
    <2>4. q2 \in Past
      BY <2>2, <2>3 DEF Past
    <2> HIDE DEF q2
    <2>5. q3 \in Past
      BY <2>2, <2>4 DEF Past
    <2> HIDE DEF q3
    <2> QED
      BY <2>1, <2>2, <2>5 DEF Past
  <1> QED
    BY <1>4, <1>5

LEMMA HadsStay == UNCHANGED <<seen, roamed>> => UNCHANGED Hads
  BY DEF Hads, Had

\* What was had stays so, and what the connection had holds for the new
\* interface too, for it is the same one or the address is roamed from now on.
LEMMA HandleShows ==
    ASSUME CacheIInv, NEW c \in Conn, NEW rev \in BOOLEAN, NEW iface \in Iface, NEW ttl, rev => ttl \in Ttl,
           NEW host, NEW l7, Handle(c, rev, iface, ttl, host, l7)
    PROVE  HadWith(c, rev, iface, ttl, Hads')
  <1> DEFINE a == AddrOf[c]
  <1>1. /\ seen \subseteq seen' /\ roamed \subseteq roamed'
        /\ rev => <<a, iface, ttl>> \in seen'
        /\ past[c].over \subseteq {iface} \/ a \in roamed'
    BY DEF Handle
  <1>2. ASSUME NEW b, NEW i, NEW x, Had(b, i, x) PROVE Had(b, i, x)'
    BY <1>1, <1>2 DEF Had
  <1>3. a \in Addr
    BY KeysAre
  <1>4. Hads \subseteq Hads'
    BY <1>2 DEF Hads
  <1>5. rev => ttl \in Ttl /\ <<a, iface, ttl>> \in Hads'
    <2>1. rev => Had(a, iface, ttl)'
      BY <1>1 DEF Had
    <2> QED
      BY <1>3, <2>1 DEF Hads
  <1>6. ASSUME NEW i \in past[c].over, NEW x \in Ttl, <<a, i, x>> \in Hads
        PROVE  <<a, iface, x>> \in Hads'
    <2>1. Had(a, i, x)'
      BY <1>2, <1>6 DEF Hads
    <2>2. Had(a, iface, x)'
      BY <1>1, <2>1 DEF Had
    <2> QED
      BY <1>3, <2>2 DEF Hads
  <1> QED
    BY <1>4, <1>5, <1>6 DEF HadWith

LEMMA HandleKeeps ==
    ASSUME CacheIInv, NEW c \in Conn, NEW rev \in BOOLEAN, NEW iface \in Iface, NEW ttl, rev => ttl \in Ttl,
           NEW host \in Name \cup {NoName}, NEW l7 \in BOOLEAN, Handle(c, rev, iface, ttl, host, l7)
    PROVE  CacheIInv'
  <1> DEFINE s == Played(c, rev, iface, ttl, host, l7)  q == Remembered(c, rev, iface, host)
  <1>1. /\ prev' = now /\ now' = now /\ cache' = s.cache
        /\ track' = [track EXCEPT ![c] = s.t] /\ past' = [past EXCEPT ![c] = q]
        /\ learnt' = LearntWith(c, host)
    BY DEF Handle, LearntWith
  <1>0. HadWith(c, rev, iface, ttl, Hads')
    BY HandleShows
  <1>2. /\ Sound(s.cache, LearntWith(c, host), Hads', now)
        /\ s.t \in Track /\ s.t.searched
        /\ Named(s.t, q) /\ OfPath(c, s.t, q, Hads')
    BY <1>0, PlayedSound
  <1>3. q \in Past
    BY RememberedTyped
  <1> HIDE DEF s, q
  <1>4. LearntWith(c, host) \in [Addr -> News] /\ \A a \in Addr : LearntWith(c, host)[a].at <= now
    <2>1. Tells(c, host) => [name |-> host, at |-> now] \in News
      BY CacheConstants DEF News, Tells, CacheIInv, CacheStateTyped
    <2>2. learnt \in [Addr -> News] /\ (\A a \in Addr : learnt[a].at <= now) /\ now <= now
      BY CacheConstants DEF CacheIInv, CacheStateTyped
    <2>3. CASE Tells(c, host) /\ CacheHostname
      BY <2>1, <2>2, <2>3, KeysAre DEF LearntWith
    <2>4. CASE ~ (Tells(c, host) /\ CacheHostname)
      BY <2>2, <2>4 DEF LearntWith
    <2> QED
      BY <2>3, <2>4
  <1>5. CacheStateTyped'
    BY <1>1, <1>3, <1>4 DEF CacheIInv, CacheStateTyped
  <1>6. Sound(cache', learnt', Hads', prev')
    BY <1>1, <1>2
  <1>7. Hads \subseteq Hads'
    BY <1>0 DEF HadWith
  <1>8. Tracks'
    <2> SUFFICES ASSUME NEW k \in Conn
                 PROVE  \/ track'[k] = Closed /\ past'[k] = NoPast
                        \/ /\ track'[k] \in Track /\ track'[k].searched
                           /\ Named(track'[k], past'[k]) /\ OfPath(k, track'[k], past'[k], Hads')
      BY DEF Tracks
    <2>1. CASE k = c
      <3>1. track'[k] = s.t /\ past'[k] = q
        BY <1>1, <2>1 DEF CacheIInv, CacheStateTyped
      <3> QED
        BY <1>1, <1>2, <2>1, <3>1
    <2>2. CASE k # c
      <3>1. track'[k] = track[k] /\ past'[k] = past[k]
        BY <1>1, <2>2 DEF CacheIInv, CacheStateTyped
      <3>2. OfPath(k, track[k], past[k], Hads) => OfPath(k, track[k], past[k], Hads')
        BY <1>7 DEF OfPath
      <3> QED
        BY <3>1, <3>2 DEF CacheIInv, Tracks
    <2> QED
      BY <2>1, <2>2
  <1>9. Sound(cache, learnt, Hads, prev)'
    BY <1>1, <1>6 DEF Sound, CacheTyped, TtlsSeen, NamesHeard, NewsKept, Lately, Purged
  <1> QED
    BY <1>5, <1>8, <1>9 DEF CacheIInv

LEMMA ReplyKeeps == CacheIInv /\ DnsResponse => CacheIInv'
  <1> SUFFICES ASSUME CacheIInv, DnsResponse PROVE CacheIInv'
    OBVIOUS
  <1>1. PICK a \in Addr, name \in {n \in Name : ~ IsIp[n]} :
          /\ CacheHostname /\ prev' = now
          /\ cache' = ipcache_put_hostname(ipcachePurgeRateLimited(cache), a, name, FALSE)
          /\ learnt' = [learnt EXCEPT ![a] = [name |-> name, at |-> now]]
          /\ UNCHANGED <<track, now, seen, roamed, past>>
    BY DEF DnsResponse
  <1>2. Sound(ipcachePurgeRateLimited(cache), learnt, Hads, now)
    BY PurgeSound DEF CacheIInv, CacheStateTyped
  <1>3. Sound(cache', learnt', Hads', prev')
    BY <1>1, <1>2, HeardSound, HadsStay DEF CacheIInv
  <1>4. CacheStateTyped'
    <2>1. [name |-> name, at |-> now] \in News
      BY CacheConstants DEF News, CacheIInv, CacheStateTyped
    <2>2. learnt' \in [Addr -> News] /\ \A b \in Addr : learnt'[b].at <= now
      BY <1>1, <2>1, CacheConstants DEF CacheIInv, CacheStateTyped
    <2> QED
      BY <1>1, <2>2 DEF CacheIInv, CacheStateTyped
  <1>5. Tracks'
    BY <1>1, HadsStay DEF CacheIInv, Tracks
  <1>6. Sound(cache, learnt, Hads, prev)'
    BY <1>1, <1>3 DEF Sound, CacheTyped, TtlsSeen, NamesHeard, NewsKept, Lately, Purged
  <1> QED
    BY <1>4, <1>5, <1>6 DEF CacheIInv

LEMMA CloseKeeps == \A c \in Conn : CacheIInv /\ Close(c) => CacheIInv'
  <1> SUFFICES ASSUME NEW c \in Conn, CacheIInv, Close(c) PROVE CacheIInv'
    OBVIOUS
  <1>1. /\ track' = [track EXCEPT ![c] = Closed] /\ past' = [past EXCEPT ![c] = NoPast]
        /\ UNCHANGED <<cache, prev, now, learnt, seen, roamed>>
    BY DEF Close
  <1>2. CacheStateTyped'
    BY <1>1, NewTrackIs DEF CacheIInv, CacheStateTyped
  <1>3. Tracks'
    <2> SUFFICES ASSUME NEW k \in Conn
                 PROVE  \/ track'[k] = Closed /\ past'[k] = NoPast
                        \/ /\ track'[k] \in Track /\ track'[k].searched
                           /\ Named(track'[k], past'[k]) /\ OfPath(k, track'[k], past'[k], Hads')
      BY DEF Tracks
    <2>1. CASE k = c
      BY <1>1, <2>1 DEF CacheIInv, CacheStateTyped
    <2>2. CASE k # c
      <3>1. track'[k] = track[k] /\ past'[k] = past[k] /\ Hads' = Hads
        BY <1>1, <2>2, HadsStay DEF CacheIInv, CacheStateTyped
      <3> QED
        BY <3>1 DEF CacheIInv, Tracks
    <2> QED
      BY <2>1, <2>2
  <1>4. Sound(cache, learnt, Hads, prev)'
    BY <1>1, HadsStay DEF CacheIInv, Sound, CacheTyped, TtlsSeen, NamesHeard, NewsKept, Lately, Purged
  <1> QED
    BY <1>2, <1>3, <1>4 DEF CacheIInv

LEMMA TickKeeps == CacheIInv /\ Tick => CacheIInv'
  <1> SUFFICES ASSUME CacheIInv, Tick PROVE CacheIInv'
    OBVIOUS
  <1>1. /\ now < MaxNow /\ now' = now + 1 /\ UNCHANGED <<cache, prev, track, learnt, seen, roamed, past>>
    BY DEF Tick
  <1>2. CacheStateTyped'
    BY <1>1, CacheConstants DEF CacheIInv, CacheStateTyped, News
  <1>3. Tracks'
    BY <1>1, HadsStay DEF CacheIInv, Tracks
  <1>4. \A a \in Addr : Lately(learnt, a)' => Lately(learnt, a)
    BY <1>1, CacheConstants DEF Lately, CacheIInv, CacheStateTyped, News
  <1>5. NewsKept(cache, learnt)'
    BY <1>1, <1>4 DEF CacheIInv, Sound, NewsKept
  <1>6. Sound(cache, learnt, Hads, prev)'
    BY <1>1, <1>5, HadsStay DEF CacheIInv, Sound, CacheTyped, TtlsSeen, NamesHeard, Purged
  <1> QED
    BY <1>2, <1>3, <1>6 DEF CacheIInv

LEMMA CacheIInvInit == CacheInit => CacheIInv
  <1> SUFFICES ASSUME CacheInit PROVE CacheIInv
    OBVIOUS
  <1>1. /\ now = 1 /\ prev = 0 /\ cache = <<>> /\ DOMAIN cache = {}
        /\ track = [c \in Conn |-> Closed] /\ past = [c \in Conn |-> NoPast]
        /\ learnt = [a \in Addr |-> [name |-> NoName, at |-> 0]]
    BY DEF CacheInit
  <1>2. CacheStateTyped
    <2>1. now \in 1 .. MaxNow /\ prev \in 0 .. now /\ [name |-> NoName, at |-> 0] \in News
      BY <1>1, IpCacheAssumption DEF News
    <2> QED
      BY <1>1, <2>1, NewTrackIs DEF CacheStateTyped
  <1>3. Sound(cache, learnt, Hads, prev)
    BY <1>1 DEF Sound, CacheTyped, TtlsSeen, NamesHeard, NewsKept, Purged
  <1>4. Tracks
    BY <1>1 DEF Tracks
  <1> QED
    BY <1>2, <1>3, <1>4 DEF CacheIInv

LEMMA CacheIInvStep == CacheIInv /\ [CacheNext]_cacheVars => CacheIInv'
  <1> SUFFICES ASSUME CacheIInv, [CacheNext]_cacheVars PROVE CacheIInv'
    OBVIOUS
  <1>1. CASE UNCHANGED cacheVars
    BY <1>1, HadsStay DEF cacheVars, CacheIInv, CacheStateTyped, Tracks, Sound, CacheTyped, TtlsSeen, NamesHeard, NewsKept, Lately, Purged
  <1>2. ASSUME NEW c \in Conn, Outgoing(c) PROVE CacheIInv'
    <2>1. PICK iface \in Iface, host \in Name \cup {NoName}, l7 \in BOOLEAN : Handle(c, FALSE, iface, 0, host, l7)
      BY <1>2 DEF Outgoing
    <2> QED
      BY <2>1, HandleKeeps
  <1>3. ASSUME NEW c \in Conn, Incoming(c) PROVE CacheIInv'
    <2>1. PICK iface \in Iface, ttl \in Ttl : Handle(c, TRUE, iface, ttl, NoName, FALSE)
      BY <1>3 DEF Incoming
    <2> QED
      BY <2>1, HandleKeeps
  <1> QED
    BY <1>1, <1>2, <1>3, ReplyKeeps, CloseKeeps, TickKeeps DEF CacheNext

LEMMA CacheInvariance == CacheSpec => []CacheIInv
  BY CacheIInvInit, CacheIInvStep, PTL DEF CacheSpec

(* The cache, the tracks and the clock are well formed.                    *)
THEOREM CacheTypeCorrect == CacheSpec => []CacheTypeOK
  <1>1. CacheIInv => CacheTypeOK
    BY DEF CacheIInv, CacheStateTyped, Sound, CacheTyped, Tracks, Open, CacheTypeOK
  <1> QED
    BY <1>1, CacheInvariance, PTL

(* A connection goes by the name its payload showed, until then by the one *)
(* last heard of at its address, and is searched a profile by that name.   *)
THEOREM NamesAreLent == CacheSpec => []NameIsLent
  <1>1. CacheIInv => NameIsLent
    <2> SUFFICES ASSUME CacheIInv, NEW c \in Open
                 PROVE  LET t == track[c]  p == past[c]
                        IN  /\ t.discovered <=> p.own # NoName
                            /\ IF t.discovered THEN t.name = p.own /\ t.is_ip = IsIp[p.own]
                               ELSE /\ t.name = NoName \/ (p.lent /\ t.name = p.heard)
                                    /\ p.lent /\ p.fresh => t.name = p.heard
                            /\ \A x \in t.dp : x.name = t.name
      BY DEF NameIsLent
    <2>1. Named(track[c], past[c])
      BY DEF CacheIInv, Tracks, Open
    <2> QED
      BY <2>1 DEF Named
  <1> QED
    BY <1>1, CacheInvariance, PTL

(* A name that nobody asked for or heard of during the lifetime is lent to *)
(* none.                                                                   *)
THEOREM UnusedAreForgotten == CacheSpec => []UnusedIsForgotten
  <1>1. CacheIInv => UnusedIsForgotten
    BY DEF CacheIInv, Tracks, Open, Named, UnusedIsForgotten
  <1> QED
    BY <1>1, CacheInvariance, PTL

(* A TTL that the cache or a connection goes by was had by a packet of the  *)
(* address; by the very interface, and by the one of the connection, as     *)
(* long as every connection there kept to one; and once a packet came there *)
(* is one.                                                                  *)
THEOREM TtlsAreOfPath == CacheSpec => []TtlIsOfPath
  <1>1. CacheIInv => TtlIsOfPath
    <2> SUFFICES ASSUME CacheIInv PROVE TtlIsOfPath
      OBVIOUS
    <2>1. ASSUME NEW c \in Open, track[c].ttl # 0
          PROVE  \E i \in past[c].over : Had(AddrOf[c], i, track[c].ttl)
      BY <2>1 DEF CacheIInv, Tracks, Open, OfPath, Hads
    <2>2. ASSUME NEW k \in DOMAIN cache, cache[k].ttl # 0
          PROVE  Had(k[1], k[2], cache[k].ttl)
      BY <2>2 DEF CacheIInv, Sound, TtlsSeen, Hads
    <2>3. ASSUME NEW c \in Open, past[c].came PROVE track[c].ttl # 0
      BY <2>3 DEF CacheIInv, Tracks, Open, OfPath
    <2> QED
      BY <2>1, <2>2, <2>3 DEF TtlIsOfPath
  <1> QED
    BY <1>1, CacheInvariance, PTL

=============================================================================
