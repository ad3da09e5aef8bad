------------------------------- MODULE Daemon --------------------------------
(***************************************************************************)
(* The life of the process (nfq2/nfqws.c): it loads its lists, drops its    *)
(* privileges, binds the queue and then handles packet after packet, with   *)
(* the lists looked after at each and read again after a SIGHUP.  Others    *)
(* rewrite, hide and protect the files and send signals at any moment.      *)
(***************************************************************************)
EXTENDS Integers, Sequences

CONSTANTS
    NList,       \* number of files with lists: host lists first, then ipsets
    Droproot,    \* whether a user to run as was given
    MaxEdits,    \* changes of files (bound)
    MaxHups      \* SIGHUPs (bound)

ASSUME DaemonAssumption ==
    NList \in Nat \ {0} /\ Droproot \in BOOLEAN /\ MaxEdits \in Nat /\ MaxHups \in Nat

Lists == 1 .. NList

VARIABLES
    pc,          \* what the process does next
    at,          \* the list it is at
    bReload,     \* a SIGHUP has come
    root,        \* the process may read what only root may
    handles,     \* the queue is bound
    mem, noted,  \* per list, what was read and the signature noted with it
    fsig,        \* the signature just taken
    disk,        \* the files
    edits, hups, \* changes and signals so far
    twin,        \* lists whose noted signature may be that of other content:
                 \*   rewritten under it, or emptied as the file was unreadable
    signalled,   \* lists that a SIGHUP asked to read again and that were not
    late,        \* those of these for which it came during the reload
    touched,     \* the lists changed since the user's access was tested
    was          \* per list, what was in it when the packet's check was at it

process == <<pc, at, bReload, root, handles, mem, noted, fsig>>
history == <<twin, signalled, late, touched, was>>
vars == <<process, disk, edits, hups, history>>

\* A file's content is numbered, as is its signature (modification time and
\* size); a rewriting within the same second and of the same size keeps it.
\* The signature 0 is that of no file.
File == [content : Nat, sig : Nat \ {0}, there : BOOLEAN, access : {"all", "root"}]
NoSig == 0
Unread == 0

\* main: what is done once before the loop, in order.
Stages == <<"options", "access", "load", "pidfile", "droproot", "lists", "scripts", "raw", "lua", "queue">>
StageOf(s) == CHOOSE i \in DOMAIN Stages : Stages[i] = s
After(s) == IF s = "queue" THEN "loop" ELSE Stages[StageOf(s) + 1]

Readable(l) == disk[l].there /\ (root \/ disk[l].access = "all")

-----------------------------------------------------------------------------
(* The start.                                                              *)

\* Whatever fails ends the process; nfq_deinit, if it got that far.
Fail ==
    /\ pc' = "failed" /\ handles' = FALSE
    /\ UNCHANGED <<at, bReload, root, mem, noted, fsig>>

Proceed(s) ==
    /\ pc' = After(s)
    /\ UNCHANGED <<at, bReload, root, handles, mem, noted, fsig>>

\* Steps that depend on nothing that is modelled.
Step(s) ==
    /\ pc = s
    /\ Proceed(s) \/ Fail
    /\ UNCHANGED <<disk, edits, hups, history>>
Options == Step("options")
Pidfile == Step("pidfile")
Scripts == Step("scripts")
Raw     == Step("raw")
LuaInit == Step("lua")

Mut_test_list_files_There == \A l \in Lists : disk[l].there

\* test_list_files
test_list_files == \A l \in Lists : Readable(l)

TestsAccess ==
    /\ pc = "access"
    /\ IF test_list_files THEN Proceed("access") ELSE Fail
    /\ UNCHANGED <<disk, edits, hups, history>>

\* LoadAllHostLists and LoadAllIpsets, before anyone is waiting: as one step.
LoadAll ==
    /\ pc = "load"
    /\ IF \A l \in Lists : disk[l].there => Readable(l)
       THEN /\ mem' = [l \in Lists |-> IF disk[l].there THEN disk[l].content ELSE Unread]
            /\ noted' = [l \in Lists |-> IF disk[l].there THEN disk[l].sig ELSE NoSig]
            /\ twin' = {} /\ pc' = After("load")
            /\ UNCHANGED <<at, bReload, root, handles, fsig>>
       ELSE Fail /\ UNCHANGED twin
    /\ UNCHANGED <<disk, edits, hups, signalled, late, touched, was>>

\* droproot and dropcaps
DropRoot ==
    /\ pc = "droproot"
    /\ \/ Droproot /\ Fail
       \/ /\ root' = (root /\ ~ Droproot) /\ pc' = After("droproot")
          /\ UNCHANGED <<at, bReload, handles, mem, noted, fsig>>
    /\ UNCHANGED <<disk, edits, hups, history>>

\* Whether the user it runs as from now on may read the lists.
TestsLists ==
    /\ pc = "lists"
    /\ IF Droproot => test_list_files THEN Proceed("lists") ELSE Fail
    /\ touched' = {}
    /\ UNCHANGED <<disk, edits, hups, twin, signalled, late, was>>

\* nfq_init
BindQueue ==
    /\ pc = "queue"
    /\ \/ Fail
       \/ /\ handles' = TRUE /\ pc' = "loop"
          /\ UNCHANGED <<at, bReload, root, mem, noted, fsig>>
    /\ UNCHANGED <<disk, edits, hups, history>>

-----------------------------------------------------------------------------
(* The loop.                                                               *)

Mut_Wake_KeepsSignatures ==
    /\ pc = "loop" /\ pc' = IF bReload THEN "reload" ELSE "packet"
    /\ at' = 1
    /\ UNCHANGED <<bReload, root, handles, mem, noted, fsig, disk, edits, hups, history>>

\* recv returns with a packet; ReloadCheck marks all lists as not read.
Wake ==
    /\ pc = "loop"
    /\ IF bReload THEN pc' = "reload" /\ noted' = [l \in Lists |-> NoSig]
       ELSE pc' = "packet" /\ UNCHANGED noted
    /\ at' = 1
    /\ UNCHANGED <<bReload, root, handles, mem, fsig, disk, edits, hups, history>>

\* recv fails; errors but a full buffer end the loop and unbind the queue.
RecvFails ==
    /\ pc = "loop"
    /\ \/ UNCHANGED pc /\ UNCHANGED handles
       \/ pc' = "ended" /\ handles' = FALSE
    /\ UNCHANGED <<at, bReload, root, mem, noted, fsig, disk, edits, hups, history>>

\* Every list has been looked after.
Behind(ctx) ==
    /\ pc' = IF ctx = "reload" THEN "packet" ELSE "verdict"
    /\ at' = 1
    /\ bReload' = IF ctx = "reload" THEN FALSE ELSE bReload

NextList(ctx) == IF at < NList THEN pc' = ctx /\ at' = at + 1 /\ UNCHANGED bReload ELSE Behind(ctx)

\* The list at hand needs no reading on account of a signal.
Answered(done) ==
    /\ signalled' = IF done THEN signalled \ {at} ELSE signalled
    /\ late' = IF done THEN late \ {at} ELSE late

\* LoadHostList, LoadIpset: the signature is taken, and if it is another than
\* the noted one the file is read.
Stat(ctx) ==
    /\ pc = ctx
    /\ IF disk[at].there /\ disk[at].sig # noted[at]
       THEN /\ pc' = IF ctx = "reload" THEN "rereads" ELSE "reads"
            /\ fsig' = disk[at].sig
            /\ UNCHANGED <<at, bReload>>
       ELSE NextList(ctx) /\ UNCHANGED fsig
    /\ was' = [was EXCEPT ![at] = IF disk[at].there THEN disk[at].content ELSE mem[at]]
    /\ Answered(ctx = "reload" /\ ~ disk[at].there)
    /\ UNCHANGED <<root, handles, mem, noted, disk, edits, hups, twin, touched>>

ReadAt(ctx) == pc = IF ctx = "reload" THEN "rereads" ELSE "reads"

\* A list that cannot be read is empty; a reload that fails is fatal, a check
\* for a packet that fails lets it pass by.
Read(ctx) ==
    /\ ReadAt(ctx)
    /\ IF Readable(at)
       THEN /\ mem' = [mem EXCEPT ![at] = disk[at].content]
            /\ was' = [was EXCEPT ![at] = disk[at].content]
            /\ noted' = [noted EXCEPT ![at] = fsig]
            /\ twin' = twin \ {at}
            /\ NextList(ctx)
       ELSE /\ mem' = [mem EXCEPT ![at] = Unread]
            /\ pc' = IF ctx = "reload" THEN "fatal" ELSE "passby"
            /\ twin' = twin \cup {at}
            /\ UNCHANGED <<at, bReload, noted, was>>
    /\ Answered(TRUE)
    /\ UNCHANGED <<root, handles, fsig, disk, edits, hups, touched>>

ReloadStat == Stat("reload")
PacketStat == Stat("packet")
ReloadRead == Read("reload")
PacketRead == Read("packet")

\* nfq_cb: the verdict is set and the process waits for the next packet.
Verdict ==
    /\ pc \in {"verdict", "passby"}
    /\ pc' = "loop"
    /\ UNCHANGED <<at, bReload, root, handles, mem, noted, fsig, disk, edits, hups, history>>

-----------------------------------------------------------------------------
(* The others.                                                             *)

\* Before pre_desync the signal ends the process.
InLoop == pc \in {"loop", "reload", "rereads", "packet", "reads", "verdict", "passby"}
Running == InLoop \/ pc \in {Stages[i] : i \in DOMAIN Stages}

Hup ==
    /\ Running /\ hups < MaxHups /\ hups' = hups + 1
    /\ IF InLoop
       THEN /\ bReload' = TRUE
            /\ signalled' = Lists
            /\ late' = IF pc \in {"reload", "rereads"} THEN Lists ELSE {}
            /\ UNCHANGED <<pc, handles>>
       ELSE /\ pc' = "killed" /\ handles' = FALSE
            /\ UNCHANGED <<bReload, signalled, late>>
    /\ UNCHANGED <<at, root, mem, noted, fsig, disk, edits, twin, touched, was>>

Edit(l, file) ==
    /\ Running /\ edits < MaxEdits /\ edits' = edits + 1
    /\ file # disk[l]
    /\ disk' = [disk EXCEPT ![l] = file]
    /\ touched' = touched \cup {l}
    /\ UNCHANGED <<process, hups, signalled, late, was>>

\* The content is another, as time or size tell or do not; the first one is put
\* back as it was.
Rewrite(l) ==
    \/ Edit(l, [disk[l] EXCEPT !.content = @ + 1, !.sig = edits + 2]) /\ UNCHANGED twin
    \/ Edit(l, [disk[l] EXCEPT !.content = @ + 1]) /\ twin' = twin \cup {l}
Restore(l) ==
    /\ Edit(l, [disk[l] EXCEPT !.content = 1, !.sig = 1])
    /\ twin' = IF noted[l] = 1 /\ mem[l] # 1 THEN twin \cup {l} ELSE twin
Protect(l) == \E a \in {"all", "root"} : Edit(l, [disk[l] EXCEPT !.access = a]) /\ UNCHANGED twin
Hide(l) == \E t \in BOOLEAN : Edit(l, [disk[l] EXCEPT !.there = t]) /\ UNCHANGED twin

-----------------------------------------------------------------------------
Init ==
    /\ pc = "options" /\ at = 1 /\ bReload = FALSE /\ root = TRUE /\ handles = FALSE
    /\ mem = [l \in Lists |-> Unread] /\ noted = [l \in Lists |-> NoSig] /\ fsig = NoSig
    /\ disk \in [Lists -> {[content |-> 1, sig |-> 1, there |-> t, access |-> a] :
                              t \in BOOLEAN, a \in {"all", "root"}}]
    /\ edits = 0 /\ hups = 0
    /\ twin = {} /\ signalled = {} /\ late = {} /\ touched = {}
    /\ was = [l \in Lists |-> Unread]

Next ==
    \/ Options \/ TestsAccess \/ LoadAll \/ Pidfile \/ DropRoot \/ TestsLists \/ Scripts \/ Raw \/ LuaInit
    \/ BindQueue
    \/ Wake \/ RecvFails \/ ReloadStat \/ ReloadRead \/ PacketStat \/ PacketRead \/ Verdict
    \/ Hup \/ \E l \in Lists : Rewrite(l) \/ Restore(l) \/ Protect(l) \/ Hide(l)

Spec == Init /\ [][Next]_vars

-----------------------------------------------------------------------------
(* Properties.                                                             *)

\* The verdict on a packet is found with the lists as the files are, however
\* others rewrite them while they are read, unless the signature is that of
\* other content; and even then a SIGHUP has not been answered only if it came
\* while the lists were being read again, or is going to be at the next packet.
ListsAreCurrent ==
    pc = "verdict" => \A l \in Lists : mem[l] # was[l] =>
        /\ l \in twin
        /\ l \in signalled => l \in late \/ bReload

\* A reload ends the process only for a list that was changed since it started:
\* that its user can read them all has been tested before.
FatalIsEarned == pc = "fatal" => at \in touched

TypeOK ==
    /\ InLoop \/ Running \/ pc \in {"failed", "ended", "killed", "fatal"}
    /\ at \in Lists /\ {bReload, root, handles} \subseteq BOOLEAN
    /\ \A l \in Lists : disk[l] \in File
    /\ InLoop => handles /\ (Droproot => ~ root)

=============================================================================
