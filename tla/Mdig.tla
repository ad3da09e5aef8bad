-------------------------------- MODULE Mdig --------------------------------
(***************************************************************************)
(* mdig/mdig.c: threads that take names from standard input, resolve them, *)
(* and write addresses, logs and statistics.  One mutex (flock) is for all *)
(* streams and is held while a line is waited for; one (slock) is for the  *)
(* counters.  Lines are known by their number; Kind says what each is.     *)
(***************************************************************************)
EXTENDS Naturals, Sequences, FiniteSets

CONSTANTS
    NThread,        \* glob.threads
    Kind,           \* of the lines of the input, in order
    StatsEvery,     \* glob.stats_every, 0 is off
    LogsResolved,   \* there is a file for names resolved
    LogsFailed,     \* and one for names that were not
    MaxAddr         \* addresses a name may have (bound)

Thread == 1 .. NThread
LineNo == 1 .. Len(Kind)

\* An empty line, an address or subnet of the wanted family, one that is
\* malformed or of the other family or no valid name, and a name.
LineKind == {"empty", "address", "refused", "name"}

Free == 0

ASSUME MdigAssumption ==
    /\ NThread \in Nat \ {0} /\ StatsEvery \in Nat /\ MaxAddr \in Nat \ {0}
    /\ Kind \in Seq(LineKind)
    /\ LogsResolved \in BOOLEAN /\ LogsFailed \in BOOLEAN

VARIABLES
    main,      \* where the main thread is, and how many threads it started
    thr,       \* the threads
    flock,     \* holder of flock
    fed,       \* lines that whoever writes the input has written
    closed,    \* and whether the input was closed
    next,      \* lines taken
    out,       \* standard output: line and number of address, and as history
               \*   how many addresses there were to print for the line
    resolved, failed,        \* the two logs
    stats_ct, stats_ct_ok,   \* the counters
    reports,   \* statistics printed
    counted    \* history: the lines counted, in the order of the counting

mdig == <<main, thr, flock, fed, closed, next, out, resolved, failed,
          stats_ct, stats_ct_ok, reports, counted>>

Place == {"none", "get", "reading", "resolve", "print", "log", "count", "report", "ended"}

\* addr is the number of the next address to print, of count.
Task == [pc : Place, line : Nat, tries : Nat, addr : Nat, count : Nat, ok : BOOLEAN,
         ct : Nat, ct_ok : Nat]

NoTask == [pc |-> "none", line |-> 0, tries |-> 0, addr |-> 0, count |-> 0, ok |-> FALSE,
           ct |-> 0, ct_ok |-> 0]

MdigInit ==
    /\ main = [at |-> "create", made |-> 0]
    /\ thr = [t \in Thread |-> NoTask]
    /\ flock = Free
    /\ fed = 0 /\ closed = FALSE /\ next = 0
    /\ out = <<>> /\ resolved = <<>> /\ failed = <<>>
    /\ stats_ct = 0 /\ stats_ct_ok = 0
    /\ reports = <<>> /\ counted = <<>>

streams  == <<out, resolved, failed>>
counters == <<stats_ct, stats_ct_ok, counted>>
input    == <<fed, closed>>

\* Whoever is at the other end of the pipe.
Feed ==
    /\ ~ closed
    /\ \/ fed < Len(Kind) /\ fed' = fed + 1 /\ UNCHANGED closed
       \/ fed = Len(Kind) /\ closed' = TRUE /\ UNCHANGED fed
    /\ UNCHANGED <<main, thr, flock, next, streams, counters, reports>>

-----------------------------------------------------------------------------
(* The main thread: run_threads.                                           *)

\* One more thread; if it cannot be created, those there are do the work.
Create ==
    /\ main.at = "create"
    /\ \/ /\ main.made < NThread
          /\ main' = [main EXCEPT !.made = @ + 1]
          /\ thr' = [thr EXCEPT ![main.made + 1].pc = "get"]
       \/ main' = [main EXCEPT !.at = "join"] /\ UNCHANGED thr
    /\ UNCHANGED <<flock, input, next, streams, counters, reports>>

Started == 1 .. main.made

Join ==
    /\ main.at = "join"
    /\ \A t \in Started : thr[t].pc = "ended"
    /\ main' = [main EXCEPT !.at = "last"]
    /\ UNCHANGED <<thr, flock, input, next, streams, counters, reports>>

Report(r) == reports' = Append(reports, r)

\* The last report, when no other thread is left.
LastReport ==
    /\ main.at = "last" /\ flock = Free
    /\ main' = [main EXCEPT !.at = "done"]
    /\ IF StatsEvery > 0 THEN Report([ct |-> stats_ct, ok |-> stats_ct_ok])
       ELSE UNCHANGED reports
    /\ UNCHANGED <<thr, flock, input, next, streams, counters>>

Done == main.at = "done" /\ UNCHANGED mdig

-----------------------------------------------------------------------------
(* The threads: t_resolver.                                                *)

Goes(t, task) == thr' = [thr EXCEPT ![t] = task]

Mut_Lock_None(t) == flock' = flock

\* interlocked_get_dom takes the lock, and keeps it until a line comes.
Lock(t) == flock = Free /\ flock' = t

Get(t) ==
    /\ thr[t].pc = "get"
    /\ Lock(t)
    /\ Goes(t, [NoTask EXCEPT !.pc = "reading", !.line = next + 1])
    /\ UNCHANGED <<main, input, next, streams, counters, reports>>

\* What is done with a line before its result is written.
Begins(n) ==
    LET task == [NoTask EXCEPT !.line = n]
    IN  CASE Kind[n] = "empty"   -> [task EXCEPT !.pc = "count"]
          [] Kind[n] = "refused" -> [task EXCEPT !.pc = "log"]
          [] Kind[n] = "address" -> [task EXCEPT !.pc = "print", !.ok = TRUE, !.addr = 1, !.count = 1]
          [] Kind[n] = "name"    -> [task EXCEPT !.pc = "resolve"]

\* fgets returns, with a line or at the end of the input.
Fgets(t) ==
    /\ thr[t].pc = "reading"
    /\ \/ /\ next < fed
          /\ next' = next + 1
          /\ Goes(t, Begins(thr[t].line))
       \/ /\ closed /\ next = fed
          /\ Goes(t, [NoTask EXCEPT !.pc = "ended"])
          /\ UNCHANGED next
    /\ flock' = Free
    /\ UNCHANGED <<main, input, streams, counters, reports>>

RESOLVER_EAGAIN_ATTEMPTS == 2

Mut_Again_NoLimit(task) == [task EXCEPT !.tries = (@ + 1) % RESOLVER_EAGAIN_ATTEMPTS]

\* A temporary failure is tried again, the last one stays.
Again(task) ==
    IF task.tries + 1 < RESOLVER_EAGAIN_ATTEMPTS THEN [task EXCEPT !.tries = @ + 1]
    ELSE [task EXCEPT !.pc = "log"]

\* getaddrinfo: addresses, a failure, or a temporary one.
Resolve(t) ==
    /\ thr[t].pc = "resolve"
    /\ \/ \E n \in 1 .. MaxAddr :
             Goes(t, [thr[t] EXCEPT !.pc = "print", !.ok = TRUE, !.addr = 1, !.count = n])
       \/ Goes(t, [thr[t] EXCEPT !.pc = "log"])
       \/ Goes(t, Again(thr[t]))
    /\ UNCHANGED <<main, flock, input, next, streams, counters, reports>>

Mut_NoneLeft_First(task) == TRUE

\* The address at hand is the last of those that the resolver gave.
NoneLeft(task) == task.addr = task.count

\* print_addrinfo: each address under the lock, not all of them.
PrintAddrinfo(t) ==
    /\ thr[t].pc = "print" /\ flock = Free
    /\ out' = Append(out, <<thr[t].line, thr[t].addr, thr[t].count>>)
    /\ Goes(t, IF NoneLeft(thr[t]) THEN [thr[t] EXCEPT !.pc = "log"]
               ELSE [thr[t] EXCEPT !.addr = @ + 1])
    /\ UNCHANGED <<main, flock, input, next, resolved, failed, counters, reports>>

\* interlocked_fprintf to a log that may not be there.
Logs(log, on, line) ==
    IF on THEN flock = Free /\ log' = Append(log, line) ELSE UNCHANGED log

\* is_ok, which chooses the log.
IsOk(t) == thr[t].ok

LogName(t) ==
    /\ thr[t].pc = "log"
    /\ \/ IsOk(t) /\ Logs(resolved, LogsResolved, thr[t].line) /\ UNCHANGED failed
       \/ ~ IsOk(t) /\ Logs(failed, LogsFailed, thr[t].line) /\ UNCHANGED resolved
    /\ Goes(t, [thr[t] EXCEPT !.pc = "count"])
    /\ UNCHANGED <<main, flock, input, next, out, counters, reports>>

\* stat_plus, under slock; the report is printed after it.
Count(t) ==
    /\ thr[t].pc = "count"
    /\ \/ /\ StatsEvery = 0
          /\ Goes(t, [thr[t] EXCEPT !.pc = "get"])
          /\ UNCHANGED counters
       \/ /\ StatsEvery > 0
          /\ stats_ct' = stats_ct + 1
          /\ stats_ct_ok' = IF thr[t].ok THEN stats_ct_ok + 1 ELSE stats_ct_ok
          /\ counted' = Append(counted, thr[t].ok)
          /\ Goes(t, IF stats_ct' % StatsEvery # 0 THEN [thr[t] EXCEPT !.pc = "get"]
                     ELSE [thr[t] EXCEPT !.pc = "report", !.ct = stats_ct', !.ct_ok = stats_ct_ok'])
    /\ UNCHANGED <<main, flock, input, next, streams, reports>>

\* The pair that stat_plus took inside the lock.
Taken(t) == [ct |-> thr[t].ct, ok |-> thr[t].ct_ok]

PrintStat(t) ==
    /\ thr[t].pc = "report" /\ flock = Free
    /\ Report(Taken(t))
    /\ Goes(t, [thr[t] EXCEPT !.pc = "get"])
    /\ UNCHANGED <<main, flock, input, next, streams, counters>>

t_resolver(t) ==
    Get(t) \/ Fgets(t) \/ Resolve(t) \/ PrintAddrinfo(t) \/ LogName(t) \/ Count(t) \/ PrintStat(t)

MdigNext == Feed \/ Create \/ Join \/ LastReport \/ Done \/ \E t \in Thread : t_resolver(t)

\* The writer of the input writes all and closes; the system runs every
\* thread, and a mutex that is free often enough is got.
MdigSpec ==
    /\ MdigInit /\ [][MdigNext]_mdig
    /\ WF_mdig(Feed) /\ WF_mdig(Create) /\ WF_mdig(Join) /\ WF_mdig(LastReport)
    /\ \A t \in Thread : SF_mdig(t_resolver(t))

-----------------------------------------------------------------------------
(* Properties.                                                             *)

\* Types: a thread has one line, tries it twice at most, and has an address
\* to print only while there are some.
MdigTypes ==
    /\ main \in [at : {"create", "join", "last", "done"}, made : 0 .. NThread]
    /\ \A t \in Thread :
           /\ thr[t] \in Task
           /\ thr[t].line \in 0 .. Len(Kind) + 1
           /\ thr[t].tries < RESOLVER_EAGAIN_ATTEMPTS
           /\ thr[t].addr <= thr[t].count /\ thr[t].count <= MaxAddr
    /\ flock \in Thread \cup {Free}
    /\ next <= fed /\ fed <= Len(Kind)
    /\ stats_ct_ok <= stats_ct

Times(log, n) == Cardinality({i \in DOMAIN log : log[i] = n})

\* With both logs open every name of the input comes into one of them, once,
\* whichever threads take the lines and however often the resolver asks them
\* to come back; at the end none is missing, and all lines are counted.
EachLineOnce ==
    /\ \A n \in LineNo : Times(resolved, n) + Times(failed, n) <= 1
    /\ main.at = "done" /\ main.made > 0 =>
          /\ \A n \in LineNo :
                 Kind[n] # "empty" /\ LogsResolved /\ LogsFailed
                     => Times(resolved, n) + Times(failed, n) = 1
          /\ StatsEvery > 0 => stats_ct = Len(Kind)

\* Where an address of a name is on the output, and how many of them are there
\* up to a place.
Printed(n) == {i \in DOMAIN out : out[i][1] = n}
PrintedBy(i) == Cardinality({k \in Printed(out[i][1]) : k <= i})

\* Each of its addresses on the output is one of m.
OneOf(n, m) == \A i \in Printed(n) : out[i][3] = m

\* The addresses of a name come out in the resolver's order though other
\* names' may come between them, a name is logged as resolved when all of
\* them are out, and one with an address on the output is not logged as failed.
OutputMatchesLog ==
    /\ \A i \in DOMAIN out : out[i][2] = PrintedBy(i)
    /\ \A n \in LineNo :
          /\ Times(resolved, n) > 0 => Printed(n) # {} /\ OneOf(n, Cardinality(Printed(n)))
          /\ Times(failed, n) > 0 => Printed(n) = {}

\* Every report, in whatever order they are printed, tells of a moment: of
\* the names it says are done, as many as it says were resolved.
ReportsAreSnapshots ==
    \A i \in DOMAIN reports :
        reports[i].ok = Cardinality({k \in 1 .. reports[i].ct : counted[k]})

\* What a reader of any of the outputs is told is true of the others.
TotalsAreTrue == OutputMatchesLog /\ ReportsAreSnapshots

\* When the input ends the program ends: no thread stays at the lock, at the
\* resolver or in its logs.
Ends == <>(main.at = "done")

=============================================================================
