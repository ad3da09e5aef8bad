---------------------------- MODULE MCConntrack ----------------------------
(* The pool on two endpoints: every interleaving of handshakes, payloads,  *)
(* datagrams, restarts, idle time and clock steps, on either tuple.        *)
EXTENDS Conntrack, TLC, FiniteSetsExt
MCSymmetry == Permutations(Endpoint) \cup Permutations(Host)

CONSTANT MaxPool    \* packets counted in all tracks together, past which
                    \*   nothing follows (bound)

VARIABLES
    set_back,         \* whether the clock was ever set back: a bound on idle
                      \*   time is for clocks that were not
    told              \* per track, the names that its connection was told
                      \*   since it began: by the cache, by its payloads

MCVars == <<vars, set_back, told>>

\* A connection begins with the first packet on a tuple that has no track, and
\* with a handshake on one that has.
Begins(c, p) == c \notin Survivors \/ Restarts(pool[c], p)

FirstOf(a, b) == IF a # NoHost THEN a ELSE b

\* Only what comes from the client tells a name of the server: the first
\* packet what the cache has, the first payload with a name that one.
Tells(c, p) ==
    LET mine(name) == IF p.conn = c THEN name ELSE NoHost
    IN  IF Begins(c, p) THEN [cache |-> mine(p.cached), payload |-> mine(p.host)]
        ELSE [told[c] EXCEPT !.payload = FirstOf(@, mine(p.host))]

Telling(p) ==
    told' = [c \in DOMAIN pool' |->
                IF c \in {p.conn, Swap(p.conn)} THEN Tells(c, p) ELSE told[c]]

MCInit == Init /\ set_back = FALSE /\ told = pool
Handle == (\E p \in Packet : HandlePacket(p) /\ Telling(p)) /\ UNCHANGED set_back
Advance == Tick /\ UNCHANGED <<set_back, told>>
SetBack == SetClock /\ set_back' = TRUE /\ UNCHANGED told
MCNext == Handle \/ Advance \/ SetBack
MCSpec == MCInit /\ [][MCNext]_MCVars

Within == MapThenSumSet(LAMBDA c : pool[c].client.pcounter + pool[c].server.pcounter, DOMAIN pool) <= MaxPool

(* What a connection learnt does not outlive it on its tuple: the host     *)
(* name of a track is the first one that the client's payloads told since  *)
(* the connection began, else what the IP cache said when it did, and in a *)
(* handshake only the latter (ConntrackReInitTrack, dp_search_complete and *)
(* hostname_discovered of nfq2/desync.c).                                  *)
HandshakeForgets ==
    \A c \in DOMAIN pool :
        /\ pool[c].hostname = FirstOf(told[c].payload, told[c].cache)
        /\ c.l4proto = "tcp" /\ pool[c].state = "SYN" => told[c].payload = NoHost

(* While the clock only advances, a track that a packet leaves in the pool *)
(* has been idle for less than its timeout plus one purge interval         *)
(* (ConntrackPoolPurge): rate limiting delays a purge, it forgets none.    *)
IdleIsBounded == [][~ set_back' => IdleWithin]_MCVars
=============================================================================
