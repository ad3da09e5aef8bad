------------------------------ MODULE QuicReasm ------------------------------
(***************************************************************************)
(* A client's QUIC Initials held back until the ClientHello that is spread  *)
(* over them can be read: the UDP side of nfq2/desync.c, for one tracked    *)
(* connection.  Datagrams come in any order and as often as the client and  *)
(* the network please; the plain text of each is put behind that of those   *)
(* before it and the CRYPTO frames of all are put together (Quic).  Packets *)
(* are numbered as they arrive.                                             *)
(***************************************************************************)
EXTENDS Quic

CONSTANTS
    reasm_payload_disable,   \* reassembly of Initials is switched off
    Datagrams,               \* what the client sends: its chunks, and whether a
                             \* frame is in it that the defragmenter refuses
    Size,                    \* bytes of plain text in each
    HelloLen,                \* bytes of the hello
    MaxPackets               \* (bound)

\* A text is no longer than the buffer that QUICDecryptInitial is given.
ASSUME QuicReasmAssumption ==
    /\ reasm_payload_disable \in BOOLEAN
    /\ Datagrams \subseteq [chunks : Seq([off : Nat, len : Nat]), refused : BOOLEAN]
    /\ Size \in Nat \ {0} /\ UDP_MAX_REASM \in Nat /\ Size <= UDP_MAX_REASM
    /\ HelloLen \in Nat \ {0} /\ MaxPackets \in Nat

VARIABLES
    hello,       \* the stream is a ClientHello
    content,     \* reasm_client: the datagrams put together, none if it is empty
    delayed,     \* the packets held back
    arrived,     \* the packets that came
    out,         \* those that went on, in order
    gone,        \* those destroyed with the connection
    replayed     \* the chunks that were replayed as a whole hello

vars == <<hello, content, delayed, arrived, out, gone, replayed>>

Init ==
    /\ hello \in BOOLEAN
    /\ content = <<>> /\ delayed = <<>> /\ arrived = 0 /\ out = <<>> /\ gone = {}
    /\ replayed = <<>>

Open == content # <<>>

\* ReasmHasSpace
Mut_HasSpace_Always(n) == TRUE

HasSpace(n) == n * Size <= UDP_MAX_REASM

Chunks(ds) == FlattenSeq([i \in DOMAIN ds |-> ds[i].chunks])

\* QUICDefragCrypto gives something.
Defrags(ds) ==
    /\ \A i \in DOMAIN ds : ~ ds[i].refused
    /\ Len(Chunks(ds)) \in 1 .. MAX_DEFRAG_PIECES
    /\ Reach(Chunks(ds)) <= UDP_MAX_REASM - HeaderSize

\* IsTLSHandshakeFull of what was put together, if it is a hello.
ReqFull(ds) == hello /\ Reach(Chunks(ds)) >= HelloLen

-----------------------------------------------------------------------------
(* What becomes of the next packet.                                        *)

Mut_Cancel_KeepsQueue ==
    /\ content' = <<>>
    /\ out' = Append(out, arrived + 1)
    /\ UNCHANGED <<delayed, hello, gone, replayed>>

\* reasm_client_cancel: what is held goes on, then the packet itself.
Cancel ==
    /\ content' = <<>> /\ delayed' = <<>>
    /\ out' = out \o Append(delayed, arrived + 1)
    /\ UNCHANGED <<hello, gone, replayed>>

\* The packet waits, in a session that begins with it if there is none.
Hold(ds) ==
    /\ content' = ds
    /\ delayed' = Append(delayed, arrived + 1)
    /\ UNCHANGED <<hello, out, gone, replayed>>

\* replay_queue, reasm_client_fin: the packets are played again with the text
\* of all of them, the last is one of them.
Complete(ds) ==
    /\ content' = <<>> /\ delayed' = <<>>
    /\ out' = out \o Append(delayed, arrived + 1)
    /\ replayed' = Chunks(ds)
    /\ UNCHANGED <<hello, gone>>

\* ds is the text of the packet behind that of those held.
Assemble(ds) ==
    LET full == Full(Chunks(ds))
        fits == ~ Open \/ HasSpace(Len(ds))
        holds == ~ reasm_payload_disable /\ fits /\ Defrags(ds)
                 /\ (~ full \/ Open \/ (hello /\ ~ ReqFull(ds)))
    IN  \/ holds /\ full /\ ReqFull(ds) /\ Complete(ds)
        \/ holds /\ ~ (full /\ ReqFull(ds)) /\ Hold(ds)
        \/ ~ holds /\ Cancel

\* An Initial of the client that opens with its keys.
Initial == \E d \in Datagrams : Assemble(Append(content, d))

\* An Initial that does not, another payload of the client, or a payload of
\* the server.
OtherPayload == Cancel

Packet ==
    /\ arrived < MaxPackets
    /\ arrived' = arrived + 1
    /\ (Initial \/ OtherPayload)

\* The connection is dropped from the tracker and takes the packets along.
Drop ==
    /\ delayed # <<>>
    /\ gone' = gone \cup {delayed[i] : i \in DOMAIN delayed}
    /\ content' = <<>> /\ delayed' = <<>>
    /\ UNCHANGED <<hello, arrived, out, replayed>>

Next == Packet \/ Drop
Spec == Init /\ [][Next]_vars

-----------------------------------------------------------------------------
TypeOK ==
    /\ hello \in BOOLEAN /\ arrived \in 0 .. MaxPackets
    /\ content \in Seq(Datagrams) /\ replayed \in Seq([off : Nat, len : Nat])
    /\ delayed \in Seq(1 .. arrived) /\ out \in Seq(1 .. arrived) /\ gone \subseteq 1 .. arrived

\* Holding Initials delays packets and does nothing else to them: none is lost,
\* sent twice or overtaken by another of its connection.
Line == INSTANCE DelayLine WITH held <- delayed, left <- out, forgotten <- gone
IsDelayLine == Line!LineSpec

\* What is played again as a whole hello has every byte of it, from the first.
ReplayedIsWhole ==
    replayed # <<>> =>
        \A k \in 0 .. HelloLen - 1 :
            \E i \in DOMAIN replayed : k >= replayed[i].off /\ k < End(replayed[i])

\* The datagrams cover the hello, and no byte of it twice.
Tile(ds) ==
    LET c == Chunks(ds)
    IN  \A k \in 0 .. HelloLen - 1 :
            Cardinality({i \in DOMAIN c : k >= c[i].off /\ k < End(c[i])}) = 1

\* A hello whose parts have all come, each once and in whatever order, with
\* whatever order of chunks in them, is seen when the last has come: it does
\* not wait.
FlightIsSeen == hello /\ Open => ~ Tile(content)

\* A client that is not answered and goes on sending is heard: a packet does
\* not see more datagrams come than the buffer takes while it waits.
HeardInTheEnd == \A i \in DOMAIN delayed : (arrived - delayed[i] + 1) * Size <= UDP_MAX_REASM

=============================================================================
