---------------------------- MODULE MCFunctions ----------------------------
(* The pure functions of the program.  Each scene is an input that is set   *)
(* up once, by one of the actions, and judged where it is: what the code    *)
(* computes from it is compared with what it should.  A command line grows, *)
(* an option at a time.                                                     *)
EXTENDS MessageScenes, DatagramScenes, PacketScenes, ListScenes, ConfigScenes

Widths == [ip4 |-> 2, ip6 |-> 2]
Bits2(n) == <<n \div 2, n % 2>>
CidrLine(f, n, len) == [is |-> f, addr |-> Bits2(n), len |-> len]
ListLines == {CidrLine("ip4", n, len) : n \in 0 .. 3, len \in {NoLen, 0, 1, 3}}
             \cup {[is |-> "comment"], [is |-> "bad"], CidrLine("ip6", 2, 1)}
ListContents == {<<>>, <<CidrLine("ip4", 0, 1)>>, <<CidrLine("ip4", 3, NoLen)>>}
Sizes == [d |-> 8]
OptionCounts == [profiles |-> 6, instances |-> 4, lists |-> 4, ports |-> 4, numbers |-> 2]

Next ==
    \/ HelloCut \/ RequestCut \/ ReplyTo \/ Fake
    \/ Sealing \/ Cutting \/ Probing \/ DnsReply \/ Rebuild \/ Fragment
    \/ Fields \/ Sums \/ Sort \/ Group \/ Load \/ Reload
    \/ CommandLine \/ More
Spec == Init /\ [][Next]_scene

-----------------------------------------------------------------------------
(* What is said of the parts of one subject, together.                     *)

\* Whole or cut, a message of TLS or HTTP yields its host and the positions in
\* it, a redirect is told from a reply, and a fake hello stays one (the parsers
\* and tls_mod of nfq2/protocol.c).
MessagesAreRead == HelloHost /\ MarkersFrameHost /\ RedirectIsToAnother /\ FakeStaysWhole

\* A sealed QUIC initial is opened and its hello put together from pieces
\* (QUICDecryptInitial, QUICDefragCrypto); other datagrams are told apart by the
\* probes, and answers of the name system are read to the last address.
DatagramsAreRead == InitialIsRead /\ DefragIsStream /\ EachByItsName /\ AnswerIsRead

\* A packet survives its way through a script's tables, and its fragments join
\* to it (lua_reconstruct_dissect, ipfrag2).
PacketArrives == PacketSurvives /\ FragmentsRejoin

\* The numbers of scripts: words of bits and sums that wrap (nfq2/lua.c).
NumbersHold == FieldsHold /\ SumsWrap

\* A command line yields the profiles it writes, with the ports they name and
\* lists of their own (main of nfq2/nfqws.c).
OptionsAreMeant == ProfilesAreAsWritten /\ PortsDecide /\ ListsAreOwn

=============================================================================
