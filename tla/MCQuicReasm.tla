---------------------------- MODULE MCQuicReasm ----------------------------
(* A hello of six bytes, in two cuts of it into datagrams; one datagram    *)
(* with an ACK frame, and room for three at a time.                        *)
EXTENDS QuicReasm

D(chunks) == [chunks |-> chunks, refused |-> FALSE]
C(off, len) == [off |-> off, len |-> len]

Sent == {D(<<C(4, 2), C(0, 1)>>), D(<<C(1, 3)>>), D(<<C(0, 3)>>), D(<<C(3, 3)>>), D(<<>>),
         D(<<C(0, 6)>>), D(<<C(4, 2)>>), [chunks |-> <<C(0, 3)>>, refused |-> TRUE]}
=============================================================================
