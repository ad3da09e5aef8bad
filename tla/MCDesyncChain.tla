--------------------------- MODULE MCDesyncChain ---------------------------
(* Three profiles: a plan with a splitter in it, two splitters that share   *)
(* the replay flag, and ranges that end.                                    *)
EXTENDS DesyncChain
Any == [mode |-> "a", pos |-> 0]
Never == [mode |-> "x", pos |-> 0]
UpTo(m, n) == [mode |-> m, pos |-> n]
Make(kind, payload, in, out) ==
    [kind |-> kind, nodrop |-> FALSE, payload |-> payload, upper |-> FALSE,
     from |-> [in |-> Any, out |-> Any], to |-> [in |-> in, out |-> out]]
Split    == Make("split", {"hello"}, Any, Any)
Copy     == [Split EXCEPT !.nodrop = TRUE]
MCChain == << <<Make("orchestrator", Payload, Any, Any), Make("once", {"empty", "hello"}, Any, Any),
                Split>>,
              <<Split, Make("once", {"hello", "reply"}, Any, UpTo("d", 1)), Copy,
                Make("risky", {"hello"}, Never, Any)>>,
              <<Make("condition", Payload, Never, UpTo("n", 2)),
                [Make("once", {"empty", "unknown"}, Never, UpTo("n", 2)) EXCEPT !.upper = TRUE]>> >>
MCChainCopy == << <<Copy, Split>> >>
=============================================================================
