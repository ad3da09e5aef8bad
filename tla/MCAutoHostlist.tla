-------------------------- MODULE MCAutoHostlist ---------------------------
(* Two profiles that fill one list, one of them with an exclusion.          *)
EXTENDS AutoHostlist, TLC
CONSTANTS auto, not, c1, c2, site, domain
MCSuffixes == (site :> {site, domain}) @@ (domain :> {domain})
MCL4 == (c1 :> "tcp") @@ (c2 :> "udp")
MCInclude == (0 :> <<>>) @@ (1 :> <<auto>>) @@ (2 :> <<auto>>)
MCExclude == (0 :> <<>>) @@ (1 :> <<not>>) @@ (2 :> <<>>)
MCAuto    == (0 :> NoFile) @@ (1 :> auto) @@ (2 :> auto)
MCFits == [l4 \in {"tcp", "udp"} |-> [l7 \in BOOLEAN |->
              IF l4 = "tcp" THEN {1} ELSE IF l7 THEN {2} ELSE {}]]
=============================================================================
