----------------------------- MODULE DelayLine ------------------------------
(***************************************************************************)
(* What delaying packets promises to the connection they belong to.        *)
(* Packets are numbered as they arrive.  Each may be held back for a while, *)
(* but all leave, or are forgotten with the connection, once and in the    *)
(* order in which they came.                                               *)
(***************************************************************************)
EXTENDS Naturals, Sequences

VARIABLES
    arrived,          \* number of packets that have come
    held,             \* the packets held back, in order
    left,             \* the packets that went on, in order
    forgotten         \* packets destroyed together with their connection

lineVars == <<arrived, held, left, forgotten>>

LineInit == arrived = 0 /\ held = <<>> /\ left = <<>> /\ forgotten = {}

\* The next packet joins those held.
Keep == /\ arrived' = arrived + 1
        /\ held' = Append(held, arrived + 1)
        /\ UNCHANGED <<left, forgotten>>

\* The next packet goes on, after all that were held.
Release == /\ arrived' = arrived + 1
           /\ left' = left \o Append(held, arrived + 1)
           /\ held' = <<>>
           /\ UNCHANGED forgotten

\* Those held go on, the next packet is held.
Renew == /\ arrived' = arrived + 1
         /\ left' = left \o held
         /\ held' = <<arrived + 1>>
         /\ UNCHANGED forgotten

Forget == /\ forgotten' = forgotten \cup {held[i] : i \in 1 .. Len(held)}
          /\ held' = <<>>
          /\ UNCHANGED <<arrived, left>>

LineNext == Keep \/ Release \/ Renew \/ Forget

LineSpec == LineInit /\ [][LineNext]_lineVars

-----------------------------------------------------------------------------
Increasing(s) == \A i, j \in 1 .. Len(s) : i < j => s[i] < s[j]

(* Packets go on, and wait, in the order in which they came, and none that *)
(* waits came before one that went on.                                     *)
InOrder == /\ Increasing(left) /\ Increasing(held)
           /\ \A i \in 1 .. Len(left), j \in 1 .. Len(held) : left[i] < held[j]

(* Every packet that came went on, waits or was forgotten: none is lost by *)
(* the delay.                                                              *)
NoneLost == \A n \in 1 .. arrived :
                \/ \E i \in 1 .. Len(left) : left[i] = n
                \/ \E i \in 1 .. Len(held) : held[i] = n
                \/ n \in forgotten
=============================================================================
