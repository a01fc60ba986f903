--------------------------- MODULE OrderedService ---------------------------
(***************************************************************************)
(* What a dApp is promised by the wallet's RPC window: every request that   *)
(* has been accepted is answered at most once, and the answers leave in the *)
(* order in which the requests came.                                        *)
(***************************************************************************)
EXTENDS Naturals, Sequences

VARIABLES
    arrived,    \* how many requests have been accepted; the n-th is request n
    answers     \* the requests that were answered, in the order of the answers

serviceVars == <<arrived, answers>>

ServiceInit ==
    /\ arrived = 0
    /\ answers = <<>>

Accept ==
    /\ arrived' = arrived + 1
    /\ UNCHANGED answers

Answer ==
    /\ Len(answers) < arrived
    /\ answers' = Append(answers, Len(answers) + 1)
    /\ UNCHANGED arrived

ServiceNext == Accept \/ Answer

ServiceSpec == ServiceInit /\ [][ServiceNext]_serviceVars
=============================================================================
