----------------------------- MODULE MC_AuthState -----------------------------
(***************************************************************************)
(* One page or two of a browser, and the sign-ins of one user or two.      *)
(***************************************************************************)
EXTENDS AuthState

CONSTANTS p1, p2, ann, ben

TwoPages == {p1, p2}
OnePage == {p1}
OneUser == {ann}
TwoUsers == {ann, ben}

\* Of the kinds of sign-in: a passkey, and the devices of an anchor.
Passkey == [device |-> TRUE, first |-> FALSE]
Anchor == [device |-> FALSE, first |-> TRUE]
TwoFlows == {Passkey, Anchor}

=============================================================================
