-------------------------- MODULE MC_Authentication --------------------------
(***************************************************************************)
(* An account with a second factor, one without, and a new user, on a page *)
(* where one call of a screen runs beside the services of the machine.     *)
(***************************************************************************)
EXTENDS Authentication

CONSTANTS ann, ben, new, c1

Everyone == {ann, ben, new}
HaveAccounts == {ann, ben}
HaveSecondFactor == {ann}
OneCall == {c1}

=============================================================================
