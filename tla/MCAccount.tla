----------------------------- MODULE MCAccount -----------------------------
(* The instance of Account that TLC checks. *)
EXTENDS Account, TLC

CONSTANTS asked, askedAgain, first, second

MCRequest == {asked, askedAgain}
MCConfirmation == {first, second}
Symmetry == Permutations(MCRequest) \cup Permutations(MCConfirmation)
=============================================================================
