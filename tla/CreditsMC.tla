----------------------------- MODULE CreditsMC ------------------------------
(***************************************************************************)
(* Credits for TLC.                                                        *)
(***************************************************************************)
EXTENDS Credits, TLC

\* Sound for the safety runs only.
Symm == Permutations(Workers) \cup Permutations(Requests)
=============================================================================
