---------------------------- MODULE RelayUsageMC ----------------------------
(***************************************************************************)
(* RelayUsage for TLC.                                                     *)
(***************************************************************************)
EXTENDS RelayUsage, TLC

\* Sound for the safety runs only.
Symm == Permutations(Flushes)
=============================================================================
