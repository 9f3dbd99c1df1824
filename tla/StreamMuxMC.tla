---------------------------- MODULE StreamMuxMC ----------------------------
(***************************************************************************)
(* StreamMux for TLC: two requests, so that one stream can disturb the     *)
(* other and so that a second tunnel hands out the first one's ids again.  *)
(***************************************************************************)
EXTENDS StreamMux, TLC

\* Sound for the safety runs only.
Symm == Permutations(Reqs)
=============================================================================
