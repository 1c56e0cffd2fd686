---------------------------- MODULE MC_LaunchArgs ----------------------------
(* The launcher front end for TLC: text of up to four characters, names   *)
(* of at most three characters with labels of at most two, so that both   *)
(* length limits, the empty name and the trailing dot all occur.           *)
EXTENDS LaunchArgs

\* -N values: one the validator refuses, and the default 0 (all nodes).
MCNodeIn == {-1, 0}

=============================================================================
