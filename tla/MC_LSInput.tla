---------------------------- MODULE MC_LSInput ----------------------------
(* Model-checking instance of LSInput: two children with stdin channels. *)
EXTENDS LSInput

CONSTANTS p1, p2

MC_Procs == {p1, p2}
MC_Readers == {p1, p2}
\* Only p1 reads its stdin; p2 never does.
MC_OneReader == {p1}
=============================================================================
