----------------------------- MODULE MCFFSRefines -----------------------------
(***************************************************************************)
(* An instance of FFSRefines for TLC.                                      *)
(***************************************************************************)
EXTENDS FFSRefines

CONSTANTS v, w

\* Overwriting one file with the data of the other must be visible.
TwoBuffers == {<<v>>, <<w, v>>}

RWMode   == {{"READ", "WRITE"}}
Lengths2 == {2}
Offsets1 == {-1, 1}
=============================================================================
