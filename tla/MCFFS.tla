-------------------------------- MODULE MCFFS --------------------------------
(***************************************************************************)
(* Instances of FFS for TLC.                                               *)
(***************************************************************************)
EXTENDS FFS, TLC

Symmetry == Permutations(Names)

WMode == {{"WRITE"}}
RWMode == {{"READ", "WRITE"}}
AllModes == SUBSET {"READ", "WRITE"}
RWModes == {{"READ"}, {"READ", "WRITE"}}

\* All write buffers of up to n clusters.
BuffersUpTo(n) == UNION {[1 .. k -> Vals] : k \in 0 .. n}

Buffers1 == BuffersUpTo(1)
Buffers2 == BuffersUpTo(2)

Lengths1 == {1}
Lengths2 == {0, 2}

\* Nothing is claimed of what follows once a rename has left a file two entries.
UntilTwin == "twin" \notin faults

Offsets0 == {1}
Offsets1 == {-1, 1}
Offsets2 == -2 .. 2
=============================================================================
