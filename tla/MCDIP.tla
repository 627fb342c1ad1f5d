-------------------------------- MODULE MCDIP --------------------------------
(***************************************************************************)
(* Games and discs for TLC.                                                *)
(***************************************************************************)
EXTENDS DIP

CONSTANTS wii, wii2, gc, opening, data

File(n, o, l) == [name |-> n, off |-> o, len |-> l]

\* The files of the games overlap; that of wii has a gap.
MCFST == [g \in Games |->
  CASE g = wii  -> <<File(opening, 0, 1), File(data, 2, 2)>>
    [] g = wii2 -> <<File(data, 0, 2), File(opening, 2, 1)>>
    [] OTHER    -> <<File(data, 1, 1), File(opening, 3, 1)>>]

SizeOf(g, n) == LET k == CHOOSE k \in DOMAIN MCFST[g] : MCFST[g][k].name = n
                IN  MCFST[g][k].len
MCSize == [g \in Games |-> [n \in Names |-> SizeOf(g, n)]]

MCDisc == [g \in Games |-> IF g = gc THEN "DOL" ELSE "REV"]

Dir(u, s) == [usb |-> u, sd |-> s]

MCDirs == {Dir(<<wii>>, <<gc>>), Dir(<<wii, wii2>>, <<>>), Dir(<<>>, <<>>)}
UsbDirs == {Dir(<<wii, wii2>>, <<>>)}
=============================================================================
