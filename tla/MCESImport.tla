------------------------------ MODULE MCESImport ------------------------------
(***************************************************************************)
(* Titles and contents for TLC; clients that call ES in any order.         *)
(***************************************************************************)
EXTENDS ESImport

CONSTANTS menu, game, c1, c2, c3, h0, h1, h2, h3

Private(c, h) == [id |-> c, hash |-> h, shared |-> FALSE, optional |-> FALSE]
Shared(c, h)  == [id |-> c, hash |-> h, shared |-> TRUE, optional |-> FALSE]
Optional(d)   == [d EXCEPT !.optional = TRUE]
TMD(t, s)     == [title |-> t, contents |-> s]

\* A title of one shared content, and one of a content of its own.
Lone == TMD(menu, <<Shared(c1, h1)>>)
Solo == TMD(menu, <<Private(c1, h1)>>)

LoneTmds == {Lone, Solo}

Map0 == <<h0>>
Uid0 == <<menu>>
NoMap == <<>>
=============================================================================
