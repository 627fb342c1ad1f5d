---------------------------- MODULE MCTitleLists ----------------------------
(***************************************************************************)
(* The installer for TLC, next to clients that ask for lists of titles.    *)
(***************************************************************************)
EXTENDS TitleLists, MCESImport

\* A game, an update of it with the same shared content, and a title of which two
\* contents have the same data.
Game   == TMD(game, <<Private(c1, h1), Shared(c2, h2)>>)
Update == TMD(game, <<Private(c1, h1), Optional(Private(c2, h3)), Shared(c3, h2)>>)
Menu   == TMD(menu, <<Shared(c2, h3), Shared(c3, h3), Private(c1, h2)>>)

InstallTmds == {Game, Update, Menu}
InstallJobs == <<Game, Menu, Update>>

\* The imports are of the kind ES is written for.
ASSUME OrdinaryJobs == IdNamesData /\ Ordinary
=============================================================================
