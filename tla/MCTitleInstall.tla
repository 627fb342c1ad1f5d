---------------------------- MODULE MCTitleInstall ----------------------------
(***************************************************************************)
(* The installer for TLC, with a title of which all contents are there.    *)
(***************************************************************************)
EXTENDS TitleInstall, MCESImport

Known     == TMD(game, <<Shared(c1, h0)>>)
KnownTmds == {Known}
KnownJobs == <<Known>>
=============================================================================
