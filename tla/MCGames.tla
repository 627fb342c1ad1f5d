------------------------------- MODULE MCGames --------------------------------
(***************************************************************************)
(* The games: their list and their files in DI (DIP), the drive that shows *)
(* them (DIDrive), and the menu of ES that selects them (SMenu).  In a     *)
(* behaviour only one of the three moves.                                  *)
(***************************************************************************)
EXTENDS MCDIP, DIDrive, SMenu

ASSUME GamesHypotheses == GamesOnce /\ FirstBoots /\ SDHasGC /\ FilesApart

VARIABLE moving
gamesvars == <<moving, vars, drivevars, smvars>>

\* A Wii disc and a GameCube disc with areas of other sizes.
SomeLayout == <<
  [type |-> "REV", app |-> 1, dol |-> 5, fst |-> 7, fstsize |-> 1, end |-> 12, part |-> 10],
  [type |-> "DOL", app |-> 3, dol |-> 7, fst |-> 8, fstsize |-> 2, end |-> 12, part |-> 10]>>

\* Single buttons, and pairs of which one is looked at first.
Keys == {"START", "B", "X", "Y", "Z", "HOME", "A", "UP", "DOWN", "LEFT", "RIGHT"}
SomePresses ==
  {{k} : k \in Keys}
  \cup {{"X", "A"}, {"A", "DOWN"}, {"A", "RIGHT"}, {"B", "START"}, {"Z", "HOME"}}

DriveRests == DriveInit /\ GamePath = 1
MenuRests ==
  /\ menu = [ShowMenu |-> FALSE, MenuType |-> GamesMenu, SLock |-> FALSE, usb |-> FALSE]
  /\ cursor = Top /\ cover = NoCover
  /\ saved = [count |-> NumGames, covers |-> FALSE, patch |-> CHOOSE p \in Patches : TRUE]
  /\ MenuCfg = saved
  /\ force = FALSE /\ reinsert = FALSE /\ saving = FALSE
  /\ patched = saved.patch /\ fresh = FALSE
GamesRest == Init /\ base = "UNEEK" /\ dir = CHOOSE d \in Dirs : TRUE

GamesInit ==
  /\ moving \in {"games", "drive", "menu"}
  /\ IF moving = "games" THEN Init ELSE GamesRest
  /\ IF moving = "drive" THEN DriveInit ELSE DriveRests
  /\ IF moving = "menu" THEN SMInit ELSE MenuRests

GamesNext ==
  /\ UNCHANGED moving
  /\ IF moving = "games" THEN Next ELSE UNCHANGED vars
  /\ IF moving = "drive" THEN DriveNext ELSE UNCHANGED drivevars
  /\ IF moving = "menu" THEN SMNext ELSE UNCHANGED smvars

GamesSpec == GamesInit /\ [][GamesNext]_gamesvars
===============================================================================
