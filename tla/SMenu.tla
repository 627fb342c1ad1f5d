--------------------------------- MODULE SMenu ---------------------------------
(***************************************************************************)
(* The menu drawn over the System Menu (es/SMenu.c).  A timer has ES look  *)
(* at the pad: what is pressed moves the cursor, changes ES's copy of DI's *)
(* settings, selects a game or launches a channel.  The copy is read again *)
(* each time the menu is opened, and written by "save config", after the   *)
(* game was selected again if a setting that patches it was changed.  The  *)
(* game's files are patched when the PowerPC next reads them, which may be *)
(* before the settings are written.                                        *)
(*                                                                         *)
(* Left out: what is drawn, the contents of the picture viewer, and every  *)
(* setting but those a property tells apart: the ones that patch the game  *)
(* are one value, the ones that nothing here depends on have none.         *)
(***************************************************************************)
EXTENDS Naturals, FiniteSets

CONSTANTS
  NumGames, NumChannels, \* what is installed
  CoverRows, PlainRows,  \* rows of a list with covers (8) and without (20)
  Pictured,              \* the entries of the lists that have a cover
  Patches,               \* values of the settings that patch a game
  Presses                \* the sets of buttons that may be down at once

ASSUME SMenuAssumption ==
  /\ NumGames \in Nat /\ NumChannels \in Nat
  /\ CoverRows \in Nat \ {0} /\ PlainRows \in Nat \ {0}
  /\ Patches \subseteq Nat \ {0}
  /\ Presses \subseteq SUBSET {"START", "B", "X", "Y", "Z", "HOME", "A", "UP", "DOWN",
                               "LEFT", "RIGHT"}

GamesMenu == 0
Settings == 1
Dumping == 2
Picture == 3
Channels == 4
DML == 5

VARIABLES
  menu,     \* ShowMenu, MenuType, SLock
  cursor,   \* PosX and ScrollX
  cover,    \* curDVDCover: the list and the entry it belongs to, or NoCover
  MenuCfg,  \* DICfg: ES's copy of the head of diconfig.bin
  saved,    \* diconfig.bin
  force,    \* VideoMode of DML's settings forces a mode
  reinsert, \* DVDReinsertDisc
  saving,   \* the game was selected again and the settings are not written yet
  patched,  \* what the game was patched by, Overtaken when that was while saving
  fresh     \* the game was selected and has not been read since

smvars == <<menu, cursor, cover, MenuCfg, saved, force, reinsert, saving, patched, fresh>>

NoCover == [list |-> GamesMenu, entry |-> 0, is |-> FALSE]
Overtaken == 0
Top == [PosX |-> 0, ScrollX |-> 0]
Entry == cursor.PosX + cursor.ScrollX

-----------------------------------------------------------------------------
(***************************************************************************)
(* Covers and lists.  A step works on the state m the steps before it left.*)
(***************************************************************************)
Count(m) == IF m.type = Channels THEN NumChannels ELSE m.cfg.count
EntryCount(m) == IF m.cfg.covers THEN CoverRows ELSE PlainRows
Freed(m) == [m EXCEPT !.cover = NoCover]

LoadDVDCover(m) ==
  LET e == m.pos + m.scroll
  IN  [m EXCEPT !.cover = IF e < m.cfg.count /\ e \in Pictured
                          THEN [list |-> GamesMenu, entry |-> e, is |-> TRUE] ELSE NoCover]
LoadChannelCover(m) ==
  LET e == m.pos + m.scroll
  IN  [m EXCEPT !.cover = IF e < NumChannels /\ e \in Pictured
                          THEN [list |-> Channels, entry |-> e, is |-> TRUE] ELSE NoCover]

Load(m) == IF m.type = Channels THEN LoadChannelCover(m) ELSE LoadDVDCover(m)
Reload(m) == IF m.cfg.covers THEN Load(m) ELSE m
Locked(m) == [m EXCEPT !.lock = TRUE]
Home(m) == [m EXCEPT !.pos = 0, !.scroll = 0]

\* A menu is entered at its top, without a cover.
Enter(m, type) == Locked(Home(Freed([m EXCEPT !.type = type])))

Page(m) == (m.scroll \div EntryCount(m)) * EntryCount(m)

Up(m) == IF m.pos > 0 THEN [m EXCEPT !.pos = @ - 1]
         ELSE IF m.scroll > 0 THEN [m EXCEPT !.scroll = @ - 1] ELSE m
Down(m) == IF m.pos + m.scroll + 1 >= Count(m) THEN m
           ELSE IF m.pos >= EntryCount(m) - 1 THEN [m EXCEPT !.scroll = @ + 1]
           ELSE [m EXCEPT !.pos = @ + 1]
PageDown(m) == [Home(m) EXCEPT !.scroll = IF Page(m) + EntryCount(m) < Count(m)
                                          THEN Page(m) + EntryCount(m) ELSE 0]
PageUp(m) == [Home(m) EXCEPT !.scroll = IF Page(m) > EntryCount(m)
                                        THEN m.scroll - EntryCount(m) ELSE 0]

\* Mutants of Moved: the last entry is not looked for; a new page keeps the cover.
Moved_past(m, keys) ==
  IF "DOWN" \in keys /\ m.pos < 7 THEN Locked(Reload([m EXCEPT !.pos = @ + 1])) ELSE m
Moved_stale(m, keys) ==
  IF "DOWN" \in keys THEN Locked(Reload(Down(m)))
  ELSE IF "RIGHT" \in keys THEN Locked(PageDown(m)) ELSE m

\* The entry before, the one after, a page on, a page back, in either list.
Moved(m, keys) ==
  IF "UP" \in keys THEN Locked(IF Up(m) = m THEN m ELSE Reload(Up(m)))
  ELSE IF "DOWN" \in keys THEN Locked(IF Down(m) = m THEN m ELSE Reload(Down(m)))
  ELSE IF "RIGHT" \in keys THEN Locked(Reload(PageDown(m)))
  ELSE IF "LEFT" \in keys THEN Locked(Reload(PageUp(m))) ELSE m

\* A launches the channel, and nothing else is looked at.
ChannelList(m, keys) ==
  IF "A" \in keys THEN [Locked(Freed(m)) EXCEPT !.show = FALSE, !.launch = TRUE]
  ELSE Moved(m, keys)

\* A selects the game; the menu closes, and the other buttons still count.
MenuSelect(m) == [m EXCEPT !.fresh = TRUE]
GameList(m, keys) ==
  Moved(IF "A" \in keys THEN Locked([Freed(MenuSelect(m)) EXCEPT !.show = FALSE]) ELSE m,
        keys)

-----------------------------------------------------------------------------
(***************************************************************************)
(* The settings.  p is the value a patch setting is changed to.            *)
(***************************************************************************)
PatchRows == (0 .. 3) \cup (8 .. 10) \cup {12}
CoverRow == 6

SettingChanged(m, p) ==
  IF m.pos \in PatchRows THEN [m EXCEPT !.cfg.patch = p, !.reinsert = TRUE]
  ELSE IF m.pos = CoverRow THEN [m EXCEPT !.cfg.covers = ~ @] ELSE m

\* RIGHT and LEFT change the same settings.
SettingTurned(m, p) == IF m.pos <= 12 THEN SettingChanged(m, p) ELSE m

\* Rows 14 and 12 of the two menus: select the game again, then write the settings.
\* Mutant of Save: the game is not selected again.
Save_only(m) == [m EXCEPT !.saved = m.cfg, !.reinsert = FALSE]
Save(m) ==
  IF m.reinsert THEN [MenuSelect(m) EXCEPT !.saving = TRUE]
  ELSE [m EXCEPT !.saved = m.cfg]

\* Row 15: the list is to be made again, at the start that follows.
Recreate(m) ==
  [m EXCEPT !.cfg.count = 0, !.saved = [m.cfg EXCEPT !.count = 0], !.launch = TRUE]
SettingRow(m, p) ==
  IF m.pos = 14 THEN Save(m) ELSE IF m.pos = 15 THEN Recreate(m)
  ELSE IF m.pos = 16 THEN [m EXCEPT !.launch = TRUE] ELSE SettingChanged(m, p)

\* Row 13 is blank; the last row is there with FS on USB.
LastRow(m) == IF m.usb THEN 16 ELSE 15
SettingMoves(m, keys) ==
  IF "UP" \in keys
  THEN Locked([m EXCEPT !.pos = IF @ = 0 THEN LastRow(m) ELSE IF @ = 14 THEN 12 ELSE @ - 1])
  ELSE IF "DOWN" \in keys
  THEN Locked([m EXCEPT !.pos = IF @ >= LastRow(m) THEN 0 ELSE IF @ = 12 THEN 14 ELSE @ + 1])
  ELSE m

SettingsMenu(m, keys, p) ==
  LET a == IF "A" \in keys THEN Locked(SettingRow(m, p)) ELSE m
      b == SettingMoves(a, keys)
  IN  IF keys \cap {"RIGHT", "LEFT"} # {} THEN Locked(SettingTurned(b, p)) ELSE b

-----------------------------------------------------------------------------
(***************************************************************************)
(* The settings of DML.  Rows 8 and 11 are blank; row 10, the mode to      *)
(* force, is there when one is.                                            *)
(***************************************************************************)
DMLRow(m, v) ==
  IF m.pos = 9 THEN [m EXCEPT !.force = v]
  ELSE IF m.pos = 12 THEN Save(m)
  ELSE IF m.pos = 13 THEN [m EXCEPT !.launch = TRUE] ELSE m

DMLMoves(m, keys) ==
  LET up == IF m.pos = 0 THEN 13 ELSE IF m.pos = 9 THEN 7
            ELSE IF m.pos = 12 THEN IF m.force THEN 10 ELSE 9 ELSE m.pos - 1
      down == IF m.pos >= 13 THEN 0 ELSE IF m.pos = 7 THEN 9
              ELSE IF m.pos = 10 \/ (m.pos = 9 /\ ~ m.force) THEN 12 ELSE m.pos + 1
  IN  IF "UP" \in keys THEN Locked([m EXCEPT !.pos = up])
      ELSE IF "DOWN" \in keys THEN Locked([m EXCEPT !.pos = down]) ELSE m

DMLMenu(m, keys, v) ==
  DMLMoves(IF "A" \in keys THEN Locked(DMLRow(m, v)) ELSE m, keys)

-----------------------------------------------------------------------------
(***************************************************************************)
(* SMenuReadPad: the buttons that change the menu, in the order they are   *)
(* looked at, then those of the menu that is left.                         *)
(***************************************************************************)

\* START or 1: the menu opens, with the settings read again, or closes.
AfterStart(m) ==
  IF m.show THEN Locked([m EXCEPT !.show = FALSE])
  ELSE LET opened == Locked([m EXCEPT !.show = TRUE, !.cfg = m.saved])
       IN  IF m.type = GamesMenu THEN Reload(opened) ELSE opened

\* B: back to the list of games, and from there out.
AfterB(m) ==
  LET back == Enter([m EXCEPT !.show = m.type # GamesMenu], GamesMenu)
  IN  IF back.show THEN Reload(back) ELSE back

AfterX(m) == Enter(m, IF m.type = Settings THEN DML ELSE Settings)

\* The picture viewer, which the end of SMenuReadPad leaves at once.
AfterZ(m) == Enter(m, Picture)
Closed(m) == [m EXCEPT !.type = GamesMenu, !.show = FALSE]

AfterHome(m) == Reload(Enter(m, Channels))

When(b, new, old) == IF b THEN new ELSE old

Menued(m0, keys) ==
  LET m1 == When("START" \in keys, AfterStart(m0), m0)
      m2 == When("B" \in keys /\ ~ m1.lock, AfterB(m1), m1)
      m3 == When("X" \in keys /\ ~ m2.lock, AfterX(m2), m2)
      m4 == When("Y" \in keys /\ ~ m3.lock /\ m3.type # Dumping, Enter(m3, Dumping), m3)
      m5 == When("Z" \in keys /\ ~ m4.lock /\ m4.type # Picture, AfterZ(m4), m4)
  IN  IF ~ m1.show THEN m1
      ELSE When("HOME" \in keys /\ m5.type # Channels, AfterHome(m5), m5)

PickEntry(m, keys, p, v) ==
  CASE m.type = Channels -> ChannelList(m, keys)
    [] m.type = GamesMenu -> GameList(m, keys)
    [] m.type = Settings -> SettingsMenu(m, keys, p)
    [] m.type = Dumping -> When("A" \in keys, Locked(m), m)
    [] m.type = Picture -> Closed(m)
    [] m.type = DML -> DMLMenu(m, keys, v)

\* After B in the list of games the menu is closed and its buttons still count.
Polled(m0, keys, p, v) ==
  LET m == Menued(m0, keys)
  IN  IF ~ m.show /\ "START" \in keys THEN m ELSE PickEntry(m, keys, p, v)

State(usb) ==
  [show |-> menu.ShowMenu, type |-> menu.MenuType, lock |-> menu.SLock, usb |-> usb,
   pos |-> cursor.PosX, scroll |-> cursor.ScrollX, cover |-> cover, cfg |-> MenuCfg,
   saved |-> saved, force |-> force, reinsert |-> reinsert, saving |-> saving,
   fresh |-> fresh, launch |-> FALSE]

Becomes(m) ==
  /\ menu' = [menu EXCEPT !.ShowMenu = m.show, !.MenuType = m.type, !.SLock = m.lock]
  /\ cursor' = [PosX |-> m.pos, ScrollX |-> m.scroll]
  /\ cover' = m.cover /\ MenuCfg' = m.cfg /\ saved' = m.saved /\ force' = m.force
  /\ reinsert' = m.reinsert /\ saving' = m.saving /\ fresh' = m.fresh
  /\ UNCHANGED patched

\* SMenuInit, after a start in which DI has made its list of games.
Restart(m) ==
  /\ menu' = [menu EXCEPT !.ShowMenu = FALSE, !.MenuType = GamesMenu, !.SLock = FALSE]
  /\ cursor' = Top /\ cover' = NoCover
  /\ saved' = [m.saved EXCEPT !.count = NumGames] /\ MenuCfg' = saved'
  /\ reinsert' = FALSE /\ saving' = FALSE /\ patched' = m.saved.patch /\ fresh' = FALSE
  /\ force' = m.force

\* One press.  A launch boots the kernel again, or fails and the menu goes on.
SMenuReadPad(keys) ==
  /\ ~ menu.SLock /\ ~ saving
  /\ menu.ShowMenu \/ "START" \in keys
  /\ \E p \in Patches, v \in BOOLEAN :
       /\ p # MenuCfg.patch /\ (force => ~ v)
       /\ LET m == Polled(State(menu.usb), keys, p, v)
          IN  Becomes(m) \/ (m.launch /\ Restart(m))

\* Nothing is pressed.
Release ==
  /\ menu.SLock /\ ~ saving
  /\ menu' = [menu EXCEPT !.SLock = FALSE]
  /\ UNCHANGED <<cursor, cover, MenuCfg, saved, force, reinsert, saving, patched, fresh>>

\* DVDWriteDIConfig, the second half of a save.
SaveWrites ==
  /\ saving
  /\ saved' = MenuCfg /\ reinsert' = FALSE /\ saving' = FALSE
  /\ UNCHANGED <<menu, cursor, cover, MenuCfg, force, patched, fresh>>

\* The PowerPC reads the game, and DI patches it by the settings it has then.
GameIsRead ==
  /\ fresh
  /\ fresh' = FALSE
  /\ patched' = IF saving THEN Overtaken ELSE saved.patch
  /\ UNCHANGED <<menu, cursor, cover, MenuCfg, saved, force, reinsert, saving>>

SMInit ==
  /\ menu \in [ShowMenu : {FALSE}, MenuType : {GamesMenu}, SLock : {FALSE}, usb : BOOLEAN]
  /\ cursor = Top /\ cover = NoCover
  /\ saved \in [count : {NumGames}, covers : BOOLEAN, patch : Patches] /\ MenuCfg = saved
  /\ force \in BOOLEAN /\ reinsert = FALSE /\ saving = FALSE
  /\ patched = saved.patch /\ fresh = FALSE

SMNext ==
  \/ \E keys \in Presses : SMenuReadPad(keys)
  \/ Release \/ SaveWrites \/ GameIsRead

SMSpec == SMInit /\ [][SMNext]_smvars

-----------------------------------------------------------------------------
(***************************************************************************)
(* Properties.                                                             *)
(***************************************************************************)

\* The cursor of an open list is on one of its entries, whatever was pressed
\* together and however often the length of a page changed.
CursorInList ==
  LET n == IF menu.MenuType = Channels THEN NumChannels ELSE MenuCfg.count
  IN  (menu.ShowMenu /\ menu.MenuType \in {GamesMenu, Channels}) => (Entry < n \/ Entry = 0)

\* The cursor of the settings is never on a blank row, nor on the forced mode
\* when none is.
CursorOnRow ==
  menu.ShowMenu =>
    /\ menu.MenuType = Settings =>
         cursor.PosX \in (0 .. IF menu.usb THEN 16 ELSE 15) \ {13}
    /\ menu.MenuType = DML =>
         cursor.PosX \in (0 .. 13) \ ({8, 11} \cup IF force THEN {} ELSE {10})

\* The cover that is shown is that of the entry under the cursor.
CoverIsCurrent ==
  (menu.ShowMenu /\ MenuCfg.covers /\ menu.MenuType \in {GamesMenu, Channels} /\ cover.is) =>
    (cover.list = menu.MenuType /\ cover.entry = Entry)

\* A patch setting that differs from what is saved is noted: the save that
\* follows selects the game again.
ChangeIsNoted == (menu.ShowMenu /\ MenuCfg.patch # saved.patch) => reinsert

\* The game runs with the settings that were saved, once it was read again, but
\* for a read that came between the two halves of a save.
SavedIsApplied == reinsert \/ saving \/ fresh \/ patched \in {saved.patch, Overtaken}

\* The menu shows what it works on, and what is saved is what the game gets.
MenuRight ==
  /\ CursorInList
  /\ CursorOnRow
  /\ CoverIsCurrent
  /\ ChangeIsNoted
  /\ SavedIsApplied
=============================================================================
