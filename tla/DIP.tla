--------------------------------- MODULE DIP ---------------------------------
(***************************************************************************)
(* The disc drive emulation (di/dip.c, di/DIGlue.c): the list of games in  *)
(* diconfig.bin, the selection of a game, and disc reads that are served   *)
(* from the game's files.  DI is one thread that works off one ioctl at a  *)
(* time (di/main.c); the power can go off between any two file operations. *)
(*                                                                         *)
(* The games are on a USB disk, and with SNEEK also on the SD card behind  *)
(* FFS.  DIGlue.c has a table of handles for each: FHandle, used while     *)
(* FSMode is SNEEK, and Nhandle.  A handle stands for the file it was      *)
(* opened on; of the tables only the number of handles in use is kept.     *)
(*                                                                         *)
(* A disc read is one unit long, and so are the steps of offsets.          *)
(***************************************************************************)
EXTENDS Integers, Sequences, FiniteSetsExt, Functions

CONSTANTS
  Games, Names,    \* games, and the names of files of a game
  Opening,         \* opening.bnr
  None,
  Bases,           \* the modes DVDInit may find: SNEEK, UNEEK
  Dirs,            \* what may be in /games: records [usb, sd] of lists of games
  Broken,          \* games without an apploader
  Disc,            \* the type of each game, REV (Wii) or DOL (GameCube)
  FST,             \* file system table of each game: [name, off, len] of its files
  Size,            \* sizes of the files of each game
  MAX_HANDLES, FILECACHE_MAX,
  Faults           \* what is allowed to happen: see below

FileEntry == [name : Names, off : Nat, len : Nat \ {0}]
Config == [slot : Nat, auto : BOOLEAN, rebuild : BOOLEAN, count : Nat, names : Seq(Games)]

ASSUME DIPAssumption ==
  /\ Opening \in Names
  /\ None \notin Games \cup Names /\ None \notin Config
  /\ Bases \subseteq {"SNEEK", "UNEEK"}
  /\ Dirs \subseteq [usb : Seq(Games), sd : Seq(Games)]
  /\ Broken \subseteq Games
  /\ Disc \in [Games -> {"REV", "DOL"}]
  /\ FST \in [Games -> Seq(FileEntry)]
  /\ Size \in [Games -> [Names -> Nat]]       \* 0 for a file that is not there
  /\ MAX_HANDLES \in Nat \ {0} /\ FILECACHE_MAX \in Nat \ {0}
  /\ Faults \subseteq {"rebuild", "manual"}

Modes  == {"SNEEK", "UNEEK"}
Caches == 0 .. FILECACHE_MAX - 1

VARIABLES
  base,       \* FSMode as DVDInit set it
  FSMode, DMLite,
  busy,       \* handles of each table in use for nothing in FC
  dir,        \* /games of the USB disk and of the SD card
  bootinfo,   \* /games/boot.bin is on the SD card
  diconfig,   \* /sneek/diconfig.bin
  DICfg,      \* the same in memory
  game,       \* GamePath
  FC, FCEntry,
  fst,        \* the FST of the game, in the console's memory
  DiscType, Partition,
  req,        \* the request whose handler is at work
  wrong,      \* the last disc read, when it returned what it should not
  manual,     \* history: the list was not compared with /games
  faults      \* history of faults

store == <<base, dir, bootinfo, diconfig>>
mode  == <<FSMode, DMLite>>
cache == <<FC, FCEntry>>
disc  == <<DiscType, Partition>>
vars  == <<store, mode, busy, DICfg, game, cache, fst, disc, req, wrong, manual, faults>>

-----------------------------------------------------------------------------
Idle    == [op |-> "idle", slot |-> 0, force |-> FALSE]
Booting == [op |-> "update", slot |-> -1, force |-> FALSE]
Nothing == [is |-> None, was |-> None]
NoFile  == [mode |-> "none", file |-> None, off |-> 0, len |-> 0]
NoFC    == [i \in Caches |-> NoFile]
Default == [slot |-> 0, auto |-> TRUE, rebuild |-> FALSE, count |-> 0, names |-> <<>>]

\* What is in /games of the storage that a mode works on.
Stored(m) == IF base = "SNEEK" /\ m = "UNEEK" THEN dir.sd ELSE dir.usb
Has(m, g) == g \in Range(Stored(m))

\* DVDUpdateCache looks at the USB disk, and then at the SD card.
Listing == IF base = "SNEEK" THEN dir.usb \o dir.sd ELSE dir.usb

Cached(m) == {i \in Caches : FC[i].mode = m}
Room(m, n) == busy[m] + Cardinality(Cached(m)) + n <= MAX_HANDLES

\* A handle of Nhandle is lost when the open fails: the error replaces the
\* index before the entry is reset.  FHandle's entry is reset.
Lost(m, n) == [busy EXCEPT ![m] = IF m = "UNEEK" THEN @ + n ELSE @]

\* A full FHandle makes DVDOpen return FR_DISK_ERR, which is 1 and taken for a
\* handle; a full Nhandle makes it fail.  The model stops at
\* either, as it does where a list ends early or the wrong mode stays in force.
Stopped == faults \cap {"alias", "full", "beyond", "past"} # {}
NoHandle(m) ==
  /\ faults' = faults \cup {IF m = "SNEEK" THEN "alias" ELSE "full"}
  /\ UNCHANGED <<store, mode, busy, DICfg, game, cache, fst, disc, req, wrong, manual>>

\* A handler that has up to n handles of a table open at once.
Opens(m, n, A) == IF Room(m, n) THEN A ELSE NoHandle(m)

Go(op)   == req' = [req EXCEPT !.op = op]
Reply    == req' = Idle

Init ==
  /\ base \in Bases /\ dir \in Dirs
  /\ bootinfo = FALSE /\ diconfig = None
  /\ FSMode = base /\ DMLite = FALSE
  /\ busy = [m \in Modes |-> 0]
  /\ DICfg = Default /\ game = None
  /\ FC = NoFC /\ FCEntry = 0
  /\ fst = None /\ DiscType = "none" /\ Partition = FALSE
  /\ req = Booting /\ wrong = Nothing
  /\ manual = FALSE /\ faults = {}

-----------------------------------------------------------------------------
(***************************************************************************)
(* DVDUpdateCache.  Whether the list is built anew is found out, then      *)
(* diconfig.bin is deleted, written, and read again.  Its size is in the   *)
(* directory when it is closed, so until then it counts as not there.      *)
(***************************************************************************)

\* The games of a list, which may be shorter than its header says.
Listed(c) == {c.names[i] : i \in 1 .. c.count}
Short(c)  == c.count > Len(c.names)

\* DVDVerifyGames: a game that is listed is no more.
Missing(c) == Listed(c) \ Range(Listing) # {}

Outdated(c) ==
  \/ Short(c)
  \/ c.auto /\ (c.count # Len(Listing) \/ Missing(c))

\* The config as it is read, or as it is created, and the opens that fail:
\* that of diconfig.bin, and that of a missing game on the last storage.
DVDUpdateCache ==
  LET c     == IF diconfig = None THEN Default ELSE diconfig
      count == IF c.auto THEN Len(Listing) ELSE c.count
      again == req.force \/ diconfig = None \/ Outdated(c)
      looks == ~ req.force /\ diconfig # None /\ ~ Short(c) /\ c.auto /\ count = c.count
      lost  == (IF diconfig = None THEN Lost(base, 1) ELSE busy)
      body  ==
        /\ DICfg' = IF again THEN [c EXCEPT !.count = count] ELSE c
        /\ busy' = IF looks /\ Missing(c) THEN [lost EXCEPT !["UNEEK"] = @ + 1] ELSE lost
        /\ manual' = ~ c.auto
        /\ Go(IF again THEN "delete" ELSE "select")
        /\ UNCHANGED <<store, mode, game, cache, fst, disc, wrong, faults>>
  IN  /\ req.op = "update"
      /\ Opens("UNEEK", IF base = "UNEEK" THEN 3 ELSE 1, 
               Opens(base, IF c.auto /\ Listing # <<>> THEN 2 ELSE 1, body))

DeleteList ==
  /\ req.op = "delete"
  /\ diconfig' = None
  /\ Go("write")
  /\ UNCHANGED <<base, dir, bootinfo, mode, busy, DICfg, game, cache, fst, disc, wrong, manual, faults>>

\* An entry for /games/boot.bin on the SD card is tried like one of a game.
WriteList ==
  LET body ==
        /\ diconfig' = [DICfg EXCEPT !.names = Listing]
        /\ DICfg' = diconfig'
        /\ busy' = IF base = "SNEEK" /\ bootinfo THEN Lost("UNEEK", 1) ELSE busy
        /\ Go("select")
        /\ UNCHANGED <<base, dir, bootinfo, mode, game, cache, fst, disc, wrong, manual, faults>>
  IN  /\ req.op = "write"
      /\ Opens("UNEEK", 2, Opens(base, IF dir.usb # <<>> THEN 2 ELSE 1, body))

-----------------------------------------------------------------------------
(***************************************************************************)
(* DVDSelectGame.                                                          *)
(***************************************************************************)

Slot ==
  LET s == IF req.slot < 0 THEN DICfg.slot ELSE req.slot
  IN  IF s >= DICfg.count THEN 0 ELSE s

Chosen == DICfg.names[Slot + 1]

Selecting == req.op = "select" /\ DICfg.count > 0 /\ Slot < Len(DICfg.names)

Boots(m, g) == Has(m, g) /\ g \notin Broken

SelectNothing ==
  /\ req.op = "select" /\ DICfg.count = 0
  /\ Reply
  /\ UNCHANGED <<store, mode, busy, DICfg, game, cache, fst, disc, wrong, manual, faults>>

\* The list is shorter than Gamecount: what is behind it is not a name.
SelectBeyond ==
  /\ req.op = "select" /\ DICfg.count > 0 /\ Slot >= Len(DICfg.names)
  /\ faults' = faults \cup {"beyond"}
  /\ UNCHANGED <<store, mode, busy, DICfg, game, cache, fst, disc, req, wrong, manual>>

\* Mutant of InitCache: the cache is kept.
InitCache_kept(lost) == busy' = lost /\ UNCHANGED FC

InitCache(lost) ==
  /\ busy' = [m \in Modes |-> lost[m] + Cardinality(Cached(m))]
  /\ FC' = NoFC

\* A GameCube game's game.iso is looked for and not there.
ISO(m) == IF Disc[Chosen] = "DOL" THEN Lost(m, 1) ELSE busy

\* Mutant of SaveSlot: the slot is kept in memory only.
SaveSlot_memory ==
  /\ DICfg' = [DICfg EXCEPT !.slot = Slot]
  /\ diconfig' = diconfig

SaveSlot ==
  /\ DICfg' = [DICfg EXCEPT !.slot = Slot]
  /\ diconfig' = [DICfg' EXCEPT !.names = diconfig.names]

\* FSTable is NULL, and what is in memory is not the selected game's.
Selected(m) ==
  /\ game' = Chosen
  /\ InitCache(ISO(m))
  /\ SaveSlot
  /\ Reply
  /\ fst' = None /\ faults' = faults \ {"rebuild"}
  /\ UNCHANGED <<base, dir, FCEntry, disc, wrong, manual>>

\* apploader.img is open when game.iso is looked for.
Opened == IF Disc[Chosen] = "DOL" THEN 2 ELSE 1

\* The game is on the storage at hand.
SelectGame ==
  /\ Selecting /\ Boots(FSMode, Chosen)
  /\ Opens(FSMode, Opened,
       /\ Selected(FSMode)
       /\ DMLite' = FALSE
       /\ UNCHANGED <<FSMode, bootinfo>>)

\* It is on the SD card.
SelectDMLite ==
  /\ Selecting
  /\ FSMode = "SNEEK" /\ ~ Boots("SNEEK", Chosen) /\ Boots("UNEEK", Chosen)
  /\ Opens("SNEEK", 1, Opens("UNEEK", Opened,
       /\ Selected("UNEEK")
       /\ DMLite' = TRUE /\ bootinfo' = TRUE
       /\ UNCHANGED FSMode))

\* The game's apploader is on no storage that can be looked at.
Nowhere == ~ Boots(FSMode, Chosen) /\ (FSMode = "SNEEK" => ~ Boots("UNEEK", Chosen))

\* The list is made anew, and then slot s is tried.
TryAgain(s) ==
  /\ game' = Chosen
  /\ DMLite' = (DMLite \/ FSMode = "SNEEK")
  /\ FSMode' = IF DMLite' THEN "SNEEK" ELSE FSMode
  /\ bootinfo' = (bootinfo \/ FSMode = "SNEEK")
  /\ busy' = Lost("UNEEK", 1) /\ fst' = None
  /\ req' = [op |-> "update", slot |-> s, force |-> TRUE]
  /\ UNCHANGED <<base, dir, diconfig, DICfg, cache, disc, wrong, manual, faults>>

\* Mutant of SelectAgain: the same slot is tried again.
SelectAgain_same ==
  /\ Selecting /\ Nowhere
  /\ Opens(FSMode, 1, Opens("UNEEK", 1, TryAgain(Slot)))

SelectAgain ==
  /\ Selecting /\ Nowhere
  /\ Opens(FSMode, 1, Opens("UNEEK", 1, TryAgain(0)))

-----------------------------------------------------------------------------
(***************************************************************************)
(* Requests of the console and of the menu.                                *)
(***************************************************************************)

DVD_SELECT_GAME(s) ==
  /\ req' = [op |-> "select", slot |-> s, force |-> FALSE]
  /\ wrong' = Nothing
  /\ UNCHANGED <<store, mode, busy, DICfg, game, cache, fst, disc, manual, faults>>

\* The menu switches the automatic update of the list, or has the FST rebuilt.
WriteConfig(c) ==
  /\ DICfg' = c
  /\ diconfig' = [c EXCEPT !.names = diconfig.names]
  /\ wrong' = Nothing
  /\ UNCHANGED <<base, dir, bootinfo, mode, busy, game, cache, fst, disc, req, manual, faults>>

DVD_WRITE_CONFIG ==
  \/ /\ "manual" \in Faults
     /\ Opens(base, 1, WriteConfig([DICfg EXCEPT !.auto = ~ @]))
  \/ /\ "rebuild" \in Faults
     /\ Opens(base, 1, WriteConfig([DICfg EXCEPT !.rebuild = ~ @]))

\* Handlers that switch to the SD card for a game that is there.
ReadMode == IF DMLite THEN "UNEEK" ELSE FSMode
Restored == IF DMLite THEN "SNEEK" ELSE FSMode

DVD_READ_DISCID ==
  Opens(ReadMode, 1,
    /\ IF Has(ReadMode, game)
       THEN DiscType' = Disc[game] /\ UNCHANGED busy
       ELSE busy' = Lost(ReadMode, 1) /\ UNCHANGED DiscType
    /\ FSMode' = Restored /\ wrong' = Nothing
    /\ UNCHANGED <<store, DMLite, DICfg, game, cache, fst, Partition, req, manual, faults>>)

\* Ticket, TMD and certificates are on Wii discs.
DVD_OPEN_PARTITION ==
  Opens(FSMode, 1,
    /\ IF Has(FSMode, game) /\ Disc[game] = "REV"
       THEN Partition' = TRUE /\ UNCHANGED busy
       ELSE busy' = Lost(FSMode, 1) /\ UNCHANGED Partition
    /\ wrong' = Nothing
    /\ UNCHANGED <<store, mode, DICfg, game, cache, fst, DiscType, req, manual, faults>>)

DVD_RESET ==
  /\ Partition' = FALSE /\ wrong' = Nothing
  /\ UNCHANGED <<store, mode, busy, DICfg, game, cache, fst, DiscType, req, manual, faults>>

-----------------------------------------------------------------------------
(***************************************************************************)
(* DVDLowRead, in the mode m that is in force while it runs.               *)
(***************************************************************************)

In(o, e) == e.off <= o /\ o < e.off + e.len

\* Reading fst.bin: the apploader leaves the table in the console's memory.
ReadFST(m) ==
  Opens(m, 1,
    /\ IF Has(m, game)
       THEN fst' = FST[game] /\ UNCHANGED busy
       ELSE busy' = Lost(m, 1) /\ UNCHANGED fst
    /\ wrong' = Nothing
    /\ UNCHANGED <<store, DMLite, DICfg, game, cache, disc, req, manual, faults>>)

Entries(o) == {k \in DOMAIN fst : In(o, fst[k])}

\* What a read at offset o is to return: a place in a file of the game.
Wanted(o) ==
  IF Entries(o) = {} THEN None
  ELSE LET e == fst[Min(Entries(o))]
       IN  [file |-> <<game, e.name>>, at |-> o - e.off]

Differ(is, was) == IF is = was THEN Nothing ELSE [is |-> is, was |-> was]

Hits(o) == {i \in Caches : FC[i] # NoFile /\ In(o, FC[i])}

\* "try cache first!"  The handle is used in the table of the mode in force.
ReadCached(m, o) ==
  /\ Hits(o) # {}
  /\ LET c == FC[Min(Hits(o))]
     IN  wrong' = Differ(IF c.mode = m THEN [file |-> c.file, at |-> o - c.off] ELSE None,
                         Wanted(o))
  /\ UNCHANGED <<store, DMLite, busy, DICfg, game, cache, fst, disc, req, manual, faults>>

\* FSTRebuild: the files are laid out one behind the other from the lowest
\* offset on; it stops at a file that cannot be opened.
Lowest == Min({fst[k].off : k \in DOMAIN fst})
Rebuilt ==
  LET n    == Len(fst)
      size == [k \in 1 .. n |-> Size[game][fst[k].name]]
      bad  == {k \in 1 .. n : size[k] = 0}
      end  == IF bad = {} THEN n ELSE Min(bad) - 1
      off[k \in 1 .. n] == IF k = 1 THEN Lowest ELSE off[k - 1] + size[k - 1]
  IN  [k \in 1 .. n |-> IF k <= end THEN [fst[k] EXCEPT !.off = off[k], !.len = size[k]]
                        ELSE fst[k]]

\* Mutant of NextEntry: it goes one past the end.
NextEntry_past == IF FCEntry > FILECACHE_MAX THEN 0 ELSE FCEntry

NextEntry == IF FCEntry >= FILECACHE_MAX THEN 0 ELSE FCEntry

\* The file is opened and takes the next place of the cache.  For a game on the
\* SD card diconfig.bin is looked for there, and the switch stays set.
ReadFile(m, o) ==
  /\ Hits(o) = {} /\ Entries(o) # {}
  /\ LET e    == fst[Min(Entries(o))]
         n    == NextEntry
         hit  == Has(m, game) /\ Size[game][e.name] > 0
         redo == hit /\ DICfg.rebuild /\ e.name = Opening
         use  == busy[m] + Cardinality(Cached(m) \ {n}) + (IF redo THEN 2 ELSE 1)
     IN  IF use > MAX_HANDLES
         THEN NoHandle(m)
         ELSE /\ FC' = [FC EXCEPT ![n] = IF ~ hit THEN NoFile ELSE
                          [mode |-> m, file |-> <<game, e.name>>, off |-> e.off, len |-> e.len]]
              /\ FCEntry' = IF hit THEN n + 1 ELSE n
              /\ busy' = IF ~ hit \/ (redo /\ m # base) THEN Lost(m, 1) ELSE busy
              /\ wrong' = IF hit THEN Differ([file |-> <<game, e.name>>, at |-> o - e.off], Wanted(o))
                          ELSE Nothing
              /\ fst' = IF redo THEN Rebuilt ELSE fst
              /\ DICfg' = IF redo THEN [DICfg EXCEPT !.rebuild = FALSE] ELSE DICfg
              /\ diconfig' = IF redo /\ m = base
                             THEN [DICfg' EXCEPT !.names = diconfig.names] ELSE diconfig
              /\ faults' = faults \cup (IF redo THEN {"rebuild"} ELSE {})
              /\ UNCHANGED <<base, dir, bootinfo, DMLite, game, disc, req, manual>>

DVDLowRead(m) ==
  \/ ReadFST(m)
  \/ /\ fst # None
     /\ \E k \in DOMAIN fst : \E o \in fst[k].off .. fst[k].off + fst[k].len - 1 :
          ReadCached(m, o) \/ ReadFile(m, o)

\* "GC never calls this".
DVD_LOW_READ ==
  /\ game # None /\ Disc[game] = "REV"
  /\ Partition
  /\ DVDLowRead(FSMode)
  /\ UNCHANGED FSMode

DVD_READ_UNENCRYPTED ==
  /\ DiscType = "DOL" /\ game # None
  /\ DVDLowRead(ReadMode)
  /\ FSMode' = Restored

\* A read behind the end of a Wii disc leaves the handler at once.
DVD_READ_PAST ==
  /\ DiscType = "REV"
  /\ FSMode' = ReadMode
  /\ faults' = faults \cup (IF DMLite THEN {"past"} ELSE {})
  /\ wrong' = Nothing
  /\ UNCHANGED <<store, DMLite, busy, DICfg, game, cache, fst, disc, req, manual>>

-----------------------------------------------------------------------------
\* The handles and variables are gone; the games may be changed meanwhile.
PowerOff ==
  /\ dir' \in Dirs
  /\ FSMode' = base /\ DMLite' = FALSE
  /\ busy' = [m \in Modes |-> 0]
  /\ DICfg' = Default /\ game' = None
  /\ FC' = NoFC /\ FCEntry' = 0
  /\ fst' = None /\ DiscType' = "none" /\ Partition' = FALSE
  /\ req' = Booting /\ wrong' = Nothing
  /\ manual' = FALSE /\ faults' = {}
  /\ UNCHANGED <<base, bootinfo, diconfig>>

\* One more than the lists have.
Slots == 0 .. Cardinality(Games) - 1

Request ==
  \/ \E s \in Slots : DVD_SELECT_GAME(s)
  \/ DVD_WRITE_CONFIG
  \/ DVD_READ_DISCID
  \/ DVD_OPEN_PARTITION
  \/ DVD_RESET
  \/ DVD_LOW_READ
  \/ DVD_READ_UNENCRYPTED
  \/ DVD_READ_PAST

Work ==
  \/ DVDUpdateCache \/ DeleteList \/ WriteList
  \/ SelectNothing \/ SelectBeyond
  \/ SelectGame \/ SelectDMLite \/ SelectAgain

Next ==
  \/ req.op = "idle" /\ ~ Stopped /\ Request
  \/ ~ Stopped /\ Work
  \/ PowerOff

Spec == Init /\ [][Next]_vars

-----------------------------------------------------------------------------
(***************************************************************************)
(* What DI takes for granted of the games.                                 *)
(***************************************************************************)

\* No game is on a disk twice, or on both.
GamesOnce == \A d \in Dirs : IsInjective(d.usb \o d.sd)

\* The first game that is listed has its apploader: with one that has none
\* DVDSelectGame would call itself for ever.
FirstBoots ==
  \A d \in Dirs : /\ d.usb # <<>> => d.usb[1] \notin Broken
                  /\ d.sd # <<>> => d.sd[1] \notin Broken

\* The games on the SD card are GameCube games, those that DML is for: what a
\* partition is read for is looked for on the USB disk.
SDHasGC == \A d \in Dirs : \A g \in Range(d.sd) : Disc[g] = "DOL"

\* The files of a disc are apart.
FilesApart ==
  \A g \in Games : \A j, k \in DOMAIN FST[g] :
    j # k => \/ FST[g][j].off + FST[g][j].len <= FST[g][k].off
             \/ FST[g][k].off + FST[g][k].len <= FST[g][j].off

-----------------------------------------------------------------------------
(***************************************************************************)
(* Properties.                                                             *)
(***************************************************************************)

Place  == [file : Games \X Names, at : Nat]

\* The variables have the types of the structures they stand for.
TypeOK ==
  /\ base \in Bases /\ FSMode \in Modes /\ DMLite \in BOOLEAN
  /\ busy \in [Modes -> 0 .. MAX_HANDLES]
  /\ dir \in Dirs /\ bootinfo \in BOOLEAN
  /\ diconfig \in Config \cup {None} /\ DICfg \in Config
  /\ game \in Games \cup {None}
  /\ \A i \in Caches : FC[i] = NoFile \/ FC[i] \in
       [mode : Modes, file : Games \X Names, off : Nat, len : Nat]
  /\ FCEntry \in 0 .. FILECACHE_MAX
  /\ fst = None \/ fst \in Seq(FileEntry)
  /\ DiscType \in {"none", "REV", "DOL"} /\ Partition \in BOOLEAN
  /\ req \in [op : {"idle", "update", "delete", "write", "select"},
              slot : Int, force : BOOLEAN]
  /\ wrong.is \in Place \cup {None} /\ wrong.was \in Place \cup {None}

\* A disc read returns the bytes of the selected game at that offset, through
\* the cache of files and the selections in between.  FSTRebuild moves files
\* that are cached at their old places: then it takes a selection to be right.
ReadRight ==
  "rebuild" \notin faults => wrong = Nothing

\* The switch to the SD card ends with the handler that made it.
ModeRestored == "past" \notin faults => FSMode = base

\* The game that is selected is looked for where it is.
GameReachable ==
  req.op = "idle" /\ ~ Stopped /\ DICfg.count > 0 => Boots(ReadMode, game)

\* After the start and every update the list has every game in /games once,
\* wherever the power went off and whatever was changed in between, when no
\* game is on both storages (GamesOnce).
ListRight ==
  req.op = "idle" /\ ~ manual =>
    /\ DICfg.count <= Len(DICfg.names) /\ Listed(DICfg) = Range(Listing)
    /\ DICfg.count = Cardinality(Listed(DICfg))

\* The game that the next start selects is the one that is selected now.
SlotKept ==
  req.op = "idle" /\ ~ Stopped /\ DICfg.count > 0 =>
    /\ diconfig # None /\ diconfig.slot < diconfig.count
    /\ diconfig.names[diconfig.slot + 1] = game

\* DVDSelectGame calls itself at most once: the first game of a list that was
\* made anew can be opened, wherever it is stored and whatever list, slot and
\* mode there were before (FirstBoots).
SelectEnds ==
  Selecting /\ req.force => ~ Nowhere

\* DVDOpen says "Couldn't find a free handle!" and returns an error when its
\* table is full: no caller takes the result for a handle.
NoAlias == "alias" \notin faults

\* What DI keeps agrees with what is on the disks: the list, the slot, the file
\* system in use and the games that can be reached.
StoredRight == ModeRestored /\ GameReachable /\ ListRight /\ SlotKept
=============================================================================
