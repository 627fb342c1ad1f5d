------------------------------- MODULE DIDrive -------------------------------
(***************************************************************************)
(* The drive that DI shows to games and to ES (di/dip.c): its cover, error *)
(* and status registers, the partition of a Wii disc, and which file of    *)
(* the selected game a read of the disc goes to.  What is in the files and *)
(* the handles they need is in DIP.                                        *)
(*                                                                         *)
(* DI serves one message at a time; ES selects, ejects and inserts while a *)
(* game reads, so that the calls of the two are in any order.              *)
(***************************************************************************)
EXTENDS Integers

CONSTANTS
  Discs,             \* numbers of the games on the disk, from 1
  Layout,            \* of each game its type ("DOL", "REV"), and in the units of its
                     \* disc apploader size, place of the DOL, place and size of the
                     \* FST, end of the disc, and size of the partition
  BootEnd, Bi2End,   \* where boot.bin and bi2.bin end (0x110, 0x910)
  MaxUnread,         \* bound: files that cannot be opened or read
  MaxRemoved,        \* bound: changes of the games on the disk
  MaxChanges         \* bound: selections, ejections and insertions

ASSUME DIDriveAssumption ==
  /\ Discs \subseteq Nat \ {0} /\ BootEnd \in Nat /\ Bi2End \in Nat /\ BootEnd < Bi2End
  /\ \A g \in Discs :
       LET l == Layout[g]
       IN  /\ {l.app, l.dol, l.fst, l.fstsize, l.end, l.part} \subseteq Nat
           /\ Bi2End + l.app <= l.dol /\ l.dol <= l.fst /\ l.fst + l.fstsize <= l.end
  /\ MaxUnread \in Nat /\ MaxRemoved \in Nat /\ MaxChanges \in Nat

VARIABLES
  present, listed,  \* the games on the disk, and those in DICfg
  GamePath,         \* the selected game
  ApploaderSize, header, \* header: DolOffset, DolSize, FSTableOffset, FSTableSize
  DiscKind,
  PartitionOpen, PartitionSize,
  NoDisc, ChangeDisc, \* NoDisc: bit 0 of DICover
  error,
  hung,             \* DI is in an endless loop
  last,             \* history: the answer to the last call
  headed, typed,    \* history: the games whose header and ID were read last
  opened,           \* history: the game whose partition was opened as a whole
  unseen,           \* history: a change of the disc that was not told yet
  unread, removed, changes

drivevars == <<present, listed, GamePath, ApploaderSize, header, DiscKind, PartitionOpen,
               PartitionSize, NoDisc, ChangeDisc, error, hung, last, headed, typed, opened,
               unseen, unread, removed, changes>>

NoGame == 0
FATAL == "DI_FATAL"
ERROR == "DI_ERROR"
SUCCESS == "DI_SUCCESS"

NoHeader == [DolOffset |-> 0, DolSize |-> 0, FSTableOffset |-> 0, FSTableSize |-> 0]
HeaderOf(g) ==
  LET l == Layout[g]
  IN  [DolOffset |-> l.dol, DolSize |-> l.fst - l.dol,
       FSTableOffset |-> l.fst, FSTableSize |-> l.fstsize]

\* DI has selected a game before it serves the first message.
DriveInit ==
  /\ present = Discs /\ listed = Discs
  /\ \E g \in Discs : GamePath = g /\ ApploaderSize = Layout[g].app
  /\ header = NoHeader /\ DiscKind = "REV" /\ PartitionOpen = FALSE /\ PartitionSize = 0
  /\ NoDisc = TRUE /\ ChangeDisc = TRUE /\ error = "none" /\ hung = FALSE
  /\ last = [call |-> "done", ret |-> SUCCESS]
  /\ headed = NoGame /\ typed = NoGame /\ opened = NoGame
  /\ unseen = TRUE /\ unread = 0 /\ removed = 0 /\ changes = 0

-----------------------------------------------------------------------------
(***************************************************************************)
(* Answers.  The end of DIP_Ioctl compares the number of the message, not  *)
(* of the ioctl, with that of DVD_GET_ERROR, so that every success resets  *)
(* the error.                                                              *)
(***************************************************************************)

Answer(ret) == [call |-> "done", ret |-> ret]

Ends(a, code) ==
  /\ last' = a
  /\ error' = IF code # "none" THEN code ELSE IF a.ret = SUCCESS THEN "none" ELSE error

Simply == Ends(Answer(SUCCESS), "none")

DiscKept   == <<present, listed, GamePath, ApploaderSize, removed>>
RegsKept   == <<NoDisc, ChangeDisc, unseen, changes>>
PartKept   == <<PartitionOpen, PartitionSize, opened>>
HeaderKept == <<header, headed, DiscKind, typed>>

\* DVDOpen of a file of the selected game.
FileOpens == GamePath \in present /\ UNCHANGED unread
FileFails == \/ GamePath \notin present /\ UNCHANGED unread
             \/ unread < MaxUnread /\ unread' = unread + 1

-----------------------------------------------------------------------------
(***************************************************************************)
(* Selecting a game.                                                       *)
(***************************************************************************)

Smallest(s) == CHOOSE g \in s : \A h \in s : g <= h

\* Mutant of Loaded: the size of the apploader is that of the first selection.
Loaded_once(g) == ApploaderSize' = IF ApploaderSize = 0 THEN Layout[g].app ELSE ApploaderSize

Loaded(g) == ApploaderSize' = Layout[g].app

\* A game that is gone makes DI list the games again and select the first.
SelectDisc ==
  /\ changes < MaxChanges /\ changes' = changes + 1
  /\ NoDisc' = TRUE
  /\ \/ /\ listed = {}
        /\ Ends(Answer(FATAL), "none")
        /\ UNCHANGED <<listed, GamePath, ApploaderSize, ChangeDisc, unseen>>
     \/ /\ ChangeDisc' = TRUE /\ unseen' = TRUE
        /\ \E g \in listed :
             LET n == IF g \in present THEN g ELSE Smallest(present)
             IN  IF g \notin present /\ present = {}
                 THEN /\ GamePath' = g /\ listed' = {} /\ UNCHANGED ApploaderSize
                      /\ Ends(Answer(FATAL), "none")
                 ELSE /\ GamePath' = n /\ Loaded(n)
                      /\ listed' = IF g \in present THEN listed ELSE present
                      /\ Simply
  /\ UNCHANGED <<present, removed, hung, unread, PartKept, HeaderKept>>

-----------------------------------------------------------------------------
(***************************************************************************)
(* Registers.                                                              *)
(***************************************************************************)

Elsewhere == UNCHANGED <<DiscKept, HeaderKept, hung, unread>>

DVD_INSERT_DISC ==
  /\ changes < MaxChanges /\ changes' = changes + 1
  /\ NoDisc' = FALSE /\ unseen' = FALSE /\ Simply
  /\ UNCHANGED ChangeDisc /\ Elsewhere /\ UNCHANGED PartKept
DVD_EJECT_DISC ==
  /\ changes < MaxChanges /\ changes' = changes + 1
  /\ NoDisc' = TRUE /\ Simply
  /\ UNCHANGED <<ChangeDisc, unseen>> /\ Elsewhere /\ UNCHANGED PartKept

Tells == last' = [call |-> "cover", ret |-> SUCCESS, disc |-> ~NoDisc]

\* 0x7A: the disc of a change is in after the register has been told once.
Covered == Tells /\ NoDisc' = (NoDisc /\ ~ChangeDisc) /\ ChangeDisc' = FALSE

DVDLowPrepareCoverRegister ==
  /\ Covered /\ error' = "none" /\ unseen' = (unseen /\ last'.disc)
  /\ UNCHANGED changes /\ Elsewhere /\ UNCHANGED PartKept
DVD_GETCOVER ==
  /\ Tells /\ error' = "none" /\ unseen' = (unseen /\ last'.disc)
  /\ UNCHANGED <<NoDisc, ChangeDisc, changes>> /\ Elsewhere /\ UNCHANGED PartKept

DVD_GET_ERROR ==
  /\ Simply
  /\ UNCHANGED RegsKept /\ Elsewhere /\ UNCHANGED PartKept

DriveReset ==
  /\ NoDisc' = FALSE /\ unseen' = FALSE
  /\ PartitionOpen' = FALSE /\ opened' = NoGame /\ Simply
  /\ UNCHANGED <<ChangeDisc, changes, PartitionSize>> /\ Elsewhere

DVD_REPORTKEY ==
  /\ Ends(Answer(ERROR), "key")
  /\ UNCHANGED RegsKept /\ Elsewhere /\ UNCHANGED PartKept

DVDLowReadDiscID ==
  /\ \/ /\ FileOpens /\ DiscKind' = Layout[GamePath].type /\ typed' = GamePath
        /\ Simply
     \/ /\ FileFails /\ UNCHANGED <<DiscKind, typed>>
        /\ Ends(Answer(FATAL), "none")
  /\ UNCHANGED <<header, headed, hung>>
  /\ UNCHANGED DiscKept /\ UNCHANGED RegsKept /\ UNCHANGED PartKept

ClosePartition ==
  /\ PartitionOpen' = FALSE /\ opened' = NoGame /\ Simply
  /\ UNCHANGED PartitionSize /\ UNCHANGED RegsKept /\ Elsewhere

\* ticket.bin, tmd.bin, from which the size is, and cert.bin; one that cannot
\* be read leaves PartitionOpen as it was.
OpenPartition ==
  /\ \/ /\ FileOpens /\ PartitionSize' = Layout[GamePath].part
        /\ PartitionOpen' = TRUE /\ opened' = GamePath /\ Simply
     \/ /\ FileFails /\ Ends(Answer(FATAL), "none")
        /\ \/ UNCHANGED PartKept
           \/ /\ GamePath \in present /\ PartitionSize' = Layout[GamePath].part
              /\ UNCHANGED <<PartitionOpen, opened>>
  /\ UNCHANGED RegsKept /\ UNCHANGED <<DiscKept, HeaderKept, hung>>

-----------------------------------------------------------------------------
(***************************************************************************)
(* Reads.  A read is of one unit here; `at' is its place in the file.      *)
(***************************************************************************)

Dol(off) == off < header.DolOffset + header.DolSize

From(file, off, start) == [file |-> file, at |-> off - start]

Where(off) ==
  IF off < BootEnd THEN From("boot.bin", off, 0)
  ELSE IF off < Bi2End THEN From("bi2.bin", off, BootEnd)
  ELSE IF off < Bi2End + ApploaderSize THEN From("apploader.img", off, Bi2End)
  ELSE IF Dol(off) THEN From("main.dol", off, header.DolOffset)
  ELSE IF off < header.FSTableOffset + header.FSTableSize
       THEN From("fst.bin", off, header.FSTableOffset)
  ELSE From("files", off, 0)

\* bi2.bin of a GameCube disc gets the region of the configuration.
GotRead(off, w) ==
  [call |-> "read", ret |-> SUCCESS, off |-> off, from |-> w,
   patched |-> w.file = "bi2.bin" /\ DiscKind = "DOL",
   known |-> headed = GamePath, typed |-> typed = GamePath, inside |-> PartitionOpen,
   whole |-> opened]

ReadArea(off) ==
  LET w == Where(off)
  IN  \/ /\ FileOpens /\ Ends(GotRead(off, w), "none")
         /\ IF w.file = "boot.bin"
            THEN header' = HeaderOf(GamePath) /\ headed' = GamePath
            ELSE UNCHANGED <<header, headed>>
      \/ /\ FileFails /\ UNCHANGED <<header, headed>>
         /\ Ends(Answer(FATAL), IF w.file = "files" THEN "file" ELSE "none")

\* What clients ask for: units of the areas of any game, the last of a partition
\* and the one behind it.
Asked ==
  UNION {LET l == Layout[g]
         IN  {0, BootEnd, Bi2End + l.app - 1, l.dol, l.fst, l.part, l.part + 1} : g \in Discs}

ReadKeeps == /\ UNCHANGED DiscKept /\ UNCHANGED RegsKept /\ UNCHANGED PartKept
             /\ UNCHANGED <<DiscKind, typed>>

LowRead(off) ==
  /\ IF ~PartitionOpen
     THEN Ends(Answer(FATAL), "none") /\ UNCHANGED <<header, headed, unread>>
     ELSE IF off > PartitionSize
     THEN Ends(Answer(ERROR), "range") /\ UNCHANGED <<header, headed, unread>>
     ELSE ReadArea(off)
  /\ UNCHANGED hung /\ ReadKeeps

\* A raw read of a Wii disc knows five places.
DVDLowReadUnencrypted(off) ==
  \/ /\ off = "ID" /\ UNCHANGED hung
     /\ \/ FileOpens /\ Simply
        \/ FileFails /\ Ends(Answer(FATAL), "none")
  \/ off = "table" /\ Simply /\ UNCHANGED <<unread, hung>>
  \/ /\ off = "beyond" /\ last' = Answer(ERROR) /\ error' = "range"
     /\ UNCHANGED <<unread, hung>>
  \/ off = "other" /\ hung' = TRUE /\ UNCHANGED <<last, error, unread>>

UnencryptedRead ==
  /\ \/ /\ DiscKind = "DOL" /\ UNCHANGED hung
        /\ \E off \in Asked : ReadArea(off)
     \/ /\ DiscKind = "REV" /\ UNCHANGED <<header, headed>>
        /\ \E off \in {"ID", "table", "beyond", "other"} : DVDLowReadUnencrypted(off)
  /\ ReadKeeps

-----------------------------------------------------------------------------
\* Discs are removed from the disk, or put back.
DiskChanged ==
  /\ removed < MaxRemoved /\ removed' = removed + 1
  /\ \E s \in SUBSET Discs : s # present /\ present' = s
  /\ UNCHANGED <<listed, GamePath, ApploaderSize, hung, unread, error, last>>
  /\ UNCHANGED RegsKept /\ UNCHANGED PartKept /\ UNCHANGED HeaderKept

DriveNext ==
  /\ ~hung
  /\ \/ SelectDisc
     \/ DVD_INSERT_DISC \/ DVD_EJECT_DISC
     \/ DVDLowPrepareCoverRegister \/ DVD_GETCOVER \/ DVD_GET_ERROR
     \/ DriveReset \/ DVD_REPORTKEY \/ DVDLowReadDiscID
     \/ OpenPartition \/ ClosePartition
     \/ (\E off \in Asked : LowRead(off)) \/ UnencryptedRead
     \/ DiskChanged

DriveSpec == DriveInit /\ [][DriveNext]_drivevars

-----------------------------------------------------------------------------
(***************************************************************************)
(* Properties.                                                             *)
(***************************************************************************)

\* The area of a game's disc that a unit belongs to.
Area(l, off) ==
  IF off < BootEnd THEN From("boot.bin", off, 0)
  ELSE IF off < Bi2End THEN From("bi2.bin", off, BootEnd)
  ELSE IF off < Bi2End + l.app THEN From("apploader.img", off, Bi2End)
  ELSE IF off \in l.dol .. l.fst - 1 THEN From("main.dol", off, l.dol)
  ELSE IF off \in l.fst .. l.fst + l.fstsize - 1 THEN From("fst.bin", off, l.fst)
  ELSE From("files", off, 0)

\* Once boot.bin of the selected game was read, every read of an area of its
\* disc goes to the right place of the right file, whatever game was selected
\* before; bi2.bin gets a region only on a disc that is of a GameCube, once its
\* ID was read.  A selection that finds no game at all leaves the size of the
\* apploader of the game before: the list is empty then, and stays so.
AreaRight ==
  listed # {} /\ last.call = "read" /\ last.ret = SUCCESS /\ last.known =>
    LET l == Layout[GamePath]
    IN  /\ last.off \in Bi2End + l.app .. l.dol - 1 \/ last.from = Area(l, last.off)
        /\ last.typed /\ last.patched => l.type = "DOL"

\* A Wii game reads through a partition only after all that opening it takes
\* was there since the last reset.
OpenedWhole ==
  last.call = "read" /\ last.ret = SUCCESS /\ last.inside => last.whole # NoGame

\* A client that asks for the cover does not find the disc of a new selection
\* in the drive before it has found the drive empty, unless ES or a reset has put
\* the disc in.
ChangeSeen == last.call = "cover" /\ last.disc => ~unseen

\* A refusal has an error code, which stays until it is told or a call succeeds.
ErrorTold == last.ret = ERROR => error # "none"

\* What the drive shows is the disc of the selected game, and what changed is told.
DriveRight == AreaRight /\ OpenedWhole /\ ChangeSeen /\ ErrorTold
==============================================================================
