------------------------------- MODULE MCFiles --------------------------------
(***************************************************************************)
(* The parts of the file servers that FFS leaves out: the directories of   *)
(* FFS-SD, the sector window and the names of FatFs, and FFS-USB with its  *)
(* clients, the mounting of a volume, and the questions about directories. *)
(* They share no state, and in a behaviour only `part' moves.              *)
(***************************************************************************)
EXTENDS FSTree, FatWindow, FatNames, FSClients, FatMount, FSListing, TLC

CONSTANTS tmp, import, a, b

VARIABLE part
filesvars == <<part, treevars, winvars, namevars, fcvars, mountvars, listvars>>

\* Names whose long form takes one entry, but for b, whose takes three.
NameRows  == (tmp :> 1) @@ (import :> 1) @@ (a :> 1) @@ (b :> 3)
SomeDirs  == {<<tmp>>, <<tmp, a>>, <<tmp, import>>}
SomeFiles == {<<tmp, b>>, <<tmp, a, b>>}
\* The last of these moves a directory below itself.
SomeMoves == {<<<<tmp, a>>, <<b>>>>, <<<<tmp, b>>, <<b>>>>, <<<<tmp, a>>, <<tmp, a, a>>>>}

\* Offsets of the seeks of DI.
BackAndOn == {-1, 1}

\* Long names of one row and of two, some of which are shortened to the same
\* characters, one that is the short name of another, and one that is not ASCII.
SomeNames == {<<"a", "b", "c", "d">>, <<"A", "b">>, <<"a", "b">>, <<"a", "~", "1">>,
              <<"a", "+">>, <<".", "a", ".", "b">>, <<"e", " ">>}
Caps == "a" :> "A" @@ "b" :> "B" @@ "c" :> "C" @@ "d" :> "D"
Numerals == <<<<"1">>, <<"2">>, <<"3">>, <<"4">>>>
SomeHash(k, lfn) == IF Len(lfn) > 2 THEN 4 ELSE k

\* Volumes of the three types, with one FAT and two, and a rest that makes no
\* whole cluster.
SomeVolumes ==
  {v \in [rsvd : {1, 2}, n_fats : {1, 2}, fatsz : {1, 2}, rootent : {0, 2, 4}, totsec : {9, 14, 21},
          spc : {1, 2}, rootclus : {2}] :
     v.totsec >= v.rsvd + v.n_fats * v.fatsz + v.rootent \div 2 + v.spc}

\* A directory with a file, and what else may be in it or beside it.
InDir(d) == [kind |-> "dir", dir |-> d, len |-> 0]
InFile(d, n) == [kind |-> "file", dir |-> d, len |-> n]
SomeTrees ==
  {<<InDir(0), InFile(1, 3), x, y, z>> :
     x \in {Absent, InDir(1), InFile(0, 2)}, y \in {Absent, InDir(3), InFile(3, 2)},
     z \in {Absent, InFile(1, 3), InFile(4, 1)}}
WholeTrees ==
  {t \in SomeTrees : \A e \in 1 .. 5 : t[e].kind # "none" /\ t[e].dir # 0 => t[t[e].dir].kind = "dir"}

\* A part that does not move is where nothing is left to do.
TreeRests ==
  vol = EmptyVolume /\ call = NoFrames /\ answer = NoAnswer /\ treecuts = 0
WinRests ==
  /\ fs = [disk |-> [fat |-> [c \in WinClusters |-> 0], entry |-> NoEntry,
                     data |-> [s \in WinClusters \X (0 .. csize - 1) |-> Blanks]],
           log |-> <<>>, win |-> Blanks, winsect |-> NoSect, wflag |-> FALSE,
           fsi |-> FALSE, last |-> 0, fat32 |-> TRUE]
  /\ fp = NoFP /\ file = <<>> /\ may = <<>> /\ old = 0
  /\ stale = FALSE /\ got = NoneGot /\ ops = 0
ClientsRest ==
  /\ disk = [p \in Paths |-> Missing]
  /\ fd_stack = [s \in Slots |-> NoFIL] /\ HAXHandle = 0
  /\ queue = <<>> /\ work = NoMsg /\ reply = [c \in Clients |-> NoReply] /\ cut = FALSE
  /\ es = IdleES /\ Nhandle = [h \in Handles |-> Unused] /\ di = IdleDI
  /\ held = {} /\ game = IdleGame /\ early = FALSE /\ cuts = 0 /\ calls = 0

MountRests ==
  /\ sdcard = [found |-> FALSE, zero |-> "blank", base |-> 0, boot |-> <<>>]
  /\ FatFs = NotMounted /\ Fsid = 0 /\ mainAt = "loop" /\ opened = 0
  /\ mounting = [res |-> "none", hit |-> FALSE] /\ readFaults = 0
ListRests ==
  /\ tree = <<>> /\ query = NoQuery /\ frames = <<>> /\ usage = NoUsage /\ names = {}
  /\ blocks = 0 /\ said = [op |-> "none", at |-> 0, res |-> FS_OK]
  /\ failed = FALSE /\ lost = 0 /\ asked = 0
OthersRest == MountRests /\ ListRests

FilesInit ==
  \/ part = "tree" /\ TreeInit /\ WinRests /\ NamesInit /\ ClientsRest /\ OthersRest
  \/ part = "window" /\ WinInit /\ TreeRests /\ NamesInit /\ ClientsRest /\ OthersRest
  \/ part = "names" /\ NamesInit /\ TreeRests /\ WinRests /\ ClientsRest /\ OthersRest
  \/ part = "clients" /\ FCInit /\ TreeRests /\ WinRests /\ NamesInit /\ OthersRest
  \/ /\ \/ part = "mount" /\ MountInit /\ ListRests
        \/ part = "listing" /\ ListInit /\ MountRests
     /\ TreeRests /\ WinRests /\ NamesInit /\ ClientsRest

Others == <<mountvars, listvars>>

FilesNext ==
  /\ UNCHANGED part
  /\ \/ part = "tree" /\ TreeNext /\ UNCHANGED <<winvars, namevars, fcvars, Others>>
     \/ part = "window" /\ WinNext /\ UNCHANGED <<treevars, namevars, fcvars, Others>>
     \/ part = "names" /\ NamesNext /\ UNCHANGED <<treevars, winvars, fcvars, Others>>
     \/ part = "clients" /\ FCNext /\ UNCHANGED <<treevars, winvars, namevars, Others>>
     \/ /\ UNCHANGED <<treevars, winvars, namevars, fcvars>>
        /\ \/ part = "mount" /\ MountNext /\ UNCHANGED listvars
           \/ part = "listing" /\ ListNext /\ UNCHANGED mountvars

FilesFairness ==
  /\ TreeFair
  /\ WF_fcvars(part = "clients" /\ Server) /\ WF_fcvars(part = "clients" /\ Sees)
  /\ WF_mountvars(part = "mount" /\ (f_mount \/ StartCalls))
  /\ WF_listvars(part = "listing" /\ ListServes)

FilesSpec == FilesInit /\ [][FilesNext]_filesvars /\ FilesFairness

\* No step of a server breaks what was there before it: the tree and its ".."
\* entries, the names of other files, the file that a power cut interrupts, and
\* the file that is being replaced.
StepsKeep == TreeKept /\ DotsKept /\ OthersStay /\ SafeAtCut /\ DstThere

\* The server starts, and every call of a client returns.
FilesEnd == CallsReturn /\ CallsAnswered /\ ServerStarts /\ ListingEnds
===============================================================================
