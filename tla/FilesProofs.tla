----------------------------- MODULE FilesProofs ------------------------------
(***************************************************************************)
(* Theorems about the mounting of a volume, for any sizes of its areas,    *)
(* about FFS-USB with its clients, for any files, slots and handles, and   *)
(* about its answers about directories, for any tree.                      *)
(***************************************************************************)
EXTENDS FatMount, FSClients, FSListing, Counting, Integers, TLAPS

-----------------------------------------------------------------------------
(***************************************************************************)
(* The volume.                                                             *)
(***************************************************************************)

\* What a division leaves out is less than the divisor.
LEMMA Quotient ==
  ASSUME NEW n \in Nat, NEW d \in Nat \ {0}
  PROVE  /\ n \div d \in Nat
         /\ d * (n \div d) <= n /\ n < d * (n \div d) + d
         /\ n >= d => n \div d >= 1
<1>1. n \div d \in Nat /\ n % d \in 0 .. d - 1 /\ n = d * (n \div d) + (n % d)
  OBVIOUS
<1>2. d * (n \div d) <= n /\ n < d * (n \div d) + d
  BY <1>1
<1>3. ASSUME n >= d, n \div d = 0 PROVE FALSE
  BY <1>1, <1>3
<1> QED
  BY <1>1, <1>2, <1>3

\* What is known of a boot record, and where it puts the areas.
LEMMA Boot ==
  ASSUME NEW base \in Nat, NEW v \in Volumes
  PROVE  LET behind == v.rsvd + v.n_fats * v.fatsz + v.rootent \div PerSector
             whole == (v.totsec - behind) \div v.spc
             at == Areas(base, v)
         IN  /\ behind \in Nat /\ v.spc \in Nat \ {0} /\ v.totsec \in Nat
             /\ v.rootent \div PerSector \in Nat
             /\ at.csize = v.spc /\ at.max_clust = whole + 2
             /\ at.database = base + behind
             /\ whole >= 1 /\ whole \in Nat
             /\ v.spc * whole <= v.totsec - behind
             /\ v.totsec - behind < v.spc * whole + v.spc
             /\ at.dirbase = IF TypeOf(whole + 2) = 32 THEN v.rootclus
                             ELSE base + behind - v.rootent \div PerSector
             /\ whole + 2 >= Fat32 => v.rootclus \in 2 .. whole + 1
<1> DEFINE f == v.n_fats * v.fatsz
           r == v.rootent \div PerSector
           behind == v.rsvd + f + r
           n == v.totsec - behind
           whole == n \div v.spc
           at == Areas(base, v)
<1>1. /\ v \in [rsvd : Nat, n_fats : Nat, fatsz : Nat, rootent : Nat, totsec : Nat,
                spc : Nat \ {0}, rootclus : Nat]
      /\ v.totsec >= behind + v.spc
      /\ whole + 2 >= Fat32 => v.rootclus \in 2 .. whole + 1
  BY FatMountAssumption
<1>2. f \in Nat /\ v.fatsz * v.n_fats = f /\ v.rsvd \in Nat /\ v.totsec \in Nat
      /\ v.spc \in Nat \ {0}
  BY <1>1
<1>3. r \in Nat
  BY <1>1, Quotient, FatMountAssumption
<1>4. n \in Nat /\ n >= v.spc /\ behind \in Nat
  BY <1>1, <1>2, <1>3
<1>5. /\ whole \in Nat /\ v.spc * whole <= n /\ n < v.spc * whole + v.spc /\ whole >= 1
  BY <1>2, <1>4, Quotient
<1>6. v.totsec - v.rsvd - f - r = n /\ base + v.rsvd + f + r = base + behind
      /\ base + v.rsvd + f = base + behind - r
  BY <1>2, <1>3
<1>7. at = [csize |-> v.spc, fatbase |-> base + v.rsvd, max_clust |-> whole + 2,
            dirbase |-> IF TypeOf(whole + 2) = 32 THEN v.rootclus ELSE base + v.rsvd + f,
            database |-> base + v.rsvd + f + r]
  BY <1>2, <1>6 DEF Areas
<1> HIDE DEF at, f, r
<1>8. /\ at.csize = v.spc /\ at.max_clust = whole + 2 /\ at.database = base + behind
      /\ at.dirbase = IF TypeOf(whole + 2) = 32 THEN v.rootclus ELSE base + behind - r
  BY <1>6, <1>7
<1> QED
  BY <1>1, <1>2, <1>3, <1>4, <1>5, <1>8 DEF at, f, r

\* A disk that has a volume says where it is.
DiskFits ==
  /\ sdcard.zero \in {"boot", "table"} => sdcard.base \in Nat /\ sdcard.boot \in Volumes

\* A mounted volume has the areas that follow from its boot record, and a file is
\* open only since the volume was mounted last.
MountInv ==
  /\ DiskFits
  /\ DOMAIN FatFs = {"fs_type", "id", "at"}
  /\ FatFs.fs_type # 0 =>
       /\ sdcard.zero \in {"boot", "table"}
       /\ FatFs.at = Areas(sdcard.base, sdcard.boot)
       /\ FatFs.fs_type = TypeOf(FatFs.at.max_clust)
  /\ mainAt # "loop" => opened = 0
  /\ opened # 0 => FatFs.fs_type # 0 /\ FatFs.id = opened

\* What auto_mount may do to the work area.
LEMMA MountStep ==
  ASSUME MountInv, auto_mount, sdcard' = sdcard
  PROVE  \/ FatFs' = FatFs
         \/ FatFs.fs_type = 0 /\ FatFs' = [FatFs EXCEPT !.fs_type = 0]
            /\ mounting'.res # "OK"
         \/ /\ FatFs.fs_type = 0
            /\ DOMAIN FatFs' = {"fs_type", "id", "at"}
            /\ sdcard.zero \in {"boot", "table"}
            /\ FatFs'.at = Areas(sdcard.base, sdcard.boot)
            /\ FatFs'.fs_type = TypeOf(FatFs'.at.max_clust)
<1>1. CASE IsMounted
  BY <1>1 DEF auto_mount
<1>2. CASE ~ IsMounted
  <2>1. FatFs.fs_type = 0
    BY <1>2 DEF IsMounted, StaNoInit
  <2>2. CASE \/ Fails("NOT_READY") \/ Fails("NO_FILESYSTEM") \/ ReadFails
    BY <2>1, <2>2 DEF Fails, ReadFails
  <2>3. CASE Mounts
    BY <2>1, <2>3 DEF Mounts, check_fs
  <2> QED
    BY <1>2, <2>2, <2>3 DEF auto_mount
<1> QED
  BY <1>1, <1>2

\* Each type has a number of its own.
LEMMA Types == \A n : TypeOf(n) \in {12, 16, 32} /\ (TypeOf(n) = 32 <=> n >= Fat32)
  BY DEF TypeOf

LEMMA InitMount == MountInit => MountInv
<1> SUFFICES ASSUME MountInit PROVE MountInv
  OBVIOUS
<1>1. DiskFits
  <2>1. CASE sdcard \in [found : BOOLEAN, zero : {"boot"}, base : {0}, boot : Volumes]
    BY <2>1 DEF DiskFits
  <2>2. CASE sdcard \in [found : {TRUE}, zero : {"table"}, base : Bases, boot : Volumes]
    <3>1. Bases \subseteq Nat
      BY FatMountAssumption
    <3> QED
      BY <2>2, <3>1 DEF DiskFits
  <2>3. CASE sdcard \in [found : {TRUE}, zero : {"other table", "blank"}, base : {0},
                         boot : {<<>>}]
    <3>1. sdcard.zero \in {"other table", "blank"}
      BY <2>3, Zenon
    <3> QED
      BY <3>1 DEF DiskFits
  <2> QED
    BY <2>1, <2>2, <2>3 DEF MountInit, Cards
<1>2. DOMAIN FatFs = {"fs_type", "id", "at"} /\ FatFs.fs_type = 0 /\ opened = 0
  BY DEF MountInit, NotMounted
<1> QED
  BY <1>1, <1>2 DEF MountInv

LEMMA NextMount == MountInv /\ [MountNext]_mountvars => MountInv'
<1> SUFFICES ASSUME MountInv, [MountNext]_mountvars PROVE MountInv'
  OBVIOUS
<1>0. sdcard' = sdcard
  BY DEF MountNext, f_mount, StartCalls, PathCall, FileCloses, mountvars
<1>1. DiskFits'
  BY <1>0 DEF MountInv, DiskFits
<1>2. CASE f_mount
  BY <1>0, <1>1, <1>2 DEF f_mount, MountInv
<1>3. CASE StartCalls \/ PathCall
  <2>1. auto_mount
    BY <1>3 DEF StartCalls, PathCall
  <2>2. opened' = opened \/ (mounting'.res = "OK" /\ opened' = FatFs'.id)
    BY <1>3 DEF StartCalls, PathCall
  <2>3. mainAt' # "loop" => opened' = 0
    BY <1>3 DEF StartCalls, PathCall, MountInv
  <2>4. CASE FatFs' = FatFs
    <3>1. opened' # 0 => FatFs.fs_type # 0 /\ FatFs.id = opened'
      <4>1. CASE opened' = opened
        BY <4>1 DEF MountInv
      <4>2. CASE mounting'.res = "OK" /\ opened' = FatFs'.id
        <5>1. IsMounted \/ Mounts
          BY <2>1, <4>2 DEF auto_mount, Fails, ReadFails
        <5>2. Mounts => FatFs'.fs_type # 0
          BY Types DEF Mounts
        <5> QED
          BY <2>4, <4>2, <5>1, <5>2 DEF IsMounted
      <4> QED
        BY <2>2, <4>1, <4>2
    <3> QED
      BY <1>0, <1>1, <2>3, <2>4, <3>1 DEF MountInv
  <2>5. CASE FatFs.fs_type = 0 /\ FatFs' = [FatFs EXCEPT !.fs_type = 0] /\ mounting'.res # "OK"
    BY <1>0, <1>1, <2>2, <2>3, <2>5 DEF MountInv
  <2>6. CASE /\ FatFs.fs_type = 0
             /\ DOMAIN FatFs' = {"fs_type", "id", "at"}
             /\ sdcard.zero \in {"boot", "table"}
             /\ FatFs'.at = Areas(sdcard.base, sdcard.boot)
             /\ FatFs'.fs_type = TypeOf(FatFs'.at.max_clust)
    <3>1. FatFs'.fs_type # 0
      BY <2>6, Types
    <3> QED
      BY <1>0, <1>1, <2>2, <2>3, <2>6, <3>1 DEF MountInv
  <2> QED
    BY <1>0, <2>1, <2>4, <2>5, <2>6, MountStep
<1>4. CASE FileCloses
  BY <1>0, <1>1, <1>4 DEF FileCloses, MountInv
<1>5. CASE UNCHANGED mountvars
  BY <1>5 DEF mountvars, MountInv, DiskFits
<1> QED
  BY <1>2, <1>3, <1>4, <1>5 DEF MountNext

\* Where the areas of a mounted volume are.
LEMMA AreasAreApart == MountInv => AreasApart
<1> SUFFICES ASSUME MountInv, FatFs.fs_type # 0
             PROVE  /\ clust2sect(2) = sdcard.base + sdcard.boot.rsvd
                           + sdcard.boot.n_fats * sdcard.boot.fatsz
                           + sdcard.boot.rootent \div PerSector
                    /\ clust2sect(FatFs.at.max_clust - 1) + sdcard.boot.spc
                         \in (sdcard.base + sdcard.boot.totsec) - sdcard.boot.spc + 1
                             .. sdcard.base + sdcard.boot.totsec
                    /\ FatFs.fs_type = 32 => FatFs.at.dirbase \in 2 .. FatFs.at.max_clust - 1
                    /\ FatFs.fs_type # 32 =>
                         FatFs.at.dirbase = FatFs.at.database - sdcard.boot.rootent \div PerSector
  BY DEF AreasApart
<1> DEFINE v == sdcard.boot
           base == sdcard.base
<1>0. v \in Volumes /\ base \in Nat
  BY DEF MountInv, DiskFits
<1>1. PICK r : r = v.rootent \div PerSector
  OBVIOUS
<1>2. PICK behind : behind = v.rsvd + v.n_fats * v.fatsz + v.rootent \div PerSector
  OBVIOUS
<1>3. PICK whole : whole = (v.totsec - behind) \div v.spc
  OBVIOUS
<1>4. /\ behind \in Nat /\ v.spc \in Nat \ {0} /\ v.totsec \in Nat /\ r \in Nat
      /\ FatFs.at.csize = v.spc /\ FatFs.at.max_clust = whole + 2
      /\ FatFs.at.database = base + behind
      /\ whole >= 1 /\ whole \in Nat
      /\ v.spc * whole <= v.totsec - behind
      /\ v.totsec - behind < v.spc * whole + v.spc
      /\ FatFs.at.dirbase = IF TypeOf(whole + 2) = 32 THEN v.rootclus ELSE base + behind - r
      /\ whole + 2 >= Fat32 => v.rootclus \in 2 .. whole + 1
      /\ FatFs.fs_type = TypeOf(whole + 2)
  <2>1. PICK b, w : b = base /\ w = v
    OBVIOUS
  <2>2. FatFs.at = Areas(b, w) /\ FatFs.fs_type = TypeOf(FatFs.at.max_clust)
    BY <2>1 DEF MountInv
  <2>3. b \in Nat /\ w \in Volumes
    BY <1>0, <2>1
  <2>4. /\ r = w.rootent \div PerSector
        /\ behind = w.rsvd + w.n_fats * w.fatsz + w.rootent \div PerSector
        /\ whole = (w.totsec - behind) \div w.spc
    BY <1>1, <1>2, <1>3, <2>1
  <2> DEFINE at == Areas(b, w)
  <2> HIDE DEF at
  <2>5. /\ behind \in Nat /\ w.spc \in Nat \ {0} /\ w.totsec \in Nat /\ r \in Nat
        /\ at.csize = w.spc /\ at.max_clust = whole + 2 /\ at.database = b + behind
        /\ whole >= 1 /\ whole \in Nat
        /\ w.spc * whole <= w.totsec - behind
        /\ w.totsec - behind < w.spc * whole + w.spc
        /\ at.dirbase = IF TypeOf(whole + 2) = 32 THEN w.rootclus ELSE b + behind - r
        /\ whole + 2 >= Fat32 => w.rootclus \in 2 .. whole + 1
    BY <2>3, <2>4, Boot DEF at
  <2> QED
    BY <2>1, <2>2, <2>5 DEF at
<1>5. base + v.rsvd + v.n_fats * v.fatsz + v.rootent \div PerSector = base + behind
  <2>1. /\ v.rsvd \in Nat /\ v.n_fats \in Nat /\ v.fatsz \in Nat
    BY <1>0, FatMountAssumption
  <2>2. v.n_fats * v.fatsz \in Nat
    BY <2>1
  <2> QED
    BY <1>0, <1>1, <1>2, <1>4, <2>1, <2>2
<1>6. clust2sect(2) = base + behind
  BY <1>0, <1>4 DEF clust2sect
<1>7. clust2sect(whole + 1) + v.spc = base + behind + v.spc * whole
  <2>1. (whole + 1 - 2) * v.spc + v.spc = v.spc * whole
    BY <1>4
  <2> QED
    BY <1>0, <1>4, <2>1 DEF clust2sect
<1>8. clust2sect(whole + 1) + v.spc \in (base + v.totsec) - v.spc + 1 .. base + v.totsec
  <2>1. PICK p : p = v.spc * whole
    OBVIOUS
  <2>2. p \in Nat
    BY <1>4, <2>1
  <2> QED
    BY <1>0, <1>4, <1>7, <2>1, <2>2
<1>9. FatFs.at.max_clust - 1 = whole + 1
  BY <1>4
<1>10. FatFs.fs_type = 32 => FatFs.at.dirbase \in 2 .. whole + 1
  BY <1>4, Types
<1>11. FatFs.fs_type # 32 => FatFs.at.dirbase = FatFs.at.database - v.rootent \div PerSector
  BY <1>0, <1>1, <1>4
<1>12. PICK last : last = FatFs.at.max_clust - 1
  OBVIOUS
<1>13. /\ clust2sect(last) + v.spc \in (base + v.totsec) - v.spc + 1 .. base + v.totsec
       /\ FatFs.fs_type = 32 => FatFs.at.dirbase \in 2 .. last
  BY <1>8, <1>9, <1>10, <1>12
<1>14. clust2sect(2) = base + v.rsvd + v.n_fats * v.fatsz + v.rootent \div PerSector
  BY <1>5, <1>6
<1> HIDE DEF v, base
<1>15. /\ clust2sect(FatFs.at.max_clust - 1) + v.spc \in (base + v.totsec) - v.spc + 1 .. base + v.totsec
       /\ FatFs.fs_type = 32 => FatFs.at.dirbase \in 2 .. FatFs.at.max_clust - 1
  BY <1>12, <1>13, Zenon
<1> QED
  BY <1>11, <1>14, <1>15, Zenon DEF v, base

\* A volume is read where its boot record puts it and stays mounted under the file
\* that is open, for volumes of any size, wherever the partition begins and whatever
\* reads fail.
THEOREM MountSafe == MountSpec => []MountRight
<1>1. MountInv => MountRight
  BY AreasAreApart DEF MountRight, HandlesLive, MountInv, validate, StaNoInit
<1> QED
  BY <1>1, InitMount, NextMount, PTL DEF MountSpec
-----------------------------------------------------------------------------
(***************************************************************************)
(* FFS-USB and its clients.  The messages that are ever sent:              *)
(***************************************************************************)
Ops   == {"open", "hax", "ax", "close", "read", "write", "seek", "stats", "create", "delete",
          "move", "isusb"}
Modes == SUBSET {"READ", "WRITE", "CREATE"}
Messages ==
  [from : Clients, op : Ops, path : Paths \cup {"none"}, to : Paths \cup {"none"},
   mode : Modes, fd : Int, n : Int, whence : Int]
-----------------------------------------------------------------------------
(***************************************************************************)
(* The clients of FFS-USB.  Each has at most one message under way, and    *)
(* what it says is known from where the client is.                         *)
(***************************************************************************)

Loads   == {"lopen", "lend", "lset", "lread", "lclose"}
Writes  == {"idle", "create", "delete", "again", "open", "write", "giveup", "close", "move"}
DIWaits == {"idle", "hax", "ax", "use", "close"}

EsSent(m) ==
  \/ es.at \in {"create", "again"} /\ m.op = "create" /\ m.path = TmpDst
  \/ es.at = "delete" /\ m.op = "delete" /\ m.path = TmpDst
  \/ es.at = "open" /\ m.op = "open" /\ m.path = TmpDst /\ m.mode = {"WRITE"}
  \/ es.at = "write" /\ m.op = "write" /\ m.fd = es.fd /\ m.n = Full /\ m.whence = es.ver
  \/ es.at \in {"close", "giveup", "lclose"} /\ m.op = "close" /\ m.fd = es.fd
  \/ es.at = "move" /\ m.op = "move" /\ m.path = TmpDst /\ m.to = Dst
  \/ es.at = "lopen" /\ m.op = "open" /\ m.path = Dst /\ m.mode = {"READ"}
  \/ es.at = "lend" /\ m.op = "seek" /\ m.fd = es.fd /\ m.n = 0 /\ m.whence = 2
  \/ es.at = "lset" /\ m.op = "seek" /\ m.fd = es.fd /\ m.n = 0 /\ m.whence = 0
  \/ es.at = "lread" /\ m.op = "read" /\ m.fd = es.fd /\ m.n = es.len

DiSent(m) ==
  \/ di.at = "hax" /\ m.op = "hax" /\ m.path = di.path
  \/ di.at = "ax" /\ m.op = "ax"
  \/ /\ di.at = "use" /\ m.op \in {"read", "write", "seek", "stats"}
     /\ \E x \in held : m.fd = Nhandle[x.h]
  \/ di.at = "use" /\ m.op = "delete" /\ m.path \in Own
  \/ di.at = "use" /\ m.op = "isusb"
  \/ di.at = "close" /\ m.op = "close" /\ m.fd = Nhandle[di.slot]

GameSent(m) ==
  \/ game.at = "open" /\ m.op = "open" /\ m.path = game.path /\ m.mode = {"READ"}
  \/ game.at = "close" /\ m.op = "close"

Sent(m) ==
  \/ m.from = "es" /\ EsSent(m)
  \/ m.from = "di" /\ DiSent(m)
  \/ m.from = "game" /\ GameSent(m)

\* A client that is idle waits for nothing, one that was answered has sent nothing.
QueueInv ==
  /\ queue \in Seq(Messages)
  /\ \A i \in 1 .. Len(queue) : Sent(queue[i]) /\ ~reply[queue[i].from].is
  /\ \A i, j \in 1 .. Len(queue) : queue[i].from = queue[j].from => i = j
  /\ work # NoMsg =>
       /\ work \in Messages /\ work.from = "es" /\ EsSent(work) /\ es.at = "move"
       /\ ~reply["es"].is /\ ~Exists(Dst)
       /\ \A i \in 1 .. Len(queue) : queue[i].from # "es"

WaitInv ==
  /\ reply = [c \in Clients |-> reply[c]] /\ \A c \in Clients : reply[c].is \in BOOLEAN
  /\ es.at = "idle" => ~reply["es"].is
  /\ di.at = "idle" => ~reply["di"].is
  /\ game.at = "idle" => ~reply["game"].is

-----------------------------------------------------------------------------
(***************************************************************************)
(* Whose a slot is: a handle is its client's from the answer to the open   *)
(* until the close is served.                                              *)
(***************************************************************************)

EsFd == IF es.at \in {"open", "lopen"} THEN Got("es") ELSE es.fd
EsOpen ==
  \/ ESHas
  \/ es.at \in {"close", "giveup", "lclose"} /\ ~reply["es"].is
  \/ es.at \in {"open", "lopen"} /\ reply["es"].is /\ Got("es") >= 0

DiFd(h) == IF di.at = "hax" /\ h = di.slot THEN Got("di") ELSE Nhandle[h]
DiOpen(h) ==
  \/ \E x \in held : x.h = h
  \/ h = di.slot /\ di.at = "hax" /\ reply["di"].is /\ Got("di") >= 0
  \/ h = di.slot /\ di.at = "ax" /\ Nhandle[h] >= 0
  \/ h = di.slot /\ di.at = "close" /\ ~reply["di"].is

GameCloses(s) == \E i \in 1 .. Len(queue) : queue[i].from = "game" /\ queue[i].fd = s
GameOpened == game.at = "open" /\ reply["game"].is /\ Got("game") >= 0

EsHas(s) == EsOpen /\ s = EsFd
DiHas(h, s) == DiOpen(h) /\ s = DiFd(h)
GameHas(s) ==
  \/ \E x \in game.has : x.h = s
  \/ GameOpened /\ s = Got("game")
  \/ game.at = "close" /\ GameCloses(s)

\* No slot is two clients', nor two handles of DI; and each that is used is somebody's.
Apart ==
  \A s \in Slots :
    /\ EsHas(s) => ~GameHas(s) /\ \A h \in Handles : ~DiHas(h, s)
    /\ \A h \in Handles : DiHas(h, s) => ~GameHas(s)
    /\ \A h, g \in Handles : DiHas(h, s) /\ DiHas(g, s) => h = g

Owned ==
  \A s \in Slots : fd_stack[s].fs => EsHas(s) \/ GameHas(s) \/ \E h \in Handles : DiHas(h, s)

-----------------------------------------------------------------------------
\* What ES's slot and its files hold at each of its steps.
EsDisk ==
  /\ es.at \in {"create", "again"} /\ reply["es"].is /\ Got("es") >= 0 => disk[TmpDst] = Empty
  /\ es.at \in {"open", "write"} \/ (es.at = "close" /\ ~reply["es"].is)
       => disk[TmpDst] = Empty
  /\ (es.at = "close" /\ reply["es"].is) \/ (es.at = "move" /\ ~reply["es"].is)
       => disk[TmpDst] = [ver |-> es.ver, len |-> Full]
  /\ es.at = "move" /\ reply["es"].is /\ Got("es") = FS_SUCCESS => disk[Dst].ver = es.ver
  /\ es.at \in Loads \cup {"idle"} /\ es.ret = FS_SUCCESS /\ ~early => disk[Dst].ver = es.ver
  /\ DstWhole

EsSlot ==
  /\ EsOpen => Holds(EsFd, IF es.at \in Loads THEN Dst ELSE TmpDst)
  /\ EsOpen /\ es.at \in {"open", "write"} /\ ~(es.at = "write" /\ reply["es"].is)
       => LET f == fd_stack[EsFd] IN f.fptr = 0 /\ f.fsize = 0 /\ f.mode = {"WRITE"}
  /\ (es.at = "write" /\ reply["es"].is /\ Got("es") = Full) \/ (es.at = "close" /\ ~reply["es"].is)
       => LET f == fd_stack[es.fd] IN f.dirty /\ f.fsize = Full /\ f.ver = es.ver
  /\ EsOpen /\ es.at \in Loads \ {"lclose"} => fd_stack[EsFd].fsize = Full
  /\ (es.at = "lset" /\ reply["es"].is) \/ (es.at = "lread" /\ ~reply["es"].is)
       => fd_stack[es.fd].fptr = 0

EsCall ==
  /\ es = [at |-> es.at, ver |-> es.ver, fd |-> es.fd, ret |-> es.ret, load |-> es.load,
           len |-> es.len]
  /\ es.at \in Loads \cup Writes /\ es.ver \in Int /\ es.fd \in Int
  /\ es.at \in {"create", "again", "open", "lopen"} /\ reply["es"].is => Got("es") \in Int
  /\ es.at = "close" => es.ret = Full
  /\ es.at = "giveup" /\ es.ret = FS_SUCCESS => early
  /\ es.at \in {"lset", "lread"} => es.len = Full
  /\ es.at \in {"lend", "lread"} /\ reply["es"].is => Got("es") = Full

DiCall ==
  /\ di = [at |-> di.at, path |-> di.path, mode |-> di.mode, slot |-> di.slot]
  /\ di.at \in DIWaits
  /\ Nhandle = [h \in Handles |-> Nhandle[h]]
  /\ \A x \in held : x = [h |-> x.h, path |-> x.path] /\ x.h \in Handles
                     /\ Nhandle[x.h] # Unused
  /\ \A x, y \in held : x.h = y.h => x = y
  /\ di.at \in {"hax", "ax", "close"} => di.slot \in Handles /\ \A x \in held : x.h # di.slot
  /\ di.at \in {"hax", "ax"} => di.path \in Own /\ di.mode \in Modes
  /\ di.at = "hax" /\ reply["di"].is => HAXHandle = Got("di") /\ Got("di") \in Results
  /\ di.at = "ax" => HAXHandle = Nhandle[di.slot] /\ Nhandle[di.slot] \in Results
  /\ di.at = "ax" /\ reply["di"].is => Got("di") = Nhandle[di.slot]

DiSlots ==
  /\ \A x \in held : x.path \in Own /\ Holds(Nhandle[x.h], x.path)
  /\ \A h \in Handles : DiOpen(h) => DiFd(h) \in Slots /\ fd_stack[DiFd(h)].fs
                                     /\ fd_stack[DiFd(h)].path \in Own
  /\ di.at \in {"hax", "ax"} /\ DiOpen(di.slot) => Holds(DiFd(di.slot), di.path)

GameCall ==
  /\ game = [at |-> game.at, path |-> game.path, has |-> game.has]
  /\ game.at \in {"idle", "open", "close"}
  /\ \A x \in game.has : x = [h |-> x.h, path |-> x.path] /\ x.path \in Own
  /\ game.at = "open" => game.path \in Own
  /\ game.at = "open" /\ reply["game"].is => Got("game") \in Results

GameSlots ==
  /\ \A x \in game.has : Holds(x.h, x.path)
  /\ GameOpened => Holds(Got("game"), game.path)
  /\ \A s \in Slots : GameHas(s) => fd_stack[s].fs /\ fd_stack[s].path \in Own
  /\ game.at = "close" =>
       \A s : GameCloses(s) => s \in Slots \cup {MAX_FILE} /\ \A x \in game.has : x.h # s

FIL(f) ==
  /\ f = [fs |-> f.fs, path |-> f.path, mode |-> f.mode, fptr |-> f.fptr, fsize |-> f.fsize,
          ver |-> f.ver, dirty |-> f.dirty]
  /\ f.fs \in BOOLEAN /\ f.dirty \in BOOLEAN

TableInv ==
  /\ disk = [p \in Paths |-> disk[p]]
  /\ fd_stack = [s \in Slots |-> fd_stack[s]] /\ \A s \in Slots : FIL(fd_stack[s])
  /\ \A s \in Slots : fd_stack[s].fs /\ fd_stack[s].path = Dst =>
       fd_stack[s].mode = {"READ"} /\ ~fd_stack[s].dirty

ClientsInv ==
  /\ TableInv /\ QueueInv /\ WaitInv /\ Apart /\ Owned
  /\ EsCall /\ EsDisk /\ EsSlot /\ DiCall /\ DiSlots /\ GameCall /\ GameSlots
-----------------------------------------------------------------------------
LEMMA EsSentKept ==
  ASSUME NEW m, UNCHANGED es
  PROVE  EsSent(m)' <=> EsSent(m)
BY DEF EsSent

LEMMA DiSentKept ==
  ASSUME NEW m, UNCHANGED <<di, held, Nhandle>>
  PROVE  DiSent(m)' <=> DiSent(m)
BY DEF DiSent

LEMMA GameSentKept ==
  ASSUME NEW m, UNCHANGED game
  PROVE  GameSent(m)' <=> GameSent(m)
BY DEF GameSent

\* A message that another client sent is not touched by what this one does.
LEMMA OthersSent ==
  ASSUME NEW c \in Clients, NEW m, m.from # c,
         c # "es" => UNCHANGED es,
         c # "di" => UNCHANGED <<di, held, Nhandle>>,
         c # "game" => UNCHANGED game,
         Sent(m)
  PROVE  Sent(m)'
<1>1. CASE m.from = "es" BY <1>1, EsSentKept DEF Sent
<1>2. CASE m.from = "di" BY <1>2, DiSentKept DEF Sent
<1>3. CASE m.from = "game" BY <1>3, GameSentKept DEF Sent
<1> QED BY <1>1, <1>2, <1>3 DEF Sent

\* What the server finds at the head of its queue.
LEMMA HeadKnown ==
  ASSUME QueueInv, queue # <<>>
  PROVE  /\ Head1 \in Messages /\ Sent(Head1) /\ ~reply[Head1.from].is
         /\ Tail(queue) \in Seq(Messages)
         /\ Len(Tail(queue)) \in Nat /\ Len(Tail(queue)) = Len(queue) - 1
         /\ \A i \in 1 .. Len(Tail(queue)) :
              /\ i + 1 \in 1 .. Len(queue) /\ Tail(queue)[i] = queue[i + 1]
              /\ Tail(queue)[i].from # Head1.from
<1>1. queue \in Seq(Messages) /\ Len(queue) \in Nat /\ Len(queue) > 0
  BY DEF QueueInv
<1>2. 1 \in 1 .. Len(queue) /\ Head1 = queue[1]
  BY <1>1 DEF Head1
<1>3. Head1 \in Messages /\ Sent(Head1) /\ ~reply[Head1.from].is
  <2>1. queue[1] \in Messages BY <1>1
  <2>2. Sent(queue[1]) /\ ~reply[queue[1].from].is BY <1>2 DEF QueueInv
  <2> QED BY <1>2, <2>1, <2>2 DEF Head1
<1>4. /\ Tail(queue) \in Seq(Messages) /\ Len(Tail(queue)) = Len(queue) - 1
      /\ \A i \in 1 .. Len(Tail(queue)) : Tail(queue)[i] = queue[i + 1]
  BY <1>1
<1>5. \A i \in 1 .. Len(Tail(queue)) : i + 1 \in 1 .. Len(queue) /\ i + 1 # 1
  BY <1>1, <1>4
<1>6. \A i \in 1 .. Len(Tail(queue)) : queue[i + 1].from # queue[1].from
  BY <1>2, <1>5 DEF QueueInv
<1>7. \A i \in 1 .. Len(Tail(queue)) : Tail(queue)[i].from # Head1.from
  BY <1>2, <1>4, <1>6
<1>8. Len(Tail(queue)) \in Nat BY <1>1, <1>4
<1>9. \A i \in 1 .. Len(Tail(queue)) :
        /\ i + 1 \in 1 .. Len(queue) /\ Tail(queue)[i] = queue[i + 1]
        /\ Tail(queue)[i].from # Head1.from
  BY <1>4, <1>5, <1>7
<1> QED BY <1>3, <1>4, <1>8, <1>9

\* The message that is served leaves the queue; the others are what they were.
LEMMA QueueServed ==
  ASSUME ClientsInv, queue # <<>>, work = NoMsg, queue' = Tail(queue), UNCHANGED clientvars,
         \A c \in Clients : c # Head1.from => reply'[c].is = reply[c].is,
         work' = NoMsg \/ (/\ work' = Head1 /\ Head1.from = "es" /\ es.at = "move"
                           /\ reply' = reply /\ disk'[Dst] = Missing)
  PROVE  QueueInv'
<1> USE DEF ClientsInv
<1> DEFINE q == Tail(queue)
<1>1. Head1 \in Messages /\ Sent(Head1) /\ ~reply[Head1.from].is
      /\ q \in Seq(Messages) /\ Len(q) \in Nat /\ Len(q) = Len(queue) - 1
      /\ \A i \in 1 .. Len(q) : i + 1 \in 1 .. Len(queue) /\ q[i] = queue[i + 1]
                                /\ q[i].from # Head1.from
  BY HeadKnown
<1>2. queue' = q OBVIOUS
<1> HIDE DEF q
<1>3. \A i \in 1 .. Len(q) : Sent(queue[i])' /\ ~reply'[q[i].from].is
  <2> SUFFICES ASSUME NEW i \in 1 .. Len(q) PROVE Sent(queue[i])' /\ ~reply'[q[i].from].is
    OBVIOUS
  <2>1. q[i] \in Messages /\ q[i].from # Head1.from /\ q[i] = queue[i + 1]
        /\ i + 1 \in 1 .. Len(queue)
    BY <1>1
  <2>2. Sent(queue[i + 1]) /\ ~reply[queue[i + 1].from].is
    BY <2>1 DEF QueueInv
  <2>3. PICK n : n = q[i] OBVIOUS
  <2>4. n.from \in Clients BY <2>1, <2>3 DEF Messages
  <2>5. Sent(n) BY <2>1, <2>2, <2>3
  <2>6. Sent(n)'
    BY <2>5, EsSentKept, DiSentKept, GameSentKept DEF Sent, clientvars
  <2>7. Sent(queue[i])'
    <3>1. n = queue'[i] BY <1>2, <2>3
    <3>2. EsSent(n)' => EsSent(queue[i])' BY <3>1 DEF EsSent
    <3>3. DiSent(n)' => DiSent(queue[i])' BY <3>1 DEF DiSent
    <3>4. GameSent(n)' => GameSent(queue[i])' BY <3>1 DEF GameSent
    <3> QED BY <2>6, <3>1, <3>2, <3>3, <3>4 DEF Sent
  <2>8. ~reply'[n.from].is BY <2>1, <2>2, <2>3, <2>4
  <2> QED BY <2>3, <2>7, <2>8
<1>4. \A i, j \in 1 .. Len(q) : q[i].from = q[j].from => i = j
  <2> SUFFICES ASSUME NEW i \in 1 .. Len(q), NEW j \in 1 .. Len(q), q[i].from = q[j].from
               PROVE  i = j
    OBVIOUS
  <2>1. /\ i + 1 \in 1 .. Len(queue) /\ q[i] = queue[i + 1]
        /\ j + 1 \in 1 .. Len(queue) /\ q[j] = queue[j + 1]
    BY <1>1
  <2>2. i + 1 = j + 1 BY <2>1 DEF QueueInv
  <2> QED BY <2>2
<1>5. work' # NoMsg =>
        /\ work' \in Messages /\ work'.from = "es" /\ EsSent(work)' /\ es'.at = "move"
        /\ ~reply'["es"].is /\ ~Exists(Dst)'
        /\ \A i \in 1 .. Len(q) : q[i].from # "es"
  <2> SUFFICES ASSUME work' # NoMsg
               PROVE  /\ work' \in Messages /\ work'.from = "es" /\ EsSent(work)'
                      /\ es'.at = "move" /\ ~reply'["es"].is /\ ~Exists(Dst)'
                      /\ \A i \in 1 .. Len(q) : q[i].from # "es"
    OBVIOUS
  <2>1. /\ work' = Head1 /\ Head1.from = "es" /\ es.at = "move" /\ reply' = reply
        /\ disk'[Dst] = Missing
    OBVIOUS
  <2>2. EsSent(Head1) BY <1>1, <2>1 DEF Sent
  <2>3. PICK n : n = Head1 OBVIOUS
  <2>4. EsSent(n)' BY <2>2, <2>3, EsSentKept DEF clientvars
  <2>5. EsSent(work)' BY <2>1, <2>3, <2>4 DEF EsSent
  <2> QED BY <1>1, <2>1, <2>5 DEF Exists, clientvars
<1>6. queue' \in Seq(Messages) /\ Len(queue') = Len(q)
      /\ \A i \in 1 .. Len(q) : queue'[i] = q[i]
  BY <1>1, <1>2
<1>7. Messages' = Messages BY DEF Messages, Clients
<1>8. \A i \in 1 .. Len(queue') : Sent(queue[i])' /\ ~reply'[queue'[i].from].is
  BY <1>3, <1>6
<1>9. \A i, j \in 1 .. Len(queue') : queue'[i].from = queue'[j].from => i = j
  BY <1>4, <1>6
<1>10. work' # NoMsg => \A i \in 1 .. Len(queue') : queue'[i].from # "es"
  BY <1>5, <1>6
<1>11. NoMsg' = NoMsg BY DEF NoMsg
<1> QED BY <1>5, <1>6, <1>7, <1>8, <1>9, <1>10, <1>11, Zenon DEF QueueInv
\* A client that is idle, or that has its answer, has no message under way.
LEMMA NoneSent ==
  ASSUME QueueInv, NEW c \in Clients,
         \/ reply[c].is
         \/ c = "es" /\ es.at = "idle"
         \/ c = "di" /\ di.at = "idle"
         \/ c = "game" /\ game.at = "idle"
  PROVE  /\ \A i \in 1 .. Len(queue) : queue[i].from # c
         /\ work # NoMsg => c # "es"
<1>1. \A i \in 1 .. Len(queue) : queue[i].from # c
  <2> SUFFICES ASSUME NEW i \in 1 .. Len(queue), queue[i].from = c PROVE FALSE
    OBVIOUS
  <2>1. Sent(queue[i]) /\ ~reply[c].is BY DEF QueueInv
  <2>2. CASE c = "es" BY <2>1, <2>2 DEF Sent, EsSent
  <2>3. CASE c = "di" BY <2>1, <2>3 DEF Sent, DiSent
  <2>4. CASE c = "game" BY <2>1, <2>4 DEF Sent, GameSent
  <2> QED BY <2>2, <2>3, <2>4 DEF Clients
<1>2. work # NoMsg => c # "es"
  BY DEF QueueInv
<1> QED BY <1>1, <1>2

\* A client sends a message, or sees its answer, or both.
LEMMA QueueClient ==
  ASSUME QueueInv, NEW c \in Clients, NEW m,
         \/ queue' = queue
         \/ m \in Messages /\ m.from = c /\ Sent(m)' /\ queue' = Append(queue, m),
         \A i \in 1 .. Len(queue) : queue[i].from # c,
         work # NoMsg => c # "es",
         UNCHANGED <<disk, work>>,
         c # "es" => UNCHANGED es,
         c # "di" => UNCHANGED <<di, held, Nhandle>>,
         c # "game" => UNCHANGED game,
         \A d \in Clients : d # c => reply'[d].is = reply[d].is,
         ~reply'[c].is
  PROVE  QueueInv'
<1>1. queue \in Seq(Messages) /\ Len(queue) \in Nat
  BY DEF QueueInv
<1>2. \A i \in 1 .. Len(queue) : queue[i] \in Messages
  BY <1>1
<1>3. \A i \in 1 .. Len(queue) : Sent(queue[i])'
        /\ queue[i].from \in Clients /\ ~reply'[queue[i].from].is
  <2> SUFFICES ASSUME NEW i \in 1 .. Len(queue)
               PROVE  Sent(queue[i])' /\ queue[i].from \in Clients /\ ~reply'[queue[i].from].is
    OBVIOUS
  <2>1. Sent(queue[i]) /\ ~reply[queue[i].from].is BY DEF QueueInv
  <2>2. PICK n : n = queue[i] OBVIOUS
  <2>3. n.from # c /\ n.from \in Clients BY <1>2, <2>2 DEF Messages
  <2>4. Sent(n)' BY <2>1, <2>2, <2>3, OthersSent
  <2>5. n = queue'[i]
    <3>1. CASE queue' = queue BY <2>2, <3>1
    <3>2. CASE queue' = Append(queue, m) /\ m \in Messages BY <1>1, <2>2, <3>2
    <3> QED BY <3>1, <3>2
  <2>6. Sent(queue[i])'
    <3>2. EsSent(n)' => EsSent(queue[i])' BY <2>5 DEF EsSent
    <3>3. DiSent(n)' => DiSent(queue[i])' BY <2>5 DEF DiSent
    <3>4. GameSent(n)' => GameSent(queue[i])' BY <2>5 DEF GameSent
    <3> QED BY <2>4, <2>5, <3>2, <3>3, <3>4 DEF Sent
  <2>7. reply'[n.from].is = reply[n.from].is BY <2>3
  <2> QED BY <2>1, <2>2, <2>3, <2>6, <2>7
<1>4. work' # NoMsg =>
        /\ work' \in Messages /\ work'.from = "es" /\ EsSent(work)' /\ es'.at = "move"
        /\ ~reply'["es"].is /\ ~Exists(Dst)'
        /\ \A i \in 1 .. Len(queue) : queue[i].from # "es"
  <2> SUFFICES ASSUME work' # NoMsg
               PROVE  /\ work' \in Messages /\ work'.from = "es" /\ EsSent(work)'
                      /\ es'.at = "move" /\ ~reply'["es"].is /\ ~Exists(Dst)'
                      /\ \A i \in 1 .. Len(queue) : queue[i].from # "es"
    OBVIOUS
  <2>1. /\ work # NoMsg /\ work \in Messages /\ work.from = "es" /\ EsSent(work)
        /\ es.at = "move" /\ ~reply["es"].is /\ ~Exists(Dst)
        /\ \A i \in 1 .. Len(queue) : queue[i].from # "es"
    BY DEF QueueInv
  <2>2. c # "es" /\ "es" \in Clients BY <2>1 DEF Clients
  <2>3. EsSent(work)' BY <2>1, <2>2 DEF EsSent
  <2> QED BY <2>1, <2>2, <2>3 DEF Exists, Missing
<1>5. Messages' = Messages /\ NoMsg' = NoMsg BY DEF Messages, Clients, NoMsg
<1>6. CASE queue' = queue
  <2>1. \A i \in 1 .. Len(queue') : Sent(queue[i])' /\ ~reply'[queue'[i].from].is
    BY <1>3, <1>6
  <2>2. /\ queue' \in Seq(Messages)
        /\ \A i, j \in 1 .. Len(queue') : queue'[i].from = queue'[j].from => i = j
    BY <1>6 DEF QueueInv
  <2>3. work' # NoMsg => \A i \in 1 .. Len(queue') : queue'[i].from # "es"
    BY <1>4, <1>6
  <2> QED BY <1>4, <1>5, <2>1, <2>2, <2>3, Zenon DEF QueueInv
<1>7. CASE m \in Messages /\ m.from = c /\ Sent(m)' /\ queue' = Append(queue, m)
  <2>0. PICK k : k = Len(queue) + 1 OBVIOUS
  <2>1. queue' \in Seq(Messages) /\ Len(queue') = k /\ queue'[k] = m
        /\ \A i \in 1 .. Len(queue) : queue'[i] = queue[i]
    BY <1>1, <1>7, <2>0
  <2>2. \A i \in 1 .. k : i \in 1 .. Len(queue) \/ i = k
    BY <1>1, <2>0
  <2>3. Sent(queue[k])'
    <3>2. EsSent(m)' => EsSent(queue[k])' BY <2>1 DEF EsSent
    <3>3. DiSent(m)' => DiSent(queue[k])' BY <2>1 DEF DiSent
    <3>4. GameSent(m)' => GameSent(queue[k])' BY <2>1 DEF GameSent
    <3> QED BY <1>7, <2>1, <3>2, <3>3, <3>4 DEF Sent
  <2>4. \A i \in 1 .. Len(queue') : Sent(queue[i])' /\ ~reply'[queue'[i].from].is
    <3> SUFFICES ASSUME NEW i \in 1 .. k PROVE Sent(queue[i])' /\ ~reply'[queue'[i].from].is
      BY <2>1
    <3>1. CASE i \in 1 .. Len(queue) BY <1>3, <2>1, <3>1
    <3>2. CASE i = k
      <4>1. Sent(queue[i])' BY <2>3, <3>2
      <4> QED BY <1>7, <2>1, <3>2, <4>1
    <3> QED BY <2>2, <3>1, <3>2
  <2>5. \A i, j \in 1 .. Len(queue') : queue'[i].from = queue'[j].from => i = j
    <3> SUFFICES ASSUME NEW i \in 1 .. k, NEW j \in 1 .. k, queue'[i].from = queue'[j].from
                 PROVE  i = j
      BY <2>1
    <3>1. CASE i = k /\ j = k BY <3>1
    <3>2. CASE i = k /\ j \in 1 .. Len(queue) BY <1>7, <2>0, <2>1, <3>2
    <3>3. CASE j = k /\ i \in 1 .. Len(queue) BY <1>7, <2>1, <3>3
    <3>4. CASE i \in 1 .. Len(queue) /\ j \in 1 .. Len(queue)
      BY <2>1, <3>4 DEF QueueInv
    <3> QED BY <2>2, <3>1, <3>2, <3>3, <3>4
  <2>6. work' # NoMsg => \A i \in 1 .. Len(queue') : queue'[i].from # "es"
    <3> SUFFICES ASSUME work' # NoMsg, NEW i \in 1 .. k PROVE queue'[i].from # "es"
      BY <2>1
    <3>1. CASE i \in 1 .. Len(queue) BY <1>4, <2>1, <3>1
    <3>2. CASE i = k BY <1>7, <2>0, <2>1, <3>2
    <3> QED BY <2>2, <3>1, <3>2
  <2> QED BY <1>4, <1>5, <2>1, <2>4, <2>5, <2>6, Zenon DEF QueueInv
<1> QED BY <1>6, <1>7

-----------------------------------------------------------------------------
(***************************************************************************)
(* What one message does, whoever sent it: it changes its own slot, and    *)
(* only a file that it names or that its slot is open on.                  *)
(***************************************************************************)
SlotStep(m, r, s) ==
  \/ fd_stack'[s] = fd_stack[s]
  \/ m.op = "close" /\ s = m.fd /\ fd_stack'[s] = NoFIL
  \/ /\ m.op \in {"read", "write", "seek"} /\ s = m.fd /\ fd_stack[s].fs
     /\ fd_stack'[s].fs /\ fd_stack'[s].path = fd_stack[s].path
     /\ fd_stack'[s].mode = fd_stack[s].mode
     /\ (fd_stack'[s].dirty => fd_stack[s].dirty \/ "WRITE" \in fd_stack[s].mode)
  \/ /\ m.op \in {"open", "hax"} /\ s = r /\ ~fd_stack[s].fs
     /\ fd_stack'[s] = Opened(m.path, m.mode, disk'[m.path])

FileStep(m, p) ==
  \/ disk'[p] = disk[p]
  \/ m.op \in {"open", "hax"} /\ "CREATE" \in m.mode /\ p = m.path
  \/ /\ m.op = "close" /\ m.fd \in Slots /\ fd_stack[m.fd].fs /\ fd_stack[m.fd].dirty
     /\ p = fd_stack[m.fd].path
  \/ m.op \in {"create", "delete"} /\ p = m.path
  \/ m.op = "move" /\ p \in {m.path, m.to}

Effect(m, r) ==
  /\ reply' = [reply EXCEPT ![m.from] = Answered(r)]
  /\ fd_stack' = [s \in Slots |-> fd_stack'[s]] /\ \A s \in Slots : FIL(fd_stack'[s])
  /\ disk' = [p \in Paths |-> disk'[p]]
  /\ \A s \in Slots : SlotStep(m, r, s)
  /\ \A p \in Paths : FileStep(m, p)
  /\ m.op \in {"open", "hax"} =>
       r \in Results /\ (r \in Slots => ~fd_stack[r].fs
                         /\ fd_stack'[r] = Opened(m.path, m.mode, disk'[m.path]))
  /\ m.op = "close" /\ m.fd \in Slots => ~fd_stack'[m.fd].fs
  /\ m.op = "hax" => HAXHandle' = r
  /\ m.op # "hax" => HAXHandle' = HAXHandle
  /\ m.op = "ax" => r = HAXHandle

\* An answer that changes nothing.
LEMMA OnlyEffect ==
  ASSUME TableInv, NEW m, NEW r, Only(m, r), m.op \notin {"open", "hax"},
         m.op = "close" /\ m.fd \in Slots => ~fd_stack[m.fd].fs,
         m.op = "ax" => r = HAXHandle
  PROVE  Effect(m, r)
BY DEF Effect, SlotStep, FileStep, TableInv, Only, Ack, Same

LEMMA OpenEffect ==
  ASSUME TableInv, NEW m, m.op \in {"open", "hax"}, m.path \in Paths, NEW r \in Results,
         FS_Open(m.path, m.mode, r), Ack(m, r),
         m.op = "hax" => HAXHandle' = r,
         m.op # "hax" => HAXHandle' = HAXHandle
  PROVE  Effect(m, r)
<1>0. disk = [p \in Paths |-> disk[p]] /\ fd_stack = [s \in Slots |-> fd_stack[s]]
      /\ \A s \in Slots : FIL(fd_stack[s])
  BY DEF TableInv
<1>1. CASE r \in Slots /\ FreeSlot(r)
  <2>1. /\ disk' = IF "CREATE" \in m.mode THEN [disk EXCEPT ![m.path] = Empty] ELSE disk
        /\ fd_stack' = [fd_stack EXCEPT ![r] = Opened(m.path, m.mode, disk'[m.path])]
    BY <1>1 DEF FS_Open, FreeSlot, Slots, FS_NO_HANDLE, FS_ENOENT2
  <2>2. disk' = [p \in Paths |-> disk'[p]] /\ \A p \in Paths : FileStep(m, p)
    BY <1>0, <2>1 DEF FileStep
  <2>3. ~fd_stack[r].fs BY <1>1 DEF FreeSlot
  <2>4. PICK o : o = Opened(m.path, m.mode, disk'[m.path]) OBVIOUS
  <2>5. FIL(o) BY <2>4 DEF Opened, FIL
  <2>6. /\ fd_stack' = [s \in Slots |-> fd_stack'[s]] /\ fd_stack'[r] = o
        /\ \A s \in Slots : s # r => fd_stack'[s] = fd_stack[s]
    BY <1>0, <1>1, <2>1, <2>4
  <2>7. \A s \in Slots : FIL(fd_stack'[s]) /\ SlotStep(m, r, s)
    BY <1>0, <2>3, <2>4, <2>5, <2>6 DEF SlotStep
  <2> QED BY <1>1, <2>2, <2>3, <2>4, <2>6, <2>7 DEF Effect, Ack
<1>2. CASE ~(r \in Slots /\ FreeSlot(r))
  <2>1. r \notin Slots /\ UNCHANGED <<disk, fd_stack>>
    BY <1>2 DEF FS_Open, FreeSlot, Slots, FS_NO_HANDLE, FS_ENOENT2
  <2> QED BY <1>0, <2>1 DEF Effect, Ack, SlotStep, FileStep
<1> QED BY <1>1, <1>2

LEMMA ServeEffect ==
  ASSUME TableInv, QueueInv, DiCall, GameCall, Serve
  PROVE  \E r : Effect(Head1, r)
<1>0. /\ disk = [p \in Paths |-> disk[p]] /\ fd_stack = [s \in Slots |-> fd_stack[s]]
      /\ \A s \in Slots : FIL(fd_stack[s])
  BY DEF TableInv
<1>1. Head1 \in Messages /\ Sent(Head1) BY HeadKnown DEF Serve
<1>a. Dst \in Paths /\ TmpDst \in Paths /\ Own \subseteq Paths
  BY FSUSBAssumption, FSClientsAssumption
<1>2. ASSUME IOS_OPEN(Head1) PROVE \E r : Effect(Head1, r)
  <2>1. PICK r \in Results : FS_Open(Head1.path, Head1.mode, r) /\ Ack(Head1, r)
    BY <1>2 DEF IOS_OPEN
  <2>2. Head1.op = "open" /\ UNCHANGED HAXHandle BY <1>2 DEF IOS_OPEN
  <2>3. Head1.path \in Paths
    BY <1>1, <1>a, <2>2 DEF Sent, EsSent, DiSent, GameSent, GameCall
  <2> QED BY <2>1, <2>2, <2>3, OpenEffect
<1>3. ASSUME HaxOpen(Head1) PROVE \E r : Effect(Head1, r)
  <2>1. PICK r \in Results : FS_Open(Head1.path, Head1.mode, r) /\ Ack(Head1, r)
                             /\ HAXHandle' = r
    BY <1>3 DEF HaxOpen
  <2>2. Head1.op = "hax" BY <1>3 DEF HaxOpen
  <2>3. Head1.path \in Paths
    BY <1>1, <1>a, <2>2 DEF Sent, EsSent, DiSent, GameSent, DiCall
  <2> QED BY <2>1, <2>2, <2>3, OpenEffect
<1>4. ASSUME NEW r, Only(Head1, r), Head1.op \notin {"open", "hax"},
             Head1.op = "close" /\ Head1.fd \in Slots => ~fd_stack[Head1.fd].fs,
             Head1.op = "ax" => r = HAXHandle
      PROVE  \E q : Effect(Head1, q)
  BY <1>4, OnlyEffect
<1>5. ASSUME HaxHandle(Head1) PROVE \E r : Effect(Head1, r)
  BY <1>4, <1>5 DEF HaxHandle
<1>6. ASSUME FS_Close(Head1) PROVE \E r : Effect(Head1, r)
  <2>1. /\ Head1.op = "close" /\ Head1.fd \in Slots /\ fd_stack[Head1.fd].fs
        /\ disk' = Synced(fd_stack[Head1.fd])
        /\ fd_stack' = [fd_stack EXCEPT ![Head1.fd] = NoFIL]
        /\ Ack(Head1, FS_SUCCESS) /\ UNCHANGED HAXHandle
    BY <1>6 DEF FS_Close, FS_CheckHandle
  <2>2. disk' = [p \in Paths |-> disk'[p]] /\ \A p \in Paths : FileStep(Head1, p)
    BY <1>0, <2>1 DEF FileStep, Synced
  <2>3. /\ fd_stack' = [s \in Slots |-> fd_stack'[s]] /\ fd_stack'[Head1.fd] = NoFIL
        /\ \A s \in Slots : s # Head1.fd => fd_stack'[s] = fd_stack[s]
    BY <1>0, <2>1
  <2>4. FIL(NoFIL) /\ ~NoFIL.fs BY DEF FIL, NoFIL
  <2>5. \A s \in Slots : FIL(fd_stack'[s]) /\ SlotStep(Head1, FS_SUCCESS, s)
    BY <1>0, <2>1, <2>3, <2>4 DEF SlotStep
  <2>6. Effect(Head1, FS_SUCCESS)
    BY <2>1, <2>2, <2>3, <2>4, <2>5 DEF Effect, Ack
  <2> QED BY <2>6
<1>7. ASSUME BadHandle(Head1) PROVE \E r : Effect(Head1, r)
  BY <1>4, <1>7 DEF BadHandle, FS_CheckHandle
<1>8. ASSUME NEW r, NEW f, Head1.op \in {"read", "write", "seek"}, FS_CheckHandle(Head1.fd),
             fd_stack' = [fd_stack EXCEPT ![Head1.fd] = f], FIL(f), f.fs,
             f.path = fd_stack[Head1.fd].path, f.mode = fd_stack[Head1.fd].mode,
             f.dirty => fd_stack[Head1.fd].dirty \/ "WRITE" \in fd_stack[Head1.fd].mode,
             Ack(Head1, r), UNCHANGED <<disk, HAXHandle>>
      PROVE  \E q : Effect(Head1, q)
  <2>1. Head1.fd \in Slots /\ fd_stack[Head1.fd].fs BY <1>8 DEF FS_CheckHandle
  <2>2. /\ fd_stack' = [s \in Slots |-> fd_stack'[s]] /\ fd_stack'[Head1.fd] = f
        /\ \A s \in Slots : s # Head1.fd => fd_stack'[s] = fd_stack[s]
    BY <1>0, <1>8, <2>1
  <2>3. \A s \in Slots : FIL(fd_stack'[s])
    BY <1>0, <1>8, <2>1, <2>2
  <2>4. \A s \in Slots : SlotStep(Head1, r, s)
    BY <1>8, <2>1, <2>2 DEF SlotStep
  <2>5. \A p \in Paths : FileStep(Head1, p)
    BY <1>8 DEF FileStep
  <2>6. Effect(Head1, r)
    BY <1>0, <1>8, <2>2, <2>3, <2>4, <2>5 DEF Effect, Ack
  <2> QED BY <2>6
<1>9. ASSUME FS_Write(Head1) PROVE \E r : Effect(Head1, r)
  <2> DEFINE f == fd_stack[Head1.fd]
             wrote == Lower(Head1.n, (f.fsize - f.fptr) + Room)
             g == [f EXCEPT !.fptr = @ + wrote, !.fsize = Higher(@, f.fptr + wrote),
                            !.ver = Head1.whence, !.dirty = TRUE]
  <2>1. /\ Head1.op = "write" /\ FS_CheckHandle(Head1.fd)
        /\ IF "WRITE" \notin f.mode THEN Only(Head1, FS_EACCESS)
           ELSE /\ fd_stack' = [fd_stack EXCEPT ![Head1.fd] = g]
                /\ Ack(Head1, wrote) /\ UNCHANGED <<disk, HAXHandle>>
    BY <1>9 DEF FS_Write
  <2>2. FIL(f) /\ f.fs BY <1>0, <2>1 DEF FS_CheckHandle
  <2>3. PICK w : w = wrote OBVIOUS
  <2>4. PICK h : h = Higher(f.fsize, f.fptr + w) OBVIOUS
  <2>5. PICK k : k = [f EXCEPT !.fptr = @ + w, !.fsize = h, !.ver = Head1.whence, !.dirty = TRUE]
    OBVIOUS
  <2>6. k = g BY <2>3, <2>4, <2>5
  <2> HIDE DEF wrote, g
  <2>7. FIL(k) /\ k.fs /\ k.path = f.path /\ k.mode = f.mode
    BY <2>2, <2>5 DEF FIL
  <2>8. CASE "WRITE" \notin f.mode
    BY <1>4, <2>1, <2>8
  <2>9. CASE "WRITE" \in f.mode
    BY <1>8, <2>1, <2>6, <2>7, <2>9
  <2> QED BY <2>8, <2>9
<1>10. ASSUME FS_Read(Head1) PROVE \E r : Effect(Head1, r)
  <2> DEFINE f == fd_stack[Head1.fd]
             read == Lower(Head1.n, f.fsize - f.fptr)
  <2>1. /\ Head1.op = "read" /\ FS_CheckHandle(Head1.fd)
        /\ IF "READ" \notin f.mode THEN Only(Head1, FS_EACCESS)
           ELSE /\ fd_stack' = [fd_stack EXCEPT ![Head1.fd].fptr = @ + read]
                /\ Ack(Head1, read) /\ UNCHANGED <<disk, HAXHandle>>
    BY <1>10 DEF FS_Read
  <2>2. FIL(f) /\ f.fs BY <1>0, <2>1 DEF FS_CheckHandle
  <2>3. PICK w : w = f.fptr + read OBVIOUS
  <2>4. PICK k : k = [f EXCEPT !.fptr = w] OBVIOUS
  <2>5. FIL(k) /\ k.fs /\ k.path = f.path /\ k.mode = f.mode /\ k.dirty = f.dirty
    BY <2>2, <2>4 DEF FIL
  <2>6. [fd_stack EXCEPT ![Head1.fd].fptr = @ + read] = [fd_stack EXCEPT ![Head1.fd] = k]
    BY <2>3, <2>4
  <2> HIDE DEF read
  <2>7. CASE "READ" \notin f.mode
    BY <1>4, <2>1, <2>7
  <2>8. CASE "READ" \in f.mode
    BY <1>8, <2>1, <2>5, <2>6, <2>8
  <2> QED BY <2>7, <2>8
<1>11. ASSUME FS_Seek(Head1) PROVE \E r : Effect(Head1, r)
  <2> DEFINE f == fd_stack[Head1.fd]
             base == CASE Head1.whence = 0 -> 0 [] Head1.whence = 1 -> f.fptr [] OTHER -> f.fsize
             ofs == (Head1.n + base) % Width
  <2>1. /\ Head1.op = "seek" /\ FS_CheckHandle(Head1.fd)
        /\ IF Head1.whence = 0 /\ ofs > f.fsize THEN Only(Head1, FS_EFATAL)
           ELSE /\ fd_stack' = [fd_stack EXCEPT ![Head1.fd] = f_lseek(Head1.fd, ofs)]
                /\ Ack(Head1, f_lseek(Head1.fd, ofs).fptr) /\ UNCHANGED <<disk, HAXHandle>>
    BY <1>11 DEF FS_Seek
  <2>2. FIL(f) /\ f.fs BY <1>0, <2>1 DEF FS_CheckHandle
  <2>3. PICK w : w = Lower(ofs, f.fsize) OBVIOUS
  <2>4. PICK k : k = [f EXCEPT !.fptr = w] OBVIOUS
  <2>5. FIL(k) /\ k.fs /\ k.path = f.path /\ k.mode = f.mode /\ k.dirty = f.dirty
    BY <2>2, <2>4 DEF FIL
  <2>6. f_lseek(Head1.fd, ofs) = k BY <2>3, <2>4 DEF f_lseek
  <2> HIDE DEF ofs
  <2>7. CASE Head1.whence = 0 /\ ofs > f.fsize
    BY <1>4, <2>1, <2>7
  <2>8. CASE ~(Head1.whence = 0 /\ ofs > f.fsize)
    BY <1>8, <2>1, <2>5, <2>6, <2>8
  <2> QED BY <2>7, <2>8
<1>12. ASSUME FS_GetStats(Head1) PROVE \E r : Effect(Head1, r)
  BY <1>4, <1>12 DEF FS_GetStats
<1>13. ASSUME NEW r, NEW d, disk' = d, d = [p \in Paths |-> d[p]], Ack(Head1, r),
              UNCHANGED <<fd_stack, HAXHandle>>, Head1.op \in {"create", "delete", "move"},
              \A p \in Paths : FileStep(Head1, p)
       PROVE  \E q : Effect(Head1, q)
  <2>1. \A s \in Slots : SlotStep(Head1, r, s) BY <1>13 DEF SlotStep
  <2>2. Effect(Head1, r) BY <1>0, <1>13, <2>1 DEF Effect, Ack
  <2> QED BY <2>2
<1>14. ASSUME FS_CreateFile(Head1) PROVE \E r : Effect(Head1, r)
  <2>1. CASE Exists(Head1.path) BY <1>4, <1>14, <2>1 DEF FS_CreateFile
  <2>2. CASE ~Exists(Head1.path)
    <3>1. /\ disk' = [disk EXCEPT ![Head1.path] = Empty] /\ Ack(Head1, FS_SUCCESS)
          /\ UNCHANGED <<fd_stack, HAXHandle>> /\ Head1.op = "create"
      BY <1>14, <2>2 DEF FS_CreateFile
    <3>2. \A p \in Paths : FileStep(Head1, p) BY <1>0, <3>1 DEF FileStep
    <3>3. disk' = [p \in Paths |-> disk'[p]] BY <1>0, <3>1
    <3> QED BY <1>13, <3>1, <3>2, <3>3
  <2> QED BY <2>1, <2>2
<1>15. ASSUME FS_DeleteFile(Head1) PROVE \E r : Effect(Head1, r)
  <2>1. CASE ~Exists(Head1.path) BY <1>4, <1>15, <2>1 DEF FS_DeleteFile
  <2>2. CASE Exists(Head1.path)
    <3>1. /\ disk' = [disk EXCEPT ![Head1.path] = Missing] /\ Ack(Head1, FS_SUCCESS)
          /\ UNCHANGED <<fd_stack, HAXHandle>> /\ Head1.op = "delete"
      BY <1>15, <2>2 DEF FS_DeleteFile
    <3>2. \A p \in Paths : FileStep(Head1, p) BY <1>0, <3>1 DEF FileStep
    <3>3. disk' = [p \in Paths |-> disk'[p]] BY <1>0, <3>1
    <3> QED BY <1>13, <3>1, <3>2, <3>3
  <2> QED BY <2>1, <2>2
<1>16. ASSUME FS_Move(Head1) PROVE \E r : Effect(Head1, r)
  <2>1. CASE ~Exists(Head1.path) BY <1>4, <1>16, <2>1 DEF FS_Move
  <2>2. CASE Exists(Head1.path)
    <3>1. /\ disk' = Renamed(Head1.path, Head1.to) /\ Ack(Head1, FS_SUCCESS)
          /\ UNCHANGED <<fd_stack, HAXHandle>> /\ Head1.op = "move"
      BY <1>16, <2>2 DEF FS_Move
    <3>2. \A p \in Paths : FileStep(Head1, p) BY <1>0, <3>1 DEF FileStep, Renamed
    <3>3. disk' = [p \in Paths |-> disk'[p]] BY <1>0, <3>1 DEF Renamed
    <3> QED BY <1>13, <3>1, <3>2, <3>3
  <2> QED BY <2>1, <2>2
<1>17. ASSUME IsUSB(Head1) PROVE \E r : Effect(Head1, r)
  BY <1>4, <1>17 DEF IsUSB
<1> QED
  BY <1>2, <1>3, <1>5, <1>6, <1>7, <1>9, <1>10, <1>11, <1>12, <1>14, <1>15, <1>16, <1>17
  DEF Serve

-----------------------------------------------------------------------------
(***************************************************************************)
(* What a step leaves alone when it is another client's.                   *)
(***************************************************************************)
LEMMA EsKept ==
  ASSUME EsCall, EsDisk, EsSlot, UNCHANGED es, UNCHANGED early, reply'["es"] = reply["es"],
         EsOpen => fd_stack'[EsFd] = fd_stack[EsFd],
         disk'[Dst] = disk[Dst], disk'[TmpDst] = disk[TmpDst]
  PROVE  /\ EsCall' /\ EsDisk' /\ EsSlot'
         /\ \A s \in Slots : EsHas(s)' <=> EsHas(s)
<1>1. EsCall' BY DEF EsCall, Got
<1>2. EsDisk' BY DEF EsDisk, Got, DstWhole, WholeFile, Missing, Empty
<1>3. EsOpen' <=> EsOpen BY DEF EsOpen, ESHas, Got
<1>4. EsFd' = EsFd BY DEF EsFd, Got
<1>5. EsSlot'
  <2>1. (EsOpen => Holds(EsFd, IF es.at \in Loads THEN Dst ELSE TmpDst))'
    BY <1>3, <1>4 DEF EsSlot, Holds
  <2>2. (EsOpen /\ es.at \in {"open", "write"} /\ ~(es.at = "write" /\ reply["es"].is)
         => LET f == fd_stack[EsFd] IN f.fptr = 0 /\ f.fsize = 0 /\ f.mode = {"WRITE"})'
    BY <1>3, <1>4 DEF EsSlot
  <2>3. ((es.at = "write" /\ reply["es"].is /\ Got("es") = Full)
           \/ (es.at = "close" /\ ~reply["es"].is)
         => LET f == fd_stack[es.fd] IN f.dirty /\ f.fsize = Full /\ f.ver = es.ver)'
    BY DEF EsSlot, Got, EsOpen, ESHas, EsFd
  <2>4. (EsOpen /\ es.at \in Loads \ {"lclose"} => fd_stack[EsFd].fsize = Full)'
    BY <1>3, <1>4 DEF EsSlot
  <2>5. ((es.at = "lset" /\ reply["es"].is) \/ (es.at = "lread" /\ ~reply["es"].is)
         => fd_stack[es.fd].fptr = 0)'
    BY DEF EsSlot, Got, EsOpen, ESHas, EsFd
  <2> QED BY <2>1, <2>2, <2>3, <2>4, <2>5 DEF EsSlot
<1> QED BY <1>1, <1>2, <1>3, <1>4, <1>5 DEF EsHas

LEMMA DiKept ==
  ASSUME DiCall, DiSlots, UNCHANGED <<di, Nhandle, held, HAXHandle>>,
         reply'["di"] = reply["di"],
         \A h \in Handles : DiOpen(h) => fd_stack'[DiFd(h)] = fd_stack[DiFd(h)]
  PROVE  /\ DiCall' /\ DiSlots'
         /\ \A s \in Slots, h \in Handles : DiHas(h, s)' <=> DiHas(h, s)
<1>1. DiCall' BY DEF DiCall, Got, Results, Slots
<1>2. \A h \in Handles : (DiOpen(h)' <=> DiOpen(h)) /\ DiFd(h)' = DiFd(h)
  BY DEF DiOpen, DiFd, Got
<1>3. \A x \in held : /\ x.h \in Handles /\ DiOpen(x.h) /\ DiFd(x.h) = Nhandle[x.h]
                      /\ fd_stack'[Nhandle[x.h]] = fd_stack[Nhandle[x.h]]
  BY DEF DiCall, DiOpen, DiFd
<1>4. \A x \in held : x.path \in Own /\ Holds(Nhandle[x.h], x.path)'
  BY <1>3 DEF DiSlots, Holds
<1>5. \A h \in Handles : DiOpen(h)' => /\ DiFd(h)' \in Slots /\ fd_stack'[DiFd(h)'].fs
                                       /\ fd_stack'[DiFd(h)'].path \in Own
  BY <1>2 DEF DiSlots
<1>6. (di.at \in {"hax", "ax"} /\ DiOpen(di.slot) => Holds(DiFd(di.slot), di.path))'
  <2> SUFFICES ASSUME di.at \in {"hax", "ax"}, DiOpen(di.slot)' PROVE Holds(DiFd(di.slot), di.path)'
    OBVIOUS
  <2>1. di.slot \in Handles BY DEF DiCall
  <2>2. DiOpen(di.slot) /\ DiFd(di.slot)' = DiFd(di.slot)
    BY <1>2, <2>1 DEF DiOpen, DiFd, Got
  <2>3. Holds(DiFd(di.slot), di.path) BY <2>2 DEF DiSlots
  <2> QED BY <2>1, <2>2, <2>3 DEF Holds
<1>7. DiSlots'
  <2>1. \A h \in Handles : (DiOpen(h) => DiFd(h) \in Slots /\ fd_stack[DiFd(h)].fs
                                     /\ fd_stack[DiFd(h)].path \in Own)'
    BY <1>5
  <2> QED BY <1>4, <2>1, <1>6 DEF DiSlots, Handles, Slots
<1> QED BY <1>1, <1>2, <1>7 DEF DiHas

LEMMA GameKept ==
  ASSUME GameCall, GameSlots, UNCHANGED game, reply'["game"] = reply["game"],
         \A s : GameCloses(s)' <=> GameCloses(s),
         \A s \in Slots : GameHas(s) => fd_stack'[s] = fd_stack[s]
  PROVE  /\ GameCall' /\ GameSlots'
         /\ \A s \in Slots : GameHas(s)' <=> GameHas(s)
<1>1. GameCall' BY DEF GameCall, Got, Results, Slots
<1>2. \A s \in Slots : GameHas(s)' <=> GameHas(s) BY DEF GameHas, GameOpened, Got
<1>3. \A x \in game.has : Holds(x.h, x.path)' BY DEF GameSlots, Holds, GameHas
<1>4. (GameOpened => Holds(Got("game"), game.path))'
  BY DEF GameSlots, GameOpened, Got, Holds, GameHas
<1>5. \A s \in Slots : GameHas(s)' => fd_stack'[s].fs /\ fd_stack'[s].path \in Own
  BY <1>2 DEF GameSlots
<1>6. game'.at = "close" => \A s : GameCloses(s)' => s \in Slots \cup {MAX_FILE}
                                                     /\ \A x \in game'.has : x.h # s
  BY DEF GameSlots
<1>7. \A s \in Slots : (GameHas(s) => fd_stack[s].fs /\ fd_stack[s].path \in Own)'
  BY <1>5
<1> QED BY <1>1, <1>2, <1>3, <1>4, <1>6, <1>7 DEF GameSlots, Slots

\* The closes of the game that wait.
LEMMA ClosesAsked ==
  ASSUME QueueInv, NEW m,
         (queue' = queue /\ m.from # "game") \/ queue' = Append(queue, m)
  PROVE  \A s : GameCloses(s)' <=> GameCloses(s) \/ (queue' # queue /\ m.from = "game" /\ m.fd = s)
<1>1. queue \in Seq(Messages) /\ Len(queue) \in Nat BY DEF QueueInv
<1>2. CASE queue' = queue BY <1>2 DEF GameCloses
<1>3. CASE queue' = Append(queue, m)
  <2>1. /\ Len(queue') = Len(queue) + 1 /\ queue'[Len(queue) + 1] = m
        /\ \A i \in 1 .. Len(queue) : queue'[i] = queue[i]
    BY <1>1, <1>3
  <2>2. \A i \in 1 .. Len(queue) + 1 : i \in 1 .. Len(queue) \/ i = Len(queue) + 1
    BY <1>1
  <2>3. queue' # queue BY <1>1, <2>1
  <2> SUFFICES ASSUME NEW s
               PROVE  GameCloses(s)' <=> GameCloses(s) \/ (m.from = "game" /\ m.fd = s)
    BY <2>3
  <2>4. GameCloses(s)' => GameCloses(s) \/ (m.from = "game" /\ m.fd = s)
    BY <2>1, <2>2 DEF GameCloses
  <2>5. GameCloses(s) => GameCloses(s)'
    BY <1>1, <2>1 DEF GameCloses
  <2>6. m.from = "game" /\ m.fd = s => GameCloses(s)'
    BY <1>1, <2>1 DEF GameCloses
  <2> QED BY <2>4, <2>5, <2>6
<1> QED BY <1>2, <1>3

LEMMA ClosesServed ==
  ASSUME QueueInv, queue # <<>>, queue' = Tail(queue)
  PROVE  /\ \A s : GameCloses(s)' <=> GameCloses(s) /\ Head1.from # "game"
         /\ Head1.from = "game" => \A s : GameCloses(s) <=> s = Head1.fd
<1>1. queue \in Seq(Messages) /\ Len(queue) \in Nat /\ Len(queue) > 0 /\ 1 \in 1 .. Len(queue)
  BY DEF QueueInv
<1>2. \A i, j \in 1 .. Len(queue) : queue[i].from = queue[j].from => i = j
  BY DEF QueueInv
<1>3. Head1.from = "game" => \A s : GameCloses(s) <=> s = Head1.fd
  BY <1>1, <1>2 DEF GameCloses, Head1
<1>4. /\ Len(queue') \in Nat /\ Len(queue') = Len(queue) - 1
      /\ \A i \in 1 .. Len(queue') : i + 1 \in 1 .. Len(queue) /\ queue'[i] = queue[i + 1]
                                     /\ queue'[i].from # Head1.from
  BY HeadKnown
<1>5. ASSUME NEW s, GameCloses(s)' PROVE GameCloses(s) /\ Head1.from # "game"
  BY <1>4, <1>5 DEF GameCloses
<1>6. ASSUME NEW s, GameCloses(s), Head1.from # "game" PROVE GameCloses(s)'
  <2>1. PICK i \in 1 .. Len(queue) : queue[i].from = "game" /\ queue[i].fd = s
    BY <1>6 DEF GameCloses
  <2>2. i # 1 BY <1>6, <2>1 DEF Head1
  <2>3. i - 1 \in 1 .. Len(queue') /\ (i - 1) + 1 = i BY <1>1, <1>4, <2>2
  <2>4. queue'[i - 1] = queue[i] BY <1>4, <2>3
  <2> QED BY <2>1, <2>3, <2>4 DEF GameCloses
<1> QED BY <1>3, <1>5, <1>6

-----------------------------------------------------------------------------
(***************************************************************************)
(* One message of each client.                                             *)
(***************************************************************************)
Lost(c, s) == Head1.from = c /\ Head1.op = "close" /\ s = Head1.fd
Gained(c, r, s) == Head1.from = c /\ Head1.op \in {"open", "hax"} /\ s = r

LEMMA TableServed ==
  ASSUME TableInv, DiCall, GameCall, Sent(Head1), NEW r, Effect(Head1, r)
  PROVE  TableInv'
<1>1. \A s \in Slots : fd_stack'[s].fs /\ fd_stack'[s].path = Dst =>
        fd_stack'[s].mode = {"READ"} /\ ~fd_stack'[s].dirty
  <2> SUFFICES ASSUME NEW s \in Slots, fd_stack'[s].fs, fd_stack'[s].path = Dst
               PROVE  fd_stack'[s].mode = {"READ"} /\ ~fd_stack'[s].dirty
    OBVIOUS
  <2>1. SlotStep(Head1, r, s) BY DEF Effect
  <2>2. CASE fd_stack'[s] = fd_stack[s] BY <2>2 DEF TableInv
  <2>3. CASE fd_stack'[s] = NoFIL BY <2>3 DEF NoFIL
  <2>4. CASE /\ fd_stack[s].fs /\ fd_stack'[s].path = fd_stack[s].path
             /\ fd_stack'[s].mode = fd_stack[s].mode
             /\ (fd_stack'[s].dirty => fd_stack[s].dirty \/ "WRITE" \in fd_stack[s].mode)
    BY <2>4 DEF TableInv
  <2>5. CASE /\ Head1.op \in {"open", "hax"}
             /\ fd_stack'[s] = Opened(Head1.path, Head1.mode, disk'[Head1.path])
    <3>1. Head1.path = Dst BY <2>5 DEF Opened
    <3>2. Dst \notin Own /\ Dst # TmpDst BY FSClientsAssumption
    <3>3. Head1.mode = {"READ"}
      BY <2>5, <3>1, <3>2 DEF Sent, EsSent, DiSent, GameSent, DiCall, GameCall
    <3>4. "CREATE" \notin Head1.mode BY <3>3
    <3>5. ("CREATE" \in Head1.mode) = FALSE BY <3>4, SMT
    <3>6. fd_stack'[s] = [fs |-> TRUE, path |-> Dst, mode |-> {"READ"}, fptr |-> 0,
                          fsize |-> disk'[Dst].len, ver |-> disk'[Dst].ver, dirty |-> FALSE]
      BY <2>5, <3>1, <3>3, <3>5, Zenon DEF Opened
    <3> QED BY <3>6
  <2> QED BY <2>1, <2>2, <2>3, <2>4, <2>5 DEF SlotStep
<1> QED BY <1>1 DEF TableInv, Effect, Slots, FIL

\* A slot is left to another only after its close, and taken only when it is free.
LEMMA HasServed ==
  ASSUME Apart, Owned, EsSlot, DiSlots, GameSlots, Head1.from \in Clients,
         NEW r, Effect(Head1, r),
         \A s \in Slots : EsHas(s)' <=> (EsHas(s) /\ ~Lost("es", s)) \/ Gained("es", r, s),
         \A s \in Slots : GameHas(s)' <=>
                            (GameHas(s) /\ ~Lost("game", s)) \/ Gained("game", r, s),
         \A s \in Slots, h \in Handles : DiHas(h, s)' <=>
                    (DiHas(h, s) /\ ~Lost("di", s)) \/ (Gained("di", r, s) /\ h = di.slot),
         Head1.from = "di" /\ Head1.op \in {"open", "hax"} => di.slot \in Handles
  PROVE  Apart' /\ Owned'
<1>1. \A s \in Slots : EsHas(s) \/ GameHas(s) \/ (\E h \in Handles : DiHas(h, s)) => fd_stack[s].fs
  BY DEF EsSlot, DiSlots, GameSlots, EsHas, DiHas, Holds
<1>2. \A c, s : Gained(c, r, s) /\ s \in Slots => ~fd_stack[s].fs
  BY DEF Gained, Effect
<1>3. \A c, d, s : (Gained(c, r, s) /\ Gained(d, r, s) => c = d)
  BY DEF Gained
<1>4. Apart'
  <2> SUFFICES ASSUME NEW s \in Slots
               PROVE  /\ EsHas(s)' => ~GameHas(s)' /\ \A h \in Handles : ~DiHas(h, s)'
                      /\ \A h \in Handles : DiHas(h, s)' => ~GameHas(s)'
                      /\ \A h, g \in Handles : DiHas(h, s)' /\ DiHas(g, s)' => h = g
    BY DEF Apart, Slots, Handles
  <2>1. CASE \E c \in Clients : Gained(c, r, s)
    <3>1. ~fd_stack[s].fs BY <1>2, <2>1
    <3>2. ~EsHas(s) /\ ~GameHas(s) /\ \A h \in Handles : ~DiHas(h, s) BY <1>1, <3>1
    <3>3. /\ ~(Gained("es", r, s) /\ Gained("game", r, s))
          /\ ~(Gained("es", r, s) /\ Gained("di", r, s))
          /\ ~(Gained("di", r, s) /\ Gained("game", r, s))
      BY <1>3
    <3> QED BY <3>2, <3>3
  <2>2. CASE ~\E c \in Clients : Gained(c, r, s)
    <3>1. /\ EsHas(s)' => EsHas(s)
          /\ GameHas(s)' => GameHas(s)
          /\ \A h \in Handles : DiHas(h, s)' => DiHas(h, s)
      BY <2>2 DEF Clients
    <3> QED BY <3>1 DEF Apart
  <2> QED BY <2>1, <2>2
<1>5. Owned'
  <2> SUFFICES ASSUME NEW s \in Slots, fd_stack'[s].fs
               PROVE  EsHas(s)' \/ GameHas(s)' \/ \E h \in Handles : DiHas(h, s)'
    BY DEF Owned, Slots, Handles
  <2>1. SlotStep(Head1, r, s) BY DEF Effect
  <2>2. ~Lost(Head1.from, s) BY DEF Lost, Effect
  <2>3. CASE fd_stack[s].fs
    <3>1. EsHas(s) \/ GameHas(s) \/ \E h \in Handles : DiHas(h, s) BY <2>3 DEF Owned
    <3>2. ~Lost("es", s) /\ ~Lost("game", s) /\ ~Lost("di", s) BY <2>2 DEF Lost
    <3> QED BY <3>1, <3>2
  <2>4. CASE ~fd_stack[s].fs
    <3>1. Gained(Head1.from, r, s) BY <2>1, <2>4 DEF SlotStep, Gained, NoFIL
    <3>2. Gained("es", r, s) \/ Gained("game", r, s) \/ Gained("di", r, s)
      BY <3>1 DEF Clients
    <3>3. Gained("di", r, s) => di.slot \in Handles BY DEF Gained
    <3> QED BY <3>2, <3>3
  <2> QED BY <2>3, <2>4
<1> QED BY <1>4, <1>5

\* A message with a handle names a slot of its sender.
LEMMA Names ==
  ASSUME DiCall, DiSlots, Sent(Head1), ~reply[Head1.from].is,
         Head1.op \in {"close", "read", "write", "seek"}, Head1.fd \in Slots
  PROVE  /\ Head1.from = "es" => EsHas(Head1.fd)
         /\ Head1.from = "di" => \E h \in Handles : DiHas(h, Head1.fd)
         /\ Head1.from = "game" /\ GameCloses(Head1.fd) => GameHas(Head1.fd)
<1>1. Head1.from = "es" => EsHas(Head1.fd)
  BY DEF Sent, EsSent, EsHas, EsFd, EsOpen, ESHas
<1>2. ASSUME Head1.from = "di" PROVE \E h \in Handles : DiHas(h, Head1.fd)
  <2>1. CASE di.at = "close"
    <3>1. Head1.fd = Nhandle[di.slot] /\ di.slot \in Handles
      BY <1>2, <2>1 DEF Sent, DiSent, DiCall
    <3>2. DiHas(di.slot, Head1.fd) BY <1>2, <2>1, <3>1 DEF DiHas, DiOpen, DiFd
    <3> QED BY <3>1, <3>2
  <2>2. CASE di.at = "use"
    <3>1. PICK x \in held : Head1.fd = Nhandle[x.h] BY <1>2, <2>2 DEF Sent, DiSent
    <3>2. x.h \in Handles BY DEF DiCall
    <3>3. DiHas(x.h, Head1.fd) BY <2>2, <3>1 DEF DiHas, DiOpen, DiFd
    <3> QED BY <3>2, <3>3
  <2> QED BY <1>2, <2>1, <2>2 DEF Sent, DiSent
<1>3. Head1.from = "game" /\ GameCloses(Head1.fd) => GameHas(Head1.fd)
  BY DEF Sent, GameSent, GameHas
<1> QED BY <1>1, <1>2, <1>3

LEMMA HasUsed ==
  ASSUME EsSlot, DiSlots, GameSlots, NEW s \in Slots,
         EsHas(s) \/ GameHas(s) \/ \E h \in Handles : DiHas(h, s)
  PROVE  fd_stack[s].fs
BY DEF EsSlot, DiSlots, GameSlots, EsHas, DiHas, Holds

\* The others' slots, and ES's files, are what they were.
LEMMA OthersServed ==
  ASSUME DiCall, GameCall, EsSlot, DiSlots, GameSlots, Apart, Sent(Head1),
         Head1.from \in Clients, ~reply[Head1.from].is,
         Head1.from = "game" => GameCloses(Head1.fd),
         NEW r, Effect(Head1, r)
  PROVE  /\ Head1.from # "es" => /\ EsOpen => fd_stack'[EsFd] = fd_stack[EsFd]
                                 /\ disk'[Dst] = disk[Dst] /\ disk'[TmpDst] = disk[TmpDst]
         /\ Head1.from # "di" => /\ HAXHandle' = HAXHandle
                                 /\ \A h \in Handles : DiOpen(h) =>
                                      fd_stack'[DiFd(h)] = fd_stack[DiFd(h)]
         /\ Head1.from # "game" => \A s \in Slots : GameHas(s) => fd_stack'[s] = fd_stack[s]
<1>1. ASSUME NEW s \in Slots, fd_stack'[s] # fd_stack[s]
      PROVE  ~fd_stack[s].fs \/ (s = Head1.fd /\ Head1.op \in {"close", "read", "write", "seek"})
  BY <1>1 DEF Effect, SlotStep
<1>2. ASSUME NEW s \in Slots, s = Head1.fd, Head1.op \in {"close", "read", "write", "seek"}
      PROVE  /\ Head1.from = "es" => EsHas(s)
             /\ Head1.from = "di" => \E h \in Handles : DiHas(h, s)
             /\ Head1.from = "game" => GameHas(s)
  BY <1>2, Names
<1>3. ASSUME Head1.from # "es", EsOpen PROVE fd_stack'[EsFd] = fd_stack[EsFd]
  <2>1. EsFd \in Slots /\ EsHas(EsFd) BY <1>3 DEF EsSlot, EsHas, Holds
  <2>2. fd_stack[EsFd].fs BY <2>1, HasUsed
  <2>3. ~(EsFd = Head1.fd /\ Head1.op \in {"close", "read", "write", "seek"})
    BY <1>2, <1>3, <2>1 DEF Apart, Clients
  <2> QED BY <1>1, <2>1, <2>2, <2>3
<1>4. ASSUME Head1.from # "di", NEW h \in Handles, DiOpen(h)
      PROVE  fd_stack'[DiFd(h)] = fd_stack[DiFd(h)]
  <2>1. DiFd(h) \in Slots /\ DiHas(h, DiFd(h)) BY <1>4 DEF DiSlots, DiHas
  <2>2. fd_stack[DiFd(h)].fs BY <2>1, HasUsed
  <2>3. ~(DiFd(h) = Head1.fd /\ Head1.op \in {"close", "read", "write", "seek"})
    BY <1>2, <1>4, <2>1 DEF Apart, Clients
  <2> QED BY <1>1, <2>1, <2>2, <2>3
<1>5. ASSUME Head1.from # "game", NEW s \in Slots, GameHas(s)
      PROVE  fd_stack'[s] = fd_stack[s]
  <2>2. fd_stack[s].fs BY <1>5, HasUsed
  <2>3. ~(s = Head1.fd /\ Head1.op \in {"close", "read", "write", "seek"})
    BY <1>2, <1>5 DEF Apart, Clients
  <2> QED BY <1>1, <2>2, <2>3
<1>6. Head1.from # "di" => HAXHandle' = HAXHandle
  BY DEF Effect, Sent, EsSent, GameSent
<1>7. ASSUME Head1.from # "es", NEW p \in {Dst, TmpDst} PROVE disk'[p] = disk[p]
  <2>1. p \in Paths /\ p \notin Own BY FSUSBAssumption, FSClientsAssumption
  <2>2. FileStep(Head1, p) BY <2>1 DEF Effect
  <2>3. CASE Head1.op \in {"open", "hax"} /\ "CREATE" \in Head1.mode /\ p = Head1.path
    BY <1>7, <2>1, <2>3 DEF Sent, DiSent, GameSent, DiCall, GameCall
  <2>4. CASE /\ Head1.op = "close" /\ Head1.fd \in Slots
             /\ p = fd_stack[Head1.fd].path
    <3>1. GameHas(Head1.fd) \/ \E h \in Handles : DiHas(h, Head1.fd)
      BY <1>2, <1>7, <2>4 DEF Clients
    <3>2. fd_stack[Head1.fd].path \in Own
      BY <2>4, <3>1 DEF GameSlots, DiSlots, DiHas
    <3> QED BY <2>1, <2>4, <3>2
  <2>5. CASE Head1.op \in {"create", "delete"} /\ p = Head1.path
    BY <1>7, <2>1, <2>5 DEF Sent, DiSent, GameSent
  <2>6. CASE Head1.op = "move"
    BY <1>7, <2>6 DEF Sent, DiSent, GameSent
  <2> QED BY <2>2, <2>3, <2>4, <2>5, <2>6 DEF FileStep
<1> QED BY <1>3, <1>4, <1>5, <1>6, <1>7

\* What is open stays open on its file until its close.
LEMMA SlotKept ==
  ASSUME NEW r, Effect(Head1, r), NEW s \in Slots, fd_stack[s].fs, ~Lost(Head1.from, s)
  PROVE  fd_stack'[s].fs /\ fd_stack'[s].path = fd_stack[s].path
BY DEF Effect, SlotStep, Lost

LEMMA DiServed ==
  ASSUME DiCall, DiSlots, Apart, Sent(Head1), Head1.from = "di", ~reply["di"].is,
         reply = [c \in Clients |-> reply[c]], NEW r, Effect(Head1, r),
         UNCHANGED <<di, Nhandle, held>>
  PROVE  /\ DiCall' /\ DiSlots' /\ di.at # "idle"
         /\ \A s \in Slots, h \in Handles : DiHas(h, s)' <=>
                    (DiHas(h, s) /\ ~Lost("di", s)) \/ (Gained("di", r, s) /\ h = di.slot)
         /\ Head1.op \in {"open", "hax"} => di.slot \in Handles
<1>1. \A s \in Slots : fd_stack[s].fs /\ ~Lost("di", s) =>
        fd_stack'[s].fs /\ fd_stack'[s].path = fd_stack[s].path
  BY SlotKept
<1>2. reply'["di"] = Answered(r) /\ reply'["di"].is /\ Got("di")' = r
  BY DEF Effect, Clients, Answered, Got
<1>3. DiSent(Head1) BY DEF Sent
<1>4. \A x \in held : /\ x.h \in Handles /\ x.path \in Own /\ Holds(Nhandle[x.h], x.path)
                      /\ DiHas(x.h, Nhandle[x.h]) /\ Nhandle[x.h] \in Slots
  BY DEF DiCall, DiSlots, DiHas, DiOpen, DiFd, Holds
<1>5. CASE di.at = "hax"
  <2>1. /\ Head1.op = "hax" /\ Head1.path = di.path /\ di.slot \in Handles /\ di.path \in Own
        /\ \A x \in held : x.h # di.slot
    BY <1>3, <1>5 DEF DiSent, DiCall
  <2>2. /\ r \in Results /\ HAXHandle' = r
        /\ r \in Slots => ~fd_stack[r].fs /\ Holds(r, di.path)'
    BY <2>1 DEF Effect, Opened, Holds, Slots
  <2>3. r >= 0 <=> r \in Slots
    BY <2>2, FSUSBAssumption DEF Results, Slots, FS_NO_HANDLE, FS_ENOENT2
  <2>4. \A s : ~Lost("di", s) BY <2>1 DEF Lost
  <2>5. DiCall' BY <1>2, <1>5, <2>1, <2>2 DEF DiCall, Results, Slots
  <2>6. \A h \in Handles : /\ DiOpen(h)' <=> (\E x \in held : x.h = h) \/ (h = di.slot /\ r \in Slots)
                           /\ DiFd(h)' = IF h = di.slot THEN r ELSE Nhandle[h]
    BY <1>2, <1>5, <2>3 DEF DiOpen, DiFd
  <2>7. \A h \in Handles : /\ DiOpen(h) <=> (\E x \in held : x.h = h)
                           /\ h # di.slot => DiFd(h) = Nhandle[h]
    BY <1>5 DEF DiOpen, DiFd
  <2>8. \A x \in held : Holds(Nhandle[x.h], x.path)'
    BY <1>1, <1>4, <2>4 DEF Holds
  <2>9. \A h \in Handles : (DiOpen(h) => DiFd(h) \in Slots /\ fd_stack[DiFd(h)].fs
                                         /\ fd_stack[DiFd(h)].path \in Own)'
    BY <1>4, <2>1, <2>2, <2>6, <2>8 DEF Holds
  <2>10. (DiOpen(di.slot) => Holds(DiFd(di.slot), di.path))'
    <3>1. DiOpen(di.slot)' => r \in Slots BY <2>1, <2>6 DEF DiOpen
    <3>2. DiFd(di.slot)' = r BY <1>2, <1>5 DEF DiFd
    <3> QED BY <2>2, <3>1, <3>2 DEF Holds
  <2>11. DiSlots' BY <1>4, <2>8, <2>9, <2>10 DEF DiSlots
  <2>12. \A s \in Slots, h \in Handles : DiHas(h, s)' <=>
                    (DiHas(h, s) /\ ~Lost("di", s)) \/ (Gained("di", r, s) /\ h = di.slot)
    BY <2>1, <2>4, <2>6, <2>7 DEF DiHas, Gained
  <2> QED BY <1>5, <2>1, <2>5, <2>11, <2>12
<1>6. CASE di.at = "ax"
  <2>1. /\ Head1.op = "ax" /\ r = HAXHandle /\ HAXHandle' = HAXHandle
        /\ HAXHandle = Nhandle[di.slot]
    BY <1>3, <1>6 DEF DiSent, DiCall, Effect
  <2>2. \A s \in Slots : fd_stack'[s] = fd_stack[s] BY <2>1 DEF Effect, SlotStep
  <2>3. \A s : ~Lost("di", s) /\ ~Gained("di", r, s) BY <2>1 DEF Lost, Gained
  <2>4. DiCall' BY <1>2, <1>6, <2>1 DEF DiCall, Results, Slots
  <2>5. \A h : (DiOpen(h)' <=> DiOpen(h)) /\ DiFd(h)' = DiFd(h)
    BY <1>6 DEF DiOpen, DiFd
  <2>6. DiSlots'
    <3>1. \A x \in held : Holds(Nhandle[x.h], x.path)' BY <1>4, <2>2 DEF Holds
    <3>2. \A h \in Handles : (DiOpen(h) => DiFd(h) \in Slots /\ fd_stack[DiFd(h)].fs
                                         /\ fd_stack[DiFd(h)].path \in Own)'
      BY <2>2, <2>5 DEF DiSlots
    <3>3. (DiOpen(di.slot) => Holds(DiFd(di.slot), di.path))'
      <4>1. DiOpen(di.slot)' => DiOpen(di.slot) BY <1>6 DEF DiOpen
      <4>2. DiOpen(di.slot) => Holds(Nhandle[di.slot], di.path)
        BY <1>6 DEF DiSlots, DiFd
      <4>3. DiFd(di.slot)' = Nhandle[di.slot] BY <1>6 DEF DiFd
      <4> QED BY <2>2, <4>1, <4>2, <4>3 DEF Holds
    <3> QED BY <1>4, <1>6, <3>1, <3>2, <3>3 DEF DiSlots
  <2>7. \A s \in Slots, h \in Handles : DiHas(h, s)' <=> DiHas(h, s)
    BY <2>5 DEF DiHas
  <2> QED BY <1>6, <2>1, <2>3, <2>4, <2>6, <2>7
<1>7. CASE di.at = "use"
  <2>1. Head1.op \in {"read", "write", "seek", "stats", "delete", "isusb"} /\ HAXHandle' = HAXHandle
    BY <1>3, <1>7 DEF DiSent, Effect
  <2>2. \A s : ~Lost("di", s) /\ ~Gained("di", r, s) BY <2>1 DEF Lost, Gained
  <2>3. DiCall' BY <1>7, <2>1 DEF DiCall
  <2>4. \A h : (DiOpen(h)' <=> DiOpen(h)) /\ DiFd(h)' = DiFd(h)
    BY <1>7 DEF DiOpen, DiFd
  <2>5. DiSlots'
    <3>1. \A x \in held : Holds(Nhandle[x.h], x.path)' BY <1>1, <1>4, <2>2 DEF Holds
    <3>2. \A h \in Handles : (DiOpen(h) => DiFd(h) \in Slots /\ fd_stack[DiFd(h)].fs
                                         /\ fd_stack[DiFd(h)].path \in Own)'
      BY <1>1, <2>2, <2>4 DEF DiSlots
    <3> QED BY <1>4, <1>7, <3>1, <3>2 DEF DiSlots
  <2>6. \A s \in Slots, h \in Handles : DiHas(h, s)' <=> DiHas(h, s)
    BY <2>4 DEF DiHas
  <2> QED BY <1>7, <2>1, <2>2, <2>3, <2>5, <2>6
<1>8. CASE di.at = "close"
  <2>1. /\ Head1.op = "close" /\ Head1.fd = Nhandle[di.slot] /\ HAXHandle' = HAXHandle
        /\ di.slot \in Handles /\ \A x \in held : x.h # di.slot
    BY <1>3, <1>8 DEF DiSent, DiCall, Effect
  <2>2. /\ \A s : ~Gained("di", r, s)
        /\ \A s : Lost("di", s) <=> s = Nhandle[di.slot]
    BY <2>1 DEF Lost, Gained
  <2>3. DiCall' BY <1>8, <2>1 DEF DiCall
  <2>4. \A h \in Handles : /\ DiFd(h) = Nhandle[h] /\ DiFd(h)' = Nhandle[h]
                           /\ DiOpen(h) <=> (\E x \in held : x.h = h) \/ h = di.slot
                           /\ DiOpen(h)' <=> \E x \in held : x.h = h
    BY <1>2, <1>8 DEF DiOpen, DiFd
  <2>5. Nhandle[di.slot] \in Slots BY <2>1, <2>4 DEF DiSlots
  <2>6. \A s \in Slots, h \in Handles : DiHas(h, s)' <=> DiHas(h, s) /\ s # Nhandle[di.slot]
    BY <2>1, <2>4 DEF DiHas, Apart
  <2>7. \A x \in held : Nhandle[x.h] # Nhandle[di.slot]
    BY <1>4, <2>1, <2>4, <2>5 DEF DiHas, Apart
  <2>8. \A x \in held : Holds(Nhandle[x.h], x.path)' BY <1>1, <1>4, <2>2, <2>7 DEF Holds
  <2>9. \A h \in Handles : (DiOpen(h) => DiFd(h) \in Slots /\ fd_stack[DiFd(h)].fs
                                         /\ fd_stack[DiFd(h)].path \in Own)'
    BY <1>4, <2>4, <2>8 DEF Holds
  <2>10. DiSlots' BY <1>4, <1>8, <2>8, <2>9 DEF DiSlots
  <2> QED BY <1>8, <2>1, <2>2, <2>3, <2>6, <2>10
<1> QED BY <1>3, <1>5, <1>6, <1>7, <1>8 DEF DiSent

LEMMA GameServed ==
  ASSUME GameCall, GameSlots, Sent(Head1), Head1.from = "game", ~reply["game"].is,
         reply = [c \in Clients |-> reply[c]], NEW r, Effect(Head1, r), UNCHANGED game,
         \A s : GameCloses(s) <=> s = Head1.fd, \A s : ~GameCloses(s)'
  PROVE  /\ GameCall' /\ GameSlots' /\ game.at # "idle"
         /\ \A s \in Slots : GameHas(s)' <=>
                            (GameHas(s) /\ ~Lost("game", s)) \/ Gained("game", r, s)
<1>1. \A s \in Slots : fd_stack[s].fs /\ ~Lost("game", s) =>
        fd_stack'[s].fs /\ fd_stack'[s].path = fd_stack[s].path
  BY SlotKept
<1>2. reply'["game"] = Answered(r) /\ reply'["game"].is /\ Got("game")' = r
  BY DEF Effect, Clients, Answered, Got
<1>3. GameSent(Head1) BY DEF Sent
<1>4. \A x \in game.has : x.path \in Own /\ Holds(x.h, x.path)
  BY DEF GameCall, GameSlots
<1>5. CASE game.at = "open"
  <2>1. Head1.op = "open" /\ Head1.path = game.path /\ game.path \in Own
    BY <1>3, <1>5 DEF GameSent, GameCall
  <2>2. /\ r \in Results
        /\ r \in Slots => ~fd_stack[r].fs /\ Holds(r, game.path)'
    BY <2>1 DEF Effect, Opened, Holds, Slots
  <2>3. r >= 0 <=> r \in Slots
    BY <2>2, FSUSBAssumption DEF Results, Slots, FS_NO_HANDLE, FS_ENOENT2
  <2>4. \A s : ~Lost("game", s) BY <2>1 DEF Lost
  <2>5. GameCall' BY <1>2, <1>5, <2>1, <2>2 DEF GameCall, Results, Slots
  <2>6. GameOpened' <=> r \in Slots BY <1>2, <1>5, <2>3 DEF GameOpened
  <2>7. \A s \in Slots : /\ GameHas(s)' <=> (\E x \in game.has : x.h = s) \/ s = r
                         /\ GameHas(s) <=> (\E x \in game.has : x.h = s)
    BY <1>2, <1>5, <2>6 DEF GameHas, GameOpened
  <2>8. \A x \in game.has : Holds(x.h, x.path)' BY <1>1, <1>4, <2>4 DEF Holds
  <2>9. (GameOpened => Holds(Got("game"), game.path))' BY <1>2, <2>2, <2>6 DEF Holds
  <2>10. \A s \in Slots : GameHas(s)' => fd_stack'[s].fs /\ fd_stack'[s].path \in Own
    BY <1>4, <2>1, <2>2, <2>7, <2>8 DEF Holds
  <2>11. GameSlots' BY <1>5, <2>8, <2>9, <2>10 DEF GameSlots, Slots
  <2> QED BY <1>5, <2>1, <2>4, <2>5, <2>7, <2>11 DEF Gained
<1>6. CASE game.at = "close"
  <2>1. Head1.op = "close" BY <1>3, <1>6 DEF GameSent
  <2>2. /\ \A s : ~Gained("game", r, s)
        /\ \A s : Lost("game", s) <=> s = Head1.fd
    BY <2>1 DEF Lost, Gained
  <2>3. \A x \in game.has : x.h # Head1.fd BY <1>6 DEF GameSlots
  <2>4. GameCall' BY <1>6 DEF GameCall
  <2>5. \A s \in Slots : /\ GameHas(s) <=> (\E x \in game.has : x.h = s) \/ s = Head1.fd
                         /\ GameHas(s)' <=> (\E x \in game.has : x.h = s)
    BY <1>6 DEF GameHas, GameOpened
  <2>6. \A x \in game.has : Holds(x.h, x.path)' BY <1>1, <1>4, <2>2, <2>3 DEF Holds
  <2>7. \A s \in Slots : GameHas(s)' => fd_stack'[s].fs /\ fd_stack'[s].path \in Own
    BY <1>4, <2>5, <2>6 DEF Holds
  <2>8. GameSlots' BY <1>6, <2>6, <2>7 DEF GameSlots, GameOpened, Slots
  <2> QED BY <1>6, <2>2, <2>3, <2>4, <2>5, <2>8
<1> QED BY <1>3, <1>5, <1>6 DEF GameSent

\* ES's message, by the call and the place in it.
LEMMA EsServed ==
  ASSUME TableInv, EsCall, EsDisk, EsSlot, Sent(Head1), Head1.from = "es", ~reply["es"].is,
         Serve, reply = [c \in Clients |-> reply[c]], NEW r, Effect(Head1, r),
         UNCHANGED <<es, early>>
  PROVE  /\ EsCall' /\ EsDisk' /\ EsSlot' /\ es.at # "idle"
         /\ \A s \in Slots : EsHas(s)' <=> (EsHas(s) /\ ~Lost("es", s)) \/ Gained("es", r, s)
<1>0. /\ disk = [p \in Paths |-> disk[p]] /\ fd_stack = [s \in Slots |-> fd_stack[s]]
      /\ \A s \in Slots : FIL(fd_stack[s])
      /\ Dst \in Paths /\ TmpDst \in Paths /\ Dst # TmpDst
  BY FSUSBAssumption, FSClientsAssumption DEF TableInv
<1>1. \A s \in Slots : fd_stack[s].fs /\ ~Lost("es", s) =>
        fd_stack'[s].fs /\ fd_stack'[s].path = fd_stack[s].path
  BY SlotKept
<1>2. reply'["es"] = Answered(r) /\ reply'["es"].is /\ Got("es")' = r
  BY DEF Effect, Clients, Answered, Got
<1>3. EsSent(Head1) BY DEF Sent
<1>c. Full \in Int /\ Full > 0 /\ Full < Width /\ Width \in Int BY FSUSBAssumption
\* A message that changes no slot, and gives the client none.
<1>4. ASSUME es.at \in {"create", "again", "delete", "move"},
             Head1.op \in {"create", "delete", "move"}, EsCall', EsDisk'
      PROVE  /\ EsCall' /\ EsDisk' /\ EsSlot' /\ es.at # "idle"
             /\ \A s \in Slots : EsHas(s)' <=>
                                 (EsHas(s) /\ ~Lost("es", s)) \/ Gained("es", r, s)
  <2>1. \A s : ~Lost("es", s) /\ ~Gained("es", r, s) BY <1>4 DEF Lost, Gained
  <2>2. ~EsOpen /\ ~EsOpen' BY <1>4 DEF EsOpen, ESHas
  <2>3. EsSlot' BY <1>4, <2>2 DEF EsSlot
  <2> QED BY <1>4, <2>1, <2>2, <2>3 DEF EsHas
<1>5. CASE es.at \in {"create", "again"}
  <2>1. Head1.op = "create" /\ Head1.path = TmpDst BY <1>3, <1>5 DEF EsSent
  <2>2. FS_CreateFile(Head1)
    BY <2>1 DEF Serve, IOS_OPEN, HaxOpen, HaxHandle, FS_Close, BadHandle, FS_Write, FS_Read,
                FS_Seek, FS_GetStats, FS_DeleteFile, FS_Move, IsUSB
  <2>3. /\ disk'[Dst] = disk[Dst] /\ r \in Int
        /\ r >= 0 => disk'[TmpDst] = Empty
    BY <1>0, <1>2, <2>1, <2>2 DEF FS_CreateFile, Only, Same, Ack, Effect, Clients, Answered,
       FS_EEXIST2, FS_SUCCESS
  <2>4. EsCall' BY <1>2, <1>5, <2>3 DEF EsCall
  <2>5. EsDisk' BY <1>2, <1>5, <2>3 DEF EsDisk, DstWhole, Loads, WholeFile, Missing, Empty
  <2> QED BY <1>4, <1>5, <2>1, <2>4, <2>5
<1>6. CASE es.at = "delete"
  <2>1. Head1.op = "delete" /\ Head1.path = TmpDst BY <1>3, <1>6 DEF EsSent
  <2>2. FileStep(Head1, Dst) BY <1>0 DEF Effect
  <2>3. disk'[Dst] = disk[Dst] BY <1>0, <2>1, <2>2 DEF FileStep
  <2>4. EsCall' BY <1>2, <1>6 DEF EsCall
  <2>5. EsDisk' BY <1>2, <1>6, <2>3 DEF EsDisk, DstWhole, Loads, WholeFile, Missing
  <2> QED BY <1>4, <1>6, <2>1, <2>4, <2>5
<1>7. CASE es.at = "move"
  <2>1. Head1.op = "move" /\ Head1.path = TmpDst /\ Head1.to = Dst BY <1>3, <1>7 DEF EsSent
  <2>2. FS_Move(Head1)
    BY <2>1 DEF Serve, IOS_OPEN, HaxOpen, HaxHandle, FS_Close, BadHandle, FS_Write, FS_Read,
                FS_Seek, FS_GetStats, FS_DeleteFile, FS_CreateFile, IsUSB
  <2>3. disk[TmpDst] = [ver |-> es.ver, len |-> Full] BY <1>7 DEF EsDisk
  <2>4. Exists(TmpDst) BY <1>c, <2>3 DEF Exists, Missing
  <2>5. disk' = Renamed(TmpDst, Dst) BY <2>1, <2>2, <2>4 DEF FS_Move
  <2>6. disk'[Dst] = disk[TmpDst] BY <1>0, <2>5 DEF Renamed
  <2>7. disk'[Dst].len = Full /\ disk'[Dst].ver = es.ver BY <2>3, <2>6
  <2>8. EsCall' BY <1>2, <1>7 DEF EsCall
  <2>9. EsDisk' BY <1>2, <1>7, <2>7 DEF EsDisk, DstWhole, Loads, WholeFile, Missing
  <2> QED BY <1>4, <1>7, <2>1, <2>8, <2>9
<1>8. CASE es.at \in {"open", "lopen"}
  <2> DEFINE P == IF es.at = "open" THEN TmpDst ELSE Dst
             M == IF es.at = "open" THEN {"WRITE"} ELSE {"READ"}
  <2>1. Head1.op = "open" /\ Head1.path = P /\ Head1.mode = M
        /\ "CREATE" \notin Head1.mode
    BY <1>3, <1>8 DEF EsSent
  <2>2. P \in {Dst, TmpDst} BY <1>0
  <2>3. r \in Results /\ (r \in Slots => ~fd_stack[r].fs /\ fd_stack'[r] = Opened(P, M, disk'[P]))
    BY <2>1 DEF Effect
  <2>4. r >= 0 <=> r \in Slots
    BY <2>3, FSUSBAssumption DEF Results, Slots, FS_NO_HANDLE, FS_ENOENT2
  <2>5. disk'[Dst] = disk[Dst] /\ disk'[TmpDst] = disk[TmpDst]
    BY <1>0, <2>1 DEF Effect, FileStep
  <2>6. r \in Slots => fd_stack'[r].fs /\ fd_stack'[r].path = P /\ fd_stack'[r].mode = M
                       /\ fd_stack'[r].fptr = 0 /\ fd_stack'[r].fsize = disk[P].len
    <3>1. disk'[P] = disk[P] BY <2>2, <2>5
    <3>2. PICK p, m, l : p = P /\ m = M /\ l = disk'[P] OBVIOUS
    <3>3. PICK b : b = ("CREATE" \in m) OBVIOUS
    <3>4. r \in Slots => fd_stack'[r] = [fs |-> TRUE, path |-> p, mode |-> m, fptr |-> 0,
                                         fsize |-> l.len, ver |-> l.ver, dirty |-> b]
      BY <2>3, <3>2, <3>3 DEF Opened
    <3> QED BY <3>1, <3>2, <3>4
  <2>7. IOS_OPEN(Head1)
    BY <2>1 DEF Serve, FS_CreateFile, HaxOpen, HaxHandle, FS_Close, BadHandle, FS_Write, FS_Read,
                FS_Seek, FS_GetStats, FS_DeleteFile, FS_Move, IsUSB
  <2>8. r \in Slots => disk[P] # Missing
    <3>1. PICK q \in Results : FS_Open(Head1.path, Head1.mode, q) /\ Ack(Head1, q)
      BY <2>7 DEF IOS_OPEN
    <3>2. q = r
      BY <1>2, <3>1 DEF Ack, Clients, Answered
    <3> QED BY <2>1, <3>1, <3>2 DEF FS_Open, Exists, FS_NO_HANDLE, FS_ENOENT2, Slots
  <2>9. ~EsOpen /\ (EsOpen' <=> r \in Slots) /\ EsFd' = r
    BY <1>2, <1>8, <2>4 DEF EsOpen, ESHas, EsFd
  <2>10. \A s \in Slots : EsHas(s)' <=> (EsHas(s) /\ ~Lost("es", s)) \/ Gained("es", r, s)
    BY <2>1, <2>9 DEF EsHas, Gained
  <2>11. EsCall'
    <3>1. r \in Int BY <2>3, FSUSBAssumption DEF Results, Slots, FS_NO_HANDLE, FS_ENOENT2
    <3> QED BY <1>2, <1>8, <3>1 DEF EsCall
  <2>12. EsDisk' BY <1>2, <1>8, <2>5 DEF EsDisk, DstWhole, Loads, WholeFile, Missing, Empty
  <2>13. CASE es.at = "open"
    <3>1. disk[TmpDst] = Empty BY <2>13 DEF EsDisk
    <3>2. r \in Slots => fd_stack'[r].fsize = 0 BY <2>6, <2>13, <3>1 DEF Empty
    <3>3. EsSlot' BY <1>2, <2>6, <2>9, <2>13, <3>2 DEF EsSlot, Holds, Loads
    <3> QED BY <1>8, <2>10, <2>11, <2>12, <3>3
  <2>14. CASE es.at = "lopen"
    <3>1. r \in Slots => fd_stack'[r].fsize = Full
      BY <2>6, <2>8, <2>14 DEF EsDisk, DstWhole, WholeFile
    <3>2. EsSlot' BY <1>2, <2>6, <2>9, <2>14, <3>1 DEF EsSlot, Holds, Loads
    <3> QED BY <1>8, <2>10, <2>11, <2>12, <3>2
  <2> QED BY <1>8, <2>13, <2>14
<1>9. ASSUME es.at \in {"write", "lend", "lset", "lread", "close", "giveup", "lclose"}
      PROVE  /\ es.fd \in Slots /\ Head1.fd = es.fd /\ FS_CheckHandle(Head1.fd)
             /\ EsOpen /\ EsFd = es.fd /\ fd_stack[es.fd].fs /\ FIL(fd_stack[es.fd])
             /\ fd_stack[es.fd].path = IF es.at \in Loads THEN Dst ELSE TmpDst
  <2>1. Head1.fd = es.fd BY <1>3, <1>9 DEF EsSent
  <2>2. EsOpen /\ EsFd = es.fd BY <1>9 DEF EsOpen, ESHas, EsFd
  <2>3. Holds(es.fd, IF es.at \in Loads THEN Dst ELSE TmpDst) BY <2>2 DEF EsSlot
  <2> QED BY <1>0, <2>1, <2>2, <2>3 DEF Holds, FS_CheckHandle
\* A message that moves the offset; the client keeps the slot.
<1>10. ASSUME es.at \in {"write", "lend", "lset", "lread"},
              Head1.op \in {"write", "seek", "read"}
       PROVE  /\ EsOpen' /\ EsFd' = es.fd /\ disk' = disk
              /\ Holds(es.fd, IF es.at \in Loads THEN Dst ELSE TmpDst)'
              /\ \A s \in Slots : EsHas(s)' <=>
                                  (EsHas(s) /\ ~Lost("es", s)) \/ Gained("es", r, s)
  <2>1. \A s : ~Lost("es", s) /\ ~Gained("es", r, s) BY <1>10 DEF Lost, Gained
  <2>2. EsOpen' /\ EsFd' = es.fd BY <1>10 DEF EsOpen, ESHas, EsFd
  <2>3. disk' = disk
    <3>1. \A p \in Paths : disk'[p] = disk[p] BY <1>10 DEF Effect, FileStep
    <3>2. disk' = [p \in Paths |-> disk'[p]] BY DEF Effect
    <3> QED BY <1>0, <3>1, <3>2
  <2> QED BY <1>1, <1>9, <1>10, <2>1, <2>2, <2>3 DEF Holds, EsHas
<1>11. CASE es.at = "write"
  <2> DEFINE f == fd_stack[es.fd]
  <2>1. Head1.op = "write" /\ Head1.n = Full /\ Head1.whence = es.ver
    BY <1>3, <1>11 DEF EsSent
  <2>2. FS_Write(Head1)
    BY <1>9, <1>11, <2>1 DEF Serve, FS_CreateFile, HaxOpen, HaxHandle, FS_Close, BadHandle,
       IOS_OPEN, FS_Read, FS_Seek, FS_GetStats, FS_DeleteFile, FS_Move, IsUSB
  <2>3. f.fptr = 0 /\ f.fsize = 0 /\ f.mode = {"WRITE"} BY <1>9, <1>11 DEF EsSlot
  <2>4. PICK w : w = Lower(Full, (f.fsize - f.fptr) + Room) OBVIOUS
  <2>5. /\ fd_stack' = [fd_stack EXCEPT ![es.fd] =
                 [f EXCEPT !.fptr = @ + w, !.fsize = Higher(@, f.fptr + w),
                           !.ver = es.ver, !.dirty = TRUE]]
        /\ reply' = [reply EXCEPT !["es"] = Answered(w)]
    BY <1>9, <1>11, <2>1, <2>2, <2>3, <2>4 DEF FS_Write, Ack
  <2>6. w = r
    BY <1>2, <2>5 DEF Clients, Answered
  <2>7. PICK k : k = [f EXCEPT !.fptr = @ + w, !.fsize = Higher(@, f.fptr + w),
                               !.ver = es.ver, !.dirty = TRUE]
    OBVIOUS
  <2>8. w = Full => k.dirty /\ k.fsize = Full /\ k.ver = es.ver
    BY <1>9, <1>11, <1>c, <2>3, <2>7 DEF FIL, Higher
  <2>9. fd_stack'[es.fd] = k BY <1>0, <1>9, <1>11, <2>5, <2>7
  <2>10. EsCall' BY <1>11 DEF EsCall
  <2>11. EsDisk' BY <1>10, <1>11, <2>1 DEF EsDisk, DstWhole, Loads, WholeFile, Missing, Empty
  <2>12. EsSlot' BY <1>2, <1>10, <1>11, <2>1, <2>6, <2>8, <2>9 DEF EsSlot, Loads
  <2> QED BY <1>10, <1>11, <2>1, <2>10, <2>11, <2>12
<1>12. ASSUME es.at \in {"lend", "lset"}
       PROVE  /\ Head1.op = "seek" /\ Head1.n = 0
              /\ Head1.whence = IF es.at = "lend" THEN 2 ELSE 0
              /\ fd_stack[es.fd].fsize = Full
              /\ r = IF es.at = "lend" THEN Full ELSE 0
              /\ fd_stack'[es.fd].fsize = Full /\ fd_stack'[es.fd].fptr = r
  <2> DEFINE f == fd_stack[es.fd]
             ofs == (Head1.n + (CASE Head1.whence = 0 -> 0 [] Head1.whence = 1 -> f.fptr
                                [] OTHER -> f.fsize)) % Width
  <2>1. Head1.op = "seek" /\ Head1.n = 0 /\ Head1.whence = IF es.at = "lend" THEN 2 ELSE 0
    BY <1>3, <1>12 DEF EsSent
  <2>2. FS_Seek(Head1)
    BY <1>9, <1>12, <2>1 DEF Serve, FS_CreateFile, HaxOpen, HaxHandle, FS_Close, BadHandle,
       IOS_OPEN, FS_Read, FS_Write, FS_GetStats, FS_DeleteFile, FS_Move, IsUSB
  <2>3. f.fsize = Full BY <1>9, <1>12 DEF EsSlot, Loads
  <2>4. Full % Width = Full /\ 0 % Width = 0 BY <1>c
  <2>5. ofs = IF es.at = "lend" THEN Full ELSE 0
    BY <1>12, <1>c, <2>1, <2>3, <2>4
  <2>6. ~(Head1.whence = 0 /\ ofs > f.fsize) BY <1>12, <1>c, <2>1, <2>3, <2>5
  <2> HIDE DEF ofs
  <2>7. /\ fd_stack' = [fd_stack EXCEPT ![Head1.fd] = f_lseek(Head1.fd, ofs)]
        /\ Ack(Head1, f_lseek(Head1.fd, ofs).fptr)
    BY <1>9, <1>12, <2>2, <2>6 DEF FS_Seek, ofs
  <2>8. PICK o : o = ofs OBVIOUS
  <2>9. Lower(o, Full) = o BY <1>c, <2>5, <2>8 DEF Lower
  <2>10. PICK k : k = [f EXCEPT !.fptr = o] OBVIOUS
  <2>11. k.fptr = o /\ k.fsize = Full BY <1>9, <1>12, <2>3, <2>10 DEF FIL
  <2>12. f_lseek(es.fd, ofs) = k BY <2>3, <2>8, <2>9, <2>10 DEF f_lseek
  <2>13. fd_stack'[es.fd] = k /\ r = o
    BY <1>0, <1>2, <1>9, <1>12, <2>7, <2>11, <2>12 DEF Ack, Clients, Answered
  <2> QED BY <2>1, <2>3, <2>5, <2>8, <2>11, <2>13
<1>13. CASE es.at \in {"lend", "lset"}
  <2>1. EsCall' BY <1>2, <1>12, <1>13 DEF EsCall
  <2>2. EsDisk' BY <1>10, <1>12, <1>13 DEF EsDisk, DstWhole, Loads, WholeFile, Missing, Empty
  <2>3. EsSlot' BY <1>2, <1>10, <1>12, <1>13 DEF EsSlot, Loads
  <2> QED BY <1>10, <1>12, <1>13, <2>1, <2>2, <2>3
<1>14. CASE es.at = "lread"
  <2> DEFINE f == fd_stack[es.fd]
  <2>1. Head1.op = "read" /\ Head1.n = Full BY <1>3, <1>14 DEF EsSent, EsCall
  <2>2. FS_Read(Head1)
    BY <1>9, <1>14, <2>1 DEF Serve, FS_CreateFile, HaxOpen, HaxHandle, FS_Close, BadHandle,
       IOS_OPEN, FS_Seek, FS_Write, FS_GetStats, FS_DeleteFile, FS_Move, IsUSB
  <2>3. f.fsize = Full /\ f.fptr = 0 /\ f.mode = {"READ"}
    BY <1>9, <1>14 DEF EsSlot, Loads, TableInv
  <2>4. Lower(Head1.n, f.fsize - f.fptr) = Full BY <1>c, <2>1, <2>3 DEF Lower
  <2>5. /\ fd_stack' = [fd_stack EXCEPT ![es.fd].fptr = @ + Full]
        /\ Ack(Head1, Full)
    BY <1>9, <1>14, <2>2, <2>3, <2>4 DEF FS_Read
  <2>6. PICK k : k = [f EXCEPT !.fptr = @ + Full] OBVIOUS
  <2>7. fd_stack'[es.fd] = k /\ k.fsize = Full
    BY <1>0, <1>9, <1>14, <2>3, <2>5, <2>6 DEF FIL
  <2>8. r = Full BY <1>2, <2>5 DEF Ack, Clients, Answered
  <2>9. EsCall' BY <1>2, <1>14, <2>8 DEF EsCall
  <2>10. EsDisk' BY <1>10, <1>14, <2>1 DEF EsDisk, DstWhole, Loads, WholeFile, Missing, Empty
  <2>11. EsSlot' BY <1>2, <1>10, <1>14, <2>1, <2>7 DEF EsSlot, Loads
  <2> QED BY <1>10, <1>14, <2>1, <2>9, <2>10, <2>11
<1>15. CASE es.at \in {"close", "giveup", "lclose"}
  <2> DEFINE f == fd_stack[es.fd]
  <2>1. Head1.op = "close" BY <1>3, <1>15 DEF EsSent
  <2>2. FS_Close(Head1)
    BY <1>9, <1>15, <2>1 DEF Serve, FS_CreateFile, HaxOpen, HaxHandle, FS_Write, BadHandle,
       IOS_OPEN, FS_Seek, FS_Read, FS_GetStats, FS_DeleteFile, FS_Move, IsUSB
  <2>3. disk' = Synced(f) BY <1>9, <1>15, <2>2 DEF FS_Close
  <2>4. ~EsOpen' BY <1>2, <1>15 DEF EsOpen, ESHas
  <2>5. \A s : Lost("es", s) <=> s = es.fd BY <1>9, <1>15, <2>1 DEF Lost
  <2>6. \A s : ~Gained("es", r, s) BY <2>1 DEF Gained
  <2>7. \A s \in Slots : EsHas(s)' <=> (EsHas(s) /\ ~Lost("es", s)) \/ Gained("es", r, s)
    BY <1>9, <1>15, <2>4, <2>5, <2>6 DEF EsHas
  <2>8. EsSlot' BY <1>2, <1>15, <2>4 DEF EsSlot
  <2>9. EsCall' BY <1>15 DEF EsCall
  <2>10. disk'[Dst] = disk[Dst]
    <3>1. CASE es.at = "lclose"
      <4>1. ~f.dirty BY <1>9, <3>1 DEF TableInv, Loads
      <4> QED BY <2>3, <4>1 DEF Synced
    <3>2. CASE es.at # "lclose"
      <4>1. f.path = TmpDst BY <1>9, <1>15, <3>2 DEF Loads
      <4> QED BY <1>0, <2>3, <4>1 DEF Synced
    <3> QED BY <3>1, <3>2
  <2>11. es.at = "close" => disk'[TmpDst] = [ver |-> es.ver, len |-> Full]
    <3> SUFFICES ASSUME es.at = "close" PROVE disk'[TmpDst] = [ver |-> es.ver, len |-> Full]
      OBVIOUS
    <3>1. disk[TmpDst] = Empty /\ f.dirty /\ f.fsize = Full /\ f.ver = es.ver
      BY DEF EsDisk, EsSlot
    <3>2. f.path = TmpDst BY <1>9 DEF Loads
    <3>3. Exists(TmpDst) BY <3>1 DEF Exists, Empty, Missing
    <3> QED BY <1>0, <2>3, <3>1, <3>2, <3>3 DEF Synced
  <2>12. EsDisk' BY <1>2, <1>15, <2>10, <2>11 DEF EsDisk, DstWhole, Loads, WholeFile, Missing
  <2> QED BY <1>15, <2>7, <2>8, <2>9, <2>12
<1> QED BY <1>3, <1>5, <1>6, <1>7, <1>8, <1>11, <1>13, <1>14, <1>15 DEF EsSent

-----------------------------------------------------------------------------
LEMMA ServeInv ==
  ASSUME ClientsInv, Serve, UNCHANGED clientvars
  PROVE  ClientsInv'
<1> USE DEF ClientsInv
<1>1. queue # <<>> /\ work = NoMsg /\ queue' = Tail(queue) /\ work' = work
  BY DEF Serve
<1>2. Head1 \in Messages /\ Sent(Head1) /\ ~reply[Head1.from].is
  BY <1>1, HeadKnown
<1>3. Head1.from \in Clients BY <1>2 DEF Messages
<1>4. reply = [c \in Clients |-> reply[c]] BY DEF WaitInv
<1>5. PICK r : Effect(Head1, r) BY ServeEffect
<1>6. \A c \in Clients : c # Head1.from => reply'[c] = reply[c]
  BY <1>4, <1>5 DEF Effect
<1>7. reply'[Head1.from] = Answered(r)
  BY <1>3, <1>4, <1>5 DEF Effect
<1>8. /\ \A s : GameCloses(s)' <=> GameCloses(s) /\ Head1.from # "game"
      /\ Head1.from = "game" => \A s : GameCloses(s) <=> s = Head1.fd
  BY <1>1, ClosesServed
<1>9. /\ Head1.from # "es" => /\ EsOpen => fd_stack'[EsFd] = fd_stack[EsFd]
                              /\ disk'[Dst] = disk[Dst] /\ disk'[TmpDst] = disk[TmpDst]
      /\ Head1.from # "di" => /\ HAXHandle' = HAXHandle
                              /\ \A h \in Handles : DiOpen(h) =>
                                   fd_stack'[DiFd(h)] = fd_stack[DiFd(h)]
      /\ Head1.from # "game" => \A s \in Slots : GameHas(s) => fd_stack'[s] = fd_stack[s]
  BY <1>2, <1>3, <1>5, <1>8, OthersServed
<1>10. TableInv' BY <1>2, <1>5, TableServed
<1>11. QueueInv'
  BY <1>1, <1>6, QueueServed
<1>u. /\ UNCHANGED es /\ UNCHANGED early /\ UNCHANGED game
      /\ UNCHANGED <<di, Nhandle, held>> /\ UNCHANGED <<es, early>>
  BY DEF clientvars
<1>12. /\ EsCall' /\ EsDisk' /\ EsSlot' /\ (Head1.from = "es" => es.at # "idle")
       /\ \A s \in Slots : EsHas(s)' <=> (EsHas(s) /\ ~Lost("es", s)) \/ Gained("es", r, s)
  <2>1. CASE Head1.from = "es"
    BY <1>2, <1>4, <1>5, <1>u, <2>1, EsServed
  <2>2. CASE Head1.from # "es"
    <3>1. reply'["es"] = reply["es"] BY <1>6, <2>2 DEF Clients
    <3>2. /\ EsCall' /\ EsDisk' /\ EsSlot' /\ \A s \in Slots : EsHas(s)' <=> EsHas(s)
      BY <1>9, <1>u, <2>2, <3>1, EsKept
    <3> QED BY <2>2, <3>2 DEF Lost, Gained
  <2> QED BY <2>1, <2>2
<1>13. /\ DiCall' /\ DiSlots' /\ (Head1.from = "di" => di.at # "idle")
       /\ (Head1.from = "di" /\ Head1.op \in {"open", "hax"} => di.slot \in Handles)
       /\ \A s \in Slots, h \in Handles : DiHas(h, s)' <=>
                    (DiHas(h, s) /\ ~Lost("di", s)) \/ (Gained("di", r, s) /\ h = di.slot)
  <2>1. CASE Head1.from = "di"
    BY <1>2, <1>4, <1>5, <1>u, <2>1, DiServed
  <2>2. CASE Head1.from # "di"
    <3>1. reply'["di"] = reply["di"] BY <1>6, <2>2 DEF Clients
    <3>2. UNCHANGED <<di, Nhandle, held, HAXHandle>> BY <1>9, <1>u, <2>2
    <3>3. /\ DiCall' /\ DiSlots'
          /\ \A s \in Slots, h \in Handles : DiHas(h, s)' <=> DiHas(h, s)
      BY <1>9, <2>2, <3>1, <3>2, DiKept
    <3> QED BY <2>2, <3>3 DEF Lost, Gained
  <2> QED BY <2>1, <2>2
<1>14. /\ GameCall' /\ GameSlots' /\ (Head1.from = "game" => game.at # "idle")
       /\ \A s \in Slots : GameHas(s)' <=>
                            (GameHas(s) /\ ~Lost("game", s)) \/ Gained("game", r, s)
  <2>1. CASE Head1.from = "game"
    <3>1. \A s : ~GameCloses(s)' BY <1>8, <2>1
    <3> QED BY <1>2, <1>4, <1>5, <1>8, <1>u, <2>1, <3>1, GameServed
  <2>2. CASE Head1.from # "game"
    <3>1. reply'["game"] = reply["game"] BY <1>6, <2>2 DEF Clients
    <3>2. \A s : GameCloses(s)' <=> GameCloses(s) BY <1>8, <2>2
    <3>3. /\ GameCall' /\ GameSlots' /\ \A s \in Slots : GameHas(s)' <=> GameHas(s)
      BY <1>9, <1>u, <2>2, <3>1, <3>2, GameKept
    <3> QED BY <2>2, <3>3 DEF Lost, Gained
  <2> QED BY <2>1, <2>2
<1>15. Apart' /\ Owned'
  BY <1>3, <1>5, <1>12, <1>13, <1>14, HasServed
<1>16. WaitInv'
  <2>1. reply' = [c \in Clients |-> reply'[c]] BY <1>4, <1>5 DEF Effect
  <2>2. \A c \in Clients : reply'[c].is \in BOOLEAN
    <3>1. reply'[Head1.from].is = TRUE BY <1>7 DEF Answered
    <3>2. \A c \in Clients : c # Head1.from => reply'[c].is \in BOOLEAN BY <1>6 DEF WaitInv
    <3> QED BY <3>1, <3>2
  <2>3. \A c \in Clients : c # Head1.from => reply'[c].is = reply[c].is
    BY <1>6
  <2>4. es'.at = "idle" => ~reply'["es"].is
    BY <1>12, <1>u, <2>3 DEF WaitInv, Clients
  <2>5. di'.at = "idle" => ~reply'["di"].is
    BY <1>13, <1>u, <2>3 DEF WaitInv, Clients
  <2>6. game'.at = "idle" => ~reply'["game"].is
    BY <1>14, <1>u, <2>3 DEF WaitInv, Clients
  <2> QED BY <2>1, <2>2, <2>4, <2>5, <2>6 DEF WaitInv, Clients
<1> QED BY <1>10, <1>11, <1>12, <1>13, <1>14, <1>15, <1>16

\* What all is alike when fd_stack is, and everybody has what he had.
LEMMA HasKept ==
  ASSUME Apart, Owned, TableInv, UNCHANGED fd_stack,
         \A s \in Slots : EsHas(s)' <=> EsHas(s),
         \A s \in Slots : GameHas(s)' <=> GameHas(s),
         \A s \in Slots, h \in Handles : DiHas(h, s)' <=> DiHas(h, s),
         disk' = [p \in Paths |-> disk'[p]]
  PROVE  Apart' /\ Owned' /\ TableInv'
<1>1. Apart'
  <2> SUFFICES ASSUME NEW s \in Slots
               PROVE  /\ EsHas(s)' => ~GameHas(s)' /\ \A h \in Handles : ~DiHas(h, s)'
                      /\ \A h \in Handles : DiHas(h, s)' => ~GameHas(s)'
                      /\ \A h, g \in Handles : DiHas(h, s)' /\ DiHas(g, s)' => h = g
    BY DEF Apart, Slots, Handles
  <2> QED BY DEF Apart
<1>2. Owned'
  <2> SUFFICES ASSUME NEW s \in Slots, fd_stack'[s].fs
               PROVE  EsHas(s)' \/ GameHas(s)' \/ \E h \in Handles : DiHas(h, s)'
    BY DEF Owned, Slots, Handles
  <2> QED BY DEF Owned
<1>3. TableInv' BY DEF TableInv, Slots, FIL
<1> QED BY <1>1, <1>2, <1>3

\* The target of the move is deleted.
LEMMA UnlinksInv ==
  ASSUME ClientsInv, MoveUnlinks, UNCHANGED clientvars
  PROVE  ClientsInv'
<1> USE DEF ClientsInv
<1>1. /\ work = NoMsg /\ queue # <<>> /\ Head1.op = "move" /\ queue' = Tail(queue)
      /\ disk' = [disk EXCEPT ![Head1.to] = Missing] /\ work' = Head1
      /\ UNCHANGED fd_stack /\ UNCHANGED HAXHandle /\ UNCHANGED reply
  BY DEF MoveUnlinks
<1>2. Sent(Head1) /\ ~reply[Head1.from].is BY <1>1, HeadKnown
<1>3. Head1.from = "es" /\ es.at = "move" /\ Head1.to = Dst
  BY <1>1, <1>2 DEF Sent, EsSent, DiSent, GameSent
<1>4. Dst \in Paths /\ TmpDst \in Paths /\ Dst # TmpDst
  BY FSUSBAssumption, FSClientsAssumption
<1>5. disk'[Dst] = Missing /\ disk'[TmpDst] = disk[TmpDst] /\ disk' = [p \in Paths |-> disk'[p]]
  BY <1>1, <1>3, <1>4 DEF TableInv
<1>u. /\ UNCHANGED es /\ UNCHANGED early /\ UNCHANGED game /\ UNCHANGED <<di, Nhandle, held>>
      /\ UNCHANGED <<di, Nhandle, held, HAXHandle>>
  BY <1>1 DEF clientvars
<1>6. QueueInv' BY <1>1, <1>3, <1>5, QueueServed
<1>7. \A s : GameCloses(s)' <=> GameCloses(s) BY <1>1, <1>3, ClosesServed
<1>8. DiCall' /\ DiSlots' /\ \A s \in Slots, h \in Handles : DiHas(h, s)' <=> DiHas(h, s)
  BY <1>1, <1>u, DiKept
<1>9. GameCall' /\ GameSlots' /\ \A s \in Slots : GameHas(s)' <=> GameHas(s)
  BY <1>1, <1>7, <1>u, GameKept
<1>10. EsCall' /\ EsSlot' /\ \A s \in Slots : EsHas(s)' <=> EsHas(s)
  BY <1>1, <1>3, <1>u DEF EsCall, EsSlot, EsHas, EsOpen, EsFd, ESHas, Got
<1>11. EsDisk'
  BY <1>1, <1>2, <1>3, <1>5, <1>u DEF EsDisk, DstWhole, Loads, Missing, WholeFile, Got
<1>12. WaitInv' BY <1>1, <1>u DEF WaitInv, Clients
<1> QED BY <1>1, <1>5, <1>6, <1>8, <1>9, <1>10, <1>11, <1>12, HasKept

\* The file is moved to where none is.
LEMMA RenamesInv ==
  ASSUME ClientsInv, MoveRenames, UNCHANGED clientvars
  PROVE  ClientsInv'
<1> USE DEF ClientsInv
<1>1. /\ work # NoMsg /\ work' = NoMsg /\ UNCHANGED queue
      /\ UNCHANGED fd_stack /\ UNCHANGED HAXHandle
  BY DEF MoveRenames
<1>2. /\ work \in Messages /\ work.from = "es" /\ EsSent(work) /\ es.at = "move"
      /\ ~reply["es"].is /\ \A i \in 1 .. Len(queue) : queue[i].from # "es"
  BY <1>1 DEF QueueInv
<1>3. work.path = TmpDst /\ work.to = Dst BY <1>2 DEF EsSent
<1>4. /\ Dst \in Paths /\ TmpDst \in Paths /\ Dst # TmpDst /\ Full > 0 /\ Full \in Int
  BY FSUSBAssumption, FSClientsAssumption
<1>5. disk[TmpDst] = [ver |-> es.ver, len |-> Full] BY <1>2 DEF EsDisk
<1>6. Exists(TmpDst) BY <1>4, <1>5 DEF Exists, Missing
<1>7. disk' = Renamed(TmpDst, Dst) /\ reply' = [reply EXCEPT !["es"] = Answered(FS_SUCCESS)]
  BY <1>2, <1>3, <1>6 DEF MoveRenames, Ack
<1>8. disk'[Dst] = [ver |-> es.ver, len |-> Full] /\ disk' = [p \in Paths |-> disk'[p]]
  BY <1>4, <1>5, <1>7 DEF TableInv, Renamed
<1>9. /\ reply'["es"] = Answered(FS_SUCCESS) /\ reply'["di"] = reply["di"]
      /\ reply'["game"] = reply["game"]
      /\ reply' = [c \in Clients |-> reply'[c]]
  BY <1>7 DEF WaitInv, Clients
<1>10. reply'["es"].is /\ Got("es")' = FS_SUCCESS BY <1>9 DEF Answered, Got
<1>u. /\ UNCHANGED es /\ UNCHANGED early /\ UNCHANGED game /\ UNCHANGED <<di, Nhandle, held>>
      /\ UNCHANGED <<di, Nhandle, held, HAXHandle>>
  BY <1>1 DEF clientvars
<1>11. QueueInv'
  <2>1. queue \in Seq(Messages)' BY <1>1 DEF QueueInv, Messages, Clients
  <2>2. \A i \in 1 .. Len(queue) : Sent(queue[i])' /\ ~reply'[queue[i].from].is
    <3> SUFFICES ASSUME NEW i \in 1 .. Len(queue)
                 PROVE  Sent(queue[i])' /\ ~reply'[queue[i].from].is
      OBVIOUS
    <3>1. Sent(queue[i]) /\ ~reply[queue[i].from].is /\ queue[i].from # "es"
      BY <1>2 DEF QueueInv
    <3>2. queue[i] \in Messages BY DEF QueueInv
    <3>3. queue[i].from \in {"di", "game"} BY <3>1, <3>2 DEF Messages, Clients
    <3>4. PICK n : n = queue[i] OBVIOUS
    <3>5. Sent(n)'
      BY <1>u, <3>1, <3>4, EsSentKept, DiSentKept, GameSentKept DEF Sent
    <3>6. n = queue'[i] BY <1>1, <3>4
    <3>7. EsSent(n)' => EsSent(queue[i])' BY <3>6 DEF EsSent
    <3>8. DiSent(n)' => DiSent(queue[i])' BY <3>6 DEF DiSent
    <3>9. GameSent(n)' => GameSent(queue[i])' BY <3>6 DEF GameSent
    <3>10. Sent(queue[i])' BY <3>5, <3>6, <3>7, <3>8, <3>9 DEF Sent
    <3> QED BY <1>9, <3>1, <3>3, <3>10
  <2>3. \A i \in 1 .. Len(queue') : Sent(queue[i])' /\ ~reply'[queue'[i].from].is
    BY <1>1, <2>2
  <2>4. \A i, j \in 1 .. Len(queue') : queue'[i].from = queue'[j].from => i = j
    BY <1>1 DEF QueueInv
  <2>5. NoMsg' = NoMsg BY DEF NoMsg
  <2>6. queue' \in Seq(Messages)' BY <1>1, <2>1
  <2> QED BY <1>1, <2>3, <2>4, <2>5, <2>6, Zenon DEF QueueInv
<1>12. \A s : GameCloses(s)' <=> GameCloses(s) BY <1>1 DEF GameCloses
<1>13. DiCall' /\ DiSlots' /\ \A s \in Slots, h \in Handles : DiHas(h, s)' <=> DiHas(h, s)
  BY <1>1, <1>9, <1>u, DiKept
<1>14. GameCall' /\ GameSlots' /\ \A s \in Slots : GameHas(s)' <=> GameHas(s)
  BY <1>1, <1>9, <1>12, <1>u, GameKept
<1>15. EsCall' /\ EsSlot' /\ \A s \in Slots : EsHas(s)' <=> EsHas(s)
  BY <1>1, <1>2, <1>u DEF EsCall, EsSlot, EsHas, EsOpen, ESHas
<1>16. EsDisk'
  BY <1>2, <1>8, <1>10, <1>u DEF EsDisk, DstWhole, Loads, Missing, WholeFile
<1>17. WaitInv' BY <1>2, <1>9, <1>10, <1>u DEF WaitInv, Clients
<1> QED BY <1>1, <1>8, <1>11, <1>13, <1>14, <1>15, <1>16, <1>17, HasKept

-----------------------------------------------------------------------------
(***************************************************************************)
(* The steps of the clients.                                               *)
(***************************************************************************)
ClientStep(c, m) ==
  /\ UNCHANGED disk /\ UNCHANGED fd_stack /\ UNCHANGED HAXHandle /\ UNCHANGED work
  /\ UNCHANGED <<disk, work>>
  /\ \/ queue' = queue
     \/ m \in Messages /\ m.from = c /\ Sent(m)' /\ queue' = Append(queue, m)
  /\ reply' = reply \/ reply' = [reply EXCEPT ![c] = NoReply]
  /\ ~reply'[c].is

\* What holds in common after a client's step.
LEMMA ClientFrame ==
  ASSUME ClientsInv, NEW c \in Clients, NEW m, ClientStep(c, m),
         \/ reply[c].is
         \/ c = "es" /\ es.at = "idle"
         \/ c = "di" /\ di.at = "idle"
         \/ c = "game" /\ game.at = "idle",
         c # "es" => UNCHANGED es,
         c # "di" => UNCHANGED <<di, held, Nhandle>>,
         c # "game" => UNCHANGED game
  PROVE  /\ QueueInv' /\ WaitInv' /\ disk' = [p \in Paths |-> disk'[p]]
         /\ \A d \in Clients : d # c => reply'[d] = reply[d]
         /\ c # "game" => \A s : GameCloses(s)' <=> GameCloses(s)
<1> USE DEF ClientsInv
<1>1. /\ \A i \in 1 .. Len(queue) : queue[i].from # c
      /\ work # NoMsg => c # "es"
  BY NoneSent
<1>2. reply = [d \in Clients |-> reply[d]] BY DEF WaitInv
<1>3. \A d \in Clients : d # c => reply'[d] = reply[d]
  BY <1>2 DEF ClientStep
<1>4. QueueInv'
  BY <1>1, <1>3, QueueClient DEF ClientStep
<1>5. WaitInv'
  <2>1. reply' = [d \in Clients |-> reply'[d]] BY <1>2 DEF ClientStep
  <2>2. reply'[c].is \in BOOLEAN
    <3>1. CASE reply' = reply BY <3>1 DEF WaitInv
    <3>2. CASE reply' = [reply EXCEPT ![c] = NoReply] BY <1>2, <3>2 DEF NoReply
    <3> QED BY <3>1, <3>2 DEF ClientStep
  <2>3. \A d \in Clients : reply'[d].is \in BOOLEAN BY <1>3, <2>2 DEF WaitInv
  <2>4. ~reply'[c].is BY DEF ClientStep
  <2>5. es'.at = "idle" => ~reply'["es"].is BY <1>3, <2>4 DEF WaitInv, Clients
  <2>6. di'.at = "idle" => ~reply'["di"].is BY <1>3, <2>4 DEF WaitInv, Clients
  <2>7. game'.at = "idle" => ~reply'["game"].is BY <1>3, <2>4 DEF WaitInv, Clients
  <2> QED BY <2>1, <2>3, <2>5, <2>6, <2>7 DEF WaitInv, Clients
<1>6. disk' = [p \in Paths |-> disk'[p]] BY DEF ClientStep, TableInv
<1>7. c # "game" => \A s : GameCloses(s)' <=> GameCloses(s)
  <2>1. CASE queue' = queue BY <2>1 DEF GameCloses
  <2>2. CASE queue' = Append(queue, m) /\ m.from = c BY <2>2, ClosesAsked
  <2> QED BY <2>1, <2>2 DEF ClientStep
<1> QED BY <1>3, <1>4, <1>5, <1>6, <1>7

LEMMA EsStepInv ==
  ASSUME ClientsInv, NEW m, ClientStep("es", m), reply["es"].is \/ es.at = "idle",
         UNCHANGED <<Nhandle, di, held, game>>, EsCall', EsDisk', EsSlot',
         \A s \in Slots : EsHas(s)' <=> EsHas(s)
  PROVE  ClientsInv'
<1> USE DEF ClientsInv
<1>0. "es" \in Clients BY DEF Clients
<1>1. /\ QueueInv' /\ WaitInv' /\ disk' = [p \in Paths |-> disk'[p]]
      /\ \A d \in Clients : d # "es" => reply'[d] = reply[d]
      /\ \A s : GameCloses(s)' <=> GameCloses(s)
  BY <1>0, ClientFrame
<1>2. /\ reply'["di"] = reply["di"] /\ reply'["game"] = reply["game"] /\ UNCHANGED game
      /\ UNCHANGED <<di, Nhandle, held, HAXHandle>> /\ UNCHANGED fd_stack
  BY <1>1 DEF Clients, ClientStep
<1>3. DiCall' /\ DiSlots' /\ \A s \in Slots, h \in Handles : DiHas(h, s)' <=> DiHas(h, s)
  BY <1>2, DiKept
<1>4. GameCall' /\ GameSlots' /\ \A s \in Slots : GameHas(s)' <=> GameHas(s)
  BY <1>1, <1>2, GameKept
<1> QED BY <1>1, <1>2, <1>3, <1>4, HasKept

LEMMA DiStepInv ==
  ASSUME ClientsInv, NEW m, ClientStep("di", m), reply["di"].is \/ di.at = "idle",
         UNCHANGED <<es, game, early>>, DiCall', DiSlots',
         \A s \in Slots, h \in Handles : DiHas(h, s)' <=> DiHas(h, s)
  PROVE  ClientsInv'
<1> USE DEF ClientsInv
<1>0. "di" \in Clients BY DEF Clients
<1>1. /\ QueueInv' /\ WaitInv' /\ disk' = [p \in Paths |-> disk'[p]]
      /\ \A d \in Clients : d # "di" => reply'[d] = reply[d]
      /\ \A s : GameCloses(s)' <=> GameCloses(s)
  BY <1>0, ClientFrame
<1>2. /\ reply'["es"] = reply["es"] /\ reply'["game"] = reply["game"] /\ UNCHANGED game
      /\ UNCHANGED es /\ UNCHANGED early /\ UNCHANGED fd_stack /\ UNCHANGED disk
  BY <1>1 DEF Clients, ClientStep
<1>3. EsCall' /\ EsDisk' /\ EsSlot' /\ \A s \in Slots : EsHas(s)' <=> EsHas(s)
  BY <1>2, EsKept
<1>4. GameCall' /\ GameSlots' /\ \A s \in Slots : GameHas(s)' <=> GameHas(s)
  BY <1>1, <1>2, GameKept
<1> QED BY <1>1, <1>2, <1>3, <1>4, HasKept

LEMMA GameStepInv ==
  ASSUME ClientsInv, NEW m, ClientStep("game", m), reply["game"].is \/ game.at = "idle",
         UNCHANGED <<es, di, held, Nhandle, early>>, GameCall', GameSlots',
         \A s \in Slots : GameHas(s)' <=> GameHas(s)
  PROVE  ClientsInv'
<1> USE DEF ClientsInv
<1>0. "game" \in Clients BY DEF Clients
<1>1. /\ QueueInv' /\ WaitInv' /\ disk' = [p \in Paths |-> disk'[p]]
      /\ \A d \in Clients : d # "game" => reply'[d] = reply[d]
  BY <1>0, ClientFrame
<1>2. /\ reply'["es"] = reply["es"] /\ reply'["di"] = reply["di"]
      /\ UNCHANGED <<di, Nhandle, held, HAXHandle>>
      /\ UNCHANGED es /\ UNCHANGED early /\ UNCHANGED fd_stack /\ UNCHANGED disk
  BY <1>1 DEF Clients, ClientStep
<1>3. EsCall' /\ EsDisk' /\ EsSlot' /\ \A s \in Slots : EsHas(s)' <=> EsHas(s)
  BY <1>2, EsKept
<1>4. DiCall' /\ DiSlots' /\ \A s \in Slots, h \in Handles : DiHas(h, s)' <=> DiHas(h, s)
  BY <1>2, DiKept
<1> QED BY <1>1, <1>2, <1>3, <1>4, HasKept

\* What ES sends.
LEMMA EsMessage ==
  ASSUME NEW m, m = [from |-> "es", op |-> m.op, path |-> m.path, to |-> m.to, mode |-> m.mode,
                     fd |-> m.fd, n |-> m.n, whence |-> m.whence],
         m.path \in {"none", Dst, TmpDst}, m.to \in {"none", Dst},
         m.fd \in Int, m.n \in Int, m.whence \in Int, m.op \in Ops,
         m.mode = {} \/ m.mode = {"READ"} \/ m.mode = {"WRITE"}
  PROVE  m \in Messages /\ m.from = "es"
<1>1. m.path \in Paths \cup {"none"} /\ m.to \in Paths \cup {"none"}
  BY FSUSBAssumption, FSClientsAssumption
<1>2. m.mode \in Modes BY DEF Modes
<1>3. "es" \in Clients BY DEF Clients
<1> QED BY <1>1, <1>2, <1>3 DEF Messages

\* ES asks: it leaves its place in the call, or idleness, with a message.
LEMMA EsAsks ==
  ASSUME ClientsInv, NEW m, m \in Messages, m.from = "es", EsSent(m)', queue' = Append(queue, m),
         Rest \/ (UNCHANGED <<disk, fd_stack, HAXHandle, work, Nhandle, di, held, game>>),
         reply' = [reply EXCEPT !["es"] = NoReply] \/ (reply' = reply /\ ~reply["es"].is),
         reply["es"].is \/ es.at = "idle",
         EsCall', EsDisk', EsSlot', \A s \in Slots : EsHas(s)' <=> EsHas(s)
  PROVE  ClientsInv'
<1>1. /\ UNCHANGED disk /\ UNCHANGED fd_stack /\ UNCHANGED HAXHandle /\ UNCHANGED work
      /\ UNCHANGED <<disk, work>> /\ UNCHANGED <<Nhandle, di, held, game>>
  BY DEF Rest
<1>2. ~reply'["es"].is BY DEF ClientsInv, WaitInv, NoReply, Clients
<1>3. Sent(m)' BY DEF Sent
<1>4. ClientStep("es", m) BY <1>1, <1>2, <1>3 DEF ClientStep
<1> QED BY <1>1, <1>4, EsStepInv

\* ES's call ends.
LEMMA EsEnds ==
  ASSUME ClientsInv, Rest, queue' = queue, reply' = [reply EXCEPT !["es"] = NoReply],
         reply["es"].is, EsCall', EsDisk', EsSlot', \A s \in Slots : EsHas(s)' <=> EsHas(s)
  PROVE  ClientsInv'
<1>1. /\ UNCHANGED disk /\ UNCHANGED fd_stack /\ UNCHANGED HAXHandle /\ UNCHANGED work
      /\ UNCHANGED <<disk, work>> /\ UNCHANGED <<Nhandle, di, held, game>>
  BY DEF Rest
<1>2. ~reply'["es"].is BY DEF ClientsInv, WaitInv, NoReply, Clients
<1>3. PICK m : m = NoMsg OBVIOUS
<1>4. ClientStep("es", m) BY <1>1, <1>2 DEF ClientStep
<1> QED BY <1>1, <1>4, EsStepInv

-----------------------------------------------------------------------------
LEMMA WriteFileSafeInv ==
  ASSUME ClientsInv, WriteFileSafe
  PROVE  ClientsInv'
<1> USE DEF ClientsInv
<1>0. /\ reply = [c \in Clients |-> reply[c]] /\ "es" \in Clients
      /\ es = [at |-> es.at, ver |-> es.ver, fd |-> es.fd, ret |-> es.ret, load |-> es.load,
               len |-> es.len]
      /\ es.ver \in Int /\ es.fd \in Int /\ Full \in Int /\ Full > 0
  BY FSUSBAssumption DEF WaitInv, EsCall, Clients
<1>1. /\ es.at = "idle" /\ reply' = reply /\ ~reply["es"].is
      /\ UNCHANGED <<disk, fd_stack, HAXHandle, work, Nhandle, di, held, game>>
  BY DEF WriteFileSafe, ESOnly, Rest, WaitInv
<1>2. ~reply'["es"].is BY <1>1
<1>3. UNCHANGED disk /\ UNCHANGED fd_stack BY <1>1 DEF Rest
<1>4. TRUE OBVIOUS
<1>10. CASE TRUE
  <2>1. es' = [at |-> "create", ver |-> es.ver + 1, fd |-> 0, ret |-> Unused,
               load |-> Missing, len |-> 0]
    BY <1>0, <1>1, <1>10 DEF WriteFileSafe, ESAsks, ESEnds, Asks, Rest, ESOnly, Creates, IdleES
  <2>2. es' = [at |-> es'.at, ver |-> es'.ver, fd |-> es'.fd, ret |-> es'.ret, load |-> es'.load,
           len |-> es'.len]
        /\ es'.at = "create" /\ es'.ver \in Int /\ es'.fd \in Int /\ es'.ret = Unused /\ es'.load = Missing
    BY <1>0, <1>4, <1>10, <2>1 DEF IdleES
  <2>5. EsCall' BY <1>0, <1>1, <1>2, <1>3, <1>10, <2>1, <2>2 DEF EsCall, Loads, Writes, Unused, FS_SUCCESS
  <2>6. EsDisk' BY <1>0, <1>1, <1>2, <1>3, <1>10, <2>1, <2>2 DEF EsDisk, DstWhole, WholeFile, Missing, Empty, Loads, Unused, FS_SUCCESS
  <2>7. EsSlot' BY <1>0, <1>1, <1>2, <1>3, <1>10, <2>1, <2>2 DEF EsSlot, EsOpen, EsFd, ESHas, Holds, Loads
  <2>8. \A s \in Slots : EsHas(s)' <=> EsHas(s) BY <1>1, <1>2, <1>3, <1>10, <2>1, <2>2 DEF EsHas, EsOpen, EsFd, ESHas
  <2>a. PICK m : m = [[NoMsg EXCEPT !.op = "create", !.path = TmpDst] EXCEPT !.from = "es"] OBVIOUS
  <2>10. queue' = Append(queue, m) BY <1>1, <1>10, <2>a DEF WriteFileSafe, ESAsks, Asks, Creates
  <2>9. m = [from |-> "es", op |-> "create", path |-> TmpDst, to |-> "none", mode |-> {},
                     fd |-> 0, n |-> 0, whence |-> 0]
    BY <1>4, <2>a DEF NoMsg
  <2>11. m \in Messages BY <1>0, <2>9, EsMessage DEF Ops
  <2>12. EsSent(m)' BY <1>0, <1>10, <2>1, <2>2, <2>9 DEF EsSent
  <2>13. m.from = "es" BY <2>9
  <2> QED BY <1>1, <2>5, <2>6, <2>7, <2>8, <2>10, <2>11, <2>12, <2>13, EsAsks
<1> QED BY <1>10, <1>1

LEMMA SafeCreatedInv ==
  ASSUME ClientsInv, SafeCreated
  PROVE  ClientsInv'
<1> USE DEF ClientsInv
<1>0. /\ reply = [c \in Clients |-> reply[c]] /\ "es" \in Clients
      /\ es = [at |-> es.at, ver |-> es.ver, fd |-> es.fd, ret |-> es.ret, load |-> es.load,
               len |-> es.len]
      /\ es.ver \in Int /\ es.fd \in Int /\ Full \in Int /\ Full > 0
  BY FSUSBAssumption DEF WaitInv, EsCall, Clients
<1>1. /\ es.at \in {"create", "again"} /\ reply["es"].is
      /\ reply' = [reply EXCEPT !["es"] = NoReply] /\ Rest
  BY DEF SafeCreated, Seen, ESOnly
<1>2. reply'["es"] = NoReply /\ ~reply'["es"].is BY <1>0, <1>1 DEF NoReply
<1>3. UNCHANGED disk /\ UNCHANGED fd_stack BY <1>1 DEF Rest
<1>4. TRUE OBVIOUS
<1>10. CASE Got("es") = FS_EEXIST2 /\ es.at = "create"
  <2>1. es' = [es EXCEPT !.at = "delete"] /\ (early' <=> early)
    BY <1>0, <1>1, <1>10 DEF SafeCreated, ESAsks, ESEnds, Asks, Rest, ESOnly, Creates, IdleES
  <2>2. es' = [at |-> es'.at, ver |-> es'.ver, fd |-> es'.fd, ret |-> es'.ret, load |-> es'.load,
           len |-> es'.len]
        /\ es'.at = "delete" /\ es'.load = es.load /\ es'.ver = es.ver /\ es'.fd = es.fd
    BY <1>0, <1>4, <1>10, <2>1 DEF IdleES
  <2>5. EsCall' BY <1>0, <1>1, <1>2, <1>3, <1>10, <2>1, <2>2 DEF EsCall, Loads, Writes, Unused, FS_SUCCESS
  <2>6. EsDisk' BY <1>0, <1>1, <1>2, <1>3, <1>10, <2>1, <2>2 DEF EsDisk, DstWhole, WholeFile, Missing, Empty, Loads, Unused, FS_SUCCESS
  <2>7. EsSlot' BY <1>0, <1>1, <1>2, <1>3, <1>10, <2>1, <2>2 DEF EsSlot, EsOpen, EsFd, ESHas, Holds, Loads
  <2>8. \A s \in Slots : EsHas(s)' <=> EsHas(s) BY <1>1, <1>2, <1>3, <1>10, <2>1, <2>2 DEF EsHas, EsOpen, EsFd, ESHas
  <2>a. PICK m : m = [[NoMsg EXCEPT !.op = "delete", !.path = TmpDst] EXCEPT !.from = "es"] OBVIOUS
  <2>10. queue' = Append(queue, m) BY <1>1, <1>10, <2>a DEF SafeCreated, ESAsks, Asks, Creates
  <2>9. m = [from |-> "es", op |-> "delete", path |-> TmpDst, to |-> "none", mode |-> {},
                     fd |-> 0, n |-> 0, whence |-> 0]
    BY <1>4, <2>a DEF NoMsg
  <2>11. m \in Messages BY <1>0, <2>9, EsMessage DEF Ops
  <2>12. EsSent(m)' BY <1>0, <1>10, <2>1, <2>2, <2>9 DEF EsSent
  <2>13. m.from = "es" BY <2>9
  <2> QED BY <1>1, <2>5, <2>6, <2>7, <2>8, <2>10, <2>11, <2>12, <2>13, EsAsks
<1>11. CASE ~(Got("es") = FS_EEXIST2 /\ es.at = "create") /\ Got("es") < 0
  <2>1. es' = [es EXCEPT !.at = "idle", !.ret = Got("es")] /\ (early' <=> early)
    BY <1>0, <1>1, <1>11 DEF SafeCreated, ESAsks, ESEnds, Asks, Rest, ESOnly, Creates, IdleES
  <2>2. es' = [at |-> es'.at, ver |-> es'.ver, fd |-> es'.fd, ret |-> es'.ret, load |-> es'.load,
           len |-> es'.len]
        /\ es'.at = "idle" /\ es'.load = es.load /\ es'.ver = es.ver /\ es'.fd = es.fd /\ es'.ret = Got("es")
    BY <1>0, <1>4, <1>11, <2>1 DEF IdleES
  <2>5. EsCall' BY <1>0, <1>1, <1>2, <1>3, <1>11, <2>1, <2>2 DEF EsCall, Loads, Writes, Unused, FS_SUCCESS
  <2>6. EsDisk' BY <1>0, <1>1, <1>2, <1>3, <1>11, <2>1, <2>2 DEF EsDisk, DstWhole, WholeFile, Missing, Empty, Loads, Unused, FS_SUCCESS
  <2>7. EsSlot' BY <1>0, <1>1, <1>2, <1>3, <1>11, <2>1, <2>2 DEF EsSlot, EsOpen, EsFd, ESHas, Holds, Loads
  <2>8. \A s \in Slots : EsHas(s)' <=> EsHas(s) BY <1>1, <1>2, <1>3, <1>11, <2>1, <2>2 DEF EsHas, EsOpen, EsFd, ESHas
  <2>9. queue' = queue BY <1>0, <1>1, <1>11 DEF SafeCreated, ESEnds
  <2> QED BY <1>1, <2>5, <2>6, <2>7, <2>8, <2>9, EsEnds
<1>12. CASE ~(Got("es") = FS_EEXIST2 /\ es.at = "create") /\ ~(Got("es") < 0)
  <2>1. es' = [es EXCEPT !.at = "open"] /\ (early' <=> early)
    BY <1>0, <1>1, <1>12 DEF SafeCreated, ESAsks, ESEnds, Asks, Rest, ESOnly, Creates, IdleES
  <2>2. es' = [at |-> es'.at, ver |-> es'.ver, fd |-> es'.fd, ret |-> es'.ret, load |-> es'.load,
           len |-> es'.len]
        /\ es'.at = "open" /\ es'.load = es.load /\ es'.ver = es.ver /\ es'.fd = es.fd
    BY <1>0, <1>4, <1>12, <2>1 DEF IdleES
  <2>3. Got("es") >= 0 BY <1>1, <1>12 DEF EsCall
  <2>5. EsCall' BY <1>0, <1>1, <1>2, <1>3, <1>12, <2>1, <2>2, <2>3 DEF EsCall, Loads, Writes, Unused, FS_SUCCESS
  <2>6. EsDisk' BY <1>0, <1>1, <1>2, <1>3, <1>12, <2>1, <2>2, <2>3 DEF EsDisk, DstWhole, WholeFile, Missing, Empty, Loads, Unused, FS_SUCCESS
  <2>7. EsSlot' BY <1>0, <1>1, <1>2, <1>3, <1>12, <2>1, <2>2, <2>3 DEF EsSlot, EsOpen, EsFd, ESHas, Holds, Loads
  <2>8. \A s \in Slots : EsHas(s)' <=> EsHas(s) BY <1>1, <1>2, <1>3, <1>12, <2>1, <2>2, <2>3 DEF EsHas, EsOpen, EsFd, ESHas
  <2>a. PICK m : m = [[NoMsg EXCEPT !.op = "open", !.path = TmpDst, !.mode = {"WRITE"}] EXCEPT !.from = "es"] OBVIOUS
  <2>10. queue' = Append(queue, m) BY <1>1, <1>12, <2>a DEF SafeCreated, ESAsks, Asks, Creates
  <2>9. m = [from |-> "es", op |-> "open", path |-> TmpDst, to |-> "none", mode |-> {"WRITE"},
                     fd |-> 0, n |-> 0, whence |-> 0]
    BY <1>4, <2>a DEF NoMsg
  <2>11. m \in Messages BY <1>0, <2>9, EsMessage, <2>3 DEF Ops
  <2>12. EsSent(m)' BY <1>0, <1>12, <2>1, <2>2, <2>9, <2>3 DEF EsSent
  <2>13. m.from = "es" BY <2>9
  <2> QED BY <1>1, <2>5, <2>6, <2>7, <2>8, <2>10, <2>11, <2>12, <2>13, EsAsks
<1> QED BY <1>10, <1>11, <1>12, <1>1

LEMMA SafeDeletedInv ==
  ASSUME ClientsInv, SafeDeleted
  PROVE  ClientsInv'
<1> USE DEF ClientsInv
<1>0. /\ reply = [c \in Clients |-> reply[c]] /\ "es" \in Clients
      /\ es = [at |-> es.at, ver |-> es.ver, fd |-> es.fd, ret |-> es.ret, load |-> es.load,
               len |-> es.len]
      /\ es.ver \in Int /\ es.fd \in Int /\ Full \in Int /\ Full > 0
  BY FSUSBAssumption DEF WaitInv, EsCall, Clients
<1>1. /\ es.at = "delete" /\ reply["es"].is
      /\ reply' = [reply EXCEPT !["es"] = NoReply] /\ Rest
  BY DEF SafeDeleted, Seen, ESOnly
<1>2. reply'["es"] = NoReply /\ ~reply'["es"].is BY <1>0, <1>1 DEF NoReply
<1>3. UNCHANGED disk /\ UNCHANGED fd_stack BY <1>1 DEF Rest
<1>4. TRUE OBVIOUS
<1>10. CASE TRUE
  <2>1. es' = [es EXCEPT !.at = "again"] /\ (early' <=> early)
    BY <1>0, <1>1, <1>10 DEF SafeDeleted, ESAsks, ESEnds, Asks, Rest, ESOnly, Creates, IdleES
  <2>2. es' = [at |-> es'.at, ver |-> es'.ver, fd |-> es'.fd, ret |-> es'.ret, load |-> es'.load,
           len |-> es'.len]
        /\ es'.at = "again" /\ es'.load = es.load /\ es'.ver = es.ver /\ es'.fd = es.fd
    BY <1>0, <1>4, <1>10, <2>1 DEF IdleES
  <2>5. EsCall' BY <1>0, <1>1, <1>2, <1>3, <1>10, <2>1, <2>2 DEF EsCall, Loads, Writes, Unused, FS_SUCCESS
  <2>6. EsDisk' BY <1>0, <1>1, <1>2, <1>3, <1>10, <2>1, <2>2 DEF EsDisk, DstWhole, WholeFile, Missing, Empty, Loads, Unused, FS_SUCCESS
  <2>7. EsSlot' BY <1>0, <1>1, <1>2, <1>3, <1>10, <2>1, <2>2 DEF EsSlot, EsOpen, EsFd, ESHas, Holds, Loads
  <2>8. \A s \in Slots : EsHas(s)' <=> EsHas(s) BY <1>1, <1>2, <1>3, <1>10, <2>1, <2>2 DEF EsHas, EsOpen, EsFd, ESHas
  <2>a. PICK m : m = [[NoMsg EXCEPT !.op = "create", !.path = TmpDst] EXCEPT !.from = "es"] OBVIOUS
  <2>10. queue' = Append(queue, m) BY <1>1, <1>10, <2>a DEF SafeDeleted, ESAsks, Asks, Creates
  <2>9. m = [from |-> "es", op |-> "create", path |-> TmpDst, to |-> "none", mode |-> {},
                     fd |-> 0, n |-> 0, whence |-> 0]
    BY <1>4, <2>a DEF NoMsg
  <2>11. m \in Messages BY <1>0, <2>9, EsMessage DEF Ops
  <2>12. EsSent(m)' BY <1>0, <1>10, <2>1, <2>2, <2>9 DEF EsSent
  <2>13. m.from = "es" BY <2>9
  <2> QED BY <1>1, <2>5, <2>6, <2>7, <2>8, <2>10, <2>11, <2>12, <2>13, EsAsks
<1> QED BY <1>10, <1>1

LEMMA SafeOpenedInv ==
  ASSUME ClientsInv, SafeOpened
  PROVE  ClientsInv'
<1> USE DEF ClientsInv
<1>0. /\ reply = [c \in Clients |-> reply[c]] /\ "es" \in Clients
      /\ es = [at |-> es.at, ver |-> es.ver, fd |-> es.fd, ret |-> es.ret, load |-> es.load,
               len |-> es.len]
      /\ es.ver \in Int /\ es.fd \in Int /\ Full \in Int /\ Full > 0
  BY FSUSBAssumption DEF WaitInv, EsCall, Clients
<1>1. /\ es.at = "open" /\ reply["es"].is
      /\ reply' = [reply EXCEPT !["es"] = NoReply] /\ Rest
  BY DEF SafeOpened, Seen, ESOnly
<1>2. reply'["es"] = NoReply /\ ~reply'["es"].is BY <1>0, <1>1 DEF NoReply
<1>3. UNCHANGED disk /\ UNCHANGED fd_stack BY <1>1 DEF Rest
<1>4. TRUE OBVIOUS
<1>10. CASE Got("es") < 0
  <2>1. es' = [es EXCEPT !.at = "idle", !.ret = FS_SUCCESS] /\ early' = TRUE
    BY <1>0, <1>1, <1>10 DEF SafeOpened, ESAsks, ESEnds, Asks, Rest, ESOnly, Creates, IdleES
  <2>2. es' = [at |-> es'.at, ver |-> es'.ver, fd |-> es'.fd, ret |-> es'.ret, load |-> es'.load,
           len |-> es'.len]
        /\ es'.at = "idle" /\ es'.load = es.load /\ es'.ver = es.ver /\ es'.fd = es.fd /\ es'.ret = FS_SUCCESS
    BY <1>0, <1>4, <1>10, <2>1 DEF IdleES
  <2>3. Got("es") \in Int BY <1>1, <1>10 DEF EsCall
  <2>5. EsCall' BY <1>0, <1>1, <1>2, <1>3, <1>10, <2>1, <2>2, <2>3 DEF EsCall, Loads, Writes, Unused, FS_SUCCESS
  <2>6. EsDisk' BY <1>0, <1>1, <1>2, <1>3, <1>10, <2>1, <2>2, <2>3 DEF EsDisk, DstWhole, WholeFile, Missing, Empty, Loads, Unused, FS_SUCCESS
  <2>7. EsSlot' BY <1>0, <1>1, <1>2, <1>3, <1>10, <2>1, <2>2, <2>3 DEF EsSlot, EsOpen, EsFd, ESHas, Holds, Loads
  <2>8. \A s \in Slots : EsHas(s)' <=> EsHas(s) BY <1>1, <1>2, <1>3, <1>10, <2>1, <2>2, <2>3 DEF EsHas, EsOpen, EsFd, ESHas
  <2>9. queue' = queue BY <1>0, <1>1, <1>10 DEF SafeOpened, ESEnds
  <2> QED BY <1>1, <2>5, <2>6, <2>7, <2>8, <2>9, EsEnds
<1>11. CASE ~(Got("es") < 0)
  <2>1. es' = [es EXCEPT !.at = "write", !.fd = Got("es")] /\ (early' <=> early)
    BY <1>0, <1>1, <1>11 DEF SafeOpened, ESAsks, ESEnds, Asks, Rest, ESOnly, Creates, IdleES
  <2>2. es' = [at |-> es'.at, ver |-> es'.ver, fd |-> es'.fd, ret |-> es'.ret, load |-> es'.load,
           len |-> es'.len]
        /\ es'.at = "write" /\ es'.load = es.load /\ es'.ver = es.ver /\ es'.fd = Got("es")
    BY <1>0, <1>4, <1>11, <2>1 DEF IdleES
  <2>3. Got("es") >= 0 /\ Got("es") \in Int BY <1>1, <1>11 DEF EsCall
  <2>5. EsCall' BY <1>0, <1>1, <1>2, <1>3, <1>11, <2>1, <2>2, <2>3 DEF EsCall, Loads, Writes, Unused, FS_SUCCESS
  <2>6. EsDisk' BY <1>0, <1>1, <1>2, <1>3, <1>11, <2>1, <2>2, <2>3 DEF EsDisk, DstWhole, WholeFile, Missing, Empty, Loads, Unused, FS_SUCCESS
  <2>7. EsSlot' BY <1>0, <1>1, <1>2, <1>3, <1>11, <2>1, <2>2, <2>3 DEF EsSlot, EsOpen, EsFd, ESHas, Holds, Loads
  <2>8. \A s \in Slots : EsHas(s)' <=> EsHas(s) BY <1>1, <1>2, <1>3, <1>11, <2>1, <2>2, <2>3 DEF EsHas, EsOpen, EsFd, ESHas
  <2>a. PICK m : m = [[NoMsg EXCEPT !.op = "write", !.fd = Got("es"), !.n = Full, !.whence = es.ver] EXCEPT !.from = "es"] OBVIOUS
  <2>10. queue' = Append(queue, m) BY <1>1, <1>11, <2>a DEF SafeOpened, ESAsks, Asks, Creates
  <2>9. m = [from |-> "es", op |-> "write", path |-> "none", to |-> "none", mode |-> {},
                     fd |-> Got("es"), n |-> Full, whence |-> es.ver]
    BY <1>4, <2>a DEF NoMsg
  <2>11. m \in Messages BY <1>0, <2>9, EsMessage, <2>3 DEF Ops
  <2>12. EsSent(m)' BY <1>0, <1>11, <2>1, <2>2, <2>9, <2>3 DEF EsSent
  <2>13. m.from = "es" BY <2>9
  <2> QED BY <1>1, <2>5, <2>6, <2>7, <2>8, <2>10, <2>11, <2>12, <2>13, EsAsks
<1> QED BY <1>10, <1>11, <1>1

LEMMA SafeWrittenInv ==
  ASSUME ClientsInv, SafeWritten
  PROVE  ClientsInv'
<1> USE DEF ClientsInv
<1>0. /\ reply = [c \in Clients |-> reply[c]] /\ "es" \in Clients
      /\ es = [at |-> es.at, ver |-> es.ver, fd |-> es.fd, ret |-> es.ret, load |-> es.load,
               len |-> es.len]
      /\ es.ver \in Int /\ es.fd \in Int /\ Full \in Int /\ Full > 0
  BY FSUSBAssumption DEF WaitInv, EsCall, Clients
<1>1. /\ es.at = "write" /\ reply["es"].is
      /\ reply' = [reply EXCEPT !["es"] = NoReply] /\ Rest
  BY DEF SafeWritten, Seen, ESOnly
<1>2. reply'["es"] = NoReply /\ ~reply'["es"].is BY <1>0, <1>1 DEF NoReply
<1>3. UNCHANGED disk /\ UNCHANGED fd_stack BY <1>1 DEF Rest
<1>4. TRUE OBVIOUS
<1>10. CASE Got("es") = Full
  <2>1. es' = [es EXCEPT !.at = "close", !.ret = Got("es")] /\ (early' <=> early \/ Full \in 0 .. Full - 1)
    BY <1>0, <1>1, <1>10 DEF SafeWritten, ESAsks, ESEnds, Asks, Rest, ESOnly, Creates, IdleES
  <2>2. es' = [at |-> es'.at, ver |-> es'.ver, fd |-> es'.fd, ret |-> es'.ret, load |-> es'.load,
           len |-> es'.len]
        /\ es'.at = "close" /\ es'.load = es.load /\ es'.ver = es.ver /\ es'.fd = es.fd /\ es'.ret = Full
    BY <1>0, <1>4, <1>10, <2>1 DEF IdleES
  <2>3. early' <=> early BY <1>0, <2>1
  <2>5. EsCall' BY <1>0, <1>1, <1>2, <1>3, <1>10, <2>1, <2>2, <2>3 DEF EsCall, Loads, Writes, Unused, FS_SUCCESS
  <2>6. EsDisk' BY <1>0, <1>1, <1>2, <1>3, <1>10, <2>1, <2>2, <2>3 DEF EsDisk, DstWhole, WholeFile, Missing, Empty, Loads, Unused, FS_SUCCESS
  <2>7. EsSlot' BY <1>0, <1>1, <1>2, <1>3, <1>10, <2>1, <2>2, <2>3 DEF EsSlot, EsOpen, EsFd, ESHas, Holds, Loads
  <2>8. \A s \in Slots : EsHas(s)' <=> EsHas(s) BY <1>1, <1>2, <1>3, <1>10, <2>1, <2>2, <2>3 DEF EsHas, EsOpen, EsFd, ESHas
  <2>a. PICK m : m = [[NoMsg EXCEPT !.op = "close", !.fd = es.fd] EXCEPT !.from = "es"] OBVIOUS
  <2>10. queue' = Append(queue, m) BY <1>1, <1>10, <2>a DEF SafeWritten, ESAsks, Asks, Creates
  <2>9. m = [from |-> "es", op |-> "close", path |-> "none", to |-> "none", mode |-> {},
                     fd |-> es.fd, n |-> 0, whence |-> 0]
    BY <1>4, <2>a DEF NoMsg
  <2>11. m \in Messages BY <1>0, <2>9, EsMessage, <2>3 DEF Ops
  <2>12. EsSent(m)' BY <1>0, <1>10, <2>1, <2>2, <2>9, <2>3 DEF EsSent
  <2>13. m.from = "es" BY <2>9
  <2> QED BY <1>1, <2>5, <2>6, <2>7, <2>8, <2>10, <2>11, <2>12, <2>13, EsAsks
<1>11. CASE Got("es") # Full
  <2>1. es' = [es EXCEPT !.at = "giveup", !.ret = Got("es")]
        /\ (early' <=> early \/ Got("es") \in 0 .. Full - 1)
    BY <1>0, <1>1, <1>11 DEF SafeWritten, ESAsks, ESEnds, Asks, Rest, ESOnly, Creates, IdleES
  <2>2. es' = [at |-> es'.at, ver |-> es'.ver, fd |-> es'.fd, ret |-> es'.ret, load |-> es'.load,
           len |-> es'.len]
        /\ es'.at = "giveup" /\ es'.load = es.load /\ es'.ver = es.ver /\ es'.fd = es.fd /\ es'.ret = Got("es")
    BY <1>0, <1>4, <1>11, <2>1 DEF IdleES
  <2>3. es'.ret = FS_SUCCESS => early' BY <1>0, <2>1, <2>2 DEF FS_SUCCESS
  <2>5. EsCall' BY <1>0, <1>1, <1>2, <1>3, <1>11, <2>1, <2>2, <2>3 DEF EsCall, Loads, Writes, Unused, FS_SUCCESS
  <2>6. EsDisk' BY <1>0, <1>1, <1>2, <1>3, <1>11, <2>1, <2>2, <2>3 DEF EsDisk, DstWhole, WholeFile, Missing, Empty, Loads, Unused, FS_SUCCESS
  <2>7. EsSlot' BY <1>0, <1>1, <1>2, <1>3, <1>11, <2>1, <2>2, <2>3 DEF EsSlot, EsOpen, EsFd, ESHas, Holds, Loads
  <2>8. \A s \in Slots : EsHas(s)' <=> EsHas(s) BY <1>1, <1>2, <1>3, <1>11, <2>1, <2>2, <2>3 DEF EsHas, EsOpen, EsFd, ESHas
  <2>a. PICK m : m = [[NoMsg EXCEPT !.op = "close", !.fd = es.fd] EXCEPT !.from = "es"] OBVIOUS
  <2>10. queue' = Append(queue, m) BY <1>1, <1>11, <2>a DEF SafeWritten, ESAsks, Asks, Creates
  <2>9. m = [from |-> "es", op |-> "close", path |-> "none", to |-> "none", mode |-> {},
                     fd |-> es.fd, n |-> 0, whence |-> 0]
    BY <1>4, <2>a DEF NoMsg
  <2>11. m \in Messages BY <1>0, <2>9, EsMessage, <2>3 DEF Ops
  <2>12. EsSent(m)' BY <1>0, <1>11, <2>1, <2>2, <2>9, <2>3 DEF EsSent
  <2>13. m.from = "es" BY <2>9
  <2> QED BY <1>1, <2>5, <2>6, <2>7, <2>8, <2>10, <2>11, <2>12, <2>13, EsAsks
<1> QED BY <1>10, <1>11, <1>1

LEMMA SafeGivenUpInv ==
  ASSUME ClientsInv, SafeGivenUp
  PROVE  ClientsInv'
<1> USE DEF ClientsInv
<1>0. /\ reply = [c \in Clients |-> reply[c]] /\ "es" \in Clients
      /\ es = [at |-> es.at, ver |-> es.ver, fd |-> es.fd, ret |-> es.ret, load |-> es.load,
               len |-> es.len]
      /\ es.ver \in Int /\ es.fd \in Int /\ Full \in Int /\ Full > 0
  BY FSUSBAssumption DEF WaitInv, EsCall, Clients
<1>1. /\ es.at = "giveup" /\ reply["es"].is
      /\ reply' = [reply EXCEPT !["es"] = NoReply] /\ Rest
  BY DEF SafeGivenUp, Seen, ESOnly
<1>2. reply'["es"] = NoReply /\ ~reply'["es"].is BY <1>0, <1>1 DEF NoReply
<1>3. UNCHANGED disk /\ UNCHANGED fd_stack BY <1>1 DEF Rest
<1>4. TRUE OBVIOUS
<1>10. CASE TRUE
  <2>1. es' = [es EXCEPT !.at = "idle", !.ret = es.ret] /\ (early' <=> early)
    BY <1>0, <1>1, <1>10 DEF SafeGivenUp, ESAsks, ESEnds, Asks, Rest, ESOnly, Creates, IdleES
  <2>2. es' = [at |-> es'.at, ver |-> es'.ver, fd |-> es'.fd, ret |-> es'.ret, load |-> es'.load,
           len |-> es'.len]
        /\ es'.at = "idle" /\ es'.load = es.load /\ es'.ver = es.ver /\ es'.fd = es.fd /\ es'.ret = es.ret
    BY <1>0, <1>4, <1>10, <2>1 DEF IdleES
  <2>3. es.ret = FS_SUCCESS => early BY <1>1 DEF EsCall
  <2>5. EsCall' BY <1>0, <1>1, <1>2, <1>3, <1>10, <2>1, <2>2, <2>3 DEF EsCall, Loads, Writes, Unused, FS_SUCCESS
  <2>6. EsDisk' BY <1>0, <1>1, <1>2, <1>3, <1>10, <2>1, <2>2, <2>3 DEF EsDisk, DstWhole, WholeFile, Missing, Empty, Loads, Unused, FS_SUCCESS
  <2>7. EsSlot' BY <1>0, <1>1, <1>2, <1>3, <1>10, <2>1, <2>2, <2>3 DEF EsSlot, EsOpen, EsFd, ESHas, Holds, Loads
  <2>8. \A s \in Slots : EsHas(s)' <=> EsHas(s) BY <1>1, <1>2, <1>3, <1>10, <2>1, <2>2, <2>3 DEF EsHas, EsOpen, EsFd, ESHas
  <2>9. queue' = queue BY <1>0, <1>1, <1>10 DEF SafeGivenUp, ESEnds
  <2> QED BY <1>1, <2>5, <2>6, <2>7, <2>8, <2>9, EsEnds
<1> QED BY <1>10, <1>1

LEMMA SafeClosedInv ==
  ASSUME ClientsInv, SafeClosed
  PROVE  ClientsInv'
<1> USE DEF ClientsInv
<1>0. /\ reply = [c \in Clients |-> reply[c]] /\ "es" \in Clients
      /\ es = [at |-> es.at, ver |-> es.ver, fd |-> es.fd, ret |-> es.ret, load |-> es.load,
               len |-> es.len]
      /\ es.ver \in Int /\ es.fd \in Int /\ Full \in Int /\ Full > 0
  BY FSUSBAssumption DEF WaitInv, EsCall, Clients
<1>1. /\ es.at = "close" /\ reply["es"].is
      /\ reply' = [reply EXCEPT !["es"] = NoReply] /\ Rest
  BY DEF SafeClosed, Seen, ESOnly
<1>2. reply'["es"] = NoReply /\ ~reply'["es"].is BY <1>0, <1>1 DEF NoReply
<1>3. UNCHANGED disk /\ UNCHANGED fd_stack BY <1>1 DEF Rest
<1>4. TRUE OBVIOUS
<1>10. CASE TRUE
  <2>1. es' = [es EXCEPT !.at = "move"] /\ (early' <=> early)
    BY <1>0, <1>1, <1>10 DEF SafeClosed, ESAsks, ESEnds, Asks, Rest, ESOnly, Creates, IdleES
  <2>2. es' = [at |-> es'.at, ver |-> es'.ver, fd |-> es'.fd, ret |-> es'.ret, load |-> es'.load,
           len |-> es'.len]
        /\ es'.at = "move" /\ es'.load = es.load /\ es'.ver = es.ver /\ es'.fd = es.fd
    BY <1>0, <1>4, <1>10, <2>1 DEF IdleES
  <2>5. EsCall' BY <1>0, <1>1, <1>2, <1>3, <1>10, <2>1, <2>2 DEF EsCall, Loads, Writes, Unused, FS_SUCCESS
  <2>6. EsDisk' BY <1>0, <1>1, <1>2, <1>3, <1>10, <2>1, <2>2 DEF EsDisk, DstWhole, WholeFile, Missing, Empty, Loads, Unused, FS_SUCCESS
  <2>7. EsSlot' BY <1>0, <1>1, <1>2, <1>3, <1>10, <2>1, <2>2 DEF EsSlot, EsOpen, EsFd, ESHas, Holds, Loads
  <2>8. \A s \in Slots : EsHas(s)' <=> EsHas(s) BY <1>1, <1>2, <1>3, <1>10, <2>1, <2>2 DEF EsHas, EsOpen, EsFd, ESHas
  <2>a. PICK m : m = [[NoMsg EXCEPT !.op = "move", !.path = TmpDst, !.to = Dst] EXCEPT !.from = "es"] OBVIOUS
  <2>10. queue' = Append(queue, m) BY <1>1, <1>10, <2>a DEF SafeClosed, ESAsks, Asks, Creates
  <2>9. m = [from |-> "es", op |-> "move", path |-> TmpDst, to |-> Dst, mode |-> {},
                     fd |-> 0, n |-> 0, whence |-> 0]
    BY <1>4, <2>a DEF NoMsg
  <2>11. m \in Messages BY <1>0, <2>9, EsMessage DEF Ops
  <2>12. EsSent(m)' BY <1>0, <1>10, <2>1, <2>2, <2>9 DEF EsSent
  <2>13. m.from = "es" BY <2>9
  <2> QED BY <1>1, <2>5, <2>6, <2>7, <2>8, <2>10, <2>11, <2>12, <2>13, EsAsks
<1> QED BY <1>10, <1>1

LEMMA SafeMovedInv ==
  ASSUME ClientsInv, SafeMoved
  PROVE  ClientsInv'
<1> USE DEF ClientsInv
<1>0. /\ reply = [c \in Clients |-> reply[c]] /\ "es" \in Clients
      /\ es = [at |-> es.at, ver |-> es.ver, fd |-> es.fd, ret |-> es.ret, load |-> es.load,
               len |-> es.len]
      /\ es.ver \in Int /\ es.fd \in Int /\ Full \in Int /\ Full > 0
  BY FSUSBAssumption DEF WaitInv, EsCall, Clients
<1>1. /\ es.at = "move" /\ reply["es"].is
      /\ reply' = [reply EXCEPT !["es"] = NoReply] /\ Rest
  BY DEF SafeMoved, Seen, ESOnly
<1>2. reply'["es"] = NoReply /\ ~reply'["es"].is BY <1>0, <1>1 DEF NoReply
<1>3. UNCHANGED disk /\ UNCHANGED fd_stack BY <1>1 DEF Rest
<1>4. TRUE OBVIOUS
<1>10. CASE TRUE
  <2>1. es' = [es EXCEPT !.at = "idle", !.ret = Got("es")] /\ (early' <=> early)
    BY <1>0, <1>1, <1>10 DEF SafeMoved, ESAsks, ESEnds, Asks, Rest, ESOnly, Creates, IdleES
  <2>2. es' = [at |-> es'.at, ver |-> es'.ver, fd |-> es'.fd, ret |-> es'.ret, load |-> es'.load,
           len |-> es'.len]
        /\ es'.at = "idle" /\ es'.load = es.load /\ es'.ver = es.ver /\ es'.fd = es.fd /\ es'.ret = Got("es")
    BY <1>0, <1>4, <1>10, <2>1 DEF IdleES
  <2>5. EsCall' BY <1>0, <1>1, <1>2, <1>3, <1>10, <2>1, <2>2 DEF EsCall, Loads, Writes, Unused, FS_SUCCESS
  <2>6. EsDisk' BY <1>0, <1>1, <1>2, <1>3, <1>10, <2>1, <2>2 DEF EsDisk, DstWhole, WholeFile, Missing, Empty, Loads, Unused, FS_SUCCESS
  <2>7. EsSlot' BY <1>0, <1>1, <1>2, <1>3, <1>10, <2>1, <2>2 DEF EsSlot, EsOpen, EsFd, ESHas, Holds, Loads
  <2>8. \A s \in Slots : EsHas(s)' <=> EsHas(s) BY <1>1, <1>2, <1>3, <1>10, <2>1, <2>2 DEF EsHas, EsOpen, EsFd, ESHas
  <2>9. queue' = queue BY <1>0, <1>1, <1>10 DEF SafeMoved, ESEnds
  <2> QED BY <1>1, <2>5, <2>6, <2>7, <2>8, <2>9, EsEnds
<1> QED BY <1>10, <1>1

LEMMA LoadFileInv ==
  ASSUME ClientsInv, LoadFile
  PROVE  ClientsInv'
<1> USE DEF ClientsInv
<1>0. /\ reply = [c \in Clients |-> reply[c]] /\ "es" \in Clients
      /\ es = [at |-> es.at, ver |-> es.ver, fd |-> es.fd, ret |-> es.ret, load |-> es.load,
               len |-> es.len]
      /\ es.ver \in Int /\ es.fd \in Int /\ Full \in Int /\ Full > 0
  BY FSUSBAssumption DEF WaitInv, EsCall, Clients
<1>1. /\ es.at = "idle" /\ (early' <=> early) /\ reply' = reply /\ ~reply["es"].is
      /\ UNCHANGED <<disk, fd_stack, HAXHandle, work, Nhandle, di, held, game>>
  BY DEF LoadFile, ESOnly, Rest, WaitInv
<1>2. ~reply'["es"].is BY <1>1
<1>3. UNCHANGED disk /\ UNCHANGED fd_stack BY <1>1 DEF Rest
<1>4. TRUE OBVIOUS
<1>10. CASE TRUE
  <2>1. es' = [es EXCEPT !.at = "lopen", !.load = Missing]
    BY <1>0, <1>1, <1>10 DEF LoadFile, ESAsks, ESEnds, Asks, Rest, ESOnly, Creates, IdleES
  <2>2. es' = [at |-> es'.at, ver |-> es'.ver, fd |-> es'.fd, ret |-> es'.ret, load |-> es'.load,
           len |-> es'.len]
        /\ es'.at = "lopen" /\ es'.load = Missing /\ es'.ver = es.ver /\ es'.fd = es.fd /\ es'.ret = es.ret
    BY <1>0, <1>4, <1>10, <2>1 DEF IdleES
  <2>5. EsCall' BY <1>0, <1>1, <1>2, <1>3, <1>10, <2>1, <2>2 DEF EsCall, Loads, Writes, Unused, FS_SUCCESS
  <2>6. EsDisk' BY <1>0, <1>1, <1>2, <1>3, <1>10, <2>1, <2>2 DEF EsDisk, DstWhole, WholeFile, Missing, Empty, Loads, Unused, FS_SUCCESS
  <2>7. EsSlot' BY <1>0, <1>1, <1>2, <1>3, <1>10, <2>1, <2>2 DEF EsSlot, EsOpen, EsFd, ESHas, Holds, Loads
  <2>8. \A s \in Slots : EsHas(s)' <=> EsHas(s) BY <1>1, <1>2, <1>3, <1>10, <2>1, <2>2 DEF EsHas, EsOpen, EsFd, ESHas
  <2>a. PICK m : m = [[NoMsg EXCEPT !.op = "open", !.path = Dst, !.mode = {"READ"}] EXCEPT !.from = "es"] OBVIOUS
  <2>10. queue' = Append(queue, m) BY <1>1, <1>10, <2>a DEF LoadFile, ESAsks, Asks, Creates
  <2>9. m = [from |-> "es", op |-> "open", path |-> Dst, to |-> "none", mode |-> {"READ"},
                     fd |-> 0, n |-> 0, whence |-> 0]
    BY <1>4, <2>a DEF NoMsg
  <2>11. m \in Messages BY <1>0, <2>9, EsMessage DEF Ops
  <2>12. EsSent(m)' BY <1>0, <1>10, <2>1, <2>2, <2>9 DEF EsSent
  <2>13. m.from = "es" BY <2>9
  <2> QED BY <1>1, <2>5, <2>6, <2>7, <2>8, <2>10, <2>11, <2>12, <2>13, EsAsks
<1> QED BY <1>10, <1>1

LEMMA LoadOpenedInv ==
  ASSUME ClientsInv, LoadOpened
  PROVE  ClientsInv'
<1> USE DEF ClientsInv
<1>0. /\ reply = [c \in Clients |-> reply[c]] /\ "es" \in Clients
      /\ es = [at |-> es.at, ver |-> es.ver, fd |-> es.fd, ret |-> es.ret, load |-> es.load,
               len |-> es.len]
      /\ es.ver \in Int /\ es.fd \in Int /\ Full \in Int /\ Full > 0
  BY FSUSBAssumption DEF WaitInv, EsCall, Clients
<1>1. /\ es.at = "lopen" /\ reply["es"].is
      /\ reply' = [reply EXCEPT !["es"] = NoReply] /\ Rest
  BY DEF LoadOpened, Seen, ESOnly
<1>2. reply'["es"] = NoReply /\ ~reply'["es"].is BY <1>0, <1>1 DEF NoReply
<1>3. UNCHANGED disk /\ UNCHANGED fd_stack BY <1>1 DEF Rest
<1>4. TRUE OBVIOUS
<1>10. CASE Got("es") < 0
  <2>1. es' = [es EXCEPT !.at = "idle"] /\ (early' <=> early)
    BY <1>0, <1>1, <1>10 DEF LoadOpened, ESAsks, ESEnds, Asks, Rest, ESOnly, Creates, IdleES
  <2>2. es' = [at |-> es'.at, ver |-> es'.ver, fd |-> es'.fd, ret |-> es'.ret, load |-> es'.load,
           len |-> es'.len]
        /\ es'.at = "idle" /\ es'.load = es.load /\ es'.ver = es.ver /\ es'.fd = es.fd /\ es'.ret = es.ret
    BY <1>0, <1>4, <1>10, <2>1 DEF IdleES
  <2>3. Got("es") \in Int BY <1>1, <1>10 DEF EsCall
  <2>5. EsCall' BY <1>0, <1>1, <1>2, <1>3, <1>10, <2>1, <2>2, <2>3 DEF EsCall, Loads, Writes, Unused, FS_SUCCESS
  <2>6. EsDisk' BY <1>0, <1>1, <1>2, <1>3, <1>10, <2>1, <2>2, <2>3 DEF EsDisk, DstWhole, WholeFile, Missing, Empty, Loads, Unused, FS_SUCCESS
  <2>7. EsSlot' BY <1>0, <1>1, <1>2, <1>3, <1>10, <2>1, <2>2, <2>3 DEF EsSlot, EsOpen, EsFd, ESHas, Holds, Loads
  <2>8. \A s \in Slots : EsHas(s)' <=> EsHas(s) BY <1>1, <1>2, <1>3, <1>10, <2>1, <2>2, <2>3 DEF EsHas, EsOpen, EsFd, ESHas
  <2>9. queue' = queue BY <1>0, <1>1, <1>10 DEF LoadOpened, ESEnds
  <2> QED BY <1>1, <2>5, <2>6, <2>7, <2>8, <2>9, EsEnds
<1>11. CASE ~(Got("es") < 0)
  <2>1. es' = [es EXCEPT !.at = "lend", !.fd = Got("es")] /\ (early' <=> early)
    BY <1>0, <1>1, <1>11 DEF LoadOpened, ESAsks, ESEnds, Asks, Rest, ESOnly, Creates, IdleES
  <2>2. es' = [at |-> es'.at, ver |-> es'.ver, fd |-> es'.fd, ret |-> es'.ret, load |-> es'.load,
           len |-> es'.len]
        /\ es'.at = "lend" /\ es'.load = es.load /\ es'.ver = es.ver /\ es'.ret = es.ret /\ es'.fd = Got("es")
    BY <1>0, <1>4, <1>11, <2>1 DEF IdleES
  <2>3. Got("es") >= 0 /\ Got("es") \in Int BY <1>1, <1>11 DEF EsCall
  <2>5. EsCall' BY <1>0, <1>1, <1>2, <1>3, <1>11, <2>1, <2>2, <2>3 DEF EsCall, Loads, Writes, Unused, FS_SUCCESS
  <2>6. EsDisk' BY <1>0, <1>1, <1>2, <1>3, <1>11, <2>1, <2>2, <2>3 DEF EsDisk, DstWhole, WholeFile, Missing, Empty, Loads, Unused, FS_SUCCESS
  <2>7. EsSlot' BY <1>0, <1>1, <1>2, <1>3, <1>11, <2>1, <2>2, <2>3 DEF EsSlot, EsOpen, EsFd, ESHas, Holds, Loads
  <2>8. \A s \in Slots : EsHas(s)' <=> EsHas(s) BY <1>1, <1>2, <1>3, <1>11, <2>1, <2>2, <2>3 DEF EsHas, EsOpen, EsFd, ESHas
  <2>a. PICK m : m = [[NoMsg EXCEPT !.op = "seek", !.fd = Got("es"), !.whence = 2] EXCEPT !.from = "es"] OBVIOUS
  <2>10. queue' = Append(queue, m) BY <1>1, <1>11, <2>a DEF LoadOpened, ESAsks, Asks, Creates
  <2>9. m = [from |-> "es", op |-> "seek", path |-> "none", to |-> "none", mode |-> {},
                     fd |-> Got("es"), n |-> 0, whence |-> 2]
    BY <1>4, <2>a DEF NoMsg
  <2>11. m \in Messages BY <1>0, <2>9, EsMessage, <2>3 DEF Ops
  <2>12. EsSent(m)' BY <1>0, <1>11, <2>1, <2>2, <2>9, <2>3 DEF EsSent
  <2>13. m.from = "es" BY <2>9
  <2> QED BY <1>1, <2>5, <2>6, <2>7, <2>8, <2>10, <2>11, <2>12, <2>13, EsAsks
<1> QED BY <1>10, <1>11, <1>1

LEMMA LoadSizedInv ==
  ASSUME ClientsInv, LoadSized
  PROVE  ClientsInv'
<1> USE DEF ClientsInv
<1>0. /\ reply = [c \in Clients |-> reply[c]] /\ "es" \in Clients
      /\ es = [at |-> es.at, ver |-> es.ver, fd |-> es.fd, ret |-> es.ret, load |-> es.load,
               len |-> es.len]
      /\ es.ver \in Int /\ es.fd \in Int /\ Full \in Int /\ Full > 0
  BY FSUSBAssumption DEF WaitInv, EsCall, Clients
<1>1. /\ es.at = "lend" /\ reply["es"].is
      /\ reply' = [reply EXCEPT !["es"] = NoReply] /\ Rest
  BY DEF LoadSized, Seen, ESOnly
<1>2. reply'["es"] = NoReply /\ ~reply'["es"].is BY <1>0, <1>1 DEF NoReply
<1>3. UNCHANGED disk /\ UNCHANGED fd_stack BY <1>1 DEF Rest
<1>4. Got("es") = Full BY <1>1 DEF EsCall
<1>10. CASE TRUE
  <2>1. es' = [es EXCEPT !.at = "lset", !.len = Got("es")] /\ (early' <=> early)
    BY <1>0, <1>1, <1>10 DEF LoadSized, ESAsks, ESEnds, Asks, Rest, ESOnly, Creates, IdleES
  <2>2. es' = [at |-> es'.at, ver |-> es'.ver, fd |-> es'.fd, ret |-> es'.ret, load |-> es'.load,
           len |-> es'.len]
        /\ es'.at = "lset" /\ es'.load = es.load /\ es'.ver = es.ver /\ es'.fd = es.fd /\ es'.ret = es.ret /\ es'.len = Full
    BY <1>0, <1>4, <1>10, <2>1 DEF IdleES
  <2>5. EsCall' BY <1>0, <1>1, <1>2, <1>3, <1>10, <2>1, <2>2 DEF EsCall, Loads, Writes, Unused, FS_SUCCESS
  <2>6. EsDisk' BY <1>0, <1>1, <1>2, <1>3, <1>10, <2>1, <2>2 DEF EsDisk, DstWhole, WholeFile, Missing, Empty, Loads, Unused, FS_SUCCESS
  <2>7. EsSlot' BY <1>0, <1>1, <1>2, <1>3, <1>10, <2>1, <2>2 DEF EsSlot, EsOpen, EsFd, ESHas, Holds, Loads
  <2>8. \A s \in Slots : EsHas(s)' <=> EsHas(s) BY <1>1, <1>2, <1>3, <1>10, <2>1, <2>2 DEF EsHas, EsOpen, EsFd, ESHas
  <2>a. PICK m : m = [[NoMsg EXCEPT !.op = "seek", !.fd = es.fd] EXCEPT !.from = "es"] OBVIOUS
  <2>10. queue' = Append(queue, m) BY <1>1, <1>10, <2>a DEF LoadSized, ESAsks, Asks, Creates
  <2>9. m = [from |-> "es", op |-> "seek", path |-> "none", to |-> "none", mode |-> {},
                     fd |-> es.fd, n |-> 0, whence |-> 0]
    BY <1>4, <2>a DEF NoMsg
  <2>11. m \in Messages BY <1>0, <2>9, EsMessage DEF Ops
  <2>12. EsSent(m)' BY <1>0, <1>10, <2>1, <2>2, <2>9 DEF EsSent
  <2>13. m.from = "es" BY <2>9
  <2> QED BY <1>1, <2>5, <2>6, <2>7, <2>8, <2>10, <2>11, <2>12, <2>13, EsAsks
<1> QED BY <1>10, <1>1

LEMMA LoadSoughtInv ==
  ASSUME ClientsInv, LoadSought
  PROVE  ClientsInv'
<1> USE DEF ClientsInv
<1>0. /\ reply = [c \in Clients |-> reply[c]] /\ "es" \in Clients
      /\ es = [at |-> es.at, ver |-> es.ver, fd |-> es.fd, ret |-> es.ret, load |-> es.load,
               len |-> es.len]
      /\ es.ver \in Int /\ es.fd \in Int /\ Full \in Int /\ Full > 0
  BY FSUSBAssumption DEF WaitInv, EsCall, Clients
<1>1. /\ es.at = "lset" /\ reply["es"].is
      /\ reply' = [reply EXCEPT !["es"] = NoReply] /\ Rest
  BY DEF LoadSought, Seen, ESOnly
<1>2. reply'["es"] = NoReply /\ ~reply'["es"].is BY <1>0, <1>1 DEF NoReply
<1>3. UNCHANGED disk /\ UNCHANGED fd_stack BY <1>1 DEF Rest
<1>4. es.len = Full BY <1>1 DEF EsCall
<1>10. CASE TRUE
  <2>1. es' = [es EXCEPT !.at = "lread"] /\ (early' <=> early)
    BY <1>0, <1>1, <1>10 DEF LoadSought, ESAsks, ESEnds, Asks, Rest, ESOnly, Creates, IdleES
  <2>2. es' = [at |-> es'.at, ver |-> es'.ver, fd |-> es'.fd, ret |-> es'.ret, load |-> es'.load,
           len |-> es'.len]
        /\ es'.at = "lread" /\ es'.load = es.load /\ es'.ver = es.ver /\ es'.fd = es.fd /\ es'.ret = es.ret /\ es'.len = Full
    BY <1>0, <1>4, <1>10, <2>1 DEF IdleES
  <2>5. EsCall' BY <1>0, <1>1, <1>2, <1>3, <1>10, <2>1, <2>2 DEF EsCall, Loads, Writes, Unused, FS_SUCCESS
  <2>6. EsDisk' BY <1>0, <1>1, <1>2, <1>3, <1>10, <2>1, <2>2 DEF EsDisk, DstWhole, WholeFile, Missing, Empty, Loads, Unused, FS_SUCCESS
  <2>7. EsSlot' BY <1>0, <1>1, <1>2, <1>3, <1>10, <2>1, <2>2 DEF EsSlot, EsOpen, EsFd, ESHas, Holds, Loads
  <2>8. \A s \in Slots : EsHas(s)' <=> EsHas(s) BY <1>1, <1>2, <1>3, <1>10, <2>1, <2>2 DEF EsHas, EsOpen, EsFd, ESHas
  <2>a. PICK m : m = [[NoMsg EXCEPT !.op = "read", !.fd = es.fd, !.n = es.len] EXCEPT !.from = "es"] OBVIOUS
  <2>10. queue' = Append(queue, m) BY <1>1, <1>10, <2>a DEF LoadSought, ESAsks, Asks, Creates
  <2>9. m = [from |-> "es", op |-> "read", path |-> "none", to |-> "none", mode |-> {},
                     fd |-> es.fd, n |-> Full, whence |-> 0]
    BY <1>4, <2>a DEF NoMsg
  <2>11. m \in Messages BY <1>0, <2>9, EsMessage DEF Ops
  <2>12. EsSent(m)' BY <1>0, <1>10, <2>1, <2>2, <2>9 DEF EsSent
  <2>13. m.from = "es" BY <2>9
  <2> QED BY <1>1, <2>5, <2>6, <2>7, <2>8, <2>10, <2>11, <2>12, <2>13, EsAsks
<1> QED BY <1>10, <1>1

LEMMA LoadReadInv ==
  ASSUME ClientsInv, LoadRead
  PROVE  ClientsInv'
<1> USE DEF ClientsInv
<1>0. /\ reply = [c \in Clients |-> reply[c]] /\ "es" \in Clients
      /\ es = [at |-> es.at, ver |-> es.ver, fd |-> es.fd, ret |-> es.ret, load |-> es.load,
               len |-> es.len]
      /\ es.ver \in Int /\ es.fd \in Int /\ Full \in Int /\ Full > 0
  BY FSUSBAssumption DEF WaitInv, EsCall, Clients
<1>1. /\ es.at = "lread" /\ reply["es"].is
      /\ reply' = [reply EXCEPT !["es"] = NoReply] /\ Rest
  BY DEF LoadRead, Seen, ESOnly
<1>2. reply'["es"] = NoReply /\ ~reply'["es"].is BY <1>0, <1>1 DEF NoReply
<1>3. UNCHANGED disk /\ UNCHANGED fd_stack BY <1>1 DEF Rest
<1>4. Got("es") = Full BY <1>1 DEF EsCall
<1>10. CASE TRUE
  <2>1. es' = [es EXCEPT !.at = "lclose",
               !.load = [ver |-> fd_stack[es.fd].ver, len |-> Got("es")]] /\ (early' <=> early)
    BY <1>0, <1>1, <1>10 DEF LoadRead, ESAsks, ESEnds, Asks, Rest, ESOnly, Creates, IdleES
  <2>2. es' = [at |-> es'.at, ver |-> es'.ver, fd |-> es'.fd, ret |-> es'.ret, load |-> es'.load,
           len |-> es'.len]
        /\ es'.at = "lclose" /\ es'.load.len = Full /\ es'.ver = es.ver /\ es'.fd = es.fd /\ es'.ret = es.ret
    BY <1>0, <1>4, <1>10, <2>1 DEF IdleES
  <2>5. EsCall' BY <1>0, <1>1, <1>2, <1>3, <1>10, <2>1, <2>2 DEF EsCall, Loads, Writes, Unused, FS_SUCCESS
  <2>6. EsDisk' BY <1>0, <1>1, <1>2, <1>3, <1>10, <2>1, <2>2 DEF EsDisk, DstWhole, WholeFile, Missing, Empty, Loads, Unused, FS_SUCCESS
  <2>7. EsSlot' BY <1>0, <1>1, <1>2, <1>3, <1>10, <2>1, <2>2 DEF EsSlot, EsOpen, EsFd, ESHas, Holds, Loads
  <2>8. \A s \in Slots : EsHas(s)' <=> EsHas(s) BY <1>1, <1>2, <1>3, <1>10, <2>1, <2>2 DEF EsHas, EsOpen, EsFd, ESHas
  <2>a. PICK m : m = [[NoMsg EXCEPT !.op = "close", !.fd = es.fd] EXCEPT !.from = "es"] OBVIOUS
  <2>10. queue' = Append(queue, m) BY <1>1, <1>10, <2>a DEF LoadRead, ESAsks, Asks, Creates
  <2>9. m = [from |-> "es", op |-> "close", path |-> "none", to |-> "none", mode |-> {},
                     fd |-> es.fd, n |-> 0, whence |-> 0]
    BY <1>4, <2>a DEF NoMsg
  <2>11. m \in Messages BY <1>0, <2>9, EsMessage DEF Ops
  <2>12. EsSent(m)' BY <1>0, <1>10, <2>1, <2>2, <2>9 DEF EsSent
  <2>13. m.from = "es" BY <2>9
  <2> QED BY <1>1, <2>5, <2>6, <2>7, <2>8, <2>10, <2>11, <2>12, <2>13, EsAsks
<1> QED BY <1>10, <1>1

LEMMA LoadClosedInv ==
  ASSUME ClientsInv, LoadClosed
  PROVE  ClientsInv'
<1> USE DEF ClientsInv
<1>0. /\ reply = [c \in Clients |-> reply[c]] /\ "es" \in Clients
      /\ es = [at |-> es.at, ver |-> es.ver, fd |-> es.fd, ret |-> es.ret, load |-> es.load,
               len |-> es.len]
      /\ es.ver \in Int /\ es.fd \in Int /\ Full \in Int /\ Full > 0
  BY FSUSBAssumption DEF WaitInv, EsCall, Clients
<1>1. /\ es.at = "lclose" /\ reply["es"].is
      /\ reply' = [reply EXCEPT !["es"] = NoReply] /\ Rest
  BY DEF LoadClosed, Seen, ESOnly
<1>2. reply'["es"] = NoReply /\ ~reply'["es"].is BY <1>0, <1>1 DEF NoReply
<1>3. UNCHANGED disk /\ UNCHANGED fd_stack BY <1>1 DEF Rest
<1>4. TRUE OBVIOUS
<1>10. CASE TRUE
  <2>1. es' = [es EXCEPT !.at = "idle", !.len = 0] /\ (early' <=> early)
    BY <1>0, <1>1, <1>10 DEF LoadClosed, ESAsks, ESEnds, Asks, Rest, ESOnly, Creates, IdleES
  <2>2. es' = [at |-> es'.at, ver |-> es'.ver, fd |-> es'.fd, ret |-> es'.ret, load |-> es'.load,
           len |-> es'.len]
        /\ es'.at = "idle" /\ es'.load = es.load /\ es'.ver = es.ver /\ es'.fd = es.fd /\ es'.ret = es.ret
    BY <1>0, <1>4, <1>10, <2>1 DEF IdleES
  <2>5. EsCall' BY <1>0, <1>1, <1>2, <1>3, <1>10, <2>1, <2>2 DEF EsCall, Loads, Writes, Unused, FS_SUCCESS
  <2>6. EsDisk' BY <1>0, <1>1, <1>2, <1>3, <1>10, <2>1, <2>2 DEF EsDisk, DstWhole, WholeFile, Missing, Empty, Loads, Unused, FS_SUCCESS
  <2>7. EsSlot' BY <1>0, <1>1, <1>2, <1>3, <1>10, <2>1, <2>2 DEF EsSlot, EsOpen, EsFd, ESHas, Holds, Loads
  <2>8. \A s \in Slots : EsHas(s)' <=> EsHas(s) BY <1>1, <1>2, <1>3, <1>10, <2>1, <2>2 DEF EsHas, EsOpen, EsFd, ESHas
  <2>9. queue' = queue BY <1>0, <1>1, <1>10 DEF LoadClosed, ESEnds
  <2> QED BY <1>1, <2>5, <2>6, <2>7, <2>8, <2>9, EsEnds
<1> QED BY <1>10, <1>1
-----------------------------------------------------------------------------
LEMMA DiMessage ==
  ASSUME NEW m, m = [from |-> "di", op |-> m.op, path |-> m.path, to |-> m.to, mode |-> m.mode,
                     fd |-> m.fd, n |-> m.n, whence |-> m.whence],
         m.path \in {"none"} \cup Own, m.to = "none", m.mode \in Modes,
         m.fd \in Int, m.n \in Int, m.whence \in Int, m.op \in Ops
  PROVE  m \in Messages /\ m.from = "di"
<1>1. m.path \in Paths \cup {"none"} /\ m.to \in Paths \cup {"none"}
  BY FSClientsAssumption
<1>2. "di" \in Clients BY DEF Clients
<1> QED BY <1>1, <1>2 DEF Messages

\* DI asks, or its call ends.
LEMMA DiStep ==
  ASSUME ClientsInv, NEW m,
         queue' = queue \/ (m \in Messages /\ m.from = "di" /\ DiSent(m)' /\ queue' = Append(queue, m)),
         DIOnly, reply' = [reply EXCEPT !["di"] = NoReply] \/ (reply' = reply /\ ~reply["di"].is),
         reply["di"].is \/ di.at = "idle",
         DiCall', DiSlots', \A s \in Slots, h \in Handles : DiHas(h, s)' <=> DiHas(h, s)
  PROVE  ClientsInv'
<1>1. /\ UNCHANGED disk /\ UNCHANGED fd_stack /\ UNCHANGED HAXHandle /\ UNCHANGED work
      /\ UNCHANGED <<disk, work>> /\ UNCHANGED <<es, game, early>>
  BY DEF DIOnly
<1>2. ~reply'["di"].is BY DEF ClientsInv, WaitInv, NoReply, Clients
<1>3. DiSent(m)' /\ m.from = "di" => Sent(m)' BY DEF Sent
<1>4. ClientStep("di", m) BY <1>1, <1>2, <1>3 DEF ClientStep
<1> QED BY <1>1, <1>4, DiStepInv

LEMMA DiEnds ==
  ASSUME ClientsInv, queue' = queue, DIOnly,
         reply' = [reply EXCEPT !["di"] = NoReply] \/ (reply' = reply /\ ~reply["di"].is),
         reply["di"].is \/ di.at = "idle",
         DiCall', DiSlots', \A s \in Slots, h \in Handles : DiHas(h, s)' <=> DiHas(h, s)
  PROVE  ClientsInv'
<1>1. /\ UNCHANGED disk /\ UNCHANGED fd_stack /\ UNCHANGED HAXHandle /\ UNCHANGED work
      /\ UNCHANGED <<disk, work>> /\ UNCHANGED <<es, game, early>>
  BY DEF DIOnly
<1>2. ~reply'["di"].is BY DEF ClientsInv, WaitInv, NoReply, Clients
<1>3. PICK m : m = NoMsg OBVIOUS
<1>4. ClientStep("di", m) BY <1>1, <1>2 DEF ClientStep
<1> QED BY <1>1, <1>4, DiStepInv

LEMMA DVDOpenInv ==
  ASSUME ClientsInv, NEW p \in Own, NEW mode \in {{"READ"}, {"READ", "WRITE", "CREATE"}},
         DVDOpen(p, mode)
  PROVE  ClientsInv'
<1> USE DEF ClientsInv
<1>1. /\ di.at = "idle" /\ reply' = reply /\ ~reply["di"].is /\ UNCHANGED <<Nhandle, held>>
      /\ DIOnly /\ UNCHANGED HAXHandle /\ UNCHANGED fd_stack
  BY DEF DVDOpen, WaitInv, DIOnly
<1>2. PICK h \in Handles : FreeHandle(h) /\ di' = [at |-> "hax", path |-> p, mode |-> mode, slot |-> h]
  BY DEF DVDOpen
<1>3. Nhandle[h] = Unused BY <1>2 DEF FreeHandle
<1>4. \A x \in held : x.h # h BY <1>3 DEF DiCall
<1>5. PICK m : m = [[NoMsg EXCEPT !.op = "hax", !.path = p, !.mode = mode] EXCEPT !.from = "di"]
  OBVIOUS
<1>6. m = [from |-> "di", op |-> "hax", path |-> p, to |-> "none", mode |-> mode,
           fd |-> 0, n |-> 0, whence |-> 0]
  BY <1>5 DEF NoMsg
<1>7. mode \in Modes BY DEF Modes
<1>8. m \in Messages /\ m.from = "di" BY <1>6, <1>7, DiMessage DEF Ops
<1>9. queue' = Append(queue, m) BY <1>5 DEF DVDOpen, Asks
<1>10. DiSent(m)' BY <1>2, <1>6 DEF DiSent
<1>11. DiCall' BY <1>1, <1>2, <1>4, <1>7 DEF DiCall, DIWaits, Modes
<1>12. \A g \in Handles : /\ DiOpen(g)' <=> DiOpen(g)
                          /\ DiOpen(g) => DiFd(g)' = DiFd(g) /\ DiFd(g) = Nhandle[g]
  BY <1>1, <1>2, <1>4 DEF DiOpen, DiFd
<1>13. DiSlots'
  <2>1. \A x \in held : x.path \in Own /\ Holds(Nhandle[x.h], x.path)'
    BY <1>1 DEF DiSlots, Holds
  <2>2. \A g \in Handles : (DiOpen(g) => DiFd(g) \in Slots /\ fd_stack[DiFd(g)].fs
                                         /\ fd_stack[DiFd(g)].path \in Own)'
    BY <1>1, <1>12 DEF DiSlots
  <2>3. ~DiOpen(di.slot)' BY <1>1, <1>2, <1>4 DEF DiOpen
  <2> QED BY <1>1, <2>1, <2>2, <2>3 DEF DiSlots
<1> QED BY <1>1, <1>8, <1>9, <1>10, <1>11, <1>12, <1>13, DiStep DEF DiHas

LEMMA DVDOpenAXInv ==
  ASSUME ClientsInv, DVDOpenAX
  PROVE  ClientsInv'
<1> USE DEF ClientsInv
<1>1. /\ di.at = "hax" /\ reply["di"].is /\ reply' = [reply EXCEPT !["di"] = NoReply]
      /\ Nhandle' = [Nhandle EXCEPT ![di.slot] = Got("di")] /\ di' = [di EXCEPT !.at = "ax"]
      /\ UNCHANGED held /\ DIOnly /\ UNCHANGED HAXHandle /\ UNCHANGED fd_stack
  BY DEF DVDOpenAX, DIOnly, Seen
<1>2. /\ di.slot \in Handles /\ di.path \in Own /\ (\A x \in held : x.h # di.slot)
      /\ HAXHandle = Got("di") /\ Got("di") \in Results
  BY <1>1 DEF DiCall
<1>3. /\ di'.at = "ax" /\ di'.slot = di.slot /\ di'.path = di.path
      /\ di' = [at |-> di'.at, path |-> di'.path, mode |-> di'.mode, slot |-> di'.slot]
  BY <1>1 DEF DiCall
<1>4. /\ Nhandle'[di.slot] = Got("di") /\ Nhandle' = [h \in Handles |-> Nhandle'[h]]
      /\ \A h \in Handles : h # di.slot => Nhandle'[h] = Nhandle[h]
  BY <1>1, <1>2 DEF DiCall
<1>5. ~reply'["di"].is BY <1>1 DEF WaitInv, NoReply, Clients
<1>6. PICK m : m = [[NoMsg EXCEPT !.op = "ax", !.mode = di.mode] EXCEPT !.from = "di"]
  OBVIOUS
<1>7. queue' = Append(queue, m) BY <1>6 DEF DVDOpenAX, Asks
<1>8. m = [from |-> "di", op |-> "ax", path |-> "none", to |-> "none", mode |-> di.mode,
           fd |-> 0, n |-> 0, whence |-> 0]
  BY <1>6 DEF NoMsg
<1>9. m \in Messages /\ m.from = "di" BY <1>1, <1>8, DiMessage DEF Ops, DiCall
<1>10. DiSent(m)' BY <1>3, <1>8 DEF DiSent
<1>11. DiCall'
  <2>1. \A x \in held : Nhandle'[x.h] = Nhandle[x.h] BY <1>2, <1>4 DEF DiCall
  <2>2. di.mode \in Modes BY <1>1 DEF DiCall
  <2> QED BY <1>1, <1>2, <1>3, <1>4, <1>5, <2>1, <2>2 DEF DiCall, DIWaits, Results, Slots, Modes
<1>12. \A g \in Handles : (DiOpen(g)' <=> DiOpen(g)) /\ DiFd(g)' = DiFd(g)
  BY <1>1, <1>2, <1>3, <1>4 DEF DiOpen, DiFd
<1>13. DiSlots'
  <2>1. \A x \in held : x.path \in Own /\ Holds(Nhandle[x.h], x.path)'
    BY <1>1, <1>2, <1>4 DEF DiSlots, Holds, DiCall
  <2>2. \A g \in Handles : (DiOpen(g) => DiFd(g) \in Slots /\ fd_stack[DiFd(g)].fs
                                         /\ fd_stack[DiFd(g)].path \in Own)'
    BY <1>1, <1>12 DEF DiSlots
  <2>3. DiOpen(di.slot)' => Holds(DiFd(di.slot), di.path)'
    <3>1. DiOpen(di.slot)' => DiOpen(di.slot)
      BY <1>1, <1>2, <1>3, <1>4 DEF DiOpen
    <3>2. DiFd(di.slot)' = DiFd(di.slot) BY <1>1, <1>2, <1>3, <1>4 DEF DiFd
    <3>3. DiOpen(di.slot) => Holds(DiFd(di.slot), di.path) BY <1>1 DEF DiSlots
    <3> QED BY <1>1, <1>3, <3>1, <3>2, <3>3 DEF Holds
  <2> QED BY <1>1, <1>3, <2>1, <2>2, <2>3 DEF DiSlots
<1> QED BY <1>1, <1>7, <1>9, <1>10, <1>11, <1>12, <1>13, DiStep DEF DiHas

LEMMA DVDOpenedInv ==
  ASSUME ClientsInv, DVDOpened
  PROVE  ClientsInv'
<1> USE DEF ClientsInv
<1>1. /\ di.at = "ax" /\ reply["di"].is /\ reply' = [reply EXCEPT !["di"] = NoReply]
      /\ Nhandle' = [Nhandle EXCEPT ![di.slot] = Got("di")] /\ di' = IdleDI
      /\ held' = (IF Got("di") < 0 THEN held ELSE held \cup {[h |-> di.slot, path |-> di.path]})
      /\ queue' = queue /\ DIOnly /\ UNCHANGED HAXHandle /\ UNCHANGED fd_stack
  BY DEF DVDOpened, DIOnly, Seen
<1>2. /\ di.slot \in Handles /\ di.path \in Own /\ (\A x \in held : x.h # di.slot)
      /\ Got("di") = Nhandle[di.slot] /\ Got("di") \in Results
  BY <1>1 DEF DiCall
<1>3. /\ di'.at = "idle"
      /\ di' = [at |-> di'.at, path |-> di'.path, mode |-> di'.mode, slot |-> di'.slot]
  BY <1>1 DEF IdleDI
<1>4. Nhandle' = Nhandle BY <1>1, <1>2 DEF DiCall
<1>5. /\ Got("di") \in Int /\ Got("di") # Unused
      /\ Got("di") >= 0 => Got("di") \in Slots
  BY <1>2, FSUSBAssumption DEF Results, Slots, FS_NO_HANDLE, FS_ENOENT2, Unused
<1>6. PICK y : y = [h |-> di.slot, path |-> di.path] OBVIOUS
<1>7. y.h = di.slot /\ y.path = di.path /\ y = [h |-> y.h, path |-> y.path] BY <1>6
<1>8. held' = (IF Got("di") < 0 THEN held ELSE held \cup {y}) BY <1>1, <1>6
<1>9. Got("di") >= 0 => Holds(Nhandle[y.h], y.path)
  <2>1. Got("di") >= 0 => DiOpen(di.slot) BY <1>1, <1>2 DEF DiOpen
  <2> QED BY <1>1, <1>7, <2>1 DEF DiSlots, DiFd
<1>10. DiCall'
  <2>1. \A x \in held' : x = [h |-> x.h, path |-> x.path] /\ x.h \in Handles /\ Nhandle[x.h] # Unused
    BY <1>2, <1>5, <1>7, <1>8 DEF DiCall
  <2>2. \A x, z \in held' : x.h = z.h => x = z
    BY <1>2, <1>7, <1>8 DEF DiCall
  <2> QED BY <1>3, <1>4, <2>1, <2>2 DEF DiCall, DIWaits
<1>11. \A h \in Handles : /\ DiFd(h)' = DiFd(h) /\ DiFd(h) = Nhandle[h]
                          /\ DiOpen(h)' <=> \E x \in held' : x.h = h
                          /\ DiOpen(h) <=> (\E x \in held : x.h = h) \/ (h = di.slot /\ Nhandle[h] >= 0)
  BY <1>1, <1>3, <1>4 DEF DiOpen, DiFd
<1>12. \A h \in Handles : DiOpen(h)' <=> DiOpen(h)
  BY <1>2, <1>5, <1>7, <1>8, <1>11
<1>13. DiSlots'
  <2>1. \A x \in held' : x.path \in Own /\ Holds(Nhandle[x.h], x.path)'
    BY <1>1, <1>2, <1>4, <1>5, <1>7, <1>8, <1>9 DEF DiSlots, Holds
  <2>2. \A g \in Handles : (DiOpen(g) => DiFd(g) \in Slots /\ fd_stack[DiFd(g)].fs
                                         /\ fd_stack[DiFd(g)].path \in Own)'
    BY <1>1, <1>11, <1>12 DEF DiSlots
  <2> QED BY <1>3, <2>1, <2>2 DEF DiSlots
<1>14. \A s \in Slots, h \in Handles : DiHas(h, s)' <=> DiHas(h, s) BY <1>11, <1>12 DEF DiHas
<1> QED BY <1>1, <1>10, <1>13, <1>14, DiEnds

\* The calls that leave the handles alone: DI is in "use", or done with it.
LEMMA DiUses ==
  ASSUME ClientsInv, DIOnly, di.at \in {"idle", "use"}, di'.at \in {"idle", "use"},
         di' = [at |-> di'.at, path |-> di'.path, mode |-> di'.mode, slot |-> di'.slot],
         UNCHANGED <<Nhandle, held>>
  PROVE  DiCall' /\ DiSlots' /\ \A s \in Slots, h \in Handles : DiHas(h, s)' <=> DiHas(h, s)
<1> USE DEF ClientsInv
<1>1. DiCall' BY DEF DiCall, DIWaits
<1>2. \A h \in Handles : /\ DiFd(h)' = DiFd(h) /\ (DiOpen(h)' <=> DiOpen(h))
  BY DEF DiOpen, DiFd
<1>3. UNCHANGED fd_stack BY DEF DIOnly
<1>4. DiSlots'
  <2>1. \A x \in held : x.path \in Own /\ Holds(Nhandle[x.h], x.path)'
    BY <1>3 DEF DiSlots, Holds
  <2>2. \A g \in Handles : (DiOpen(g) => DiFd(g) \in Slots /\ fd_stack[DiFd(g)].fs
                                         /\ fd_stack[DiFd(g)].path \in Own)'
    BY <1>2, <1>3 DEF DiSlots
  <2> QED BY <2>1, <2>2 DEF DiSlots
<1>5. \A s \in Slots, h \in Handles : DiHas(h, s)' <=> DiHas(h, s) BY <1>2 DEF DiHas
<1> QED BY <1>1, <1>4, <1>5

LEMMA UseInv ==
  ASSUME ClientsInv, NEW x \in held, NEW o \in {"read", "write", "seek", "stats"},
         NEW n \in Int, NEW c \in Int, Use(o, x, n, c),
         di.at = "idle", di' = [di EXCEPT !.at = "use"], UNCHANGED <<reply, Nhandle, held>>, DIOnly
  PROVE  ClientsInv'
<1> USE DEF ClientsInv
<1>1. /\ UNCHANGED reply /\ ~reply["di"].is BY DEF WaitInv
<1>2. /\ di'.at = "use"
      /\ di' = [at |-> di'.at, path |-> di'.path, mode |-> di'.mode, slot |-> di'.slot]
  BY DEF DiCall
<1>3. PICK m : m = [[NoMsg EXCEPT !.op = o, !.fd = Nhandle[x.h], !.n = n, !.whence = c]
                    EXCEPT !.from = "di"]
  OBVIOUS
<1>4. queue' = Append(queue, m) BY <1>3 DEF Use, Asks
<1>5. m = [from |-> "di", op |-> o, path |-> "none", to |-> "none", mode |-> {},
           fd |-> Nhandle[x.h], n |-> n, whence |-> c]
  BY <1>3 DEF NoMsg
<1>6. Nhandle[x.h] \in Int BY FSUSBAssumption DEF DiSlots, Holds, Slots
<1>7. m \in Messages /\ m.from = "di" BY <1>5, <1>6, DiMessage DEF Ops, Modes
<1>8. DiSent(m)' BY <1>2, <1>5 DEF DiSent
<1>9. DiCall' /\ DiSlots' /\ \A s \in Slots, h \in Handles : DiHas(h, s)' <=> DiHas(h, s)
  BY <1>2, DiUses
<1> QED BY <1>1, <1>4, <1>7, <1>8, <1>9, DiStep

LEMMA DVDUseInv ==
  ASSUME ClientsInv, NEW x \in held, DVDUse(x)
  PROVE  ClientsInv'
<1>1. /\ di.at = "idle" /\ di' = [di EXCEPT !.at = "use"]
      /\ UNCHANGED <<reply, Nhandle, held>> /\ DIOnly
  BY Zenon DEF DVDUse
<1>2. \/ \E o \in {"read", "write"}, n \in Lens : Use(o, x, n, 0)
      \/ \E w \in Wheres, c \in 0 .. 2 : Use("seek", x, w, c)
      \/ Use("stats", x, 0, 0)
  BY Zenon DEF DVDUse
<1>3. CASE \E o \in {"read", "write"}, n \in Lens : Use(o, x, n, 0)
  <2>1. PICK o \in {"read", "write"}, n \in Lens : Use(o, x, n, 0) BY <1>3
  <2>2. n \in Int /\ 0 \in Int /\ o \in {"read", "write", "seek", "stats"} BY FSClientsAssumption
  <2> QED BY <1>1, <2>1, <2>2, UseInv
<1>4. CASE \E w \in Wheres, c \in 0 .. 2 : Use("seek", x, w, c)
  <2>1. PICK w \in Wheres, c \in 0 .. 2 : Use("seek", x, w, c) BY <1>4
  <2>2. w \in Int /\ c \in Int BY FSClientsAssumption
  <2> QED BY <1>1, <2>1, <2>2, UseInv
<1>5. CASE Use("stats", x, 0, 0)
  BY <1>1, <1>5, UseInv
<1> QED BY <1>2, <1>3, <1>4, <1>5

LEMMA DVDUsedInv ==
  ASSUME ClientsInv, DVDUsed
  PROVE  ClientsInv'
<1>1. /\ di.at = "use" /\ reply["di"].is /\ reply' = [reply EXCEPT !["di"] = NoReply]
      /\ queue' = queue /\ DIOnly /\ UNCHANGED <<Nhandle, held>>
      /\ di'.at = "idle"
      /\ di' = [at |-> di'.at, path |-> di'.path, mode |-> di'.mode, slot |-> di'.slot]
  BY DEF DVDUsed, Seen, IdleDI
<1>2. DiCall' /\ DiSlots' /\ \A s \in Slots, h \in Handles : DiHas(h, s)' <=> DiHas(h, s)
  BY <1>1, DiUses
<1> QED BY <1>1, <1>2, DiEnds

LEMMA DVDAskInv ==
  ASSUME ClientsInv, NEW k, NEW p \in Own \cup {"none"}, DVDAsk(k),
         \/ k = [NoMsg EXCEPT !.op = "delete", !.path = p] /\ p \in Own
         \/ k = [NoMsg EXCEPT !.op = "isusb"] /\ p = "none"
  PROVE  ClientsInv'
<1> USE DEF ClientsInv
<1>1. /\ di.at = "idle" /\ di' = [di EXCEPT !.at = "use"] /\ UNCHANGED reply /\ ~reply["di"].is
      /\ UNCHANGED <<Nhandle, held>> /\ DIOnly
  BY DEF DVDAsk, WaitInv
<1>2. /\ di'.at = "use"
      /\ di' = [at |-> di'.at, path |-> di'.path, mode |-> di'.mode, slot |-> di'.slot]
  BY <1>1 DEF DiCall
<1>3. PICK m : m = [k EXCEPT !.from = "di"] OBVIOUS
<1>4. queue' = Append(queue, m) BY <1>3 DEF DVDAsk, Asks
<1>5. PICK o : /\ (o = "delete" /\ p \in Own) \/ (o = "isusb" /\ p = "none")
               /\ k = [from |-> "none", op |-> o, path |-> p, to |-> "none", mode |-> {},
                       fd |-> 0, n |-> 0, whence |-> 0]
  <2>1. CASE k = [NoMsg EXCEPT !.op = "delete", !.path = p] /\ p \in Own
    <3>1. PICK o : o = "delete" OBVIOUS
    <3>2. k = [from |-> "none", op |-> o, path |-> p, to |-> "none", mode |-> {},
               fd |-> 0, n |-> 0, whence |-> 0]
      BY <2>1, <3>1 DEF NoMsg
    <3> QED BY <2>1, <3>1, <3>2
  <2>2. CASE k = [NoMsg EXCEPT !.op = "isusb"] /\ p = "none"
    <3>1. PICK o : o = "isusb" OBVIOUS
    <3>2. k = [from |-> "none", op |-> o, path |-> p, to |-> "none", mode |-> {},
               fd |-> 0, n |-> 0, whence |-> 0]
      BY <2>2, <3>1 DEF NoMsg
    <3> QED BY <2>2, <3>1, <3>2
  <2> QED BY <2>1, <2>2
<1>6. m = [from |-> "di", op |-> o, path |-> p, to |-> "none", mode |-> {},
           fd |-> 0, n |-> 0, whence |-> 0]
  BY <1>3, <1>5
<1>7. m \in Messages /\ m.from = "di"
  <2>1. o \in Ops BY <1>5 DEF Ops
  <2>2. m.op = o /\ m.path = p /\ m.to = "none" /\ m.mode = {} /\ m.fd = 0 /\ m.n = 0
        /\ m.whence = 0
    BY <1>6
  <2>3. m = [from |-> "di", op |-> m.op, path |-> m.path, to |-> m.to, mode |-> m.mode,
             fd |-> m.fd, n |-> m.n, whence |-> m.whence]
    BY <1>6, <2>2
  <2>4. m.mode \in Modes BY <2>2 DEF Modes
  <2> QED BY <2>1, <2>2, <2>3, <2>4, DiMessage
<1>8. DiSent(m)' BY <1>1, <1>2, <1>5, <1>6 DEF DiSent
<1>9. DiCall' /\ DiSlots' /\ \A s \in Slots, h \in Handles : DiHas(h, s)' <=> DiHas(h, s)
  BY <1>1, <1>2, DiUses
<1> QED BY <1>1, <1>4, <1>7, <1>8, <1>9, DiStep

LEMMA DVDCloseInv ==
  ASSUME ClientsInv, NEW y \in held, DVDClose(y)
  PROVE  ClientsInv'
<1> USE DEF ClientsInv
<1>1. /\ di.at = "idle" /\ di' = [di EXCEPT !.at = "close", !.slot = y.h]
      /\ reply' = reply /\ ~reply["di"].is
      /\ held' = held \ {y} /\ UNCHANGED Nhandle /\ DIOnly /\ UNCHANGED fd_stack
  BY DEF DVDClose, WaitInv, DIOnly
<1>2. /\ di'.at = "close" /\ di'.slot = y.h
      /\ di' = [at |-> di'.at, path |-> di'.path, mode |-> di'.mode, slot |-> di'.slot]
  BY <1>1 DEF DiCall
<1>3. /\ y.h \in Handles /\ Holds(Nhandle[y.h], y.path) /\ y.path \in Own
      /\ \A x \in held : x.h = y.h => x = y
  BY DEF DiCall, DiSlots
<1>4. PICK m : m = [[NoMsg EXCEPT !.op = "close", !.fd = Nhandle[y.h]] EXCEPT !.from = "di"]
  OBVIOUS
<1>5. queue' = Append(queue, m) BY <1>4 DEF DVDClose, Asks
<1>6. m = [from |-> "di", op |-> "close", path |-> "none", to |-> "none", mode |-> {},
           fd |-> Nhandle[y.h], n |-> 0, whence |-> 0]
  BY <1>4 DEF NoMsg
<1>7. Nhandle[y.h] \in Int BY <1>3, FSUSBAssumption DEF Holds, Slots
<1>8. m \in Messages /\ m.from = "di" BY <1>6, <1>7, DiMessage DEF Ops, Modes
<1>9. DiSent(m)' BY <1>1, <1>2, <1>6 DEF DiSent
<1>10. DiCall' BY <1>1, <1>2, <1>3 DEF DiCall, DIWaits
<1>11. \A h \in Handles : /\ DiFd(h)' = DiFd(h) /\ DiFd(h) = Nhandle[h]
                          /\ DiOpen(h)' <=> (\E x \in held' : x.h = h) \/ h = y.h
                          /\ DiOpen(h) <=> (\E x \in held : x.h = h)
  BY <1>1, <1>2 DEF DiOpen, DiFd
<1>12. \A h \in Handles : DiOpen(h)' <=> DiOpen(h) BY <1>1, <1>3, <1>11
<1>13. DiSlots'
  <2>1. \A x \in held' : x.path \in Own /\ Holds(Nhandle[x.h], x.path)'
    BY <1>1 DEF DiSlots, Holds
  <2>2. \A g \in Handles : (DiOpen(g) => DiFd(g) \in Slots /\ fd_stack[DiFd(g)].fs
                                         /\ fd_stack[DiFd(g)].path \in Own)'
    BY <1>1, <1>11, <1>12 DEF DiSlots
  <2> QED BY <1>2, <2>1, <2>2 DEF DiSlots
<1>14. \A s \in Slots, h \in Handles : DiHas(h, s)' <=> DiHas(h, s) BY <1>11, <1>12 DEF DiHas
<1> QED BY <1>1, <1>5, <1>8, <1>9, <1>10, <1>13, <1>14, DiStep

LEMMA DVDClosedInv ==
  ASSUME ClientsInv, DVDClosed
  PROVE  ClientsInv'
<1> USE DEF ClientsInv
<1>1. /\ di.at = "close" /\ reply["di"].is /\ reply' = [reply EXCEPT !["di"] = NoReply]
      /\ Nhandle' = [Nhandle EXCEPT ![di.slot] = Unused] /\ di' = IdleDI
      /\ queue' = queue /\ UNCHANGED held /\ DIOnly /\ UNCHANGED fd_stack
  BY DEF DVDClosed, DIOnly, Seen
<1>2. /\ di.slot \in Handles /\ (\A x \in held : x.h # di.slot)
  BY <1>1 DEF DiCall
<1>3. /\ di'.at = "idle"
      /\ di' = [at |-> di'.at, path |-> di'.path, mode |-> di'.mode, slot |-> di'.slot]
  BY <1>1 DEF IdleDI
<1>4. /\ Nhandle' = [h \in Handles |-> Nhandle'[h]]
      /\ \A h \in Handles : h # di.slot => Nhandle'[h] = Nhandle[h]
  BY <1>1, <1>2 DEF DiCall
<1>5. \A x \in held : x.h \in Handles /\ Nhandle'[x.h] = Nhandle[x.h]
  BY <1>2, <1>4 DEF DiCall
<1>6. DiCall' BY <1>1, <1>3, <1>4, <1>5 DEF DiCall, DIWaits
<1>7. \A h \in Handles : /\ DiOpen(h)' <=> \E x \in held : x.h = h
                         /\ DiOpen(h) <=> \E x \in held : x.h = h
                         /\ DiFd(h)' = Nhandle'[h] /\ DiFd(h) = Nhandle[h]
  BY <1>1, <1>3 DEF DiOpen, DiFd
<1>8. \A h \in Handles : DiOpen(h) => DiFd(h)' = DiFd(h) BY <1>5, <1>7
<1>9. DiSlots'
  <2>1. \A x \in held : x.path \in Own /\ Holds(Nhandle[x.h], x.path)'
    BY <1>1, <1>5 DEF DiSlots, Holds
  <2>2. \A g \in Handles : (DiOpen(g) => DiFd(g) \in Slots /\ fd_stack[DiFd(g)].fs
                                         /\ fd_stack[DiFd(g)].path \in Own)'
    BY <1>1, <1>7, <1>8 DEF DiSlots
  <2> QED BY <1>1, <1>3, <2>1, <2>2 DEF DiSlots
<1>10. \A s \in Slots, h \in Handles : DiHas(h, s)' <=> DiHas(h, s) BY <1>7, <1>8 DEF DiHas
<1> QED BY <1>1, <1>6, <1>9, <1>10, DiEnds

-----------------------------------------------------------------------------
LEMMA GameMessage ==
  ASSUME NEW m, m = [from |-> "game", op |-> m.op, path |-> m.path, to |-> m.to, mode |-> m.mode,
                     fd |-> m.fd, n |-> m.n, whence |-> m.whence],
         m.path \in {"none"} \cup Own, m.to = "none", m.mode \in Modes,
         m.fd \in Int, m.n = 0, m.whence = 0, m.op \in Ops
  PROVE  m \in Messages /\ m.from = "game"
<1>1. m.path \in Paths \cup {"none"} /\ m.to \in Paths \cup {"none"}
  BY FSClientsAssumption
<1>2. "game" \in Clients /\ 0 \in Int BY DEF Clients
<1> QED BY <1>1, <1>2 DEF Messages

LEMMA GameStep ==
  ASSUME ClientsInv, NEW m, m \in Messages, m.from = "game", GameSent(m)', queue' = Append(queue, m),
         GameOnly, UNCHANGED reply, game.at = "idle",
         GameCall', GameSlots', \A s \in Slots : GameHas(s)' <=> GameHas(s)
  PROVE  ClientsInv'
<1>1. /\ UNCHANGED disk /\ UNCHANGED fd_stack /\ UNCHANGED HAXHandle /\ UNCHANGED work
      /\ UNCHANGED <<disk, work>> /\ UNCHANGED <<es, di, held, Nhandle, early>>
  BY DEF GameOnly
<1>2. ~reply'["game"].is BY DEF ClientsInv, WaitInv
<1>3. Sent(m)' BY DEF Sent
<1>4. ClientStep("game", m) BY <1>1, <1>2, <1>3 DEF ClientStep
<1> QED BY <1>1, <1>4, GameStepInv

LEMMA GameEnds ==
  ASSUME ClientsInv, queue' = queue, GameOnly, reply' = [reply EXCEPT !["game"] = NoReply],
         reply["game"].is,
         GameCall', GameSlots', \A s \in Slots : GameHas(s)' <=> GameHas(s)
  PROVE  ClientsInv'
<1>1. /\ UNCHANGED disk /\ UNCHANGED fd_stack /\ UNCHANGED HAXHandle /\ UNCHANGED work
      /\ UNCHANGED <<disk, work>> /\ UNCHANGED <<es, di, held, Nhandle, early>>
  BY DEF GameOnly
<1>2. ~reply'["game"].is BY DEF ClientsInv, WaitInv, NoReply, Clients
<1>3. PICK m : m = NoMsg OBVIOUS
<1>4. ClientStep("game", m) BY <1>1, <1>2 DEF ClientStep
<1> QED BY <1>1, <1>4, GameStepInv

\* An idle game has sent nothing.
LEMMA GameIdle ==
  ASSUME ClientsInv, game.at = "idle" \/ reply["game"].is
  PROVE  \A s : ~GameCloses(s)
<1>1. \A i \in 1 .. Len(queue) : queue[i].from # "game"
  BY NoneSent DEF Clients, ClientsInv
<1> QED BY <1>1 DEF GameCloses

LEMMA GameOpensInv ==
  ASSUME ClientsInv, NEW p \in Own, game.at = "idle",
         Asks("game", [NoMsg EXCEPT !.op = "open", !.path = p, !.mode = {"READ"}]),
         game' = [game EXCEPT !.at = "open", !.path = p], UNCHANGED reply, GameOnly
  PROVE  ClientsInv'
<1> USE DEF ClientsInv
<1>1. PICK m : m = [[NoMsg EXCEPT !.op = "open", !.path = p, !.mode = {"READ"}]
                    EXCEPT !.from = "game"]
  OBVIOUS
<1>2. queue' = Append(queue, m) BY <1>1 DEF Asks
<1>3. m = [from |-> "game", op |-> "open", path |-> p, to |-> "none", mode |-> {"READ"},
           fd |-> 0, n |-> 0, whence |-> 0]
  BY <1>1 DEF NoMsg
<1>4. m \in Messages /\ m.from = "game" BY <1>3, GameMessage DEF Ops, Modes
<1>5. /\ game'.at = "open" /\ game'.path = p /\ game'.has = game.has
      /\ game' = [at |-> game'.at, path |-> game'.path, has |-> game'.has]
  BY DEF GameCall
<1>6. GameSent(m)' BY <1>3, <1>5 DEF GameSent
<1>7. ~reply["game"].is /\ ~reply'["game"].is BY DEF WaitInv
<1>8. GameCall' BY <1>5, <1>7 DEF GameCall
<1>9. \A s \in Slots : GameHas(s)' <=> GameHas(s)
  BY <1>5, <1>7 DEF GameHas, GameOpened
<1>10. UNCHANGED fd_stack BY DEF GameOnly
<1>11. GameSlots'
  <2>1. \A x \in game.has : Holds(x.h, x.path)' BY <1>10 DEF GameSlots, Holds
  <2>2. \A s \in Slots : (GameHas(s) => fd_stack[s].fs /\ fd_stack[s].path \in Own)'
    BY <1>9, <1>10 DEF GameSlots
  <2> QED BY <1>5, <1>7, <2>1, <2>2 DEF GameSlots, GameOpened, Slots
<1> QED BY <1>2, <1>4, <1>6, <1>8, <1>9, <1>11, GameStep

\* The handle that is closed is no longer one of the game's, if it ever was.
LEMMA GameClosesInv ==
  ASSUME ClientsInv, NEW s, NEW rest \in SUBSET game.has, game.at = "idle",
         Asks("game", [NoMsg EXCEPT !.op = "close", !.fd = s]), s \in Slots \cup {MAX_FILE},
         game'.at = "close", game'.has = rest,
         game' = [at |-> game'.at, path |-> game'.path, has |-> game'.has],
         \A x \in game.has : x \in rest <=> x.h # s,
         s \in Slots => \E x \in game.has : x.h = s,
         UNCHANGED reply, GameOnly
  PROVE  ClientsInv'
<1> USE DEF ClientsInv
<1>1. PICK m : m = [[NoMsg EXCEPT !.op = "close", !.fd = s] EXCEPT !.from = "game"]
  OBVIOUS
<1>2. queue' = Append(queue, m) BY <1>1 DEF Asks
<1>3. m = [from |-> "game", op |-> "close", path |-> "none", to |-> "none", mode |-> {},
           fd |-> s, n |-> 0, whence |-> 0]
  BY <1>1 DEF NoMsg
<1>4. s \in Int BY FSUSBAssumption DEF Slots
<1>5. m \in Messages /\ m.from = "game" BY <1>3, <1>4, GameMessage DEF Ops, Modes
<1>6. GameSent(m)' BY <1>3 DEF GameSent
<1>7. ~reply["game"].is /\ ~reply'["game"].is BY DEF WaitInv
<1>8. GameCall' BY <1>7 DEF GameCall
<1>9. \A t : GameCloses(t)' <=> t = s
  <2>1. \A t : ~GameCloses(t) BY GameIdle
  <2>2. queue \in Seq(Messages) /\ Len(queue) \in Nat BY DEF QueueInv
  <2>3. Len(queue') = Len(queue) + 1 BY <1>2, <2>2
  <2>4. queue' # queue BY <2>2, <2>3
  <2>5. \A t : GameCloses(t)' <=> GameCloses(t) \/ (queue' # queue /\ m.from = "game" /\ m.fd = t)
    BY <1>2, ClosesAsked
  <2> QED BY <1>3, <2>1, <2>4, <2>5
<1>10. \A t \in Slots : GameHas(t)' <=> GameHas(t)
  BY <1>7, <1>9 DEF GameHas, GameOpened
<1>11. UNCHANGED fd_stack BY DEF GameOnly
<1>12. GameSlots'
  <2>1. \A x \in rest : Holds(x.h, x.path)' BY <1>11 DEF GameSlots, Holds
  <2>2. \A t \in Slots : (GameHas(t) => fd_stack[t].fs /\ fd_stack[t].path \in Own)'
    BY <1>10, <1>11 DEF GameSlots
  <2>3. \A t : GameCloses(t)' => t \in Slots \cup {MAX_FILE} /\ \A x \in game'.has : x.h # t
    BY <1>9
  <2> QED BY <1>7, <2>1, <2>2, <2>3 DEF GameSlots, GameOpened, Slots
<1> QED BY <1>2, <1>5, <1>6, <1>8, <1>10, <1>12, GameStep

LEMMA GameAsksInv ==
  ASSUME ClientsInv, GameAsks
  PROVE  ClientsInv'
<1>1. game.at = "idle" /\ UNCHANGED reply /\ GameOnly BY DEF GameAsks
<1>2. \/ \E p \in Own :
          /\ Asks("game", [NoMsg EXCEPT !.op = "open", !.path = p, !.mode = {"READ"}])
          /\ game' = [game EXCEPT !.at = "open", !.path = p]
      \/ \E x \in game.has :
          /\ Asks("game", [NoMsg EXCEPT !.op = "close", !.fd = x.h])
          /\ game' = [game EXCEPT !.at = "close", !.has = @ \ {x}]
      \/ /\ Asks("game", [NoMsg EXCEPT !.op = "close", !.fd = MAX_FILE])
         /\ game' = [game EXCEPT !.at = "close"]
  BY Zenon DEF GameAsks
<1>3. game = [at |-> game.at, path |-> game.path, has |-> game.has]
  BY DEF ClientsInv, GameCall
<1>4. CASE \E p \in Own :
          /\ Asks("game", [NoMsg EXCEPT !.op = "open", !.path = p, !.mode = {"READ"}])
          /\ game' = [game EXCEPT !.at = "open", !.path = p]
  BY <1>1, <1>4, GameOpensInv
<1>5. CASE \E x \in game.has :
          /\ Asks("game", [NoMsg EXCEPT !.op = "close", !.fd = x.h])
          /\ game' = [game EXCEPT !.at = "close", !.has = @ \ {x}]
  <2>1. PICK x \in game.has :
          /\ Asks("game", [NoMsg EXCEPT !.op = "close", !.fd = x.h])
          /\ game' = [game EXCEPT !.at = "close", !.has = @ \ {x}]
    BY <1>5
  <2>2. PICK rest \in SUBSET game.has : rest = game.has \ {x} OBVIOUS
  <2>3. /\ game'.at = "close" /\ game'.has = rest
        /\ game' = [at |-> game'.at, path |-> game'.path, has |-> game'.has]
    BY <1>3, <2>1, <2>2
  <2>4. \A y \in game.has : Holds(y.h, y.path) /\ y = [h |-> y.h, path |-> y.path]
    BY DEF ClientsInv, GameCall, GameSlots
  <2>5. \A y \in game.has : y \in rest <=> y.h # x.h
    BY <2>2, <2>4 DEF Holds
  <2>6. PICK s : s = x.h OBVIOUS
  <2>7. s \in Slots /\ s \in Slots \cup {MAX_FILE} BY <2>4, <2>6 DEF Holds
  <2>8. Asks("game", [NoMsg EXCEPT !.op = "close", !.fd = s]) BY <2>1, <2>6
  <2>9. /\ \A y \in game.has : y \in rest <=> y.h # s
        /\ \E y \in game.has : y.h = s
    BY <2>5, <2>6
  <2> QED BY <1>1, <2>3, <2>7, <2>8, <2>9, GameClosesInv
<1>6. CASE /\ Asks("game", [NoMsg EXCEPT !.op = "close", !.fd = MAX_FILE])
           /\ game' = [game EXCEPT !.at = "close"]
  <2>1. MAX_FILE \notin Slots /\ MAX_FILE \in Slots \cup {MAX_FILE}
    BY FSUSBAssumption DEF Slots
  <2>2. /\ game'.at = "close" /\ game'.has = game.has
        /\ game' = [at |-> game'.at, path |-> game'.path, has |-> game'.has]
    BY <1>3, <1>6
  <2>3. \A y \in game.has : y \in game.has <=> y.h # MAX_FILE
    BY <2>1 DEF ClientsInv, GameSlots, Holds
  <2>4. game.has \in SUBSET game.has OBVIOUS
  <2> QED BY <1>1, <1>6, <2>1, <2>2, <2>3, <2>4, GameClosesInv
<1> QED BY <1>2, <1>4, <1>5, <1>6

LEMMA GameSeesInv ==
  ASSUME ClientsInv, GameSees
  PROVE  ClientsInv'
<1> USE DEF ClientsInv
<1>1. /\ game.at # "idle" /\ reply["game"].is /\ reply' = [reply EXCEPT !["game"] = NoReply]
      /\ queue' = queue /\ GameOnly /\ UNCHANGED fd_stack
  BY DEF GameSees, GameOnly, Seen
<1>2. PICK y : y = [h |-> Got("game"), path |-> game.path] OBVIOUS
<1>3. y.h = Got("game") /\ y.path = game.path /\ y = [h |-> y.h, path |-> y.path] BY <1>2
<1>4. PICK new : new = IF game.at = "open" /\ Got("game") >= 0 THEN game.has \cup {y} ELSE game.has
  OBVIOUS
<1>5. game' = [at |-> "idle", path |-> "none", has |-> new]
  BY <1>2, <1>4 DEF GameSees
<1>6. game'.at = "idle" /\ game'.path = "none" /\ game'.has = new BY <1>5
<1>7. ~reply'["game"].is BY <1>1 DEF WaitInv, NoReply, Clients
<1>8. \A s : ~GameCloses(s) BY <1>1, GameIdle
<1>9. GameOpened <=> game.at = "open" /\ Got("game") >= 0 BY <1>1 DEF GameOpened
<1>10. GameOpened => Holds(y.h, y.path) /\ y.path \in Own
  BY <1>3, <1>9 DEF GameSlots, GameCall
<1>11. GameCall'
  <2>1. \A x \in new : x = [h |-> x.h, path |-> x.path] /\ x.path \in Own
    BY <1>3, <1>4, <1>9, <1>10 DEF GameCall
  <2> QED BY <1>5, <1>6, <2>1 DEF GameCall
<1>12. \A s : (\E x \in new : x.h = s) <=> (\E x \in game.has : x.h = s) \/ (GameOpened /\ s = Got("game"))
  BY <1>3, <1>4, <1>9
<1>13. \A s \in Slots : GameHas(s)' <=> GameHas(s)
  BY <1>6, <1>8, <1>12 DEF GameHas, GameOpened
<1>14. GameSlots'
  <2>1. \A x \in new : Holds(x.h, x.path)'
    BY <1>1, <1>4, <1>9, <1>10 DEF GameSlots, Holds
  <2>2. \A t \in Slots : (GameHas(t) => fd_stack[t].fs /\ fd_stack[t].path \in Own)'
    BY <1>1, <1>13 DEF GameSlots
  <2> QED BY <1>6, <2>1, <2>2 DEF GameSlots, GameOpened, Slots
<1> QED BY <1>1, <1>11, <1>13, <1>14, GameEnds
-----------------------------------------------------------------------------
(***************************************************************************)
(* Init, the power that goes off, and the whole.                           *)
(***************************************************************************)

\* The system as it starts.
Fresh ==
  /\ disk = [p \in Paths |-> disk[p]] /\ (disk[Dst] # Missing => WholeFile(disk[Dst]))
  /\ fd_stack = [s \in Slots |-> NoFIL] /\ queue = <<>> /\ work = NoMsg
  /\ reply = [c \in Clients |-> NoReply]
  /\ es.ver \in Int /\ es = [IdleES EXCEPT !.ver = es.ver]
  /\ Nhandle = [h \in Handles |-> Unused] /\ di = IdleDI /\ held = {} /\ game = IdleGame

LEMMA FreshInv == Fresh => ClientsInv
<1> SUFFICES ASSUME Fresh PROVE ClientsInv OBVIOUS
<1>1. /\ es.at = "idle" /\ es.fd = 0 /\ es.ret = Unused /\ es.load = Missing /\ es.len = 0
      /\ es.ver \in Int
      /\ es = [at |-> es.at, ver |-> es.ver, fd |-> es.fd, ret |-> es.ret, load |-> es.load,
               len |-> es.len]
  BY DEF Fresh, IdleES
<1>2. /\ di.at = "idle" /\ held = {}
      /\ di = [at |-> di.at, path |-> di.path, mode |-> di.mode, slot |-> di.slot]
  BY DEF Fresh, IdleDI
<1>3. /\ game.at = "idle" /\ game.has = {}
      /\ game = [at |-> game.at, path |-> game.path, has |-> game.has]
  BY DEF Fresh, IdleGame
<1>4. \A s \in Slots : fd_stack[s] = NoFIL /\ ~fd_stack[s].fs
  BY DEF Fresh, NoFIL
<1>5. \A c \in Clients : ~reply[c].is /\ reply[c].is \in BOOLEAN
  BY DEF Fresh, NoReply
<1>6. queue = <<>> /\ Len(queue) = 0 /\ queue \in Seq(Messages)
  BY DEF Fresh
<1>7. TableInv
  <2>1. FIL(NoFIL) BY DEF FIL, NoFIL
  <2>2. fd_stack = [s \in Slots |-> fd_stack[s]] BY <1>4 DEF Fresh
  <2> QED BY <1>4, <2>1, <2>2 DEF TableInv, Fresh
<1>8. QueueInv
  <2>1. 1 .. Len(queue) = {} BY <1>6
  <2> QED BY <1>6, <2>1 DEF QueueInv, Fresh
<1>9. WaitInv BY <1>5 DEF WaitInv, Fresh, Clients
<1>10. ~EsOpen /\ ~ESHas BY <1>1 DEF EsOpen, ESHas
<1>11. \A h \in Handles : ~DiOpen(h) BY <1>2 DEF DiOpen
<1>12. \A s \in Slots : ~GameHas(s)
  BY <1>3 DEF GameHas, GameOpened
<1>13. Apart /\ Owned
  BY <1>4, <1>10, <1>11, <1>12 DEF Apart, Owned, EsHas, DiHas
<1>14. EsCall BY <1>1 DEF EsCall, Writes
<1>15. EsDisk
  <2>1. Unused # FS_SUCCESS BY DEF Unused, FS_SUCCESS
  <2> QED BY <1>1, <2>1 DEF EsDisk, DstWhole, Fresh
<1>16. EsSlot BY <1>1, <1>10 DEF EsSlot
<1>17. DiCall BY <1>2 DEF DiCall, DIWaits, Fresh
<1>18. DiSlots BY <1>2, <1>11 DEF DiSlots
<1>19. GameCall BY <1>3 DEF GameCall
<1>20. GameSlots BY <1>3, <1>12 DEF GameSlots, GameOpened
<1> QED BY <1>7, <1>8, <1>9, <1>13, <1>14, <1>15, <1>16, <1>17, <1>18, <1>19, <1>20
        DEF ClientsInv

LEMMA FCInitInv == FCInit => Fresh
<1> SUFFICES ASSUME FCInit PROVE Fresh OBVIOUS
<1>1. disk = [p \in Paths |-> disk[p]] /\ disk[Dst] \in {Missing, [ver |-> 0, len |-> Full]}
  BY FSClientsAssumption DEF FCInit, FSInit
<1>2. disk[Dst] # Missing => WholeFile(disk[Dst]) BY <1>1 DEF WholeFile
<1>3. es.ver \in Int /\ es = [IdleES EXCEPT !.ver = es.ver] BY DEF FCInit, IdleES
<1> QED BY <1>1, <1>2, <1>3 DEF FCInit, FSInit, Fresh

LEMMA PowerOffInv ==
  ASSUME ClientsInv, PowerOff
  PROVE  ClientsInv'
<1>1. disk' = [p \in Paths |-> disk'[p]] /\ disk'[Dst] = disk[Dst]
  BY FSClientsAssumption DEF PowerOff, Restarted, CleanUp
<1>2. disk[Dst] # Missing => WholeFile(disk[Dst]) BY DEF ClientsInv, EsDisk, DstWhole
<1>3. (disk[Dst] # Missing => WholeFile(disk[Dst]))' BY <1>1, <1>2 DEF WholeFile, Missing
<1>4. es'.ver \in Int /\ es' = [IdleES EXCEPT !.ver = es'.ver]
  BY DEF PowerOff, IdleES, ClientsInv, EsCall
<1>5. Fresh'
  BY <1>1, <1>3, <1>4 DEF PowerOff, Restarted, Fresh, Slots, Clients, Handles, IdleDI, IdleGame,
     NoFIL, NoMsg, NoReply, IdleES, Unused, Missing
<1>6. Fresh' => ClientsInv' BY FreshInv, PTL
<1> QED BY <1>5, <1>6

LEMMA FCNextInv ==
  ASSUME ClientsInv, FCNext
  PROVE  ClientsInv'
<1>1. CASE Server
  BY <1>1, ServeInv, UnlinksInv, RenamesInv DEF Server, FSServer
<1>2. CASE ESSteps
  BY <1>2, SafeCreatedInv, SafeDeletedInv, SafeOpenedInv, SafeWrittenInv, SafeGivenUpInv,
     SafeClosedInv, SafeMovedInv, LoadOpenedInv, LoadSizedInv, LoadSoughtInv, LoadReadInv,
     LoadClosedInv DEF ESSteps
<1>3. CASE DISteps
  BY <1>3, DVDOpenAXInv, DVDOpenedInv, DVDUsedInv, DVDClosedInv DEF DISteps
<1>4. CASE DICalls
  <2>1. CASE \E p \in Own, mode \in {{"READ"}, {"READ", "WRITE", "CREATE"}} : DVDOpen(p, mode)
    BY <2>1, DVDOpenInv
  <2>2. CASE \E x \in held : DVDUse(x) \/ DVDClose(x)
    BY <2>2, DVDUseInv, DVDCloseInv
  <2>3. CASE \E p \in Own : (\A x \in held : x.path # p)
                            /\ DVDAsk([NoMsg EXCEPT !.op = "delete", !.path = p])
    <3>1. PICK p \in Own : DVDAsk([NoMsg EXCEPT !.op = "delete", !.path = p]) BY <2>3
    <3>2. PICK k : k = [NoMsg EXCEPT !.op = "delete", !.path = p] OBVIOUS
    <3>3. DVDAsk(k) BY <3>1, <3>2
    <3> QED BY <3>2, <3>3, DVDAskInv
  <2>4. CASE DVDAsk([NoMsg EXCEPT !.op = "isusb"])
    <3>1. PICK k : k = [NoMsg EXCEPT !.op = "isusb"] OBVIOUS
    <3>2. DVDAsk(k) BY <2>4, <3>1
    <3>3. PICK p \in Own \cup {"none"} : p = "none" OBVIOUS
    <3> QED BY <3>1, <3>2, <3>3, DVDAskInv
  <2> QED BY <1>4, <2>1, <2>2, <2>3, <2>4 DEF DICalls
<1> QED
  BY <1>1, <1>2, <1>3, <1>4, GameSeesInv, WriteFileSafeInv, LoadFileInv, GameAsksInv, PowerOffInv
     DEF FCNext, Sees
LEMMA ClientsInvRight == ClientsInv => ClientsRight
<1> SUFFICES ASSUME ClientsInv PROVE ClientsRight OBVIOUS
<1> USE DEF ClientsInv
<1>1. DstWhole BY DEF EsDisk
<1>2. \A x \in held : /\ x.h \in Handles /\ Holds(Nhandle[x.h], x.path)
                      /\ DiHas(x.h, Nhandle[x.h]) /\ Nhandle[x.h] \in Slots
  BY DEF DiCall, DiSlots, DiHas, DiOpen, DiFd, Holds
<1>3. \A x \in game.has : Holds(x.h, x.path) /\ GameHas(x.h) /\ x.h \in Slots
  BY DEF GameSlots, GameHas, Holds
<1>4. \A x, y \in held : x # y => Nhandle[x.h] # Nhandle[y.h]
  BY <1>2 DEF Apart, DiCall
<1>5. \A x \in held, y \in game.has : Nhandle[x.h] # y.h
  BY <1>2, <1>3 DEF Apart
<1>6. ASSUME ESHas PROVE es.fd \notin {y.h : y \in game.has} \cup {Nhandle[x.h] : x \in held}
  <2>1. EsHas(es.fd) /\ es.fd \in Slots
    BY <1>6 DEF EsHas, EsFd, EsOpen, ESHas, EsSlot, Holds
  <2>2. \A y \in game.has : y.h # es.fd BY <1>3, <2>1 DEF Apart
  <2>3. \A x \in held : Nhandle[x.h] # es.fd BY <1>2, <2>1 DEF Apart
  <2> QED BY <2>2, <2>3
<1>7. HandleIsFile BY <1>2, <1>3, <1>4, <1>5, <1>6 DEF HandleIsFile
<1>8. ASSUME Quiet
      PROVE  {s \in Slots : fd_stack[s].fs}
             = {Nhandle[x.h] : x \in held} \cup {x.h : x \in game.has}
  <2>1. \A s \in Slots : fd_stack[s].fs =>
          (\E x \in held : s = Nhandle[x.h]) \/ (\E x \in game.has : s = x.h)
    <3>1. ~EsOpen BY <1>8 DEF Quiet, EsOpen, ESHas
    <3>2. \A h \in Handles : DiOpen(h) <=> \E x \in held : x.h = h BY <1>8 DEF Quiet, DiOpen
    <3>3. \A h \in Handles : DiFd(h) = Nhandle[h] BY <1>8 DEF Quiet, DiFd
    <3>4. \A s \in Slots : GameHas(s) <=> \E x \in game.has : x.h = s
      BY <1>8 DEF Quiet, GameHas, GameOpened
    <3> QED BY <3>1, <3>2, <3>3, <3>4 DEF Owned, EsHas, DiHas
  <2>2. \A x \in held : Nhandle[x.h] \in Slots /\ fd_stack[Nhandle[x.h]].fs BY <1>2 DEF Holds
  <2>3. \A x \in game.has : x.h \in Slots /\ fd_stack[x.h].fs BY <1>3 DEF Holds
  <2> QED BY <2>1, <2>2, <2>3
<1>9. SlotsHeld BY <1>8 DEF SlotsHeld
<1>10. OkIsNew BY DEF OkIsNew, Answers, EsDisk
<1> QED BY <1>1, <1>7, <1>9, <1>10 DEF ClientsRight

\* Every step of FFS-USB and its clients, and none at all, keeps the invariant.
LEMMA FCInvariant == FCInit /\ [][FCNext]_fcvars => []ClientsInv
<1>1. FCInit => ClientsInv BY FCInitInv, FreshInv
<1>2. ClientsInv /\ UNCHANGED fcvars => ClientsInv'
  <2> SUFFICES ASSUME ClientsInv, UNCHANGED fcvars PROVE ClientsInv' OBVIOUS
  <2> USE DEF ClientsInv
  <2>1. /\ UNCHANGED <<disk, fd_stack, HAXHandle, queue, work, reply>>
        /\ UNCHANGED <<es, Nhandle, di, held, game, early>>
    BY DEF fcvars, fsvars, clientvars
  <2>2. TableInv' BY <2>1 DEF TableInv, FIL
  <2>3. QueueInv' BY <2>1 DEF QueueInv, Sent, EsSent, DiSent, GameSent, Exists
  <2>4. WaitInv' BY <2>1 DEF WaitInv
  <2>5. \A s \in Slots : /\ EsHas(s)' <=> EsHas(s)
                         /\ GameHas(s)' <=> GameHas(s)
                         /\ \A h \in Handles : DiHas(h, s)' <=> DiHas(h, s)
    BY <2>1 DEF EsHas, EsOpen, EsFd, ESHas, Got, GameHas, GameOpened, GameCloses, DiHas, DiOpen, DiFd
  <2>6. Apart' /\ Owned' BY <2>1, <2>2, <2>5, HasKept DEF TableInv
  <2>7. EsCall' /\ EsDisk' /\ EsSlot' BY <2>1, EsKept
  <2>8. DiCall' /\ DiSlots' BY <2>1, DiKept
  <2>9. GameCall' /\ GameSlots'
    <3>1. \A s : GameCloses(s)' <=> GameCloses(s) BY <2>1 DEF GameCloses
    <3> QED BY <2>1, <3>1, GameKept
  <2> QED BY <2>2, <2>3, <2>4, <2>6, <2>7, <2>8, <2>9
<1>3. ClientsInv /\ [FCNext]_fcvars => ClientsInv' BY <1>2, FCNextInv
<1> QED BY <1>1, <1>3, PTL

(***************************************************************************)
(* NANDWriteFileSafe and NANDLoadFile, DIGlue.c and the game on FFS-USB:   *)
(* the file that is replaced is there whole whenever it is there at all,   *)
(* success means that it is the new one, each handle leads to its file in  *)
(* a slot nobody else has, and when all calls are over no slot of fd_stack *)
(* is lost -- however the messages of the three mix and whenever the power *)
(* goes off.                                                               *)
(***************************************************************************)
THEOREM ClientsAreRight == FCInit /\ [][FCNext]_fcvars => []ClientsRight
BY FCInvariant, ClientsInvRight, PTL

\* A step by which the file goes away is FFS-USB's move of the new one, which
\* it is working on then.
LEMMA DstStays ==
  ASSUME ClientsInv, [FCNext]_fcvars, disk[Dst] # Missing, disk'[Dst] = Missing
  PROVE  work'.to = Dst
<1> USE DEF ClientsInv
<1>0. /\ Dst \in Paths /\ TmpDst \in Paths /\ Dst # TmpDst /\ Dst \notin Tmp /\ Full > 0
      /\ Full \in Int /\ disk = [p \in Paths |-> disk[p]]
  BY FSUSBAssumption, FSClientsAssumption DEF TableInv
<1>1. CASE Serve /\ UNCHANGED clientvars
  <2>1. queue # <<>> /\ Head1 \in Messages /\ Sent(Head1) /\ Head1.from \in Clients
        /\ ~reply[Head1.from].is
    BY <1>1, HeadKnown DEF Serve, Messages
  <2>2. PICK r : Effect(Head1, r) BY <1>1, ServeEffect
  <2>3. /\ Head1.from # "game"  \/ \A s : GameCloses(s) <=> s = Head1.fd
    BY <1>1, <2>1, ClosesServed DEF Serve
  <2>4. Head1.from = "es" BY <2>1, <2>2, <2>3, OthersServed
  <2>5. EsSent(Head1) BY <2>1, <2>4 DEF Sent
  <2>6. UNCHANGED <<es, early>> BY <1>1 DEF clientvars
  <2>7. EsDisk' BY <1>1, <2>1, <2>2, <2>4, <2>6, EsServed DEF WaitInv
  <2>8. CASE Head1.op = "move"
    <3>1. es.at = "move" /\ Head1.path = TmpDst /\ Head1.to = Dst BY <2>5, <2>8 DEF EsSent
    <3>2. FS_Move(Head1)
      BY <1>1, <2>8 DEF Serve, IOS_OPEN, HaxOpen, HaxHandle, FS_Close, BadHandle, FS_Write, FS_Read,
                FS_Seek, FS_GetStats, FS_DeleteFile, FS_CreateFile, IsUSB
    <3>3. disk[TmpDst] = [ver |-> es.ver, len |-> Full] BY <2>1, <2>4, <3>1 DEF EsDisk
    <3>4. disk[TmpDst] # Missing BY <1>0, <3>3 DEF Missing
    <3>5. disk' = Renamed(TmpDst, Dst) BY <3>1, <3>2, <3>4 DEF FS_Move, Exists
    <3>6. disk'[Dst] = disk[TmpDst] BY <1>0, <3>5 DEF Renamed
    <3> QED BY <3>4, <3>6
  <2>9. CASE Head1.op # "move"
    <3>1. FileStep(Head1, Dst) BY <1>0, <2>2 DEF Effect
    <3>2. Head1.op = "close" => Holds(Head1.fd, IF es.at \in Loads THEN Dst ELSE TmpDst)
      BY <2>1, <2>4, <2>5 DEF EsSent, EsSlot, EsOpen, EsFd, ESHas
    <3>3. Head1.op = "close" /\ fd_stack[Head1.fd].path = Dst => ~fd_stack[Head1.fd].dirty
      BY <3>2 DEF TableInv, Holds
    <3>4. Head1.op \in {"create", "delete"} => Head1.path = TmpDst BY <2>5 DEF EsSent
    <3>5. "CREATE" \notin Head1.mode \/ Head1.op \notin {"open", "hax"} BY <2>5 DEF EsSent
    <3> QED BY <1>0, <2>9, <3>1, <3>3, <3>4, <3>5 DEF FileStep
  <2> QED BY <2>8, <2>9
<1>2. CASE MoveUnlinks
  <2>1. disk' = [disk EXCEPT ![Head1.to] = Missing] /\ work' = Head1 BY <1>2 DEF MoveUnlinks
  <2> QED BY <1>0, <2>1
<1>3. CASE MoveRenames
  <2>1. work # NoMsg BY <1>3 DEF MoveRenames
  <2>2. ~Exists(Dst) BY <2>1 DEF QueueInv
  <2> QED BY <2>2 DEF Exists
<1>4. CASE UNCHANGED disk
  BY <1>4
<1>5. CASE PowerOff
  BY <1>0, <1>5 DEF PowerOff, Restarted, CleanUp
<1>6. CASE ESSteps
  <2>1. Rest
    BY <1>6 DEF ESSteps, ESOnly, SafeCreated, SafeDeleted, SafeOpened, SafeWritten, SafeGivenUp,
       SafeClosed, SafeMoved, LoadOpened, LoadSized, LoadSought, LoadRead, LoadClosed
  <2> QED BY <2>1, <1>4 DEF Rest
<1>7. CASE DISteps
  <2>1. DIOnly BY <1>7 DEF DISteps, DVDOpenAX, DVDOpened, DVDUsed, DVDClosed
  <2> QED BY <2>1, <1>4 DEF DIOnly
<1>8. CASE DICalls
  <2>1. DIOnly BY <1>8, Zenon DEF DICalls, DVDOpen, DVDUse, DVDClose, DVDAsk
  <2> QED BY <2>1, <1>4 DEF DIOnly
<1>9. CASE GameSees \/ GameAsks \/ WriteFileSafe \/ LoadFile
  BY <1>4, <1>9 DEF GameSees, GameAsks, GameOnly, WriteFileSafe, ESOnly, Rest, LoadFile
<1>10. CASE UNCHANGED fcvars
  BY <1>4, <1>10 DEF fcvars, fsvars
<1> QED
  BY <1>1, <1>2, <1>3, <1>5, <1>6, <1>7, <1>8, <1>9, <1>10
     DEF FCNext, Server, FSServer, Sees

(***************************************************************************)
(* The file that NANDWriteFileSafe replaces is gone only between the two   *)
(* steps of the rename: no other step of anybody takes it away.            *)
(***************************************************************************)
THEOREM DstIsThere == FCInit /\ [][FCNext]_fcvars => DstThere
<1>1. ClientsInv /\ [FCNext]_fcvars
      => [disk[Dst] # Missing /\ disk'[Dst] = Missing => work'.to = Dst]_fcvars
  BY DstStays
<1> QED BY <1>1, FCInvariant, PTL DEF DstThere

-----------------------------------------------------------------------------
(***************************************************************************)
(* The questions about directories.                                        *)
(***************************************************************************)

\* What the files of F add up to, in tree t.
LengthOf(t, F) == MapThenSumSet(LAMBDA e : t[e].len, F)

\* g sums a set up by its elements, one after the other.
Peels(t, F, g) ==
  /\ g \in [SUBSET F -> Nat]
  /\ LengthOf(t, F) = g[F] /\ g[{}] = 0
  /\ \A s \in SUBSET F : s # {} => \E x \in s : g[s] = t[x].len + g[s \ {x}]

\* The fold that sums up takes one element of the set at a time.
LEMMA SumUnfolds ==
  ASSUME NEW F, IsFiniteSet(F), NEW t, \A e \in F : t[e].len \in Nat
  PROVE  \E g : Peels(t, F, g)
<1> DEFINE c(s) == CHOOSE x \in s : TRUE
           Step(g, s) == IF s = {} THEN 0 ELSE t[c(s)].len + g[s \ {c(s)}]
           P == {n \in Nat : \E g \in [SUBSET F -> Nat] :
                               \A s \in SUBSET F : Cardinality(s) <= n => g[s] = Step(g, s)}
<1>1. \A s \in SUBSET F : /\ IsFiniteSet(s) /\ Cardinality(s) \in Nat
                          /\ (Cardinality(s) = 0 <=> s = {})
  BY FS_Subset, FS_CardinalityType, FS_EmptySet
<1>2. \A s \in SUBSET F : s # {} => /\ c(s) \in s /\ s \ {c(s)} \in SUBSET F
                                    /\ Cardinality(s \ {c(s)}) = Cardinality(s) - 1
  BY <1>1, FS_RemoveElement
<1> HIDE DEF c
<1>3. 0 \in P
  <2> DEFINE g == [s \in SUBSET F |-> 0]
  <2>1. g \in [SUBSET F -> Nat] OBVIOUS
  <2>2. \A s \in SUBSET F : Cardinality(s) <= 0 => g[s] = Step(g, s)
    BY <1>1
  <2> QED BY <2>1, <2>2
<1>4. \A n \in Nat : n \in P => n + 1 \in P
  <2> SUFFICES ASSUME NEW n \in Nat, n \in P PROVE n + 1 \in P
    OBVIOUS
  <2>1. PICK g \in [SUBSET F -> Nat] :
               \A s \in SUBSET F : Cardinality(s) <= n => g[s] = Step(g, s)
    OBVIOUS
  <2> DEFINE h == [s \in SUBSET F |-> IF Cardinality(s) <= n THEN g[s] ELSE Step(g, s)]
  <2>2. ASSUME NEW s \in SUBSET F PROVE Step(g, s) \in Nat
    <3>1. CASE s = {}
      BY <3>1
    <3>2. CASE s # {}
      <4>1. c(s) \in F /\ s \ {c(s)} \in SUBSET F
        BY <1>2, <3>2
      <4>2. t[c(s)].len \in Nat /\ g[s \ {c(s)}] \in Nat
        BY <4>1
      <4> QED BY <3>2, <4>2
    <3> QED BY <3>1, <3>2
  <2>3. h \in [SUBSET F -> Nat]
    BY <2>2
  <2>4. \A s \in SUBSET F : Cardinality(s) <= n + 1 => h[s] = Step(h, s)
    <3> SUFFICES ASSUME NEW s \in SUBSET F, Cardinality(s) <= n + 1 PROVE h[s] = Step(h, s)
      OBVIOUS
    <3>1. h[s] = Step(g, s)
      BY <2>1
    <3>2. ASSUME s # {} PROVE h[s \ {c(s)}] = g[s \ {c(s)}]
      BY <1>1, <1>2, <3>2
    <3> QED BY <3>1, <3>2
  <2> HIDE DEF h, Step
  <2>5. n + 1 \in Nat OBVIOUS
  <2> QED BY <2>3, <2>4, <2>5
<1>5. \A n \in Nat : n \in P
  <2> HIDE DEF P
  <2> QED BY <1>3, <1>4, NatInduct
<1>6. PICK g \in [SUBSET F -> Nat] :
             \A s \in SUBSET F : Cardinality(s) <= Cardinality(F) => g[s] = Step(g, s)
  <2>1. Cardinality(F) \in P
    BY <1>1, <1>5
  <2> QED BY <2>1
<1>7. \A s \in SUBSET F : g[s] = Step(g, s)
  <2>1. \A s \in SUBSET F : Cardinality(s) <= Cardinality(F)
    BY FS_Subset
  <2> QED BY <1>6, <2>1
<1>8. g = [s \in SUBSET F |-> Step(g, s)]
  BY <1>7
<1> DEFINE iter == CHOOSE i : i = [s \in SUBSET F |-> Step(i, s)]
<1>9. iter = [s \in SUBSET F |-> Step(iter, s)]
  <2> HIDE DEF Step
  <2> QED BY <1>8
<1>10. \A s \in SUBSET F : iter[s] = Step(iter, s)
  <2> HIDE DEF Step, iter
  <2> QED BY <1>9
<1>11. iter = g
  <2> DEFINE Q == {n \in Nat : \A s \in SUBSET F : Cardinality(s) <= n => iter[s] = g[s]}
  <2> HIDE DEF iter
  <2>1. 0 \in Q
    <3>1. \A s \in SUBSET F : Cardinality(s) <= 0 => s = {}
      BY <1>1
    <3>2. {} \in SUBSET F
      OBVIOUS
    <3>3. iter[{}] = 0 /\ g[{}] = 0
      BY <1>7, <1>10, <3>2
    <3> QED BY <3>1, <3>3
  <2>2. \A n \in Nat : n \in Q => n + 1 \in Q
    <3> SUFFICES ASSUME NEW n \in Nat, n \in Q, NEW s \in SUBSET F, Cardinality(s) <= n + 1
                 PROVE  iter[s] = g[s]
      OBVIOUS
    <3>1. CASE s = {}
      BY <1>7, <1>10, <3>1
    <3>2. CASE s # {}
      <4>1. iter[s \ {c(s)}] = g[s \ {c(s)}]
        BY <1>1, <1>2, <3>2
      <4> QED BY <1>7, <1>10, <3>2, <4>1
    <3> QED BY <3>1, <3>2
  <2>3. \A n \in Nat : n \in Q
    <3> HIDE DEF Q
    <3> QED BY <2>1, <2>2, NatInduct
  <2>4. \A s \in SUBSET F : iter[s] = g[s]
    BY <1>1, <2>3
  <2>5. iter = [s \in SUBSET F |-> iter[s]]
    <3> HIDE DEF Step
    <3> QED BY <1>9
  <2> QED BY <2>4, <2>5
<1>12. LengthOf(t, F) = iter[F]
  BY DEF LengthOf, MapThenSumSet, MapThenFoldSet, c
<1> HIDE DEF iter
<1>13. g[{}] = 0
  <2>1. {} \in SUBSET F OBVIOUS
  <2> QED BY <1>7, <2>1
<1>14. ASSUME NEW s \in SUBSET F, s # {} PROVE \E x \in s : g[s] = t[x].len + g[s \ {x}]
  <2>1. c(s) \in s /\ g[s] = t[c(s)].len + g[s \ {c(s)}]
    BY <1>2, <1>7, <1>14
  <2> QED BY <2>1
<1> QED BY <1>11, <1>12, <1>13, <1>14 DEF Peels

\* g sums a set up, an element more by its length.
SumsUp(t, F, g) ==
  /\ g \in [SUBSET F -> Nat]
  /\ LengthOf(t, F) = g[F] /\ g[{}] = 0
  /\ \A s \in SUBSET F, x \in F : x \notin s => g[s \cup {x}] = g[s] + t[x].len
  /\ \A s \in SUBSET F : g[s] <= g[F]

\* So the sum of a set with one element more is the more by it, and no set has a
\* greater sum than the whole.
LEMMA SumAdds ==
  ASSUME NEW F, IsFiniteSet(F), NEW t, \A e \in F : t[e].len \in Nat
  PROVE  \E g : SumsUp(t, F, g)
<1>1. PICK g \in [SUBSET F -> Nat] :
             /\ LengthOf(t, F) = g[F] /\ g[{}] = 0
             /\ \A s \in SUBSET F : s # {} => \E x \in s : g[s] = t[x].len + g[s \ {x}]
  <2>1. \E g : Peels(t, F, g)
    BY SumUnfolds
  <2> QED BY <2>1 DEF Peels
<1>2. \A s \in SUBSET F : IsFiniteSet(s) /\ Cardinality(s) \in Nat
  BY FS_Subset, FS_CardinalityType
<1>3. \A s \in SUBSET F : \A x \in s : Cardinality(s \ {x}) = Cardinality(s) - 1
  BY <1>2, FS_RemoveElement
<1> DEFINE P == {n \in Nat : \A s \in SUBSET F : \A x \in s :
                               Cardinality(s) <= n => g[s] = t[x].len + g[s \ {x}]}
<1>4. 0 \in P
  <2>1. ASSUME NEW s \in SUBSET F, NEW x \in s PROVE Cardinality(s) >= 1
    <3>1. Cardinality(s \ {x}) \in Nat
      <4>1. s \ {x} \in SUBSET F OBVIOUS
      <4> QED BY <1>2, <4>1
    <3>2. Cardinality(s \ {x}) = Cardinality(s) - 1 /\ Cardinality(s) \in Nat
      BY <1>2, <1>3
    <3> QED BY <3>1, <3>2
  <2>2. \A s \in SUBSET F : \A x \in s : ~(Cardinality(s) <= 0)
    BY <1>2, <2>1
  <2> QED BY <2>2
<1>5. ASSUME NEW n \in Nat, n \in P PROVE n + 1 \in P
  <2> SUFFICES ASSUME NEW s \in SUBSET F, NEW x \in s, Cardinality(s) <= n + 1
               PROVE  g[s] = t[x].len + g[s \ {x}]
    OBVIOUS
  <2>1. PICK y \in s : g[s] = t[y].len + g[s \ {y}]
    BY <1>1
  <2>2. CASE y = x
    BY <2>1, <2>2
  <2>3. CASE y # x
    <3> DEFINE r == (s \ {y}) \ {x}
    <3>1. x \in s \ {y} /\ y \in s \ {x} /\ s \ {y} \in SUBSET F /\ s \ {x} \in SUBSET F
          /\ r \in SUBSET F /\ (s \ {x}) \ {y} = r
      BY <2>1, <2>3
    <3>2. Cardinality(s \ {y}) <= n /\ Cardinality(s \ {x}) <= n
      BY <1>2, <1>3, <2>1
    <3>3. \A u \in SUBSET F : \A z \in u : Cardinality(u) <= n => g[u] = t[z].len + g[u \ {z}]
      BY <1>5
    <3>4. g[s \ {y}] = t[x].len + g[r]
      BY <3>1, <3>2, <3>3
    <3>5. g[s \ {x}] = t[y].len + g[r]
      <4> DEFINE u == s \ {x}
      <4>1. u \in SUBSET F /\ y \in u /\ Cardinality(u) <= n /\ u \ {y} = r
        BY <3>1, <3>2
      <4> HIDE DEF u, r
      <4>2. g[u] = t[y].len + g[u \ {y}]
        BY <3>3, <4>1
      <4>3. g[u] = t[y].len + g[r]
        BY <4>1, <4>2
      <4> QED BY <4>3 DEF u
    <3>6. g[s] = t[y].len + g[s \ {y}]
      BY <2>1
    <3>7. t[x].len \in Nat /\ t[y].len \in Nat /\ g[r] \in Nat
      BY <3>1
    <3> HIDE DEF r
    <3> QED BY <3>4, <3>5, <3>6, <3>7
  <2> QED BY <2>2, <2>3
<1>6. \A n \in Nat : n \in P
  <2> HIDE DEF P
  <2> QED BY <1>4, <1>5, NatInduct
<1>7. \A s \in SUBSET F : \A x \in s : g[s] = t[x].len + g[s \ {x}]
  <2> SUFFICES ASSUME NEW s \in SUBSET F, NEW x \in s PROVE g[s] = t[x].len + g[s \ {x}]
    OBVIOUS
  <2>1. Cardinality(s) \in P /\ Cardinality(s) \in Nat
    BY <1>2, <1>6
  <2> QED BY <2>1
<1>8. ASSUME NEW s \in SUBSET F, NEW x \in F, x \notin s
       PROVE  g[s \cup {x}] = g[s] + t[x].len
  <2>1. (s \cup {x}) \ {x} = s /\ s \cup {x} \in SUBSET F /\ x \in s \cup {x}
    BY <1>8
  <2>2. g[s \cup {x}] = t[x].len + g[s]
    BY <1>7, <2>1
  <2>3. t[x].len \in Nat /\ g[s] \in Nat
    OBVIOUS
  <2> QED BY <2>2, <2>3
<1> DEFINE Q == {n \in Nat : \A s \in SUBSET F : Cardinality(F \ s) <= n => g[s] <= g[F]}
<1>9. \A s \in SUBSET F : F \ s \in SUBSET F
  OBVIOUS
<1>10. 0 \in Q
  <2> SUFFICES ASSUME NEW s \in SUBSET F, Cardinality(F \ s) <= 0 PROVE g[s] <= g[F]
    OBVIOUS
  <2>1. F \ s = {}
    BY <1>2, <1>9, FS_EmptySet
  <2>2. s = F
    BY <2>1
  <2> QED BY <2>2
<1>11. ASSUME NEW n \in Nat, n \in Q PROVE n + 1 \in Q
  <2> SUFFICES ASSUME NEW s \in SUBSET F, Cardinality(F \ s) <= n + 1 PROVE g[s] <= g[F]
    OBVIOUS
  <2>1. CASE s = F
    BY <2>1
  <2>2. CASE s # F
    <3>1. PICK x \in F : x \notin s
      BY <2>2
    <3>2. s \cup {x} \in SUBSET F /\ F \ (s \cup {x}) = (F \ s) \ {x} /\ x \in F \ s
      BY <3>1
    <3>3. Cardinality(F \ (s \cup {x})) <= n
      BY <1>2, <1>3, <1>9, <3>2
    <3>4. g[s \cup {x}] <= g[F]
      BY <1>11, <3>2, <3>3
    <3>5. g[s \cup {x}] = g[s] + t[x].len /\ t[x].len \in Nat /\ g[s] \in Nat /\ g[F] \in Nat
      BY <1>8, <3>1
    <3> QED BY <3>4, <3>5
  <2> QED BY <2>1, <2>2
<1>12. \A n \in Nat : n \in Q
  <2> HIDE DEF Q
  <2> QED BY <1>10, <1>11, NatInduct
<1>13. \A s \in SUBSET F : g[s] <= g[F]
  <2> SUFFICES ASSUME NEW s \in SUBSET F PROVE g[s] <= g[F]
    OBVIOUS
  <2>1. Cardinality(F \ s) \in Q /\ Cardinality(F \ s) \in Nat
    BY <1>2, <1>12, <1>9
  <2> QED BY <2>1
<1> QED BY <1>1, <1>8, <1>13 DEF SumsUp
\* The sum of the lengths of finitely many files, of one file more, and of some of them.
LEMMA Lengths ==
  ASSUME NEW F, IsFiniteSet(F), NEW t, \A e \in F : t[e].len \in Nat
  PROVE  /\ LengthOf(t, F) \in Nat /\ LengthOf(t, {}) = 0
         /\ \A x \in F : LengthOf(t, F) = LengthOf(t, F \ {x}) + t[x].len
         /\ \A s \in SUBSET F : LengthOf(t, s) <= LengthOf(t, F)
<1>1. PICK g \in [SUBSET F -> Nat] :
             /\ LengthOf(t, F) = g[F] /\ g[{}] = 0
             /\ \A s \in SUBSET F, x \in F : x \notin s => g[s \cup {x}] = g[s] + t[x].len
             /\ \A s \in SUBSET F : g[s] <= g[F]
  <2>1. \E g : SumsUp(t, F, g)
    BY SumAdds
  <2> QED BY <2>1 DEF SumsUp
<1>2. ASSUME NEW s \in SUBSET F PROVE LengthOf(t, s) = g[s]
  <2>1. IsFiniteSet(s) /\ \A e \in s : t[e].len \in Nat
    BY FS_Subset
  <2>2. PICK h \in [SUBSET s -> Nat] :
               /\ LengthOf(t, s) = h[s] /\ h[{}] = 0
               /\ \A u \in SUBSET s : u # {} => \E x \in u : h[u] = t[x].len + h[u \ {x}]
    <3>1. \E h : Peels(t, s, h)
      BY <2>1, SumUnfolds
    <3> QED BY <3>1 DEF Peels
  <2> DEFINE P == {n \in Nat : \A u \in SUBSET s : Cardinality(u) <= n => h[u] = g[u]}
  <2>3. \A u \in SUBSET s : /\ IsFiniteSet(u) /\ Cardinality(u) \in Nat
                            /\ (Cardinality(u) = 0 <=> u = {})
    BY <2>1, FS_Subset, FS_CardinalityType, FS_EmptySet
  <2>4. 0 \in P
    <3>1. \A u \in SUBSET s : Cardinality(u) <= 0 => u = {}
      BY <2>3
    <3> QED BY <1>1, <2>2, <3>1
  <2>5. ASSUME NEW n \in Nat, n \in P PROVE n + 1 \in P
    <3> SUFFICES ASSUME NEW u \in SUBSET s, Cardinality(u) <= n + 1 PROVE h[u] = g[u]
      OBVIOUS
    <3>1. CASE u = {}
      BY <1>1, <2>2, <3>1
    <3>2. CASE u # {}
      <4>1. PICK x \in u : h[u] = t[x].len + h[u \ {x}]
        BY <2>2, <3>2
      <4>2. Cardinality(u \ {x}) = Cardinality(u) - 1
        BY <2>3, FS_RemoveElement
      <4>3. Cardinality(u \ {x}) <= n /\ u \ {x} \in SUBSET s
        BY <2>3, <4>2
      <4>4. h[u \ {x}] = g[u \ {x}]
        BY <2>5, <4>3
      <4> DEFINE v == u \ {x}
      <4>5. v \in SUBSET F /\ x \in F /\ x \notin v /\ v \cup {x} = u
        OBVIOUS
      <4> HIDE DEF v
      <4>6. g[u] = g[v] + t[x].len
        BY <1>1, <4>5
      <4>7. t[x].len \in Nat /\ g[v] \in Nat
        BY <4>5
      <4> QED BY <4>1, <4>4, <4>6, <4>7 DEF v
    <3> QED BY <3>1, <3>2
  <2>6. \A n \in Nat : n \in P
    <3> HIDE DEF P
    <3> QED BY <2>4, <2>5, NatInduct
  <2>7. Cardinality(s) \in P /\ Cardinality(s) \in Nat /\ s \in SUBSET s
    BY <2>3, <2>6
  <2>8. h[s] = g[s]
    BY <2>7
  <2> QED BY <2>2, <2>8
<1>3. ASSUME NEW x \in F PROVE LengthOf(t, F) = LengthOf(t, F \ {x}) + t[x].len
  <2> DEFINE v == F \ {x}
  <2>1. v \in SUBSET F /\ x \notin v /\ v \cup {x} = F
    OBVIOUS
  <2> HIDE DEF v
  <2>2. g[F] = g[v] + t[x].len /\ LengthOf(t, v) = g[v]
    BY <1>1, <1>2, <2>1
  <2> QED BY <1>1, <2>2 DEF v
<1>4. LengthOf(t, {}) = 0 /\ LengthOf(t, F) \in Nat
  <2>1. {} \in SUBSET F /\ F \in SUBSET F
    OBVIOUS
  <2> QED BY <1>1, <1>2, <2>1
<1>5. \A s \in SUBSET F : LengthOf(t, s) <= LengthOf(t, F)
  BY <1>1, <1>2
<1> QED BY <1>3, <1>4, <1>5

-----------------------------------------------------------------------------
\* What is below a directory by one step more and one step more, to as many as
\* there are entries.
Levels == 0 .. Cardinality(EntryNos)
OneMore(S) == S \cup UNION {ShownIn(d) : d \in {e \in S : IsDir(e)}}
Reaches(at, r) ==
  /\ r \in [Levels -> SUBSET EntryNos]
  /\ r[0] = ShownIn(at)
  /\ \A n \in Levels \ {0} : r[n] = OneMore(r[n - 1])

\* What a directory is shown to hold, it holds.
LEMMA Shown ==
  ASSUME NEW d
  PROVE  ShownIn(d) \subseteq In(d) /\ In(d) \subseteq EntryNos
BY DEF ShownIn, In

\* The entries are finitely many.
LEMMA EntriesCount == Cardinality(EntryNos) \in Nat /\ 0 \in Levels
BY FSListingAssumption, FS_CardinalityType DEF Levels

\* There are such levels below every directory.
LEMMA ReachesIt ==
  ASSUME NEW at
  PROVE  \E r : Reaches(at, r)
<1> DEFINE Step(r, n) == IF n = 0 THEN ShownIn(at) ELSE OneMore(r[n - 1])
           P == {n \in Nat : \E r \in [Levels -> SUBSET EntryNos] :
                               \A m \in Levels : m <= n => r[m] = Step(r, m)}
<1>1. ShownIn(at) \in SUBSET EntryNos /\ \A S \in SUBSET EntryNos : OneMore(S) \in SUBSET EntryNos
  BY Shown DEF OneMore
<1>2. Levels \subseteq Nat /\ \A m \in Levels : m # 0 => m - 1 \in Levels
  BY EntriesCount DEF Levels
<1>3. 0 \in P
  <2> DEFINE r == [m \in Levels |-> ShownIn(at)]
  <2>1. r \in [Levels -> SUBSET EntryNos]
    BY <1>1
  <2>2. \A m \in Levels : m <= 0 => r[m] = Step(r, m)
    BY <1>2
  <2> QED BY <2>1, <2>2
<1>4. ASSUME NEW n \in Nat, n \in P PROVE n + 1 \in P
  <2>1. PICK r \in [Levels -> SUBSET EntryNos] : \A m \in Levels : m <= n => r[m] = Step(r, m)
    BY <1>4
  <2> DEFINE q == [m \in Levels |-> IF m <= n THEN r[m] ELSE Step(r, m)]
  <2>2. q \in [Levels -> SUBSET EntryNos]
    <3>1. ASSUME NEW m \in Levels PROVE Step(r, m) \in SUBSET EntryNos
      BY <1>1, <1>2
    <3> HIDE DEF Step
    <3> QED BY <3>1
  <2>3. ASSUME NEW m \in Levels, m <= n + 1 PROVE q[m] = Step(q, m)
    <3>1. q[m] = Step(r, m)
      BY <2>1
    <3>2. m # 0 => q[m - 1] = r[m - 1]
      BY <1>2, <2>3
    <3> QED BY <3>1, <3>2
  <2> HIDE DEF q, Step
  <2> QED BY <2>2, <2>3
<1>5. \A n \in Nat : n \in P
  <2> HIDE DEF P
  <2> QED BY <1>3, <1>4, NatInduct
<1>6. PICK r \in [Levels -> SUBSET EntryNos] :
             \A m \in Levels : m <= Cardinality(EntryNos) => r[m] = Step(r, m)
  BY <1>5, EntriesCount
<1>7. \A m \in Levels : r[m] = Step(r, m)
  BY <1>6, EntriesCount DEF Levels
<1>8. r[0] = ShownIn(at) /\ \A n \in Levels \ {0} : r[n] = OneMore(r[n - 1])
  BY <1>7, EntriesCount
<1> QED BY <1>8 DEF Reaches

\* The last of them is all that is below.
LEMMA ReachesAll ==
  ASSUME NEW at, NEW r, Reaches(at, r)
  PROVE  AllBelow(at) = r[Cardinality(EntryNos)]
<1> DEFINE Step(q, n) == IF n = 0 THEN ShownIn(at) ELSE OneMore(q[n - 1])
           reach == CHOOSE q : q = [n \in Levels |-> Step(q, n)]
<1>1. r = [n \in Levels |-> Step(r, n)]
  BY DEF Reaches
<1>2. reach = [n \in Levels |-> Step(reach, n)]
  <2> HIDE DEF Step
  <2> QED BY <1>1
<1>3. AllBelow(at) = reach[Cardinality(EntryNos)]
  BY DEF AllBelow, OneMore, Levels
<1> HIDE DEF reach
<1>4. \A n \in Levels : reach[n] = Step(reach, n) /\ r[n] = Step(r, n)
  <2> HIDE DEF Step
  <2> QED BY <1>1, <1>2
<1> DEFINE P == {n \in Nat : n \in Levels => reach[n] = r[n]}
<1>5. 0 \in P
  BY <1>4, EntriesCount
<1>6. ASSUME NEW n \in Nat, n \in P PROVE n + 1 \in P
  <2> SUFFICES ASSUME n + 1 \in Levels PROVE reach[n + 1] = r[n + 1]
    OBVIOUS
  <2>1. n \in Levels /\ n + 1 # 0 /\ (n + 1) - 1 = n
    BY EntriesCount DEF Levels
  <2>2. reach[n + 1] = OneMore(reach[n]) /\ r[n + 1] = OneMore(r[n])
    BY <1>4, <2>1
  <2> QED BY <1>6, <2>1, <2>2
<1>7. \A n \in Nat : n \in P
  <2> HIDE DEF P
  <2> QED BY <1>5, <1>6, NatInduct
<1> QED BY <1>3, <1>7, EntriesCount DEF Levels

\* No level loses what the one before it has.
LEMMA ReachesMore ==
  ASSUME NEW at, NEW r, Reaches(at, r)
  PROVE  \A n \in Levels : r[n] \subseteq r[Cardinality(EntryNos)]
<1> DEFINE K == Cardinality(EntryNos)
           P == {n \in Nat : n <= K => r[K - n] \subseteq r[K]}
<1>1. K \in Nat /\ Levels = 0 .. K
  BY EntriesCount DEF Levels
<1> HIDE DEF K
<1>2. 0 \in P
  BY <1>1
<1>3. ASSUME NEW n \in Nat, n \in P PROVE n + 1 \in P
  <2> SUFFICES ASSUME n + 1 <= K PROVE r[K - (n + 1)] \subseteq r[K]
    OBVIOUS
  <2>1. K - n \in Levels \ {0} /\ (K - n) - 1 = K - (n + 1)
    BY <1>1
  <2>2. r[K - n] = OneMore(r[K - (n + 1)])
    BY <2>1 DEF Reaches
  <2>3. r[K - (n + 1)] \subseteq r[K - n]
    BY <2>2 DEF OneMore
  <2> QED BY <1>1, <1>3, <2>3
<1>4. \A n \in Nat : n \in P
  <2> HIDE DEF P
  <2> QED BY <1>2, <1>3, NatInduct
<1>5. ASSUME NEW n \in Levels PROVE r[n] \subseteq r[K]
  <2>1. K - n \in P /\ K - n <= K /\ K - (K - n) = n
    BY <1>1, <1>4
  <2> QED BY <2>1
<1> QED BY <1>5 DEF K

-----------------------------------------------------------------------------
(***************************************************************************)
(* The inductive invariant.                                                *)
(***************************************************************************)
Kinds == {"none", "dir", "file"}
Places == EntryNos \cup {0}

\* What is there is in the root or in a directory, and deeper than that.
Ranks(depth) ==
  /\ depth \in [EntryNos -> Nat]
  /\ \A e \in EntryNos : tree[e].kind # "none" /\ tree[e].dir # 0 =>
       tree[tree[e].dir].kind = "dir" /\ depth[tree[e].dir] < depth[e]
ATree ==
  /\ tree \in [EntryNos -> [kind : Kinds, dir : Places, len : Nat]]
  /\ \E depth : Ranks(depth)

AQuery ==
  /\ query.op \in {"none", "usage", "readdir"} /\ query.at \in Places
  /\ query.op = "none" <=> query = NoQuery
  /\ said \in [op : {"none", "canned", "attr", "mkdir", "usage", "readdir"}, at : Places, res : Int]
  /\ query # NoQuery => said.op = "none"

AUsage == usage \in [count : Nat, size : Nat]

\* The files of W.
FilesOf(W) == {e \in W : tree[e].kind = "file"}

CallRecords == [dir : Places, read : SUBSET EntryNos, open : BOOLEAN]

\* The calls of FS_GetUsage: each is for a directory that another has come upon, W is
\* what they have gone over, and r the levels below the directory of the question.
Calls(r, W) ==
  /\ frames \in Seq(CallRecords)
  /\ Len(frames) >= 1 /\ frames[1].dir = query.at
  /\ \A i \in 1 .. Len(frames) : frames[i].read = W \cap In(frames[i].dir)
  /\ \A i \in 2 .. Len(frames) : /\ frames[i].dir \in W /\ tree[frames[i].dir].kind = "dir"
                                 /\ frames[i].dir \in r[i - 2]
  /\ \A i, j \in 1 .. Len(frames) : frames[i].dir = frames[j].dir => i = j

\* What they have gone over is below the directory, and if no read failed, whole but
\* for the directories of the calls.
Over(W, r, depth) ==
  /\ Reaches(query.at, r) /\ Ranks(depth)
  /\ W \subseteq r[Cardinality(EntryNos)]
  /\ \A e \in W : /\ tree[e].kind # "none" /\ tree[e].dir \in W \cup {query.at}
                  /\ query.at # 0 => depth[query.at] < depth[e]
  /\ ~failed => \A d \in W : tree[d].kind = "dir" => \/ ShownIn(d) \subseteq W
                                                     \/ \E i \in 1 .. Len(frames) : frames[i].dir = d

Counts(W) == usage.count = 1 + Cardinality(FilesOf(W)) /\ usage.size = LengthOf(tree, FilesOf(W))

UsageGoes ==
  query.op = "usage" => \E r, W, depth : Calls(r, W) /\ Over(W, r, depth) /\ Counts(W)

\* The usage that was told.
UsageTold ==
  said.op = "usage" /\ said.res = FS_OK =>
    \E r, W :
      /\ Reaches(said.at, r) /\ W \subseteq r[Cardinality(EntryNos)]
      /\ ~failed => /\ ShownIn(said.at) \subseteq W
                    /\ \A d \in W : tree[d].kind = "dir" => ShownIn(d) \subseteq W
      /\ usage.count = 1 + Cardinality(FilesOf(W))
      /\ usage.size = LengthOf(tree, FilesOf(W)) \div Block

\* A list that is being made is what was read of the one directory.
ListGoes ==
  query.op = "readdir" =>
    /\ frames \in Seq(CallRecords)
    /\ Len(frames) = 1 /\ frames[1].dir = query.at /\ names = frames[1].read
    /\ names \subseteq ShownIn(query.at) /\ usage.count = Cardinality(names)

\* Each call of FS_GetUsage holds a block.
HeapHolds ==
  /\ lost \in Nat
  /\ blocks = lost + (IF query.op = "usage" THEN Len(frames) ELSE 0)

ListInv == ATree /\ AQuery /\ AUsage /\ UsageGoes /\ UsageTold /\ ListGoes /\ HeapHolds /\ ListWhole

-----------------------------------------------------------------------------
\* A greater number has no smaller quotient.
LEMMA DivGrows ==
  ASSUME NEW m \in Nat, NEW n \in Nat, m <= n, NEW d \in Nat \ {0}
  PROVE  m \div d <= n \div d
<1> DEFINE p == m \div d
           q == n \div d
<1>1. p \in Nat /\ q \in Nat /\ d * p <= m /\ n < d * q + d
  BY Quotient
<1> HIDE DEF p, q
<1>2. ASSUME p >= q + 1 PROVE FALSE
  <2>1. PICK k \in Nat : p = q + 1 + k
    <3>1. p - (q + 1) \in Nat /\ p = q + 1 + (p - (q + 1))
      BY <1>1, <1>2
    <3> QED BY <3>1
  <2>2. d * p = d * q + d + d * k /\ d * k \in Nat /\ d * q \in Nat
    BY <1>1, <2>1
  <2>3. d * p \in Nat
    BY <1>1
  <2> HIDE DEF p, q
  <2> QED BY <1>1, <2>2, <2>3
<1>3. p <= q
  BY <1>1, <1>2
<1> QED BY <1>3 DEF p, q

\* The usage that was told is right.
LEMMA ToldIsRight == ATree /\ AQuery /\ UsageTold => UsageRight
<1> SUFFICES ASSUME ATree, AQuery, UsageTold, said.op = "usage", said.res = FS_OK
             PROVE  UsageRight
  BY DEF UsageRight
<1> DEFINE at == said.at
           K == Cardinality(EntryNos)
           F == FilesBelow(at)
<1>1. PICK r, W :
        /\ Reaches(at, r) /\ W \subseteq r[K]
        /\ ~failed => /\ ShownIn(at) \subseteq W
                      /\ \A d \in W : tree[d].kind = "dir" => ShownIn(d) \subseteq W
        /\ usage.count = 1 + Cardinality(FilesOf(W))
        /\ usage.size = LengthOf(tree, FilesOf(W)) \div Block
  BY DEF UsageTold
<1>2. AllBelow(at) = r[K] /\ r[K] \subseteq EntryNos
  BY <1>1, ReachesAll, EntriesCount DEF Reaches, Levels
<1>3. F = FilesOf(r[K]) /\ FilesOf(W) \subseteq F /\ F \subseteq EntryNos
  BY <1>1, <1>2 DEF FilesBelow, FilesOf
<1>4. IsFiniteSet(F) /\ \A e \in F : tree[e].len \in Nat
  BY <1>3, FSListingAssumption, FS_Subset DEF ATree
<1>5. /\ IsFiniteSet(FilesOf(W)) /\ Cardinality(FilesOf(W)) <= Cardinality(F)
      /\ Cardinality(F) \in Nat /\ Cardinality(FilesOf(W)) \in Nat
  BY <1>3, <1>4, FS_Subset, FS_CardinalityType
<1>6. /\ LengthOf(tree, FilesOf(W)) \in Nat /\ LengthOf(tree, F) \in Nat
      /\ LengthOf(tree, FilesOf(W)) <= LengthOf(tree, F)
  <2>1. LengthOf(tree, F) \in Nat /\ \A s \in SUBSET F : LengthOf(tree, s) <= LengthOf(tree, F)
    BY <1>4, Lengths
  <2>2. LengthOf(tree, FilesOf(W)) \in Nat
    BY <1>3, <1>4, <1>5, Lengths
  <2> QED BY <1>3, <2>1, <2>2
<1>7. usage.size <= LengthOf(tree, F) \div Block
  BY <1>1, <1>6, DivGrows, FSListingAssumption
<1>8. ASSUME ~failed PROVE W = r[K]
  <2> DEFINE P == {n \in Nat : n \in Levels => r[n] \subseteq W}
  <2>1. 0 \in P
    BY <1>1, <1>8 DEF Reaches
  <2>2. ASSUME NEW n \in Nat, n \in P PROVE n + 1 \in P
    <3> SUFFICES ASSUME n + 1 \in Levels PROVE r[n + 1] \subseteq W
      OBVIOUS
    <3>1. n \in Levels /\ n + 1 # 0 /\ (n + 1) - 1 = n
      BY EntriesCount DEF Levels
    <3>2. r[n + 1] = OneMore(r[n]) /\ r[n] \subseteq W /\ r[n] \subseteq EntryNos
      BY <1>1, <2>2, <3>1 DEF Reaches
    <3>3. \A d \in r[n] : IsDir(d) => tree[d].kind = "dir"
      BY <3>2, FSListingAssumption DEF IsDir
    <3>4. \A d \in r[n] : IsDir(d) => ShownIn(d) \subseteq W
      BY <1>1, <1>8, <3>2, <3>3
    <3> QED BY <3>2, <3>4 DEF OneMore
  <2>3. \A n \in Nat : n \in P
    <3> HIDE DEF P
    <3> QED BY <2>1, <2>2, NatInduct
  <2>4. r[K] \subseteq W
    BY <2>3, EntriesCount DEF Levels
  <2> QED BY <1>1, <2>4
<1>9. ~failed => /\ usage.count = 1 + Cardinality(F)
                 /\ usage.size = LengthOf(tree, F) \div Block
  BY <1>1, <1>3, <1>8
<1>10. usage.count <= 1 + Cardinality(F)
  BY <1>1, <1>5
<1> HIDE DEF K
<1> QED BY <1>7, <1>9, <1>10 DEF UsageRight, LengthOf
\* In a step that leaves the tree alone, what is read off it stays.
LEMMA TreeStays ==
  ASSUME tree' = tree
  PROVE  /\ \A d : In(d)' = In(d) /\ ShownIn(d)' = ShownIn(d) /\ IsDir(d)' = IsDir(d)
         /\ \A W : FilesOf(W)' = FilesOf(W)
         /\ \A depth : Ranks(depth)' = Ranks(depth)
         /\ \A at, r : Reaches(at, r)' = Reaches(at, r)
         /\ ATree' = ATree
<1>1. \A d : In(d)' = In(d)
  BY DEF In
<1>2. \A d : ShownIn(d)' = ShownIn(d)
  BY <1>1 DEF ShownIn
<1>3. \A d : IsDir(d)' = IsDir(d)
  BY DEF IsDir
<1>4. \A S : OneMore(S)' = OneMore(S)
  BY <1>2, <1>3 DEF OneMore
<1>5. \A at, r : Reaches(at, r)' = Reaches(at, r)
  BY <1>2, <1>4 DEF Reaches, Levels
<1>6. \A depth : Ranks(depth)' = Ranks(depth)
  BY DEF Ranks
<1>7. ATree' = ATree
  BY <1>6 DEF ATree
<1> QED BY <1>1, <1>2, <1>3, <1>5, <1>6, <1>7 DEF FilesOf

\* Nothing is asked and nothing told at the start.
LEMMA ListStarts == ListInit => ListInv
<1> SUFFICES ASSUME ListInit PROVE ListInv
  OBVIOUS
<1>1. ATree
  <2>1. /\ tree \in [EntryNos -> [kind : Kinds, dir : Places, len : Nat]]
        /\ \E depth \in [EntryNos -> 0 .. Cardinality(EntryNos)] :
             \A e \in EntryNos :
               tree[e].kind # "none" /\ tree[e].dir # 0 =>
                 tree[tree[e].dir].kind = "dir" /\ depth[tree[e].dir] < depth[e]
    BY TreesAssumption DEF ListInit, Kinds, Places
  <2>2. \A depth \in [EntryNos -> 0 .. Cardinality(EntryNos)] : depth \in [EntryNos -> Nat]
    BY EntriesCount
  <2> QED BY <2>1, <2>2 DEF ATree, Ranks
<1>2. AQuery /\ AUsage /\ UsageGoes /\ UsageTold /\ ListGoes /\ HeapHolds /\ ListWhole
  BY DEF ListInit, AQuery, AUsage, NoUsage, NoQuery, UsageGoes, UsageTold, ListGoes, HeapHolds, ListWhole, Places, FS_OK
<1> QED BY <1>1, <1>2 DEF ListInv

\* A question begins.
LEMMA BeginsKeeps == ListInv /\ FFS_Ioctlv => ListInv'
<1> SUFFICES ASSUME ListInv, NEW at \in Places,
                    \/ /\ Begins("usage", at) /\ usage' = [count |-> 1, size |-> 0]
                       /\ blocks' = blocks + 1
                    \/ Begins("readdir", at) /\ usage' = NoUsage /\ UNCHANGED blocks
             PROVE  ListInv'
  BY DEF FFS_Ioctlv, Places
<1>1. /\ query = NoQuery /\ tree' = tree /\ lost' = lost /\ said' = [said EXCEPT !.op = "none"]
      /\ frames' = <<Frame(at)>> /\ names' = {} /\ query'.at = at /\ ~failed'
      /\ query'.op \in {"usage", "readdir"}
  BY DEF Begins
<1>2. ATree'
  BY <1>1, TreeStays DEF ListInv
<1>3. query' # NoQuery /\ query'.op # "none"
  BY <1>1 DEF NoQuery
<1>4. AQuery'
  BY <1>1, <1>3 DEF AQuery, ListInv, NoQuery
<1>5. UsageTold' /\ ListWhole'
  BY <1>1 DEF UsageTold, ListWhole, ListInv, AQuery
<1>6. /\ frames' \in Seq(CallRecords)
      /\ Len(frames') = 1 /\ frames'[1].dir = at /\ frames'[1].read = {}
  BY <1>1 DEF Frame, CallRecords
<1>7. ASSUME query'.op = "usage" PROVE UsageGoes'
  <2>1. PICK depth : Ranks(depth)
    BY DEF ListInv, ATree
  <2>2. PICK r : Reaches(at, r)
    BY ReachesIt
  <2>3. Ranks(depth)' /\ Reaches(at, r)'
    BY <1>1, <2>1, <2>2, TreeStays
  <2>4. Calls(r, {})'
    BY <1>1, <1>6 DEF Calls
  <2>5. Over({}, r, depth)'
    BY <1>1, <2>3 DEF Over
  <2>6. usage' = [count |-> 1, size |-> 0]
    BY <1>7 DEF Begins
  <2>7. FilesOf({})' = {}
    BY DEF FilesOf
  <2>8. LengthOf(tree', {}) = 0 /\ Cardinality({}) = 0
    BY Lengths, FS_EmptySet
  <2>9. Counts({})'
    BY <2>6, <2>7, <2>8 DEF Counts
  <2> QED BY <2>4, <2>5, <2>9 DEF UsageGoes
<1>8. ListGoes'
  <2> SUFFICES ASSUME query'.op = "readdir" PROVE ListGoes'
    BY DEF ListGoes
  <2>1. usage' = NoUsage
    BY DEF Begins
  <2> QED BY <1>1, <1>6, <2>1, FS_EmptySet DEF ListGoes, NoUsage
<1>9. HeapHolds'
  <2>1. HeapHolds /\ query.op = "none"
    BY <1>1 DEF ListInv, NoQuery
  <2>2. lost \in Nat /\ blocks = lost
    BY <2>1 DEF HeapHolds
  <2>3. query'.op = "usage" => blocks' = blocks + 1
    BY DEF Begins
  <2>4. query'.op # "usage" => blocks' = blocks
    BY DEF Begins
  <2> QED BY <1>1, <1>6, <2>2, <2>3, <2>4 DEF HeapHolds
<1>10. UsageGoes'
  BY <1>7 DEF UsageGoes
<1>11. AUsage'
  BY DEF AUsage, NoUsage
<1> QED BY <1>2, <1>4, <1>5, <1>8, <1>9, <1>10, <1>11 DEF ListInv

\* A question that is answered at once, and that leaves the tree a tree.
LEMMA AtOnceKeeps ==
  ASSUME ListInv, NEW op \in {"canned", "attr", "mkdir"}, NEW at \in Places, NEW res \in Int,
         AtOnce(op, at, res), ATree', AUsage'
  PROVE  ListInv'
<1>1. query = NoQuery /\ query' = NoQuery /\ said' = [op |-> op, at |-> at, res |-> res]
      /\ UNCHANGED <<blocks, lost>>
  BY DEF AtOnce, Tells
<1>2. AQuery' /\ UsageGoes' /\ UsageTold' /\ ListGoes' /\ ListWhole'
  BY <1>1 DEF AQuery, NoQuery, UsageGoes, UsageTold, ListGoes, ListWhole, Places, ListInv
<1>3. HeapHolds'
  BY <1>1 DEF HeapHolds, ListInv, NoQuery
<1> QED BY <1>2, <1>3 DEF ListInv

\* So does every such question: f_mkdir puts an entry below one that is there.
LEMMA MakesKeeps == ListInv /\ (CannedUsage \/ SetAttr \/ CreateDir) => ListInv'
<1> SUFFICES ASSUME ListInv, CannedUsage \/ SetAttr \/ CreateDir PROVE ListInv'
  OBVIOUS
<1>0. AUsage'
  BY DEF AUsage, NoUsage, CannedUsage, SetAttr, CreateDir
<1>1. CASE UNCHANGED tree
  <2>1. ATree'
    BY <1>1, TreeStays DEF ListInv
  <2>2. \E op \in {"canned", "attr", "mkdir"}, at \in Places, res \in Int : AtOnce(op, at, res)
    <3>1. CASE CannedUsage
      BY <3>1, FSListingAssumption DEF CannedUsage, Places, FS_OK
    <3>2. CASE SetAttr
      BY <3>2 DEF SetAttr, Places, FS_OK, FS_NOENT
    <3>3. CASE CreateDir
      BY <3>3 DEF CreateDir, Places, FS_OK, FS_NOENT, FS_EXISTS, FS_FATAL
    <3> QED BY <3>1, <3>2, <3>3
  <2> QED BY <1>0, <2>1, <2>2, AtOnceKeeps
<1>2. CASE tree' # tree
  <2>1. CreateDir
    BY <1>2 DEF CannedUsage, SetAttr
  <2>2. PICK e \in EntryNos, d \in Places :
          /\ IsDir(d) /\ tree[e].kind = "none" /\ AtOnce("mkdir", e, FS_OK)
          /\ tree' = [tree EXCEPT ![e] = [kind |-> "dir", dir |-> d, len |-> 0]]
    BY <1>2, <2>1 DEF CreateDir, Places
  <2>3. d # 0 => d \in EntryNos /\ tree[d].kind = "dir"
    BY <2>2 DEF IsDir, Places
  <2>4. PICK depth : Ranks(depth)
    BY DEF ListInv, ATree
  <2> DEFINE deeper == [depth EXCEPT ![e] = IF d = 0 THEN 0 ELSE depth[d] + 1]
  <2>5. tree \in [EntryNos -> [kind : Kinds, dir : Places, len : Nat]]
    BY DEF ListInv, ATree
  <2>6. tree' \in [EntryNos -> [kind : Kinds, dir : Places, len : Nat]]
    BY <2>2, <2>5 DEF Kinds
  <2>7. Ranks(deeper)'
    <3>1. depth \in [EntryNos -> Nat]
      BY <2>4 DEF Ranks
    <3>2. deeper \in [EntryNos -> Nat]
      BY <2>3, <3>1
    <3>3. ASSUME NEW x \in EntryNos, tree'[x].kind # "none", tree'[x].dir # 0
          PROVE  tree'[tree'[x].dir].kind = "dir" /\ deeper[tree'[x].dir] < deeper[x]
      <4>1. CASE x = e
        <5>1. tree'[x].dir = d /\ d # e /\ d \in EntryNos
          BY <2>2, <2>3, <2>5, <3>3, <4>1
        <5>2. tree'[d] = tree[d] /\ deeper[d] = depth[d] /\ deeper[x] = depth[d] + 1
              /\ depth[d] \in Nat
          BY <2>2, <2>3, <2>5, <3>1, <3>3, <4>1, <5>1
        <5> QED BY <2>3, <3>3, <5>1, <5>2
      <4>2. CASE x # e
        <5>1. tree'[x] = tree[x]
          BY <2>2, <2>5, <4>2
        <5>2. tree[tree[x].dir].kind = "dir" /\ depth[tree[x].dir] < depth[x]
          BY <2>4, <3>3, <5>1 DEF Ranks
        <5>3. tree[x].dir \in EntryNos /\ tree[x].dir # e
          BY <2>2, <2>5, <3>3, <5>1, <5>2 DEF Places
        <5>4. tree'[tree[x].dir] = tree[tree[x].dir] /\ deeper[tree[x].dir] = depth[tree[x].dir]
              /\ deeper[x] = depth[x]
          BY <2>2, <2>5, <3>1, <4>2, <5>3
        <5> QED BY <5>1, <5>2, <5>4
      <4> QED BY <4>1, <4>2
    <3> HIDE DEF deeper
    <3> QED BY <3>2, <3>3 DEF Ranks
  <2>8. ATree'
    BY <2>6, <2>7 DEF ATree
  <2>9. e \in Places /\ FS_OK \in Int
    BY DEF Places, FS_OK
  <2> QED BY <1>0, <2>2, <2>8, <2>9, AtOnceKeeps
<1> QED BY <1>1, <1>2
-----------------------------------------------------------------------------
\* There are no more calls than entries, and the one for the directory of the question:
\* what the last of them reads is a level below.
LEMMA CallsAreFew ==
  ASSUME NEW r, NEW W, W \subseteq EntryNos, Calls(r, W)
  PROVE  /\ Len(frames) \in Nat \ {0} /\ Len(frames) - 1 \in Levels
         /\ \A i \in 1 .. Len(frames) : /\ frames[i].dir \in Places
                                        /\ frames[i].read \in SUBSET EntryNos
<1> DEFINE n == Len(frames)
<1>1. n \in Nat \ {0} /\ frames \in [1 .. n -> CallRecords]
  <2>1. frames \in Seq(CallRecords) /\ Len(frames) >= 1
    BY DEF Calls
  <2> QED BY <2>1
<1>2. \A i, j \in 1 .. n : frames[i].dir = frames[j].dir => i = j
  BY DEF Calls
<1>3. \A i \in 2 .. n : frames[i].dir \in W
  BY DEF Calls
<1>0. \A i \in 1 .. n : frames[i].dir \in Places /\ frames[i].read \in SUBSET EntryNos
  BY <1>1 DEF CallRecords
<1> HIDE DEF n
<1> DEFINE l == [i \in 1 .. n - 1 |-> frames[i + 1].dir]
           S == {l[i] : i \in 1 .. n - 1}
<1>4. \A i \in 1 .. n - 1 : i + 1 \in 2 .. n /\ i + 1 \in 1 .. n
  BY <1>1
<1>5. l \in Seq(EntryNos) /\ Len(l) = n - 1
  BY <1>1, <1>3, <1>4
<1>6. \A i, j \in 1 .. Len(l) : l[i] = l[j] => i = j
  BY <1>1, <1>2, <1>4, <1>5
<1>7. S \subseteq EntryNos
  BY <1>3, <1>4
<1>8. Cardinality(S) = n - 1
  <2>1. n - 1 \in 0 .. Len(l) /\ \A x : x \in S <=> \E i \in 1 .. n - 1 : x = l[i]
    <3>1. n - 1 \in 0 .. Len(l)
      BY <1>1, <1>5
    <3> QED BY <3>1
  <2> HIDE DEF S, l
  <2> QED BY <1>5, <1>6, <2>1, CountFirst
<1>9. n - 1 <= Cardinality(EntryNos)
  <2> HIDE DEF S
  <2> QED BY <1>7, <1>8, FS_Subset, FSListingAssumption
<1>10. n - 1 \in Levels
  BY <1>1, <1>9, EntriesCount DEF Levels
<1> QED BY <1>0, <1>1, <1>10 DEF n

\* What the last call comes upon is new.
LEMMA ComesUpon ==
  ASSUME ListInv, NEW r, NEW W, NEW depth, Calls(r, W), Over(W, r, depth),
         ToRead # {}, NEW e, e = Min(ToRead)
  PROVE  /\ e \in ShownIn(TopFrame.dir) /\ e \in EntryNos /\ e \notin W /\ e # query.at
         /\ tree[e].kind # "none" /\ tree[e].dir = TopFrame.dir
         /\ e \in r[Len(frames) - 1]
         /\ tree[e].dir \in W \cup {query.at}
         /\ query.at # 0 => depth[query.at] < depth[e]
<1> DEFINE d == TopFrame.dir
           n == Len(frames)
<1>1. W \subseteq EntryNos
  BY EntriesCount DEF Over, Reaches, Levels
<1>2. n \in Nat \ {0} /\ n - 1 \in Levels /\ n \in 1 .. n /\ d \in Places
      /\ (n # 1 => n \in 2 .. n /\ n - 2 \in Levels /\ n - 1 # 0 /\ (n - 1) - 1 = n - 2)
  <2>1. n \in Nat \ {0} /\ n - 1 \in Levels /\ \A i \in 1 .. n : frames[i].dir \in Places
    BY <1>1, CallsAreFew
  <2>2. \A m \in Nat \ {0} : m - 1 \in Levels =>
          /\ m \in 1 .. m
          /\ m # 1 => m \in 2 .. m /\ m - 2 \in Levels /\ m - 1 # 0 /\ (m - 1) - 1 = m - 2
    BY EntriesCount DEF Levels
  <2> QED BY <2>1, <2>2 DEF TopFrame
<1>3. e \in ToRead
  <2>1. ToRead \subseteq Nat
    BY Shown, FSListingAssumption DEF ToRead
  <2> QED BY <2>1, Least
<1>4. e \in ShownIn(d) /\ e \in In(d) /\ e \notin TopFrame.read /\ e \in EntryNos
  BY <1>3, Shown DEF ToRead
<1>5. TopFrame.read = W \cap In(d)
  BY <1>2 DEF Calls, TopFrame
<1>6. e \notin W /\ tree[e].kind # "none" /\ tree[e].dir = d
  BY <1>4, <1>5 DEF In
<1>7. n # 1 => n \in 2 .. n /\ d \in W /\ n - 2 \in Levels /\ d \in r[n - 2]
  BY <1>2 DEF Calls, TopFrame
<1>8. n = 1 => d = query.at
  BY DEF Calls, TopFrame
<1>9. e \in r[n - 1]
  <2>1. CASE n = 1
    BY <1>4, <1>8, <2>1 DEF Over, Reaches
  <2>2. CASE n # 1
    <3>1. r[n - 1] = OneMore(r[n - 2])
      <4>1. \A m \in Levels \ {0} : r[m] = OneMore(r[m - 1])
        BY DEF Over, Reaches
      <4>2. n - 1 \in Levels \ {0} /\ (n - 1) - 1 = n - 2
        BY <1>2, <2>2
      <4>3. r[n - 1] = OneMore(r[(n - 1) - 1])
        BY <4>1, <4>2
      <4> QED BY <4>2, <4>3
    <3>2. IsDir(d)
      BY <1>2, <2>2 DEF Calls, TopFrame, IsDir
    <3> QED BY <1>4, <1>7, <2>2, <3>1, <3>2 DEF OneMore
  <2> QED BY <2>1, <2>2
<1>10. d \in W \cup {query.at}
  BY <1>7, <1>8
<1>11. ASSUME query.at # 0 PROVE depth[query.at] < depth[e]
  <2>1. d # 0
    BY <1>1, <1>10, <1>11, FSListingAssumption
  <2>2. depth[d] < depth[e] /\ depth[d] \in Nat /\ depth[e] \in Nat
    BY <1>2, <1>4, <1>6, <2>1 DEF Over, Ranks, Places
  <2>3. query.at \in EntryNos /\ depth[query.at] \in Nat
    BY <1>11 DEF Over, Ranks, ListInv, AQuery, Places
  <2>4. d = query.at \/ depth[query.at] < depth[d]
    BY <1>10, <1>11 DEF Over
  <2> QED BY <2>2, <2>3, <2>4
<1>12. e # query.at
  <2>1. query.at # 0 => depth[query.at] \in Nat
    BY DEF Over, Ranks, ListInv, AQuery, Places
  <2>2. e # 0
    BY <1>4, FSListingAssumption
  <2> QED BY <1>11, <2>1, <2>2
<1> QED BY <1>4, <1>6, <1>9, <1>10, <1>11, <1>12
\* A call returns to the one before it.
LEMMA LastOff ==
  ASSUME frames \in Seq(CallRecords), Len(frames) >= 1
  PROVE  /\ Callers \in Seq(CallRecords) /\ Len(Callers) = Len(frames) - 1 /\ Len(frames) \in Nat
         /\ \A i \in 1 .. Len(frames) - 1 : Callers[i] = frames[i]
<1>1. ASSUME NEW T, NEW s \in Seq(T), Len(s) >= 1
      PROVE  /\ SubSeq(s, 1, Len(s) - 1) \in Seq(T) /\ Len(SubSeq(s, 1, Len(s) - 1)) = Len(s) - 1
             /\ Len(s) \in Nat
             /\ \A i \in 1 .. Len(s) - 1 : SubSeq(s, 1, Len(s) - 1)[i] = s[i]
  <2> DEFINE m == Len(s) - 1
  <2>1. m \in 0 .. Len(s) /\ Len(s) \in Nat
    BY <1>1
  <2>2. \A i \in 1 .. m : i \in 1 .. Len(s)
    BY <2>1
  <2>3. \A i \in 1 .. m : s[i] \in T
    BY <2>1, <2>2
  <2> HIDE DEF m
  <2>4. SubSeq(s, 1, m) \in Seq(T) /\ Len(SubSeq(s, 1, m)) = m
    BY <2>1, <2>3
  <2>5. \A i \in 1 .. m : SubSeq(s, 1, m)[i] = s[i]
    BY <2>1, <2>4
  <2> QED BY <2>1, <2>4, <2>5 DEF m
<1> QED BY <1>1 DEF Callers

\* f_opendir opens the directory, or fails.
LEMMA OpensKeeps == ListInv /\ query # NoQuery /\ DirOpens => ListInv'
<1> SUFFICES ASSUME ListInv, query # NoQuery, DirOpens PROVE ListInv'
  OBVIOUS
<1>1. /\ frames' = [frames EXCEPT ![Len(frames)].open = TRUE]
      /\ UNCHANGED <<tree, query, usage, names, blocks, said, failed, lost>>
  BY DEF DirOpens
<1>2. ATree' /\ AQuery' /\ AUsage' /\ UsageTold' /\ ListWhole'
  <2>1. ATree' /\ AQuery' /\ AUsage'
    BY <1>1, TreeStays DEF ListInv, AQuery, AUsage
  <2>2. said'.op = "none"
    BY <1>1 DEF ListInv, AQuery
  <2> QED BY <2>1, <2>2 DEF UsageTold, ListWhole
<1>3. ASSUME frames \in Seq(CallRecords), Len(frames) >= 1
      PROVE  /\ frames' \in Seq(CallRecords) /\ Len(frames') = Len(frames)
             /\ \A i \in 1 .. Len(frames) : /\ frames'[i].dir = frames[i].dir
                                            /\ frames'[i].read = frames[i].read
  <2>1. Len(frames) \in 1 .. Len(frames) /\ frames[Len(frames)] \in CallRecords
    BY <1>3
  <2>2. [frames[Len(frames)] EXCEPT !.open = TRUE] \in CallRecords
    BY <2>1 DEF CallRecords
  <2>3. frames' = [frames EXCEPT ![Len(frames)] = [frames[Len(frames)] EXCEPT !.open = TRUE]]
    BY <1>1
  <2>4. \A c \in CallRecords : /\ [c EXCEPT !.open = TRUE].dir = c.dir
                               /\ [c EXCEPT !.open = TRUE].read = c.read
    BY DEF CallRecords
  <2>5. frames' \in Seq(CallRecords) /\ Len(frames') = Len(frames)
    BY <1>3, <2>1, <2>2, <2>3
  <2>6. \A i \in 1 .. Len(frames) :
          frames'[i] = IF i = Len(frames) THEN [frames[i] EXCEPT !.open = TRUE] ELSE frames[i]
    <3>1. DOMAIN frames = 1 .. Len(frames)
      BY <1>3
    <3> QED BY <2>3, <3>1
  <2> QED BY <2>1, <2>4, <2>5, <2>6
<1>4. ASSUME query.op = "usage" PROVE UsageGoes'
  <2>1. PICK r, W, depth : Calls(r, W) /\ Over(W, r, depth) /\ Counts(W)
    BY <1>4 DEF ListInv, UsageGoes
  <2>2. /\ frames' \in Seq(CallRecords) /\ Len(frames') = Len(frames) /\ Len(frames) >= 1
        /\ \A i \in 1 .. Len(frames) : /\ frames'[i].dir = frames[i].dir
                                       /\ frames'[i].read = frames[i].read
    BY <1>3, <2>1 DEF Calls
  <2>3. Len(frames) \in Nat
    BY <2>1 DEF Calls
  <2>4. /\ frames[1].dir = query.at
        /\ \A i \in 1 .. Len(frames) : frames[i].read = W \cap In(frames[i].dir)
        /\ \A i \in 2 .. Len(frames) : /\ frames[i].dir \in W /\ tree[frames[i].dir].kind = "dir"
                                       /\ frames[i].dir \in r[i - 2]
        /\ \A i, j \in 1 .. Len(frames) : frames[i].dir = frames[j].dir => i = j
    BY <2>1 DEF Calls
  <2>5. \A d : In(d)' = In(d)
    BY <1>1, TreeStays
  <2>6. frames'[1].dir = query.at
    BY <2>2, <2>3, <2>4
  <2>7. \A i \in 1 .. Len(frames) : frames'[i].read = W \cap In(frames'[i].dir)
    BY <2>2, <2>4
  <2>8. \A i \in 2 .. Len(frames) : /\ frames'[i].dir \in W /\ tree[frames'[i].dir].kind = "dir"
                                    /\ frames'[i].dir \in r[i - 2]
    BY <2>2, <2>3, <2>4
  <2>9. \A i, j \in 1 .. Len(frames) : frames'[i].dir = frames'[j].dir => i = j
    BY <2>2, <2>4
  <2>10. Calls(r, W)'
    BY <1>1, <2>2, <2>5, <2>6, <2>7, <2>8, <2>9 DEF Calls
  <2>11. Over(W, r, depth)'
    <3>1. Reaches(query.at, r)' /\ Ranks(depth)' /\ \A d : ShownIn(d)' = ShownIn(d)
      BY <1>1, <2>1, TreeStays DEF Over
    <3> QED BY <1>1, <2>1, <2>2, <3>1 DEF Over
  <2>12. Counts(W)'
    <3>1. FilesOf(W)' = FilesOf(W)
      BY <1>1, TreeStays
    <3> QED BY <1>1, <2>1, <3>1 DEF Counts
  <2> QED BY <2>10, <2>11, <2>12 DEF UsageGoes
<1>5. UsageGoes'
  BY <1>1, <1>4 DEF UsageGoes
<1>6. ASSUME query.op = "readdir" PROVE ListGoes'
  <2>1. /\ frames \in Seq(CallRecords) /\ Len(frames) = 1 /\ frames[1].dir = query.at
        /\ names = frames[1].read
        /\ names \subseteq ShownIn(query.at) /\ usage.count = Cardinality(names)
    BY <1>6 DEF ListInv, ListGoes
  <2>2. \A d : ShownIn(d)' = ShownIn(d)
    BY <1>1, TreeStays
  <2> QED BY <1>1, <1>3, <2>1, <2>2 DEF ListGoes
<1>7. ListGoes'
  BY <1>1, <1>6 DEF ListGoes
<1>8. HeapHolds'
  <2>1. query.op = "usage" => Len(frames') = Len(frames)
    BY <1>3 DEF ListInv, UsageGoes, Calls
  <2> QED BY <1>1, <2>1 DEF ListInv, HeapHolds
<1> QED BY <1>2, <1>5, <1>7, <1>8 DEF ListInv

\* f_opendir fails: the innermost call loses its block, the others free theirs.
LEMMA FailsKeeps == ListInv /\ OpenFails => ListInv'
<1> SUFFICES ASSUME ListInv, OpenFails PROVE ListInv'
  OBVIOUS
<1>1. /\ query # NoQuery /\ query' = NoQuery /\ tree' = tree /\ frames' = <<>>
      /\ said'.op = query.op /\ said'.at = query.at /\ said'.res \in {FS_FATAL, FS_NOENT}
      /\ said' = [op |-> said'.op, at |-> said'.at, res |-> said'.res]
      /\ IF query.op = "usage" THEN blocks' = blocks - Len(Callers) /\ lost' = lost + 1
                               ELSE UNCHANGED <<blocks, lost>>
  BY DEF OpenFails, Ends, Tells
<1>2. ATree'
  BY <1>1, TreeStays DEF ListInv
<1>3. AQuery'
  <2>1. query.op \in {"usage", "readdir"} /\ query.at \in Places
    BY <1>1 DEF AQuery, ListInv
  <2>2. FS_FATAL \in Int /\ FS_NOENT \in Int
    BY DEF FS_FATAL, FS_NOENT
  <2>3. said' \in [op : {"none", "canned", "attr", "mkdir", "usage", "readdir"}, at : Places, res : Int]
    BY <1>1, <2>1, <2>2
  <2> QED BY <1>1, <2>3 DEF AQuery, NoQuery, Places
<1>4. UsageGoes' /\ UsageTold' /\ ListGoes' /\ ListWhole'
  BY <1>1 DEF NoQuery, UsageGoes, UsageTold, ListGoes, ListWhole, FS_FATAL, FS_NOENT, FS_OK
<1>5. HeapHolds'
  <2>1. CASE query.op = "usage"
    <3>1. Len(frames) >= 1 /\ frames \in Seq(CallRecords)
      BY <2>1 DEF ListInv, UsageGoes, Calls
    <3>2. Len(Callers) = Len(frames) - 1 /\ Len(frames) \in Nat
      BY <3>1, LastOff
    <3>3. lost \in Nat /\ blocks = lost + Len(frames)
      BY <2>1 DEF ListInv, HeapHolds
    <3> QED BY <1>1, <2>1, <3>2, <3>3 DEF HeapHolds, NoQuery
  <2>2. CASE query.op # "usage"
    BY <1>1, <2>2 DEF ListInv, HeapHolds, NoQuery
  <2> QED BY <2>1, <2>2
<1>6. AUsage'
  BY DEF ListInv, AUsage, OpenFails
<1> QED BY <1>2, <1>3, <1>4, <1>5, <1>6 DEF ListInv

\* FS_ReadDir.
LEMMA ListsKeeps == ListInv /\ (ListReads \/ ListEnds) => ListInv'
<1> SUFFICES ASSUME ListInv, ListReads \/ ListEnds PROVE ListInv'
  OBVIOUS
<1>1. query.op = "readdir" /\ query # NoQuery /\ tree' = tree /\ UNCHANGED <<blocks, lost>>
  BY DEF ListReads, ListEnds, NoQuery
<1>2. ATree' /\ \A d : ShownIn(d)' = ShownIn(d)
  BY <1>1, TreeStays DEF ListInv
<1>3. /\ frames \in Seq(CallRecords) /\ Len(frames) = 1 /\ frames[1].dir = query.at
      /\ names = frames[1].read
      /\ names \subseteq ShownIn(query.at) /\ usage.count = Cardinality(names)
  BY <1>1 DEF ListInv, ListGoes
<1>4. IsFiniteSet(names) /\ names \subseteq EntryNos
  BY <1>3, Shown, FSListingAssumption, FS_Subset
<1>5. CASE ListReads
  <2> DEFINE e == Min(ToRead)
  <2>1. /\ ToRead # {} /\ frames' = GoneOver(e) /\ names' = names \cup {e}
        /\ usage' = [usage EXCEPT !.count = @ + 1]
        /\ UNCHANGED <<query, said, failed>>
    BY <1>5 DEF ListReads
  <2>2. e \in ShownIn(query.at) /\ e \notin names
    <3>1. ToRead \subseteq Nat
      BY Shown, FSListingAssumption DEF ToRead
    <3>2. e \in ToRead
      BY <2>1, <3>1, Least
    <3> HIDE DEF e
    <3> QED BY <1>3, <3>2 DEF ToRead, TopFrame
  <2> HIDE DEF e
  <2>3. e \in EntryNos
    BY <2>2, Shown
  <2>4. frames' \in Seq(CallRecords) /\ Len(frames') = 1 /\ frames'[1].dir = query.at
        /\ frames'[1].read = names'
    <3>1. frames[1] \in CallRecords
      <4>1. ASSUME NEW T, NEW q \in Seq(T), Len(q) = 1
            PROVE  q[1] \in T /\ DOMAIN q = {1}
        <5>1. DOMAIN q = 1 .. Len(q) /\ \A i \in 1 .. Len(q) : q[i] \in T
          OBVIOUS
        <5> QED BY <4>1, <5>1
      <4> QED BY <1>3, <4>1
    <3> DEFINE c == [frames[1] EXCEPT !.read = @ \cup {e}]
    <3>2. c \in CallRecords /\ c.dir = query.at /\ c.read = names'
      BY <1>3, <2>1, <2>3, <3>1 DEF CallRecords
    <3>3. frames' = [frames EXCEPT ![1] = c]
      BY <1>3, <2>1 DEF GoneOver
    <3> HIDE DEF c
    <3>4. ASSUME NEW T, NEW q \in Seq(T), Len(q) = 1, NEW x \in T
          PROVE  LET p == [q EXCEPT ![1] = x] IN p \in Seq(T) /\ Len(p) = 1 /\ p[1] = x
      BY <3>4
    <3> QED BY <1>3, <3>2, <3>3, <3>4
  <2>5. Cardinality(names') = Cardinality(names) + 1
    BY <1>4, <2>1, <2>2, FS_AddElement
  <2>6. usage'.count = usage.count + 1
    BY <2>1 DEF ListInv, AUsage
  <2>7. ListGoes'
    BY <1>2, <1>3, <2>1, <2>2, <2>4, <2>5, <2>6 DEF ListGoes
  <2>8. AQuery' /\ UsageGoes' /\ UsageTold' /\ ListWhole' /\ HeapHolds'
    BY <1>1, <2>1 DEF AQuery, UsageGoes, UsageTold, ListWhole, HeapHolds, ListInv
  <2>9. AUsage'
    BY <2>1 DEF ListInv, AUsage
  <2> QED BY <1>2, <2>7, <2>8, <2>9 DEF ListInv
<1>6. CASE ListEnds
  <2>1. /\ query' = NoQuery /\ frames' = <<>> /\ UNCHANGED <<usage, names>>
        /\ said'.op = "readdir" /\ said'.at = query.at /\ said'.res \in {FS_OK, FS_FATAL}
        /\ said' = [op |-> said'.op, at |-> said'.at, res |-> said'.res]
        /\ said'.res = FS_OK => ToRead = {}
    BY <1>1, <1>6 DEF ListEnds, Ends, Tells, FS_OK, FS_FATAL
  <2>2. AQuery'
    BY <2>1 DEF AQuery, ListInv, NoQuery, FS_FATAL, FS_OK, Places
  <2>3. UsageGoes' /\ UsageTold' /\ ListGoes'
    BY <2>1 DEF NoQuery, UsageGoes, UsageTold, ListGoes
  <2>4. HeapHolds'
    BY <1>1, <2>1 DEF HeapHolds, ListInv, NoQuery
  <2>5. ListWhole'
    <3>1. ToRead = ShownIn(query.at) \ names
      BY <1>3 DEF ToRead, TopFrame
    <3> QED BY <1>2, <1>3, <2>1, <3>1 DEF ListWhole
  <2>6. AUsage'
    BY <2>1 DEF ListInv, AUsage
  <2> QED BY <1>2, <2>2, <2>3, <2>4, <2>5, <2>6 DEF ListInv
<1> QED BY <1>5, <1>6
\* FS_GetUsage goes over an entry: counts a file, or calls itself for a directory.
LEMMA CountsKeeps == ListInv /\ UsageReads => ListInv'
<1> SUFFICES ASSUME ListInv, UsageReads PROVE ListInv'
  OBVIOUS
<1> DEFINE n == Len(frames)
           d == TopFrame.dir
<1>0. PICK e : e = Min(ToRead)
  OBVIOUS
<1>1. /\ query.op = "usage" /\ TopFrame.open /\ ToRead # {}
      /\ UNCHANGED <<tree, query, names, said, failed, lost>>
  BY DEF UsageReads
<1>2. PICK r, W, depth : Calls(r, W) /\ Over(W, r, depth) /\ Counts(W)
  BY <1>1 DEF ListInv, UsageGoes
<1>3. /\ frames \in Seq(CallRecords) /\ n >= 1 /\ frames[1].dir = query.at
      /\ \A i \in 1 .. n : frames[i].read = W \cap In(frames[i].dir)
      /\ \A i \in 2 .. n : /\ frames[i].dir \in W /\ tree[frames[i].dir].kind = "dir"
                           /\ frames[i].dir \in r[i - 2]
      /\ \A i, j \in 1 .. n : frames[i].dir = frames[j].dir => i = j
  BY <1>2 DEF Calls
<1>4. n \in Nat /\ n \in 1 .. n /\ 1 \in 1 .. n /\ DOMAIN frames = 1 .. n /\ frames[n] \in CallRecords
      /\ d = frames[n].dir
  <2>1. \A q \in Seq(CallRecords) : Len(q) \in Nat /\ DOMAIN q = 1 .. Len(q)
                                    /\ \A i \in 1 .. Len(q) : q[i] \in CallRecords
    OBVIOUS
  <2>2. n \in Nat /\ n \in 1 .. n /\ 1 \in 1 .. n
    BY <1>3, <2>1
  <2> QED BY <1>3, <2>1, <2>2 DEF TopFrame
<1>5. W \subseteq EntryNos /\ IsFiniteSet(W)
  <2>1. W \subseteq EntryNos
    BY <1>2, EntriesCount DEF Over, Reaches, Levels
  <2> QED BY <2>1, FSListingAssumption, FS_Subset
<1>6. /\ e \in ShownIn(d) /\ e \in EntryNos /\ e \notin W /\ e # query.at
      /\ tree[e].kind # "none" /\ tree[e].dir = d
      /\ e \in r[n - 1]
      /\ tree[e].dir \in W \cup {query.at}
      /\ query.at # 0 => depth[query.at] < depth[e]
  BY <1>0, <1>1, <1>2, ComesUpon
<1> HIDE DEF d, n
<1>7. e \in r[Cardinality(EntryNos)]
  BY <1>2, <1>5, <1>6, CallsAreFew, ReachesMore DEF n, Over
<1>8. PICK V : V = W \cup {e}
  OBVIOUS
<1> DEFINE c == [frames[n] EXCEPT !.read = @ \cup {e}]
           over == [frames EXCEPT ![n] = c]
<1>9. GoneOver(e) = over
  BY <1>3, <1>4 DEF GoneOver, n
<1>10. c \in CallRecords /\ c.dir = d /\ c.read = frames[n].read \cup {e}
  BY <1>4, <1>6 DEF CallRecords
<1>11. /\ over \in Seq(CallRecords) /\ Len(over) = n
       /\ \A i \in 1 .. n : over[i] = IF i = n THEN c ELSE frames[i]
  <2> HIDE DEF c
  <2> QED BY <1>3, <1>4, <1>10 DEF n
<1>12. \A i \in 1 .. n : over[i].dir = frames[i].dir
  BY <1>4, <1>10, <1>11
<1>13. e \in In(d) /\ \A x : e \in In(x) => x = d
  BY <1>6 DEF In
<1>14. ASSUME NEW i \in 1 .. n PROVE over[i].read = V \cap In(over[i].dir)
  <2>1. CASE i = n
    BY <1>8, <1>3, <1>4, <1>10, <1>11, <1>13, <2>1
  <2>2. CASE i # n
    <3>1. frames[i].dir # d
      BY <1>3, <1>4, <2>2
    <3> QED BY <1>3, <1>8, <1>11, <1>13, <2>2, <3>1
  <2> QED BY <2>1, <2>2
<1>15. /\ \A i \in 2 .. n : /\ over[i].dir \in V /\ tree[over[i].dir].kind = "dir"
                            /\ over[i].dir \in r[i - 2]
       /\ \A i, j \in 1 .. n : over[i].dir = over[j].dir => i = j
       /\ over[1].dir = query.at
  <2>1. \A i \in 2 .. n : i \in 1 .. n
    BY <1>4
  <2>2. 1 \in 1 .. n
    BY <1>4
  <2> HIDE DEF over
  <2> QED BY <1>3, <1>8, <1>12, <2>1, <2>2
<1> HIDE DEF over, c
<1>16. /\ V \subseteq r[Cardinality(EntryNos)]
       /\ \A x \in V : /\ tree[x].kind # "none" /\ tree[x].dir \in V \cup {query.at}
                       /\ query.at # 0 => depth[query.at] < depth[x]
  BY <1>2, <1>6, <1>7, <1>8 DEF Over
<1>17. /\ Reaches(query.at, r)' /\ Ranks(depth)' /\ query' = query /\ tree' = tree
       /\ failed' = failed
       /\ \A x : In(x)' = In(x) /\ ShownIn(x)' = ShownIn(x)
       /\ \A S : FilesOf(S)' = FilesOf(S)
       /\ ATree'
  BY <1>1, <1>2, TreeStays DEF Over, ListInv
<1>18. ~failed => \A x \in W : tree[x].kind = "dir" => \/ ShownIn(x) \subseteq W
                                                       \/ \E i \in 1 .. n : over[i].dir = x
  BY <1>2, <1>12 DEF Over, n
<1>19. FilesOf(W) \subseteq EntryNos /\ IsFiniteSet(FilesOf(W)) /\ e \notin FilesOf(W)
  BY <1>5, <1>6, FS_Subset DEF FilesOf
<1>20. tree[e].kind \in Kinds /\ tree[e].len \in Nat /\ \A x \in FilesOf(W) : tree[x].len \in Nat
  BY <1>6, <1>19 DEF ListInv, ATree
<1>21. CASE tree[e].kind = "dir"
  <2>1. frames' = Append(over, Frame(e)) /\ blocks' = blocks + 1 /\ usage' = usage
    BY <1>0, <1>9, <1>21 DEF UsageReads
  <2>2. Frame(e) \in CallRecords /\ Frame(e).dir = e /\ Frame(e).read = {}
        /\ Frame(e).open = FALSE
    BY <1>6 DEF Frame, CallRecords, Places
  <2>3. /\ frames' \in Seq(CallRecords) /\ Len(frames') = n + 1
        /\ \A i \in 1 .. n : frames'[i] = over[i]
        /\ frames'[n + 1] = Frame(e)
    BY <1>4, <1>11, <2>1, <2>2
  <2>4. ASSUME NEW i \in 1 .. n + 1
        PROVE  i \in 1 .. n \/ i = n + 1
    BY <1>4
  <2>5. V \cap In(e) = {}
    BY <1>2, <1>6, <1>8, FSListingAssumption DEF In, Over
  <2>6. \A i \in 1 .. n + 1 : frames'[i].read = V \cap In(frames'[i].dir)
    BY <1>14, <2>2, <2>3, <2>4, <2>5
  <2>7. \A i \in 2 .. n + 1 : /\ frames'[i].dir \in V /\ tree[frames'[i].dir].kind = "dir"
                              /\ frames'[i].dir \in r[i - 2]
    <3>1. \A i \in 2 .. n + 1 : \/ i \in 2 .. n /\ i \in 1 .. n
                                \/ i = n + 1 /\ i - 2 = n - 1
      BY <1>4
    <3>2. e \in V /\ tree[e].kind = "dir" /\ e \in r[n - 1]
      BY <1>6, <1>8, <1>21
    <3> QED BY <1>15, <2>2, <2>3, <3>1, <3>2
  <2>8. \A i \in 1 .. n : over[i].dir # e
    <3>1. \A i \in 1 .. n : i = 1 \/ i \in 2 .. n
      BY <1>4
    <3> QED BY <1>3, <1>6, <1>12, <3>1
  <2>9. \A i, j \in 1 .. n + 1 : frames'[i].dir = frames'[j].dir => i = j
    BY <1>15, <2>2, <2>3, <2>4, <2>8
  <2>10. frames'[1].dir = query.at
    BY <1>4, <1>15, <2>3
  <2>11. Len(frames') >= 1
    BY <1>4, <2>3
  <2>12. Calls(r, V)'
    BY <1>17, <2>3, <2>6, <2>7, <2>9, <2>10, <2>11 DEF Calls
  <2>13. ~failed => \A x \in V : tree[x].kind = "dir" => \/ ShownIn(x) \subseteq V
                                       \/ \E i \in 1 .. n + 1 : frames'[i].dir = x
    <3> SUFFICES ASSUME ~failed, NEW x \in V, tree[x].kind = "dir"
                 PROVE  ShownIn(x) \subseteq V \/ \E i \in 1 .. n + 1 : frames'[i].dir = x
      OBVIOUS
    <3>1. n + 1 \in 1 .. n + 1 /\ \A i \in 1 .. n : i \in 1 .. n + 1
      BY <1>4
    <3>2. CASE x = e
      BY <2>2, <2>3, <3>1, <3>2
    <3>3. CASE x \in W
      BY <1>8, <1>18, <2>3, <3>1, <3>3
    <3> QED BY <1>8, <3>2, <3>3
  <2>14. Over(V, r, depth)'
    BY <1>16, <1>17, <2>3, <2>13 DEF Over
  <2>15. FilesOf(V) = FilesOf(W)
    BY <1>8, <1>21 DEF FilesOf
  <2>16. Counts(V)'
    BY <1>2, <1>17, <2>1, <2>15 DEF Counts
  <2>17. UsageGoes'
    BY <2>12, <2>14, <2>16 DEF UsageGoes
  <2>18. AQuery' /\ AUsage' /\ UsageTold' /\ ListGoes' /\ ListWhole'
    BY <1>1, <2>1 DEF ListInv, AQuery, AUsage, UsageTold, ListGoes, ListWhole, NoQuery
  <2>19. HeapHolds'
    BY <1>1, <1>4, <2>1, <2>3 DEF ListInv, HeapHolds, n
  <2> QED BY <1>17, <2>17, <2>18, <2>19 DEF ListInv
<1>22. CASE tree[e].kind # "dir"
  <2>1. /\ frames' = over /\ blocks' = blocks
        /\ usage' = [count |-> usage.count + 1, size |-> usage.size + tree[e].len]
    BY <1>0, <1>9, <1>22 DEF UsageReads
  <2>2. tree[e].kind = "file"
    BY <1>6, <1>20, <1>22 DEF Kinds
  <2>3. FilesOf(V) = FilesOf(W) \cup {e}
    BY <1>8, <2>2 DEF FilesOf
  <2>4. Cardinality(FilesOf(V)) = Cardinality(FilesOf(W)) + 1 /\ IsFiniteSet(FilesOf(V))
        /\ Cardinality(FilesOf(W)) \in Nat
    BY <1>19, <2>3, FS_AddElement, FS_CardinalityType
  <2>5. LengthOf(tree, FilesOf(V)) = LengthOf(tree, FilesOf(W)) + tree[e].len
    <3>1. \A x \in FilesOf(V) : tree[x].len \in Nat
      BY <1>20, <2>3
    <3>2. e \in FilesOf(V) /\ FilesOf(V) \ {e} = FilesOf(W)
      BY <1>19, <2>3
    <3>3. LengthOf(tree, FilesOf(V)) = LengthOf(tree, FilesOf(V) \ {e}) + tree[e].len
      BY <2>4, <3>1, <3>2, Lengths
    <3> QED BY <3>2, <3>3
  <2>6. Counts(V)'
    BY <1>2, <1>17, <2>1, <2>4, <2>5 DEF Counts
  <2>7. Calls(r, V)'
    BY <1>4, <1>11, <1>14, <1>15, <1>17, <2>1 DEF Calls
  <2>8. ~failed => \A x \in V : tree[x].kind = "dir" => \/ ShownIn(x) \subseteq V
                                                        \/ \E i \in 1 .. n : over[i].dir = x
    BY <1>8, <1>18, <1>22
  <2>9. Over(V, r, depth)'
    BY <1>11, <1>16, <1>17, <2>1, <2>8 DEF Over
  <2>10. UsageGoes'
    BY <2>6, <2>7, <2>9 DEF UsageGoes
  <2>11. AQuery' /\ UsageTold' /\ ListGoes' /\ ListWhole'
    BY <1>1 DEF ListInv, AQuery, UsageTold, ListGoes, ListWhole, NoQuery
  <2>12. AUsage'
    BY <1>20, <2>1 DEF ListInv, AUsage
  <2>13. HeapHolds'
    BY <1>1, <1>11, <2>1 DEF ListInv, HeapHolds, n
  <2> QED BY <1>17, <2>10, <2>11, <2>12, <2>13 DEF ListInv
<1> QED BY <1>21, <1>22
\* A call of FS_GetUsage returns, to the one that made it or with the answer.
LEMMA ReturnsKeeps == ListInv /\ UsageReturns => ListInv'
<1> SUFFICES ASSUME ListInv, UsageReturns PROVE ListInv'
  OBVIOUS
<1> DEFINE n == Len(frames)
           d == TopFrame.dir
<1>1. /\ query.op = "usage" /\ query # NoQuery /\ blocks' = blocks - 1 /\ UNCHANGED <<tree, names, lost>>
      /\ \/ ToRead = {} /\ failed' = failed
         \/ failed' = TRUE
  BY DEF UsageReturns, NoQuery
<1>2. PICK r, W, depth : Calls(r, W) /\ Over(W, r, depth) /\ Counts(W)
  BY <1>1 DEF ListInv, UsageGoes
<1>3. /\ frames \in Seq(CallRecords) /\ n >= 1 /\ frames[1].dir = query.at
      /\ \A i \in 1 .. n : frames[i].read = W \cap In(frames[i].dir)
      /\ \A i \in 2 .. n : /\ frames[i].dir \in W /\ tree[frames[i].dir].kind = "dir"
                           /\ frames[i].dir \in r[i - 2]
      /\ \A i, j \in 1 .. n : frames[i].dir = frames[j].dir => i = j
  BY <1>2 DEF Calls
<1>4. /\ Callers \in Seq(CallRecords) /\ Len(Callers) = n - 1 /\ n \in Nat
      /\ \A i \in 1 .. n - 1 : Callers[i] = frames[i]
  BY <1>3, LastOff
<1>5. n \in 1 .. n /\ \A i \in 1 .. n - 1 : i \in 1 .. n
  BY <1>3, <1>4
<1>6. W \subseteq EntryNos /\ IsFiniteSet(FilesOf(W))
  <2>1. W \subseteq EntryNos
    BY <1>2, EntriesCount DEF Over, Reaches, Levels
  <2> QED BY <2>1, FSListingAssumption, FS_Subset DEF FilesOf
<1>7. /\ Ranks(depth)' /\ tree' = tree
      /\ \A x : In(x)' = In(x) /\ ShownIn(x)' = ShownIn(x)
      /\ \A S : FilesOf(S)' = FilesOf(S)
      /\ \A at : Reaches(at, r)' = Reaches(at, r)
      /\ ATree'
  BY <1>1, <1>2, TreeStays DEF Over, ListInv
<1>8. ~failed' => ~failed /\ ShownIn(d) \subseteq W
  <2> SUFFICES ASSUME ~failed' PROVE ~failed /\ ShownIn(d) \subseteq W
    OBVIOUS
  <2>1. ToRead = {} /\ ~failed
    BY <1>1
  <2>2. ShownIn(d) \subseteq TopFrame.read
    BY <2>1 DEF ToRead
  <2>3. TopFrame.read = W \cap In(d)
    BY <1>3, <1>5 DEF TopFrame
  <2> QED BY <2>1, <2>2, <2>3
<1>9. d = frames[n].dir
  BY DEF TopFrame
<1> HIDE DEF n, d
<1>10. ~failed => \A x \in W : tree[x].kind = "dir" => \/ ShownIn(x) \subseteq W
                                                       \/ \E i \in 1 .. n : frames[i].dir = x
  BY <1>2 DEF Over, n
<1>11. CASE n # 1
  <2>1. frames' = Callers /\ UNCHANGED <<query, said, usage>>
    BY <1>11 DEF UsageReturns, n
  <2>2. \A i \in 2 .. n - 1 : i \in 2 .. n /\ i \in 1 .. n - 1
    BY <1>4
  <2>3. 1 \in 1 .. n - 1 /\ n - 1 >= 1
    BY <1>3, <1>4, <1>11 DEF n
  <2>4. Calls(r, W)'
    <3>1. \A i \in 1 .. n - 1 : frames'[i] = frames[i]
      BY <1>4, <2>1
    <3>2. \A i \in 1 .. n - 1 : frames'[i].read = W \cap In(frames'[i].dir)
      BY <1>3, <1>5, <3>1
    <3>3. \A i \in 2 .. n - 1 : /\ frames'[i].dir \in W /\ tree[frames'[i].dir].kind = "dir"
                                /\ frames'[i].dir \in r[i - 2]
      BY <1>3, <2>2, <3>1
    <3>4. \A i, j \in 1 .. n - 1 : frames'[i].dir = frames'[j].dir => i = j
      BY <1>3, <1>5, <3>1
    <3>5. frames' \in Seq(CallRecords) /\ Len(frames') = n - 1 /\ frames'[1].dir = query.at
      BY <1>3, <1>4, <2>1, <2>3, <3>1
    <3> QED BY <1>7, <2>1, <2>3, <3>2, <3>3, <3>4, <3>5 DEF Calls
  <2>5. Over(W, r, depth)'
    <3>1. ASSUME ~failed', NEW x \in W, tree[x].kind = "dir"
          PROVE  ShownIn(x) \subseteq W \/ \E i \in 1 .. n - 1 : frames'[i].dir = x
      <4>1. CASE ShownIn(x) \subseteq W
        BY <4>1
      <4>2. CASE \E i \in 1 .. n : frames[i].dir = x
        <5>1. PICK i \in 1 .. n : frames[i].dir = x
          BY <4>2
        <5>2. i \in 1 .. n - 1 \/ i = n
          BY <1>4
        <5>3. CASE i = n
          BY <1>8, <1>9, <3>1, <5>1, <5>3
        <5>4. CASE i \in 1 .. n - 1
          BY <1>4, <2>1, <5>1, <5>4
        <5> QED BY <5>2, <5>3, <5>4
      <4> QED BY <1>8, <1>10, <3>1, <4>1, <4>2
    <3>2. Reaches(query.at, r)' /\ query' = query
      BY <1>2, <1>7, <2>1 DEF Over
    <3>3. Len(frames') = n - 1
      BY <1>4, <2>1
    <3>4. /\ W \subseteq r[Cardinality(EntryNos)]
          /\ \A e \in W : /\ tree[e].kind # "none" /\ tree[e].dir \in W \cup {query.at}
                          /\ query.at # 0 => depth[query.at] < depth[e]
      BY <1>2 DEF Over
    <3> QED BY <1>7, <3>1, <3>2, <3>3, <3>4 DEF Over
  <2>6. Counts(W)'
    BY <1>2, <1>7, <2>1 DEF Counts
  <2>7. UsageGoes'
    BY <2>4, <2>5, <2>6 DEF UsageGoes
  <2>8. AQuery' /\ AUsage' /\ UsageTold' /\ ListGoes' /\ ListWhole'
    BY <1>1, <2>1 DEF ListInv, AQuery, AUsage, UsageTold, ListGoes, ListWhole
  <2>9. HeapHolds'
    BY <1>1, <1>4, <2>1 DEF ListInv, HeapHolds, n
  <2> QED BY <1>7, <2>7, <2>8, <2>9 DEF ListInv
<1>12. CASE n = 1
  <2>1. /\ query' = NoQuery /\ frames' = <<>> /\ said' = [op |-> "usage", at |-> query.at, res |-> FS_OK]
        /\ usage' = [usage EXCEPT !.size = @ \div Block]
    BY <1>1, <1>12 DEF UsageReturns, Ends, Tells, n
  <2>2. LengthOf(tree, FilesOf(W)) \in Nat /\ usage.size = LengthOf(tree, FilesOf(W))
        /\ usage.count = 1 + Cardinality(FilesOf(W))
    <3>1. \A x \in FilesOf(W) : tree[x].len \in Nat
      BY <1>6 DEF FilesOf, ListInv, ATree
    <3> QED BY <1>2, <1>6, <3>1, Lengths DEF Counts
  <2>3. usage' = [count |-> usage.count, size |-> usage.size \div Block] /\ usage.count \in Nat
        /\ usage.size \div Block \in Nat
    BY <2>1, <2>2, Quotient, FSListingAssumption DEF ListInv, AUsage
  <2>4. ASSUME ~failed' PROVE /\ ShownIn(query.at) \subseteq W
                              /\ \A x \in W : tree[x].kind = "dir" => ShownIn(x) \subseteq W
    <3>1. d = query.at
      BY <1>3, <1>9, <1>12
    <3>2. ASSUME NEW x \in W PROVE x # query.at
      <4>1. query.at # 0 => depth[query.at] < depth[x] /\ depth[query.at] \in Nat /\ depth[x] \in Nat
        BY <1>2, <1>6 DEF Over, Ranks, ListInv, AQuery, Places
      <4> QED BY <1>6, <4>1, FSListingAssumption
    <3>3. ASSUME NEW i \in 1 .. n PROVE frames[i].dir = query.at
      BY <1>3, <1>12
    <3> QED BY <1>8, <1>10, <2>4, <3>1, <3>2, <3>3
  <2>5. UsageTold'
    <3>1. PICK at : at = query.at
      OBVIOUS
    <3>2. Reaches(at, r) /\ W \subseteq r[Cardinality(EntryNos)]
      BY <1>2, <3>1 DEF Over
    <3>3. Reaches(at, r)' /\ said'.at = at
      BY <1>7, <2>1, <3>1, <3>2
    <3>4. Reaches(said.at, r)'
      BY <3>3
    <3> QED BY <1>7, <2>1, <2>2, <2>3, <2>4, <3>2, <3>4 DEF UsageTold
  <2>6. AQuery'
    BY <2>1 DEF ListInv, AQuery, NoQuery, FS_OK, Places
  <2>7. UsageGoes' /\ ListGoes' /\ ListWhole'
    BY <2>1 DEF NoQuery, UsageGoes, ListGoes, ListWhole
  <2>8. AUsage'
    BY <2>3 DEF AUsage
  <2>9. HeapHolds'
    BY <1>1, <1>12, <2>1 DEF ListInv, HeapHolds, NoQuery, n
  <2> QED BY <1>7, <2>5, <2>6, <2>7, <2>8, <2>9 DEF ListInv
<1> QED BY <1>11, <1>12

\* Every step keeps the invariant.
LEMMA ListKeeps == ListInv /\ [ListNext]_listvars => ListInv'
<1> SUFFICES ASSUME ListInv, [ListNext]_listvars PROVE ListInv'
  OBVIOUS
<1>1. CASE UNCHANGED listvars
  <2>1. /\ UNCHANGED <<query, frames, usage, names, blocks, said, failed, lost>> /\ tree' = tree
    BY <1>1 DEF listvars
  <2>2. /\ \A d : In(d)' = In(d) /\ ShownIn(d)' = ShownIn(d)
        /\ \A W : FilesOf(W)' = FilesOf(W)
        /\ \A depth : Ranks(depth)' = Ranks(depth)
        /\ \A at, r : Reaches(at, r)' = Reaches(at, r)
        /\ ATree' = ATree
    BY <2>1, TreeStays
  <2>3. \A r, W : Calls(r, W)' = Calls(r, W)
    BY <2>1, <2>2 DEF Calls
  <2>4. \A r, W, depth : Over(W, r, depth)' = Over(W, r, depth)
    BY <2>1, <2>2 DEF Over
  <2>5. \A W : Counts(W)' = Counts(W)
    BY <2>1, <2>2 DEF Counts
  <2>6. UsageGoes'
    BY <2>1, <2>3, <2>4, <2>5 DEF ListInv, UsageGoes
  <2>7. UsageTold'
    BY <2>1, <2>2 DEF ListInv, UsageTold
  <2>8. ListGoes' /\ ListWhole'
    BY <2>1, <2>2 DEF ListInv, ListGoes, ListWhole
  <2>9. AQuery' /\ AUsage' /\ HeapHolds'
    BY <2>1 DEF ListInv, AQuery, AUsage, HeapHolds
  <2> QED BY <2>2, <2>6, <2>7, <2>8, <2>9 DEF ListInv
<1>2. CASE FFS_Ioctlv
  BY <1>2, BeginsKeeps
<1>3. CASE CannedUsage \/ SetAttr \/ CreateDir
  BY <1>3, MakesKeeps
<1>4. CASE OpenFails
  BY <1>4, FailsKeeps
<1>5. CASE DirOpens
  BY <1>5, OpensKeeps DEF DirOpens
<1>6. CASE UsageReads
  BY <1>6, CountsKeeps
<1>7. CASE UsageReturns
  BY <1>7, ReturnsKeeps
<1>8. CASE ListReads \/ ListEnds
  BY <1>8, ListsKeeps
<1> QED BY <1>1, <1>2, <1>3, <1>4, <1>5, <1>6, <1>7, <1>8 DEF ListNext, ListServes

(***************************************************************************)
(* What FFS-USB tells of a directory is so, however deep the tree and      *)
(* wherever a read fails: the usage counts each file below it once, a list *)
(* that is given with success is whole, and no block of the heap is lost   *)
(* but one with each question that is refused.                             *)
(***************************************************************************)
THEOREM ListingIsRight == ListSpec => []ListingRight
<1>1. ListInit => ListInv
  BY ListStarts
<1>2. ListInv /\ [ListNext]_listvars => ListInv'
  BY ListKeeps
<1>3. ListInv => ListingRight
  <2> SUFFICES ASSUME ListInv PROVE ListingRight
    OBVIOUS
  <2>1. UsageRight
    BY ToldIsRight DEF ListInv
  <2>2. HeapKept
    BY DEF ListInv, HeapHolds, HeapKept, NoQuery
  <2> QED BY <2>1, <2>2 DEF ListInv, ListingRight
<1> QED BY <1>1, <1>2, <1>3, PTL DEF ListSpec
===============================================================================
