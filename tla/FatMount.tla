------------------------------- MODULE FatMount --------------------------------
(***************************************************************************)
(* Mounting in FatFs (auto_mount, ff.c) under the file server of FFS-SD.   *)
(* f_mount only registers the work area; each call that names a path then  *)
(* looks whether the volume is mounted, and mounts it if not.  The first   *)
(* calls are those of _main, which empties /tmp and /import and does not   *)
(* look at what they return.                                               *)
(*                                                                         *)
(* A disk is where its boot record is, and what that says of the sizes of  *)
(* the areas.  The card is looked for once, before; one put in later is    *)
(* never found.                                                            *)
(***************************************************************************)
EXTENDS Naturals, Sequences

CONSTANTS
  Volumes,    \* boot records: [rsvd, n_fats, fatsz, rootent, totsec, spc, rootclus]
  Bases,      \* sectors at which a partition may begin
  PerSector,  \* entries of a directory in a sector, SS / 32
  Fat16, Fat32, \* clusters from which a volume is FAT16, FAT32 (0xFF7, 0xFFF7)
  MaxFaults   \* bound: reads that fail

ASSUME FatMountAssumption ==
  /\ PerSector \in Nat \ {0} /\ Fat16 \in Nat /\ Fat32 \in Nat
  /\ Bases \subseteq Nat \ {0} /\ MaxFaults \in Nat
  /\ \A v \in Volumes :
       LET behind == v.rsvd + v.n_fats * v.fatsz + v.rootent \div PerSector
           whole == (v.totsec - behind) \div v.spc
       IN  /\ v \in [rsvd : Nat, n_fats : Nat, fatsz : Nat, rootent : Nat, totsec : Nat,
                     spc : Nat \ {0}, rootclus : Nat]
           /\ v.totsec >= behind + v.spc
           /\ whole + 2 >= Fat32 => v.rootclus \in 2 .. whole + 1

VARIABLES
  sdcard,   \* whether the driver has found a card, what its sector 0 is, and its volume
  FatFs,    \* the work area: fs_type, id and where the areas are
  Fsid,
  mainAt,   \* what _main does next: "f_mount", the four calls, "loop"
  opened,   \* the mount at which the file that is open was opened, 0 without one
  mounting, \* result of the last call, and whether a read failed in it
  readFaults

mountvars == <<sdcard, FatFs, Fsid, mainAt, opened, mounting, readFaults>>

NotMounted == [fs_type |-> 0, id |-> 0, at |-> <<>>]
Start == <<"f_mount", "rm /tmp", "rm /import", "mkdir /tmp", "mkdir /import", "loop">>
AfterCall(c) == Start[1 + CHOOSE i \in DOMAIN Start : Start[i] = c]

\* Sector 0 holds a boot record, a partition table with a first partition that
\* is one, or is no FAT partition, or neither.
Cards ==
  [found : BOOLEAN, zero : {"boot"}, base : {0}, boot : Volumes]
  \cup [found : {TRUE}, zero : {"table"}, base : Bases, boot : Volumes]
  \cup [found : {TRUE}, zero : {"other table", "blank"}, base : {0}, boot : {<<>>}]

MountInit ==
  /\ sdcard \in Cards
  /\ FatFs = NotMounted /\ Fsid = 0 /\ mainAt = "f_mount" /\ opened = 0
  /\ mounting = [res |-> "none", hit |-> FALSE]
  /\ readFaults = 0

-----------------------------------------------------------------------------
(***************************************************************************)
(* auto_mount.                                                             *)
(***************************************************************************)

\* disk_status answers STA_NODISK, not STA_NOINIT, for a card that is not there.
StaNoInit == FALSE

\* The type follows from the number of clusters.
TypeOf(mclst) == IF mclst >= Fat32 THEN 32 ELSE IF mclst >= Fat16 THEN 16 ELSE 12

Areas(base, v) ==
  LET fsize == v.fatsz * v.n_fats
      root == v.rootent \div PerSector
      mclst == (v.totsec - v.rsvd - fsize - root) \div v.spc + 2
      fatbase == base + v.rsvd
  IN  [csize |-> v.spc, fatbase |-> fatbase, max_clust |-> mclst,
       dirbase |-> IF TypeOf(mclst) = 32 THEN v.rootclus ELSE fatbase + fsize,
       database |-> fatbase + fsize + root]

\* check_fs of sector 0 and of the first partition: the volume there is, if any.
check_fs ==
  IF sdcard.zero \in {"boot", "table"} THEN {[base |-> sdcard.base, boot |-> sdcard.boot]} ELSE {}

Fails(res) == FatFs' = [FatFs EXCEPT !.fs_type = 0] /\ mounting' = [res |-> res, hit |-> FALSE]
              /\ UNCHANGED <<Fsid, readFaults>>

\* A failed read of the FSINFO sector of a FAT32 volume is no error.
Mounts ==
  \E v \in check_fs :
    /\ Fsid' = Fsid + 1
    /\ FatFs' = [fs_type |-> TypeOf(Areas(v.base, v.boot).max_clust), id |-> Fsid + 1,
                 at |-> Areas(v.base, v.boot)]
    /\ mounting' = [res |-> "OK", hit |-> FALSE]
    /\ UNCHANGED readFaults

\* A read fails before the boot record is known.
ReadFails ==
  /\ readFaults < MaxFaults /\ readFaults' = readFaults + 1
  /\ FatFs' = [FatFs EXCEPT !.fs_type = 0]
  /\ mounting' = [res |-> "DISK_ERR", hit |-> TRUE]
  /\ UNCHANGED Fsid

\* Mutant of IsMounted: the volume is mounted again for each call.
IsMounted_never == FALSE

IsMounted == FatFs.fs_type # 0 /\ ~StaNoInit

auto_mount ==
  \/ /\ IsMounted /\ mounting' = [res |-> "OK", hit |-> FALSE]
     /\ UNCHANGED <<FatFs, Fsid, readFaults>>
  \/ ~IsMounted /\ ~sdcard.found /\ Fails("NOT_READY")
  \/ /\ ~IsMounted /\ sdcard.found
     /\ \/ check_fs = {} /\ Fails("NO_FILESYSTEM")
        \/ Mounts
        \/ ReadFails

\* The object was opened at this mount.
validate == FatFs.fs_type # 0 /\ FatFs.id = opened /\ ~StaNoInit

-----------------------------------------------------------------------------
(***************************************************************************)
(* The server.                                                             *)
(***************************************************************************)

f_mount ==
  /\ mainAt = "f_mount" /\ mainAt' = AfterCall(mainAt)
  /\ FatFs' = [FatFs EXCEPT !.fs_type = 0]
  /\ UNCHANGED <<sdcard, Fsid, opened, mounting, readFaults>>

\* Mutant of StartCalls: the server gives up when a call fails.
StartCalls_give ==
  /\ mainAt \notin {"f_mount", "loop"} /\ auto_mount
  /\ mainAt' = IF mounting'.res = "OK" THEN AfterCall(mainAt) ELSE mainAt
  /\ UNCHANGED <<sdcard, opened>>

\* FS_Delete and f_mkdir, whose results are not looked at.
StartCalls ==
  /\ mainAt \notin {"f_mount", "loop"} /\ auto_mount
  /\ mainAt' = AfterCall(mainAt)
  /\ UNCHANGED <<sdcard, opened>>

\* A call with a path; one that opens a file keeps the id of the mount.
PathCall ==
  /\ mainAt = "loop" /\ auto_mount
  /\ opened' \in IF mounting'.res = "OK" THEN {opened, FatFs'.id} ELSE {opened}
  /\ UNCHANGED <<sdcard, mainAt>>

FileCloses ==
  /\ mainAt = "loop" /\ opened # 0 /\ validate /\ opened' = 0
  /\ UNCHANGED <<sdcard, FatFs, Fsid, mainAt, mounting, readFaults>>

MountNext == f_mount \/ StartCalls \/ PathCall \/ FileCloses

\* The thread of the server is not stopped.
MountFairness == WF_mountvars(f_mount \/ StartCalls)

MountSpec == MountInit /\ [][MountNext]_mountvars /\ MountFairness

-----------------------------------------------------------------------------
(***************************************************************************)
(* Properties.                                                             *)
(***************************************************************************)

clust2sect(c) == (c - 2) * FatFs.at.csize + FatFs.at.database

\* Of a mounted volume every cluster lies behind its FATs and its root directory
\* and ends within it, none of its whole clusters is left out, and the root
\* directory of FAT32 is one of them.
AreasApart ==
  FatFs.fs_type # 0 =>
    LET v == sdcard.boot
        behind == sdcard.base + v.rsvd + v.n_fats * v.fatsz + v.rootent \div PerSector
        end == sdcard.base + v.totsec
        last == FatFs.at.max_clust - 1
    IN  /\ clust2sect(2) = behind
        /\ clust2sect(last) + v.spc \in end - v.spc + 1 .. end
        /\ FatFs.fs_type = 32 => FatFs.at.dirbase \in 2 .. last
        /\ FatFs.fs_type # 32 =>
             FatFs.at.dirbase = FatFs.at.database - v.rootent \div PerSector

\* A file that is open stays valid until it is closed: no call of another client
\* mounts the volume again under it.
HandlesLive == opened # 0 => validate

\* The server starts to serve its clients, whether there is a card or not and
\* whatever reads of it fail.
ServerStarts == mainAt = "f_mount" ~> mainAt = "loop"

\* A volume is read where its boot record puts it, and stays mounted under its files.
MountRight == AreasApart /\ HandlesLive
===============================================================================
