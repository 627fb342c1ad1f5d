# A verification development for sneek

sneek replaces the modules of the Wii's IOS by ones that keep the console's
NAND file system on an SD card (SNEEK) or a USB disk (UNEEK) and play disc
images from a USB disk. This directory holds TLA+ modules that model the parts
of it where order, failure or shared state matter, TLC configurations that
check them on small instances, and TLAPS proofs of the most important
properties for every value of the parameters.

## 1. The system

| Part | Source | State it keeps | What makes it correct | Modules |
|---|---|---|---|---|
| FFS-SD file server | `fs/main.c`, `fs/FS.c` | `fd_stack` (open files), the tree | a file reads as it was written, a tree is deleted or moved whole, every message is acknowledged | `FFS`, `FSTree`, `FatMount` |
| FatFs driver | `fs/ff.c`, `fs-usb/ff.c`, `di/ff.c` | volume with sector window, file objects | no cross-linked, dangling or lost clusters; a power cut loses no data that was synced; names are unique | `FFS`, `FSTree`, `FatWindow`, `FatNames`, `FatMount` |
| SD card driver | `fs/sdhc.c`, `fs/sdmmc.c`, `mini-tree-mod/` copies | host registers, card record | a transfer reported as done was done; a pulled card is noticed | `SDCard` |
| FFS-USB file server | `fs-usb/FS.c`, `fs-usb/main.c` | as FFS-SD, and `HAXHandle` | a handle is of the file it was opened for, none is lost | `FSUSB`, `FSClients`, `FSListing` |
| USB storage stack | `fs-usb/` and `di/`: `ehci.c`, `usb.c`, `usbstorage.c` | transfer queue, toggles, unit | a retried transfer is not done twice with another result | `EHCI`, `USBStorage` |
| ES: titles | `es/ES.c` | import state (`iTMD`, `CNTMap`), counts and lists | an import that did not finish is not visible; lists agree with the NAND | `ESImport`, `TitleInstall`, `TitleLists` |
| ES: contents, queries | `es/ES.c` | handles, iTMD, content map | a handle is of the content it was opened for; lists fit their counts | `ESContent` |
| ES: boot and launch | `es/ES.c` | `launch.sys`, `disc.sys`, loaded modules | what was asked for runs | `ESLaunch` |
| ES: server, SD slot | `es/main.c`, `es/SDI.c` | queue, timer, registers | every request is answered, the menu's timer lives | `ESServer` |
| ES: menu, dumper, region | `es/SMenu.c`, `es/Dump.c`, `es/Config.c` | cursor, settings, image, `setting.txt` | the menu shows what it works on; a dump is the disc | `SMenu`, `Dump`, `ESChannels`, `ESConfig` |
| ES: files | `es/NAND.c` | none | a file is replaced as a whole | `FSClients` |
| DI disc emulation | `di/main.c`, `di/dip.c`, `di/DIGlue.c` | selected game, cover, partition, file cache `FC`, handle tables, game list | a disc read returns the bytes of that offset; handles are not lost; a new disc is noticed | `DIP`, `DIDrive`, `FSClients` |
| mini boot loader | `mini-tree-mod/boot2.c`, `nand.c`, `irq.c` | block map, current page, irq flag | the newest boot2 is loaded whole | `MiniBoot` |
| mini IPC | `mini-tree-mod/ipc.c` | rings | never started: `main()` has the PowerPC side commented out | – |
| mini drivers, tools, run-time support | `mini-tree-mod/*`, `eFIX/`, `ELFIns`, `IOSKpatch`, `vsprintf.c` | registers, none | – | – |

How they interact. The PowerPC program sends IPC messages; the IOS kernel puts
them on the queue of the server that registered the device (`/dev/fs` and every
path for FFS, `/dev/es`, `/dev/di`). A server is one thread around
`mqueue_recv … mqueue_ack`: it handles one message completely before it takes the
next. ES and DI are clients of FFS (through `IOS_Open`, `IOS_Read`, …), and FFS calls FatFs,
which calls the sector driver. Interrupts meet threads in the SD card driver, in the USB
stack and in mini. ES's timer puts ticks between its requests, in which the menu
changes the settings that DI reads.

What is hard. One server thread means that two messages never interleave
inside a server, but their *effects* do: two handles on one file, a file deleted
while it is open, a rename over another file, a game selected while another one
reads. Below that, transfers fail or time out half-way through an
operation that updates several places (data, allocation table, directory), hardware
answers after the driver gave up, and the console is switched off between two
file operations. `PROJECT.json` lists these hazards by line, with the properties that
would catch each.

## 2. Modules

| Module | What it is |
|---|---|
| `FFS` | file server and FAT driver: handles, directory entries, clusters |
| `FileStore`, `FFSRefines` | what the file server promises, and the refinement mapping |
| `FSTree` | directories, requests on trees, the start |
| `FatWindow`, `FatNames`, `FatMount` | the sector window, the names, the mounting of FatFs |
| `FSUSB`, `FSClients`, `FSListing` | the file server of UNEEK, its clients, its answers about directories |
| `SDCard`, `USBStorage`, `EHCI` | the drivers below |
| `ESImport`, `TitleInstall`, `TitleLists` | title import, with an installer, with the lists of titles |
| `ESContent`, `ESLaunch`, `ESServer`, `ESConfig`, `ESChannels`, `Dump` | the rest of ES |
| `SMenu` | the menu |
| `DIP`, `DIDrive` | games and reads of DI; the drive it shows |
| `MiniBoot` | the loading of boot2 |
| `MCFFS`, `MCFFSRefines`, `MCESImport`, `MCTitleInstall`, `MCTitleLists`, `MCDIP` | values of the constants for TLC |
| `MCDrivers`, `MCFiles`, `MCConsole`, `MCGames` | several components next to each other, with values |
| `FFSProofs`, `FilesProofs`, `ESProofs`, `TitleProofs`, `ConsoleProofs`, `GamesProofs`, `DriversProofs`, `Counting` | theorems and proofs (section 4) |

The components of one `MC` module share no state. In a behaviour only one of them
moves (the variable `part` or `moving` chooses it at the start), so that the states of a run are the
sum and not the product of theirs.

### 2.1 FFS

State. `fd_stack` is the array of `FIL` objects of `FS.c`; `ent` stands for
`dir_sect`/`dir_ptr`, `org` and `curr` for `org_clust` and `curr_clust`, and
`fs = 0` marks a free slot, as in the code. `dir` holds the directory entries of one
directory, `fat` and `data` the allocation table and the clusters. `req` is the
request whose handler is in a loop, `reply` the last acknowledgement, `faults` a
history variable (below).

Unit of data. One cluster of one sector, so positions and sizes count
clusters. What this hides is the partial-sector window of a file (`fp->buf`);
what it keeps is everything that decides which cluster is touched. Lengths and
offsets wrap at `Word`, which is 2^32 in the code.

Steps. A request whose handler has no loop over clusters is one action: the whole
handler, from the handle check to the acknowledgement. `f_read`, `f_write`,
`f_lseek` and `remove_chain` loop; each gets a starting action, an action per
round, one for the end and one for a transfer that fails in a round. Since one
thread serves the queue, `Receive` is enabled only when `req.op = "idle"`. The split into rounds
is there for the failing transfers, which leave a half-done
operation behind, and for termination.

| Code | Actions |
|---|---|
| `FS_Open`, `f_open` | `FS_Open_Found`, `FS_Open_Missing` (with the special case that creates the file for one game), `FS_Open_NoHandle` |
| `FS_CreateFile` | `FS_CreateFile` |
| `FS_Close`, `f_sync`, `f_close` | `FS_Close` with `f_sync` |
| `FS_CheckHandle` and the access checks of `f_read`, `f_write` | `BadHandle`, `Refuse` |
| `FS_Read`, `f_read` | `FS_Read`, `f_read_step`, `f_read_error`, `f_read_end` |
| `FS_Write`, `f_write`, `create_chain` | `FS_Write`, `f_write_step`, `f_write_error`, `f_write_end` with `create_chain` |
| `FS_Seek`, `f_lseek` | `FS_Seek_Refused`, `FS_Seek`, `f_lseek_step`, `f_lseek_end` |
| `FS_DeleteFile`, `f_unlink`, `remove_chain` | `FS_DeleteFile` with `Unlink`, `remove_chain_step`, `remove_chain_end`, `remove_chain_error` |
| `FS_Move`, `f_rename` | `FS_Move` with `Rename`, or `Rename_error` where a transfer in it fails; a target that exists is unlinked first, which goes through the `remove_chain` actions and then `f_rename_again` or `f_rename_again_error` |
| a transfer of a directory sector that fails before anything changed | `DirError` |

Faults. The driver is built without file locks and trusts its clients, so some properties
hold only for clients that do not share files. Instead of
forbidding the sharing, the model allows what `Faults` contains and records it:

* `"share"`: a file is opened a second time with a writer among the two, or
  deleted or renamed while open. The code does not refuse this.
* `"io"`: a transfer failed and the driver saw it. A failing *read* of file data on the
  direct path is not seen (`diskio.c:53` ignores the result), so `f_read_step` may
  return any value once `"io"` is allowed. A write that the SD
  driver reported as done although its data phase ended with an error or a time-out (`sdhc.c:483`, `SDCard`) is not part of this model.
* `"twin"`: the transfer failed inside `f_rename`. That registers the new entry before it removes the old one
  (`ff.c:2515`-`2540`), so a failure between the two leaves two entries that name one chain, and the driver never
  learns of it. From there on a chain has two owners: `NoCrossLink` and `NoDanglingChain` are claimed until it happens (`OneOwner`).

`create_chain` may take any free cluster; the code's search order (`last_clust`)
is one of the choices.

### 2.2 FileStore and FFSRefines

`FileStore` knows files as sequences of values and handles as positions. In
`FFSRefines` a file open for writing is the chain of its handle, up to the
larger of position and size, because the directory entry is only brought up to
date by the close; every other file is the chain of its entry. A step that
only moves clusters maps to a stutter, a round of `f_read` to `Get`, a round of
`f_write` to `Put`; a rename over an existing file maps to `Delete` and then `Rename`, which is the
order in which the code does it, and not one atomic replacement.

### 2.3 ESImport and TitleInstall

State. `ticket`, `tmd`, `content`, `shared1`, `map` and `uid` are files on the
NAND: a ticket per title, `title.tmd`, the files of private contents, the numbered files
of `/shared1`, `content.map` and `uid.sys`. `tmp` is what the import keeps in `/tmp`.
`iTMD`, `SkipContent` and `CNTMap` are ES's variables; `CNTMap = Dirty` stands for
`*CNTMapDirty`. `req` is the request whose handler is at work, `reply` the
last acknowledgement.

Steps and crashes. The power may go off at any moment (`Restart`): FFS then empties
`/tmp` and ES starts with fresh variables. Whatever a handler did to `/tmp` or to its variables is
gone, so the only steps a crash can tell apart are those on the other files. A handler
that touches one such file, or none, is one action; one that touches several takes an
action for each, with `req` saying where it is. FFS's rename over an existing
file is a deletion and a rename (2.1), and so it is two steps here.

| Code | Actions |
|---|---|
| `ES_AddTicket` | `AddTicket`, `AddTicket_Overwrite`, `AddTicket_Move` |
| `ES_AddTitleStart`, `ES_SetUID`, `GetUID` | `AddTitleStart`, `ES_SetUID`, `GetUID_Create`, `GetUID_Default`, `GetUID` |
| `ES_AddContentStart`, `ES_CheckSharedContent` | `AddContentStart` with `ES_CheckSharedContent` |
| `ES_AddContentData` | `AddContentData` |
| `ES_AddContentFinish`, `ESP_AddContentFinish` | `AddContentFinish` with `Decrypt` and `Decrypted` |
| `ES_AddTitleFinish` | `AddTitleFinish`, the `FinishShared` and `FinishPrivate` actions for a content, `FinishLoop`, `FinishTmd_Overwrite`, `FinishTmd_Move`, `FinishClose` |
| `ES_AddTitleCancel`, `iCleanUpTikTMD` | `AddTitleCancel`, `CleanTmp` |
| `ES_DeleteTitleContent`, `FS_Delete` | `DeleteTitleContent`, `DeleteFile`, `DeleteEnd` |

Data. A content is the hash it decrypts to, or `Bad`; keys and signatures are
left out. A TMD file that was not written completely is `Torn`. The contents of
a TMD have distinct ids.

What the code does and the model keeps: `AddTitleStart` replaces `iTMD` even when it
then refuses because `/tmp/title.tmd` exists; `AddTitleStart` ignores the result
of `GetUID`; the first entry of a new `uid.sys` is written after the file was made; a
shared content whose `content.map` cannot be read is passed over; the early return
of `AddTitleFinish` for a mandatory shared content that cannot be moved frees the global buffer
`path`, after which nothing is modelled (`pathFreed`). `EmptyLoads` says whether the IOS heap returns a block
of size 0, which the repository does not tell: where it does not, a power cut
between the creation of `uid.sys` and its first entry leaves a file that `NANDLoadFile`
cannot load, and no title ever gets a UID again.

Clients. In `ESImport` any call may come at any time, as programs may send
them, and with `Faults = {"io"}` any file operation may fail. `TitleInstall` adds an
orderly client: an installer that is not part of the repository and follows the protocol ES
is written for, imports `Jobs` one after the other, cancels and starts again when a
call fails. Damaged data, cancelled imports, deletions and power cuts are its
troubles, at most `MaxTroubles` of them.

### 2.4 TitleLists

The variables are those of `ES.c`: a count, a list and a dirty flag for installed titles
and for owned ones. `told` is the last answer to the client. Lists are asked for
between the steps of an installer and only right after the count, which gives the size of the
client's buffer. `ES_AddTitleFinish` sets both flags after its attempt to move the TMD (`Dirtied`).

### 2.5 DIP

State. `dir` is what `/games` holds on the USB disk and, with SNEEK, on the SD
card behind FFS; `diconfig` is the list of games on disk and `DICfg` the one in
memory. `FSMode` and `DMLite` are the globals that choose the table of handles:
`FHandle` (SNEEK) and `Nhandle` (UNEEK). Only the number of handles in use is
kept: `busy` counts those that no entry of `FC` names any more, `Room` whether an
operation finds as many free ones as it has open at once. `fst` is the file
system table that the apploader left in the console's memory, `None` from a selection until the client has read the
new one; `wrong` is set when a read of the disc returned something else than the
selected game has at that offset.

| Code | Actions |
|---|---|
| `DVDUpdateCache`, `DVDGetInstalledGamesCount`, `DVDVerifyGames` | `DVDUpdateCache` (the decision), `DeleteList`, `WriteList` |
| `DVDSelectGame` | `SelectNothing`, `SelectGame`, `SelectDMLite`, `SelectAgain`, `SelectBeyond` |
| `DVDLowRead`, `FSTRebuild` | `ReadFST`, `ReadCached`, `ReadFile` with `Rebuilt`, called by `DVD_LOW_READ` and `DVD_READ_UNENCRYPTED` |
| `DIP_Ioctl`, `DIP_Ioctlv` | `DVD_SELECT_GAME`, `DVD_WRITE_CONFIG`, `DVD_READ_DISCID`, `DVD_OPEN_PARTITION`, `DVD_RESET`, `DVD_READ_PAST` |
| `DVDOpen` | `Opens`, `Room`, `Lost`, `NoHandle` |

Steps. DI is one thread, so a handler is one action, split where the power can go
off between two changes on disk. `DVDSelectGame` calls `DVDUpdateCache` and
itself when a game cannot be opened; `SelectAgain` sends the request back to
`"update"`. A file that is being written has size 0 in the directory until it is closed,
and a list of size 0 is replaced by the default one: so it counts as not there.

`Faults` says what else may happen: `"manual"`, the automatic update of the list
is switched off in the menu (then it may be wrong, and `SelectBeyond` reads behind its end), and
`"rebuild"`, the FST is rebuilt. The model stops where a handle table is full, a list ends early, or the wrong mode
stays in force; `faults` says why.

What the code does and the model keeps: a handle of `Nhandle` is lost when an open
fails, since the error replaces the index before the entry is reset (the reset is then written in front of the table, which is not modelled);
selecting a game forgets the cached files without closing them; a read behind the end of a Wii disc leaves the
handler without the switch back to SNEEK (`DVD_READ_PAST`); after a rebuild the
cache has the files at their old places, so `ReadRight` leaves out the time until the next selection;
the rebuilt configuration of a game on the SD card is looked for on the SD card.
Games on both storages are left out: the list then has them twice, and a missing game can be hidden by the count.

### 2.6 FSTree, FatMount

`FSTree` has the tree requests of `fs/FS.c` on the directory layer of `fs/ff.c`. A directory is
a chain of clusters of `Epc` entries; a name takes one entry or, with a long form,
a row of them that must lie next to each other. Each f_ function is one
step, but for `f_rename`, which is two: the new entry (`f_rename_new`), then `..` and the removal of the old entry (`f_rename_old`). The recursive `FS_Delete` is as many steps as it has calls, with the
stack of its frames in `call`, of which the thread's stack holds `MaxDepth` (`DeleteTooDeep`). The power may go off between any two steps
(`PowerCut`), and a transfer may fail between the halves of a rename (`MoveTorn`); the start then runs `FS_Delete("/tmp")`, `FS_Delete("/import")` and makes
both again (`CleanTree`, `MakeAgain`), as `_main` does.

| Code | Actions |
|---|---|
| `FS_CreateDir`, `FS_CreateFile`, `FS_SetAttr` | actions of the same name with `f_mkdir`, `f_create` |
| `FS_ReadDir`, `FS_GetUsage` | actions of the same name with `f_readdir`, which drops the last entry of a full directory |
| `FS_Move` | `FS_Move_Tree`, `MoveReplaces`, `MoveAgain`, `MoveEnds`, `MoveTorn` with `f_rename_new`, `f_rename_old` |
| `FS_Delete`, `FS_DeleteFile` | `DeleteEntry`, `DeleteInside`, `DeleteTooDeep`, `DeleteStuck`, `GoOn`, `FS_DeleteFile_Tree` |
| `create_chain`, `remove_chain`, `dir_register`, `dir_remove`, `follow_path` | operators on the volume, of the same names |

There are steps that do not keep a volume whole, and `TreeKept` and `DotsKept` name them (`Unkept`):

* `f_rename` joins the two words of a cluster number wrongly (`LD_WORD | LD_WORD`), so the renaming of a directory whose number needs both is
  refused after the new entry was made, or writes to another directory.
* It does not look whether the target lies below the directory it moves: `/tmp/a` to `/tmp/a/b` is carried out, and the subtree
  can no longer be reached. `SomeMoves` has this move. If it is cut off between its halves the directory lies in
  itself, and the `FS_Delete` of the next start descends until the thread's stack is used up (`OnlyKnotsAreEndless`: only then).
* A power cut or a failing transfer between the two halves of any rename leaves two entries for one chain.

`FatMount` is `auto_mount`: where the boot record is, what it says of the areas, which calls mount the volume and which find
it mounted; the start calls of `_main` ignore what they get. Reads may fail anywhere.

### 2.7 FatWindow, FatNames

`FatWindow` is FatFs as FFS-USB builds it (`_FS_TINY`): one buffer of one sector for table, directory entry and
partial data, next to whole sectors that go past it. Each f_ function is one step
that leaves in `log` the disk after each sector it wrote, in order; `WinCut` continues
with any of these. The helpers are mapped to `fs-usb/ff.c` and the requests to
`di/ff.c`: the text of these functions is the same in both copies.

`FatNames` has `create_name`, `gen_numname`, `dir_find`, `dir_read`, `dir_register` and `dir_remove` on a table of a
fixed length. Rows are written sector by sector, and the power may go off where a
request goes on to another sector. A name is a short sequence of characters, of which `Up` says which have capitals, as the
properties are about how names that differ clash; the numbering
hash is an operator `Hash` over any values.

### 2.8 FSUSB, FSClients, FSListing

`FSUSB` is the server of UNEEK with the queue that ES, DI and a game share: a
request is one action of `Serve` but for a move onto a file, which takes `MoveUnlinks` and
`MoveRenames`. `FSClients` has the clients whose protocol depends on the others'
not coming in between: `NANDWriteFileSafe` and `NANDLoadFile` message by message, and DI's
`DVDOpen`, which sends the path in ioctlv 0x60, where the server keeps the handle in the one
`HAXHandle`, and gets it by opening `/AX`. `FSListing` has the recursive `FS_GetUsage` with its blocks of the heap, `FS_ReadDir`,
`FS_SetAttr` and `FS_CreateDir` with reads that fail at any entry.

### 2.9 SDCard, USBStorage, EHCI, MiniBoot

In these the hardware is a second actor, marked external: it is late, silent, wrong, or
exchanged, within what the drivers handle. What the drivers do not handle the properties say:

* `DoneIsDone` leaves out two cases. In the polled build every data phase that ended with an error the
  controller reported (CRC, time-out) or with the driver's own time-out is answered as done (`sdhc.c:482`, `610`); `unheard` records that, and nothing is
  claimed of a call in which it happened, so that this build's answer of success means little. And in both builds a command that was given up while the controller was still at it
  (`hasty`) can be taken for the next one. In mini's build, which looks at the status, the claim covers every error.
* `InsertedHasPower` speaks of cards whose size was read: the first discovery of a card whose CSD cannot be read leaves it inserted and without power.
* A data phase that times out ends in `__usbstorage_reset` in both directions (`usbstorage.c:194`, `229`), which `USBStorage` runs step by
  step like that of a bad status. `Try_Device` ignores the result of INQUIRY, and so does the model.

| Module | Code | Driver | Hardware |
|---|---|---|---|
| `SDCard` | `sdhc_exec_command`, `sdhc_transfer_data`, `sdhc_wait_intr`, `sdmmc_needs_discover`, `sdmmc_read/write`, `disk_*` | `Driver` in steps of a command phase; `build` is `"polled"` (FFS-SD) or `"irq"` (mini) | `CardAnswers`, `CardMoves`, `DmaBoundary`, `CardSilent`, `LineFails`, `CardExchanged` |
| `USBStorage` | `__cycle`, `__send_cbw`, `__read_csw`, `__usbstorage_reset`, `USBStorage_Open` … `Try_Device`, `disk_*` | `UsbDriver`, one bulk message per step, for both copies (`user`) | what a message returns: whole, short, stalled, lost with or without effect |
| `EHCI` | `qh_urb_transaction`, `ehci_do_urb`, `qh_end_transfer`, `ehci_discover`, `ehci_reset_port` | `UrbDriver`, `Discovers` | `Executes`, `Short`, `Stalls`, `Strays`, `PluggedIn` |
| `MiniBoot` | `boot2_load`, `read_to`, `find_valid_map`, `nand_correct`, `nand_wait`, `nand_irq` | `Boot2Load` | `PageRead`, with bits that flip |

### 2.10 ESContent, ESLaunch, ESServer, ESConfig, ESChannels, Dump

`ESContent`: contents by handle, counts and then the lists they announce, imports and exports as far as they
share `iTMD`; all of it takes handles of FFS, of which there are few and other processes have some. Each call is one action
named as in `ES.c`, as nothing else of ES runs meanwhile; but other processes take and give back handles between its messages, so every
file operation in it may fail by itself, and a handle that is free at its start shows nothing. A content map that cannot be
loaded is such a case: `ES_OpenContent` then answers `ES_NFOUND` for a shared content that is there (`ES.c:957`). The answer records it (`missed`), and `NotFoundIsGone`
is about the others. It is assumed that a title's contents have distinct indexes and ids (`ESContentAssumption`).

`ESLaunch`: `LaunchTitle` writes `/sys/launch.sys` and restarts, `ES_BootSystem` reads and deletes it, loads modules and
starts the title; launching the disc's IOS runs a disc. The power may go off between any two steps. `ES_DIVerify` is step by step: `DIVerify`, `LoadOldTMD`, the safe write of
the TMD (`DropTMD`, `MoveTMD`, or `LeaveTMD` when it fails), `MakeUid` and `SetGid`, then `/sys/disc.sys` (`DropDisc`, `WriteDisc`); each may fail. `SetTitleUID` is the
`ES_SetUID` of a title. What a failing step breaks is recorded:

* `parted`: `SetUID` succeeded and `SetGID` failed, or `ES_SetUID`, which names the title before it can fail, did fail. UID and `TitleID` then
  differ until the next request that succeeds, and `UidIsTitle` says nothing meanwhile.
* A TMD that cannot be loaded counts as none (`verify.unread`), and that of an older disc is written; a replacement that is cut off or whose rename fails between `DropTMD` and
  `MoveTMD` loses the TMD for good. `NoDowngrade` says that these are the only ways.
* `amiss`: a read, write or deletion of `launch.sys` or `disc.sys` failed. Something else than what was asked for may then run.

`ESServer`: the loop of `main.c` with a queue of requests, ticks and the timer, the search for the menu, and the registers of
the SD slot with the driver on the PowerPC that polls them.
`ESConfig`: `Config_ChangeSystem`, value by value: text printed, encrypted in place, written, loaded again.
`ESChannels`: the cached list of channels.
`Dump`: `DumpDoTick`, one tick per step, and `ExtractFile`, which is arithmetic on clusters.

### 2.11 SMenu, DIDrive

`SMenu`: `SMenuReadPad` is one action per press, in the code's order: the keys
that close or switch menus, then the branch of the open menu, with every page and row. A press may be of several buttons,
of which the code looks at one first. `Save` writes the settings in two halves (`MenuSelect`, `SaveWrites`), between which
`GameIsRead` may come.

`DIDrive`: the calls of `DIP_Ioctl` and `DIP_Ioctlv` on registers, cover, error and
partition, and `DVDLowRead` up to the choice of file and offset (`ReadArea`, `Where`). `DiskChanged` is the user, who takes games off the
disk or puts them back; then files are not found. The areas of a disc are in units, and `Layout` says where a game has them.

## 3. Runs

| Run | Shows | Instance |
|---|---|---|
| `ffs_sound` | types; no cross-linked, dangling or lost cluster under exclusive use | 2 names, 2 handles, 3 clusters, 2 entries |
| `ffs_io` | the same but for lost clusters, when transfers fail anywhere, until one leaves a rename half done (`"twin"`) | 2 names, 2 handles, 2 clusters |
| `ffs_shared` | the table stays acyclic, positions stay in files and every request is answered, when handles share a file and files are deleted while open | 1 name, 2 handles, 2 clusters, fairness |
| `ffs_refines` | `FFS` implements `FileStore` | 2 names, 2 handles, 2 clusters, 2 values |
| `es_shared` | types; `content.map` names only files that are there and no content twice; free clients, power cuts, a file operation that fails | 1 title, a TMD of a shared and one of a private content, no `uid.sys`, empty `content.map` |
| `es_install` | installed titles are complete and in `uid.sys`; shared contents and UIDs stay; a faultless import succeeds; lists agree with their counts and miss no title; the work gets done | 3 imports for 2 titles, 4 hashes, 3 troubles, no failing operations, fairness |
| `games` | DI's types, reads, list and selection; the drive; the menu | 3 games in 3 states of `/games`, 2 files each, 2 cached, 6 handles, SNEEK and UNEEK, power cuts; 2 discs, 2 changes of the disk; 5 games and 3 channels in a menu of 2 or 4 rows |
| `drivers` | sectors reported as moved were moved, boot2 is the newest one, transfers are reported as they went; everything ends | SD: 2 tries, 2 events, both builds. NAND: 2 blocks of 2 pages, 2 flipped bits. USB: up to 2 units, 1 fault, 2 requests. EHCI: 2 ports, 1 trouble |
| `files` | the tree, the window, names, clients, mounting and listings | 4 names in trees of depth 2, 4 clusters of 5 entries, moves also onto files and below the moved directory, 1 cut or failing rename; 3 clusters of 2 sectors of 2 bytes, 5 calls; 7 long names in 7 rows; 3 paths, 2 slots, 2 safe writes, 1 cut; volumes of all FAT types; 5 entries |
| `console` | launches, dumps, contents, region, server, channels | 5 titles (2 of them asked for), 3 discs, 2 consoles, 2 starts, 2 requests; discs of 2 to 5 sectors cut at 3, 4 file tables; 2 titles with 4 contents, 2 handles, 6 calls; 3 region changes; 3 channels, 4 moves |
| `es_known` | a title of which all contents are there cannot be installed (finding) | 1 title with a shared content that is on the NAND |
| `dip_full` | the error for a full handle table is taken for a handle (finding) | as `games`, no changes of the configuration |

Some properties are the conjunction of what one component promises; their parts have names and comments of their own:

| Property | Parts |
|---|---|
| `VolumeSound` | `NoCrossLink`, `NoDanglingChain`, `NoLostCluster`, each under the faults it can bear |
| `MapRight`, `NothingLost` | `MapBacked`, `MapDistinct`; `SharedStable`, `UidStable` |
| `InstalledRight`, `ListsRight` | `InstalledComplete`, `InstalledHasUid`, `MapRight`, `FinishSucceeds`; `CacheHasCount`, `ListFits`, `NoneMissing` |
| `StoredRight` | `ModeRestored`, `GameReachable`, `ListRight`, `SlotKept` |
| `DriveRight`, `MenuRight` | `AreaRight`, `OpenedWhole`, `ChangeSeen`, `ErrorTold`; `CursorInList`, `CursorOnRow`, `CoverIsCurrent`, `ChangeIsNoted`, `SavedIsApplied` |
| `CardRight`, `BootRight` | `DoneIsDone`, `InsertedHasPower`; `PageIsReady`, `LoadedRight`, `NewestMap` |
| `StorageRight`, `TransferRight` | `DiskReadRight`, `CausedError`, `MountedIsReady`, `TogglesAgree`; `QueueCovers`, `OkIsMoved`, `ToggleKept`, `ReuseIsSafe` |
| `ClientsRight`, `MountRight`, `ListingRight` | `DstWhole`, `HandleIsFile`, `SlotsHeld`, `OkIsNew`; `AreasApart`, `HandlesLive`; `UsageRight`, `ListWhole`, `HeapKept` |
| `LaunchRight`, `DumpRight`, `RegionKept` | `UidIsTitle`, `NothingLeft`; `ImageIsDisc`, `FilesAreRight`; `SerialKept`, `RegionWhole` |
| `ContentRight` | `HandleIsContent`, `NotFoundIsGone`, `ListFitsCount`, `HandlesOwned`, `SessionHasTmd` |
| `StepsKeep` (what no step of a file server may do) | `TreeKept`, `DotsKept`, `OthersStay`, `SafeAtCut`, `DstThere` |
| `FilesEnd`, `DriversEnd`, `ConsoleRuns` (what must happen) | `CallsReturn`, `CallsAnswered`, `ServerStarts`, `ListingEnds`; `CallsEnd`, `LoadEnds`, `RequestsEnd`, `UrbEnds`, `DiskFound`; `RunsWhatWasAsked`, `NoDowngrade`, `StartEnds`, `DumpEnds`, `ExtractEnds`, `RequestsAnswered`, `SlotFound` |

Why the bounds are enough. For `FFS`: two handles are what it takes to share a file, two names for a rename onto another file, two
entries for a full directory (the rename then fails) and a free one. Three clusters
give a chain with a middle, two chains of different length and a full card;
with two clusters a chain still has a first and a last one and one file can take what another gave
back. `Word` is a few units larger than the longest file so that a
length or offset that wraps is among the inputs. The properties are about each pair of references
to one cluster, so a violation needs no third file.

For ES: two contents with one hash in one TMD are what it takes to enter a
content twice, a second TMD for the same title is an update, and a title of two
imports shares a content with another. One piece of data per content
is enough with free clients, as only the first piece decides its hash; the installer may leave a second one behind
from an import that was given up. `es_install` is run without failing operations (`MaxFaults = 0`): a load
of `content.map` that fails makes the code leave out a shared content, and a failing
`GetUID` is ignored, so `InstalledComplete` and `InstalledHasUid` are only true
without. The three troubles are one for each import: a power
cut and damaged data in one, or an import given up and a deletion after the next.

For DI: the code has ten handles and a cache of five files; six and two keep
that the cache can fill and wrap and that two selections can use up the table.
The three states of `/games` give lists of the same and of other lengths, a
game that is gone, an empty list and a game on the SD card; a broken game that
is not the first makes a selection try again. Two discs of different layout show a size that is kept from the one before,
and with two games that can go the selection finds none.

For the drivers: one fault is what a retry is for and two what it cannot mend; a second request follows a failed one. Two bits is what
the NAND's code can tell. Buffers of three pages and more packets than a descriptor holds cut a transfer in the middle. For the
file servers: a tree of two levels makes the deletion call itself, one power cut lies
between any two of its steps; a name of several rows does not fit every gap; a second safe write meets the remains of the first.
For the console: two starts make what is left of one show in the next; a disc that is larger than `Split` has two parts and a read may fail `MaxRetry` times.

Deadlock is checked in every `FFS` and ES run: the server always accepts a message. The four
runs of several components say `CHECK_DEADLOCK FALSE`: their calls are bounded, a title that runs, a boot loader that ended
and a console without power are where the system rests.

Fairness. In each run it is asked of the thread that is at work, as nothing else runs in it, and of
hardware the driver waits for without a time-out of its own; nothing is asked of clients, faults, power cuts or
users, but for what a line below says.

| Run | Weak fairness of |
|---|---|
| `ffs_shared` | `Work`, the rounds of the loop that is running |
| `es_install` | ES's thread (`EsWork`) and the installer, which tries again for as long as it has work |
| `files` | the tree server's thread (`TreeFair`), the server of UNEEK and the clients' taking their answers, the start of the server (`f_mount`, `StartCalls`), the recursion of `FS_GetUsage` and `FS_ReadDir` (`ListServes`) |
| `drivers` | the SD driver and its hardware (which interrupts or times out), `Boot2Load` and the NAND chip's `PageRead`, `UsbDriver`, `UrbDriver`, `Discovers` |
| `console` | `ES_BootSystem`, `ESP_DIVerify`, `DumpDoTick` (the timer goes on), the loop of ES, the System Menu's loading; strong fairness of the SD slot's driver, whose polls take their turn with other clients' requests |

### Findings

* **`es_known`**: `ES_AddTitleFinish` starts with `ES_FATAL` as its result and a shared content
  that is installed already does not change it ("content already in shared1,
  move on"). A title of which all contents are such ends with `ES_FATAL` and
  without a TMD; for the same reason an import that was cut off just before the
  TMD was moved succeeds the second time only if it has a private content.
* **`dip_full`**: with a full `FHandle` table `DVDOpen` returns `FR_DISK_ERR`, which is 1, and its
  callers take that for a handle. Selecting games fills the table, as it forgets
  the files of the cache.

Found while a proof was attempted; the property or the hypothesis says so now:

* A selection that finds no game at all (`dip.c:430`) sets `GamePath` but leaves `ApploaderSize` as the game before had it. When
  that game's directory comes back, reads of it go to the wrong file by the old size. `AreaRight` leaves out an empty list (`listed # {}`).
* `ReadRight` needs that games on the SD card are no Wii games (`SDHasGC`): a Wii game
  there is read through a partition, with offsets that a GameCube game's table is not meant for.
* ES keeps a private content that is there without comparing its data, so an ID must mean the same data in all TMDs
  of a title (`IdNamesData`); an optional shared content that was skipped as the last of a TMD leaves its error as the result,
  and the TMD is not moved (`Ordinary`).
* A failing write moves a torn TMD, and a failing rename onto a file loses it: `InstalledRight` holds while no file operation failed.
* `ExtractFile` computes the place of a cluster in 32 bits (`div * 0x8000`, `Dump.c:55`): a file whose encrypted place is 4 GiB
  or more into the partition is read from elsewhere. `DumpIsRight` is proved for discs whose files are below that (`InReach`).
* A transfer of more pieces than the controller's memory has descriptors for stops in `BUG_ON` of `ehci_mem.c`: `TransferIsRight` asks
  that buffers fit (`BuffersFit`).

Read in the code and not run:

* `fs/FS.c:666` says that `SEEK_CUR` and `SEEK_END` out of the file return −101; the code adds in 32 bits and `f_lseek` clips. `FS_Move` of a file onto
  itself, or a case variant of its name, deletes it (`fs/FS.c:792`).
* `fs/diskio.c:30`: `disk_status` never says `STA_NOINIT`, so an exchanged card is never mounted again. In the polled build a data transfer that ended with an error or a time-out is reported as done (`fs/sdhc.c:483`). `StopTransmission` answers −1.
* FFS-USB: `GETUSAGE` has a canned answer for `/title/00010001` only; `FS_GetUsage` leaks a block when `f_opendir` fails and takes a failing `f_readdir` for the end of the directory; the results of the start's calls are ignored, so a failed first mount leaves `/tmp` as it was; `f_readdir` drops the last entry of a directory that exactly fills its clusters. Removing a file by its short alias leaves the rows of its long name.
* ES: `ES_DIGetStoredTMDSize` leaks a handle (2695); `ExportTitleDone` frees `iTMD` without resetting it (2807); `ES_AddContentFinish` without a ticket frees it as well (1939); the early return of `ES_AddTitleFinish` frees the global `path` (2023); `AddTitleStart` and `ExportTitleInit` overwrite a live one; `ExportContentBegin` takes a content's ID for its place (2774); lists ignore the length of the client's buffer (2331); deleting or adding tickets does not mark lists as out of date (2812); a list asked for before its count is cut (1647).
* ES: `SMenuFindOffsets` loops for ever when the menu's code is not found (`SMenu.c:149`), which makes the failure branch of `main.c:142` dead; a failed raw write of an SD sector is answered 1; raw sectors go past FatFs's window; the queue of ES holds one message (`ES.c:59`).
* `Config.c`: `setting.txt` is lost when an open fails after the text was encrypted in place; `Config_UpdateSysconf` is commented out; `Config_SettingsFlush` frees `SysconfBuf` at each call.
* DI: `DVD_GET_ERROR` is excepted from the clearing of the error by a comparison with the IPC number, so that every success clears it (`dip.c:1581`); an eject while a change is pending is undone by the next read of the cover; `DVD_RESET` clears the no-disc bit; a failed `DVD_OPEN_PARTITION` leaves the new size with the old partition; an unknown offset of a raw read hangs DI (1218); `str` is freed twice (1176); each opened partition leaks `hashes` (1635); `FSTable` is set to whatever piece of `fst.bin` is read first (993); when the first game of the list has no `boot.bin`, `DVDSelectGame` calls itself without end.

## 4. Proofs

The theorems hold for every value of the constants that the named assumptions allow. A proof of an invariant has the usual
form: an inductive strengthening, a lemma per action, and a last step by temporal logic.

**`FFSProofs`** (any number of names, handles, clusters and entries, any word size, every fault; `FFSAssumption`):

* `TypeCorrect`: `TypeOK` is inductive.
* `NoCycle`: `ChainsEnd`. Every non-empty set of clusters has a member whose
  successor is outside the set. Only `create_chain` adds a link, to a cluster that was free (`CreateChainEnds`);
  setting an entry to free or end of chain removes links only (`CutChainEnds`).
* `PositionSafe`: `PositionInFile`. Strengthened by `PositionInv`: the position of the running request plus what is `left` of it
  stays within the size, a write in progress excepted, as its end brings the size up to the position.
* `VolumeSafe`: `VolumeSound`, with failing transfers in every operation, `f_rename` included. `VolumeInv` counts references: as long as no file was shared and no rename failed between its halves (`OneOwner`), each
  cluster is referred to at most once by entries, open files, links and the running removal (`Referred`), a free
  cluster by none (`FreeEntries`), handles agree with entries (`HandlesFit`, `WritersAlone`, `RequestFits`); as long as no transfer failed,
  every marked cluster is reached from an entry or a file (`Reached`, `FreshMarked`). Every step keeps the references, adds one (`create_chain`), or replaces one by
  another. This needs no induction along chains.
* `Refinement`: `Spec => StoreSpec` for `Faults = {}`, the use for which FatFs is built: no file is shared with a writer, none is deleted or renamed while
  open, no transfer fails (what holds otherwise is the theorems above). The invariant `PathsInv` says what the driver's table, its entries and its
  file objects have to do with each other: there is a path, a sequence of clusters, for each entry and one for `remove_chain`; each is a whole chain of the
  table; no cluster is on two (`Chained`); an entry has its first cluster and its length (`EntriesOf`) unless a writer has the file, whose
  object has them (`HandlesOf`), with the current cluster at its place; `req.clst` is the first of what is left to free (`RemovalOf`). `Saved`: only a
  marked file differs from its entry, so that closing changes nothing. The walk of `Contents` finds the path (`ContentsRight`, the one
  induction, by `NatInduct`), so that the mapping of `FFSRefines` speaks of paths (`FilesRight`), and a step is proved by giving the paths after it: the
  same, one longer by a free cluster (`PathGrows`), one shorter (`PathShrinks`), one with another owner (`PathMoves`). The loops of `f_read` and
  `f_write` are one `Get` or `Put` per round; those of `f_lseek` and `remove_chain`, and a card that is full, are steps the client does not see.

**`ESProofs`** (any titles, contents, hashes and TMDs, free clients, any failing operation, power cuts at any step; `ESAssumption`):
`TypeCorrect`, with `RequestOK` (which request has which arguments) and `CommitOK`; `EntriesBacked`, `EntriesDistinct` and
`MapSound` (`MapRight`: a file of `/shared1` is moved or removed at the number `Len(map)` only; `CNTMap` is `Dirty` or equal to
`content.map`, and between check and entry the map does not have the hash); `SharedKept`, `UidsKept`, `SharedNeverLost` (`NothingLost`);
`TmdMovedLast` (`CommitLast`: the loop at content `i` has placed all mandatory private contents before `i`).

**`TitleProofs`**: `InstallSound`, `TitlesComplete`, `ListsSound`, `ListsFit`.
The invariant `Sound` says what each step of the installer knows of `/tmp` and of `iTMD`: nothing of another import is there (`Quiet`), the files are of
this import (`Own`, `Untouched`), the data was compared with the hash (`AllGenuine`), the contents handed over so far are there
(`ProvidedTo`) and those placed so far are in place (`PlacedTo`). Hypotheses: no operation failed (above); `EmptyLoads`, a heap that returns a block of size 0,
or else a power cut after the creation of `uid.sys` blocks every later import; `IdNamesData` and `Ordinary` (findings). `TitlesComplete` needs fewer. `ListsFit` holds with
failing operations, from a first `uid.sys` without repetitions: `UidOnce`, `Cached`, `ToldOK`; `NoneLeftOut` is what
`ListsSound` adds while none failed. TLC evaluates `OrdinaryJobs` on the instance of `es_install`.

**`GamesProofs`**:
`DITypes`, strengthened by `HandlesFit` (no table has more handles in use than it has) and `ConfigKept`;
`StoredSafe` (`StoredInv`: modes, a list in memory that is the one in the file, as many names as there are games, each selected game reachable; hypothesis `GamesOnce`, no game is on both disks);
`SelectionEnds` (`EndsInv`: the second call is with slot 0 and a list that is `/games`; hypothesis `FirstBoots`, the first game of each disk has a `boot.bin`);
`ReadSafe` (`ReadInv`: cached files are of the selected game's table and were opened where the game is; hypotheses `SDHasGC`, `FilesApart`: files do not overlap on the disc);
`DriveSafe` (`DriveInv`: header, ID and partition are known by the game they came from, and `ApploaderSize` is that of the selected game while a game is listed);
`MenuSafe` (`SMInv`: cursor, cover and settings, proved along the chain of branches of `SMenuReadPad`).
The hypotheses are evaluated by TLC on the instance of `games` (`GamesHypotheses`).

**`ConsoleProofs`**: `MenuAlwaysRuns`, `ChannelsListed`, `RegionSafe`, `LaunchSafe`, `AskedRuns`, `NeverOlder` (two action properties),
`DumpSafe`, `DumpIsRight`, `ContentSafe`. Invariants: `ChannelsInv` (the list differs from the channels only if some came and some went), `ConfigInv`,
`LaunchInv` (`UsedUp`: a request that was read is deleted or about to be, unless that failed; `UidFits`: UID and title agree but in the steps of `ES_DIVerify` and after `parted`; `OnTheWay`: what is being loaded is what was
asked for, unless `amiss`; `RunsBehind`), `DumpInv` (`ReadSoFar`), `ContentInv` (which handle is whose, what the copy of `content.map` knows).
`DumpIsRight` adds to the image the files (`FilesInv`: as many are there as were counted, none from a later place of the table, each with its
own bytes, so that all are there when all were counted) and the loop over clusters of `ExtractFile`, a recursive function, about which
facts are proved by induction over a set (`NatInduct`). Its hypothesis `InReach` is the finding above.

**`FilesProofs`**: `MountSafe` (`MountRight`), for any boot record that passes `check_fs`. `ClientsAreRight` (`ClientsRight`) and `DstIsThere` (`DstThere`): any
paths, slots, lengths, number of messages on the way and power cuts. `ClientsInv` says of the server's table which slots are of which file (`TableInv`), of each
message on the way or answered that its sender waits for it and of what it can answer (`QueueInv`, `WaitInv`: at most one per client), that no slot is
of two clients (`Apart`, `Owned`), and of each client in the middle of a protocol what it has got so far: `EsCall`, `EsDisk` and `EsSlot` for the
safe write (what is on the disk under both names at each of its messages), `DiCall`, `DiSlots` for `DVDOpen` with the slot kept in
`HAXHandle`, `GameCall`, `GameSlots`. `ListingIsRight` (`ListingRight`): any tree, entries per cluster and failing reads. `UsageGoes` says that the
calls of `FS_GetUsage` are for directories that another call has come upon, no two for the same one (so there are no more than
entries, `CallsAreFew`), and that what they have gone over was counted once each: a call reads what it has not gone over, and no directory
is below itself. `ReachesAll` and `Lengths` unfold the recursive functions of `AllBelow` and of the community modules' sum.

**`DriversProofs`**, for whatever the hardware does:

* `SDCardIsRight` (`CardRight`). `LineInv`: while no command was given up that was not over, an interrupt is of the command at work, and a last one
  leaves the line free. With `CommandInv`, `PowerInv` it gives `DoneIsDone`: who sees `TRANSFER` has transferred, which the build of mini waits for; the polled build goes on without, and that is what `unheard` leaves out.
* `USBStorageIsRight` (`StorageRight`). `ToggleInv`: toggles of driver and unit agree but in the resets; `JobInv`, `UnitInv`, `SyncInv` and
  `OverInv`: in which phase the unit is when the driver waits for data or status, and that after a reset both begin anew; `FoundInv`, `TriedInv`: what mounting left behind.
* `BootIsRight` (`BootRight`), any chip, width and map. `PageInv`: what `nand_wait` returned is the page with its flips mended, by the syndrome:
  a single flipped bit gives its own address twice, two are told from it (`Width > 2`). `MapInv`: the newest valid map of those looked at;
  `LoadInv`: `read_to` has copied the pages before. `boot2_blocks`, a loop over the map, is treated by induction.
* `TransferIsRight` (`TransferRight`), any packet and page size, any buffers that fit. `OrderInv`: the controller has done a first part of
  the descriptors and nothing of the rest; `GoneInv`: where it may be after a stop; `MovedInv`: what was moved is what the descriptors say,
  so that the length `qh_urb_transaction` computes is the one that was moved; `TogInv`: the toggle, as long as nothing strayed. `QueueCovers`
  (`PiecesRight`) needs that all pieces but the last are whole packets of at least four pages.

**`Counting`** has the lemmas on cardinalities the others use: the elements of a sequence without repetitions, prefixes (`CountFirst`), and sets
that differ by one element. Its induction over the naturals, `NatInduct`, is stated for sets and goes through their least elements (`Least`), as an induction theorem with an operator parameter cannot be cited.

What stays with TLC, and why:

* Everything that must happen (`RequestAnswered`, `ImportsFinish`, `FilesEnd`, `DriversEnd`, the liveness in `ConsoleRuns`): liveness under fairness is out of the prover's reach.
* `TreeRight`, `WindowRight` and `StepsKeep` but for `DstThere`: `FSTree` and `FatWindow` are written with folds and recursive
  operators over volumes and logs, of which the prover knows nothing; what those compute is an induction over data.
* `NamesRight`: `create_name` and the numbering are computed on strings by recursion and `SelectSeq`.

What the theorems assume. Each named assumption on constants (`FFSAssumption`, `ESAssumption`, `FSUSBAssumption`,
`FSClientsAssumption`, `SDAssumption`, `USBStorageAssumption`, `BootAssumption`, `EHCIAssumption`, `DumpAssumption`, …) stands in the module of the constants, and
TLC evaluates it on the instance of each run. They give types; beyond those: an error of FFS-USB is a number that is no slot (`Full`); a
bulk length is counted modulo `LengthWord > 1`; `BootAssumption` asks that a read flips at most two bits, which is what the NAND's code can
tell, and that boot2 has fewer than `PageWord` pages, as `pages_read` is a `u8` and the buffer has 256; `EHCIAssumption` that a page is made of whole packets;
`TreesAssumption` that the trees the questions begin with are trees: each entry in the root or in a directory, none below itself.

## 5. Not modelled

The component list in `PROJECT.json` gives the reason for each part. In short:

* drawing, formatting, patching of code and executables, keys and signatures: straight-line computation without state of its own;
* mini's IPC and PowerPC start: commented out in its `main()`; the cheat menu (`CHEATMENU`) is compiled out;
* register-level hardware access where no answer depends on an order;
* FAT12 packing, time stamps, `f_mkfs` and FatFs functions no server calls; the copy of FatFs in mini, which loads one file;
* calls of ES that answer a constant or copy a view (`ES.c` 2398–2578), SYSCONF, which is changed in memory only;
* of DI: patches of executables and of the BCA, hashes of a rebuilt partition, and games that are on both disks;
* undefined behaviour after a use of freed memory: the model stops there (`pathFreed`, `strayed`) or the call is left out.

