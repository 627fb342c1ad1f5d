--------------------------------- MODULE FSUSB ---------------------------------
(***************************************************************************)
(* The file server of UNEEK (fs-usb/FS.c, fs-usb/main.c): one thread that  *)
(* works off one message at a time from a queue in which those of ES, of   *)
(* DI and of the game mix.  The power may go off between two steps; a      *)
(* rename onto a file that is there takes two.                             *)
(*                                                                         *)
(* A file is the version of its content and its length.  What two handles  *)
(* on one file do to its clusters is the matter of FFS, and directories    *)
(* are that of FSTree.                                                     *)
(***************************************************************************)
EXTENDS Integers, Sequences, FiniteSets, FiniteSetsExt

CONSTANTS
  Paths,        \* the files
  Tmp,          \* those of them in /tmp
  MAX_FILE,     \* slots of fd_stack
  Width,        \* values of an offset, 2^32
  Capacity,     \* units of data the disk can hold
  Full          \* length of a whole file

ASSUME FSUSBAssumption ==
  /\ Tmp \subseteq Paths
  /\ MAX_FILE \in Nat \ {0} /\ Full \in 1 .. Width - 1
  /\ Width \in Nat /\ Capacity \in 1 .. Width - 1

Clients == {"es", "di", "game"}
Slots   == 0 .. MAX_FILE - 1

FS_SUCCESS    == 0
FS_EINVAL     == -4
FS_EFATAL     == -101
FS_EACCESS    == -102
FS_EEXIST2    == -105
FS_ENOENT2    == -106
FS_NO_HANDLE  == -109

VARIABLES
  disk,       \* the files
  fd_stack,   \* the open files
  HAXHandle,  \* the handle of "/AX"
  queue,      \* messages that wait for the server
  work,       \* the message it works on, when that takes more than one step
  reply,      \* what each client was answered and has not seen yet
  cut         \* history: the power went off in a rename

fsvars == <<disk, fd_stack, HAXHandle, queue, work, reply, cut>>

Missing == [ver |-> -1, len |-> 0]
Empty   == [ver |-> 0, len |-> 0]
NoFIL   == [fs |-> FALSE, path |-> "none", mode |-> {}, fptr |-> 0, fsize |-> 0,
            ver |-> 0, dirty |-> FALSE]
NoMsg   == [from |-> "none", op |-> "none", path |-> "none", to |-> "none", mode |-> {},
            fd |-> 0, n |-> 0, whence |-> 0]
NoReply == [is |-> FALSE, ret |-> 0]
Answered(r) == [is |-> TRUE, ret |-> r]

Exists(p) == disk[p] # Missing
Lower(a, b)  == IF a < b THEN a ELSE b
Higher(a, b) == IF a > b THEN a ELSE b

\* Units in use: those of the open files that grew are not in the directory yet.
Growth(f) == IF f.fs THEN Higher(0, f.fsize - disk[f.path].len) ELSE 0
Used == MapThenSumSet(LAMBDA p : disk[p].len, Paths)
        + MapThenSumSet(LAMBDA s : Growth(fd_stack[s]), Slots)
Room == Higher(0, Capacity - Used)

-----------------------------------------------------------------------------
(***************************************************************************)
(* Answers: each takes the disk, the table and HAXHandle to their next     *)
(* values.                                                                 *)
(***************************************************************************)

\* mqueue_ack.
Ack(m, r) == reply' = [reply EXCEPT ![m.from] = Answered(r)]

Same == UNCHANGED <<disk, fd_stack, HAXHandle>>
Only(m, r) == Ack(m, r) /\ Same

FreeSlot(s) == ~ fd_stack[s].fs /\ \A t \in 0 .. s - 1 : fd_stack[t].fs

Opened(p, mode, f) ==
  [fs |-> TRUE, path |-> p, mode |-> mode, fptr |-> 0, fsize |-> f.len, ver |-> f.ver,
   dirty |-> "CREATE" \in mode]

\* FS_Open of a file; r is the handle or the error.
FS_Open(p, mode, r) ==
  \/ /\ \A s \in Slots : fd_stack[s].fs
     /\ r = FS_NO_HANDLE /\ UNCHANGED <<disk, fd_stack>>
  \/ /\ r \in Slots /\ FreeSlot(r)
     /\ "CREATE" \in mode \/ Exists(p)
     /\ disk' = IF "CREATE" \in mode THEN [disk EXCEPT ![p] = Empty] ELSE disk
     /\ fd_stack' = [fd_stack EXCEPT ![r] = Opened(p, mode, disk'[p])]
  \/ /\ \E s \in Slots : FreeSlot(s)
     /\ ~ ("CREATE" \in mode \/ Exists(p))
     /\ r = FS_ENOENT2 /\ UNCHANGED <<disk, fd_stack>>

Results == Slots \cup {FS_NO_HANDLE, FS_ENOENT2}

IOS_OPEN(m) ==
  /\ m.op = "open"
  /\ \E r \in Results : FS_Open(m.path, m.mode, r) /\ Ack(m, r)
  /\ UNCHANGED HAXHandle

\* The path of ioctlv 0x60 is opened like any other.
HaxOpen(m) ==
  /\ m.op = "hax"
  /\ \E r \in Results : FS_Open(m.path, m.mode, r) /\ Ack(m, r) /\ HAXHandle' = r

HaxHandle(m) == m.op = "ax" /\ Only(m, HAXHandle)

FS_CheckHandle(fd) == fd \in Slots /\ fd_stack[fd].fs

\* f_sync writes the size into the directory entry, if that is still there.
Synced(f) ==
  IF f.dirty /\ Exists(f.path)
  THEN [disk EXCEPT ![f.path] = [ver |-> f.ver, len |-> f.fsize]] ELSE disk

FS_Close(m) ==
  /\ m.op = "close" /\ FS_CheckHandle(m.fd)
  /\ disk' = Synced(fd_stack[m.fd])
  /\ fd_stack' = [fd_stack EXCEPT ![m.fd] = NoFIL]
  /\ Ack(m, FS_SUCCESS) /\ UNCHANGED HAXHandle

BadHandle(m) ==
  /\ m.op \in {"close", "read", "write", "seek", "stats"}
  /\ ~ FS_CheckHandle(m.fd)
  /\ Only(m, FS_EINVAL)

\* A full disk ends f_write early, without an error.
FS_Write(m) ==
  /\ m.op = "write" /\ FS_CheckHandle(m.fd)
  /\ LET f == fd_stack[m.fd]
         wrote == Lower(m.n, (f.fsize - f.fptr) + Room)
     IN  IF "WRITE" \notin f.mode THEN Only(m, FS_EACCESS)
         ELSE /\ fd_stack' = [fd_stack EXCEPT ![m.fd] =
                   [f EXCEPT !.fptr = @ + wrote, !.fsize = Higher(@, f.fptr + wrote),
                             !.ver = m.whence, !.dirty = TRUE]]
              /\ Ack(m, wrote)
              /\ UNCHANGED <<disk, HAXHandle>>

FS_Read(m) ==
  /\ m.op = "read" /\ FS_CheckHandle(m.fd)
  /\ LET f == fd_stack[m.fd]
         read == Lower(m.n, f.fsize - f.fptr)
     IN  IF "READ" \notin f.mode THEN Only(m, FS_EACCESS)
         ELSE /\ fd_stack' = [fd_stack EXCEPT ![m.fd].fptr = @ + read]
              /\ Ack(m, read)
              /\ UNCHANGED <<disk, HAXHandle>>

\* f_lseek clips the offset to the size, for writing too.
f_lseek(s, ofs) == [fd_stack[s] EXCEPT !.fptr = Lower(ofs, fd_stack[s].fsize)]

\* The sum is 32 bits wide; only SEEK_SET is compared with the size.
FS_Seek(m) ==
  /\ m.op = "seek" /\ FS_CheckHandle(m.fd)
  /\ LET f == fd_stack[m.fd]
         base == CASE m.whence = 0 -> 0 [] m.whence = 1 -> f.fptr [] OTHER -> f.fsize
         ofs == (m.n + base) % Width
     IN  IF m.whence = 0 /\ ofs > f.fsize THEN Only(m, FS_EFATAL)
         ELSE /\ fd_stack' = [fd_stack EXCEPT ![m.fd] = f_lseek(m.fd, ofs)]
              /\ Ack(m, f_lseek(m.fd, ofs).fptr)
              /\ UNCHANGED <<disk, HAXHandle>>

FS_GetStats(m) ==
  m.op = "stats" /\ FS_CheckHandle(m.fd) /\ Only(m, fd_stack[m.fd].fsize)

FS_CreateFile(m) ==
  /\ m.op = "create"
  /\ IF Exists(m.path) THEN Only(m, FS_EEXIST2)
     ELSE /\ disk' = [disk EXCEPT ![m.path] = Empty]
          /\ Ack(m, FS_SUCCESS) /\ UNCHANGED <<fd_stack, HAXHandle>>

FS_DeleteFile(m) ==
  /\ m.op = "delete"
  /\ IF ~ Exists(m.path) THEN Only(m, FS_ENOENT2)
     ELSE /\ disk' = [disk EXCEPT ![m.path] = Missing]
          /\ Ack(m, FS_SUCCESS) /\ UNCHANGED <<fd_stack, HAXHandle>>

\* f_rename of a file onto a name that is not in use.
Renamed(p, q) == [disk EXCEPT ![q] = disk[p], ![p] = Missing]

FS_Move(m) ==
  /\ m.op = "move" /\ ~ (Exists(m.path) /\ Exists(m.to))
  /\ IF ~ Exists(m.path) THEN Only(m, FS_ENOENT2)
     ELSE /\ disk' = Renamed(m.path, m.to)
          /\ Ack(m, FS_SUCCESS) /\ UNCHANGED <<fd_stack, HAXHandle>>

\* What FFS_Ioctl answers without a look at the disk: IOCTL_IS_USB.
IsUSB(m) == m.op = "isusb" /\ Only(m, FS_SUCCESS)

-----------------------------------------------------------------------------
(***************************************************************************)
(* The message loop.                                                       *)
(***************************************************************************)

Head1 == queue[1]

\* _main: a message is received, worked off and answered.
Serve ==
  /\ work = NoMsg /\ queue # <<>>
  /\ \/ IOS_OPEN(Head1) \/ HaxOpen(Head1) \/ HaxHandle(Head1)
     \/ FS_Close(Head1) \/ BadHandle(Head1)
     \/ FS_Write(Head1) \/ FS_Read(Head1) \/ FS_Seek(Head1) \/ FS_GetStats(Head1)
     \/ FS_CreateFile(Head1) \/ FS_DeleteFile(Head1) \/ FS_Move(Head1) \/ IsUSB(Head1)
  /\ queue' = Tail(queue)
  /\ UNCHANGED <<work, cut>>

\* FR_EXIST: the target is deleted, and then the file renamed again.
MoveUnlinks ==
  /\ work = NoMsg /\ queue # <<>>
  /\ Head1.op = "move" /\ Exists(Head1.path) /\ Exists(Head1.to)
  /\ disk' = [disk EXCEPT ![Head1.to] = Missing]
  /\ work' = Head1 /\ queue' = Tail(queue)
  /\ UNCHANGED <<fd_stack, HAXHandle, reply, cut>>

MoveRenames ==
  /\ work # NoMsg
  /\ IF Exists(work.path)
     THEN disk' = Renamed(work.path, work.to) /\ Ack(work, FS_SUCCESS)
     ELSE UNCHANGED disk /\ Ack(work, FS_EFATAL)
  /\ work' = NoMsg
  /\ UNCHANGED <<fd_stack, HAXHandle, queue, cut>>

FSServer == Serve \/ MoveUnlinks \/ MoveRenames

\* _main deletes what is in /tmp before it receives a message.
CleanUp(d) == [p \in Paths |-> IF p \in Tmp THEN Missing ELSE d[p]]

Restarted ==
  /\ disk' = CleanUp(disk)
  /\ fd_stack' = [s \in Slots |-> NoFIL] /\ HAXHandle' = 0
  /\ queue' = <<>> /\ work' = NoMsg /\ reply' = [c \in Clients |-> NoReply]
  /\ cut' = (cut \/ work # NoMsg)

FSInit ==
  /\ disk \in {d \in [Paths -> {Missing, [ver |-> 0, len |-> Full]}] :
                 \A p \in Tmp : d[p] = Missing}
  /\ fd_stack = [s \in Slots |-> NoFIL] /\ HAXHandle = 0
  /\ queue = <<>> /\ work = NoMsg /\ reply = [c \in Clients |-> NoReply]
  /\ cut = FALSE

-----------------------------------------------------------------------------
\* A client's message, and the answer it sees.
Asks(c, m) == queue' = Append(queue, [m EXCEPT !.from = c])
Seen(c) == reply' = [reply EXCEPT ![c] = NoReply]
===============================================================================
