--------------------------------- MODULE FFS ---------------------------------
(***************************************************************************)
(* The file server of FFS-SD (fs/FS.c) on top of its FAT driver (fs/ff.c): *)
(* the table of open files fd_stack, the files of one directory, and the   *)
(* cluster allocation table they share.                                    *)
(*                                                                         *)
(* One unit of data is one cluster of one sector, so a file of size n owns *)
(* a chain of n clusters.  The server is one thread that works off one IPC *)
(* message at a time (fs/main.c, the mqueue_recv loop).  A request whose   *)
(* handler loops over clusters (f_read, f_write, f_lseek, remove_chain) is *)
(* kept in `req' while it runs and takes one step per round of the loop;   *)
(* every other request is one step.                                        *)
(*                                                                         *)
(* FatFs is built without file locks.  `faults' is a history variable that *)
(* records what the driver relies on and does not enforce: "share", a file *)
(* was opened twice with a writer among the two, or deleted or renamed     *)
(* while open; "io", an SD transfer failed; "twin", it failed in f_rename  *)
(* between the two halves, so that two entries now name one chain.         *)
(***************************************************************************)
EXTENDS Integers, Sequences

CONSTANTS
  Names,      \* paths of the files the clients use
  NoName,     \* the name of a directory entry that is not in use
  Vals,       \* contents of a cluster
  MAX_FILE,   \* slots of fd_stack (20 in the code)
  MaxClust,   \* fs->max_clust: clusters are 2 .. MaxClust - 1
  DirSize,    \* entries of the directory
  Word,       \* 2^32 in the code: lengths and offsets are taken modulo Word
  Modes,      \* access modes of open requests
  Lengths,    \* lengths of read requests
  Buffers,    \* data of write requests
  Offsets,    \* offsets of seek requests (s32)
  Faults      \* the faults the environment may commit

ASSUME FFSAssumption ==
  /\ NoName \notin Names
  /\ Vals # {}
  /\ MAX_FILE \in Nat \ {0}
  /\ MaxClust \in Nat /\ MaxClust > 2
  /\ DirSize \in Nat \ {0}
  /\ Word \in Nat /\ Word > MaxClust - 2
  /\ Modes \subseteq SUBSET {"READ", "WRITE"}
  /\ Lengths \subseteq Nat
  /\ Buffers \subseteq Seq(Vals)
  /\ Offsets \subseteq Int
  /\ Faults \subseteq {"share", "io", "twin"}

VARIABLES
  fat,        \* the allocation table: 0 is free, EOC ends a chain
  data,       \* what the clusters hold
  dir,        \* the directory entries
  fd_stack,   \* the open files
  req,        \* the request whose handler is in one of its loops
  reply,      \* the last acknowledgement, NoReply while a loop runs
  faults      \* history of faults

vars == <<fat, data, dir, fd_stack, req, reply, faults>>

-----------------------------------------------------------------------------
Fds      == 0 .. MAX_FILE - 1
Clusters == 2 .. MaxClust - 1
EOC      == MaxClust              \* 0x0FFFFFFF, or any value >= max_clust
BadClust == MaxClust + 1          \* 0xFFFFFFFF, create_chain's disk error
Slots    == 1 .. DirSize

FS_SUCCESS    == 0
FS_INVALID    == -4
FS_FATAL      == -101
FS_NO_ACCESS  == -102
FS_FILE_EXIST == -105
FS_NO_ENTRY   == -106
FS_NO_HANDLE  == -109

\* FIL: `ent' is the directory entry dir_sect and dir_ptr point to, and fs = 0
\* marks a slot of fd_stack that is not in use.
Flags == {"READ", "WRITE", "WRITTEN", "ERROR"}
FIL == [fs : {0, 1}, ent : 0 .. DirSize, flag : SUBSET Flags,
        fptr : Nat, fsize : Nat, org : 0 .. BadClust, curr : 0 .. BadClust]
NoFile == [fs |-> 0, ent |-> 0, flag |-> {}, fptr |-> 0, fsize |-> 0,
           org |-> 0, curr |-> 0]

Entry == [name : Names \cup {NoName}, clust : 0 .. BadClust, size : Nat]
NoEntry == [name |-> NoName, clust |-> 0, size |-> 0]

Loops == {"read", "write", "seek", "delete", "move"}
Request == [op : Loops \cup {"idle"}, fd : Fds, left : Nat, done : Nat,
            clst : 0 .. BadClust, buf : Seq(Vals),
            src : Names \cup {NoName}, dst : Names \cup {NoName}]
Idle == [op |-> "idle", fd |-> 0, left |-> 0, done |-> 0, clst |-> 0,
         buf |-> <<>>, src |-> NoName, dst |-> NoName]

Ops == Loops \cup {"none", "open", "close", "create"}
Reply == [op : Ops, ret : Int, buf : Seq(Vals)]
NoReply == [op |-> "none", ret |-> 0, buf |-> <<>>]

Smaller(m, n) == IF m < n THEN m ELSE n
Larger(m, n)  == IF m > n THEN m ELSE n

\* get_cluster: 1 when the cluster number is out of range.
get_cluster(c) == IF c \in Clusters THEN fat[c] ELSE 1

EntryOf(n) == {s \in Slots : dir[s].name = n}
Exists(n)  == EntryOf(n) # {}
Users(s)   == {f \in Fds : fd_stack[f].fs = 1 /\ fd_stack[f].ent = s}

\* dir_register takes the first entry that is not in use.
FreeEntry(s) == /\ dir[s].name = NoName
                /\ \A t \in Slots : t < s => dir[t].name # NoName
DirFull == \A s \in Slots : dir[s].name # NoName

Answer(op, ret, buf) ==
  /\ reply' = [op |-> op, ret |-> ret, buf |-> buf]
  /\ req' = Idle

\* The handler enters its loop with request r.
Start(r) == req' = r /\ reply' = NoReply

Fail(fault) == fault \in Faults /\ faults' = faults \cup {fault}

\* A step that uses a file somebody else has open, when `conflict' holds.
MayShare(conflict) ==
  IF conflict THEN Fail("share") ELSE faults' = faults

Init ==
  /\ fat = [c \in Clusters |-> 0]
  /\ data \in [Clusters -> Vals]
  /\ dir = [s \in Slots |-> NoEntry]
  /\ fd_stack = [f \in Fds |-> NoFile]
  /\ req = Idle
  /\ reply = NoReply
  /\ faults = {}

-----------------------------------------------------------------------------
(***************************************************************************)
(* Opening, creating and closing.                                          *)
(***************************************************************************)

\* The first slot of fd_stack that is not in use.
FreeHandle(f) == /\ fd_stack[f].fs = 0
                 /\ \A g \in Fds : g < f => fd_stack[g].fs = 1

\* The end of f_open: the file object is filled from the directory entry.
Opened(f, s, flag, e) ==
  fd_stack' = [fd_stack EXCEPT ![f] =
    [fs |-> 1, ent |-> s, flag |-> flag, fptr |-> 0, fsize |-> e.size,
     org |-> e.clust, curr |-> 0]]

FS_Open_Found(n, mode) ==
  \E f \in Fds, s \in EntryOf(n) :
    /\ FreeHandle(f)
    /\ MayShare(\E g \in Users(s) : "WRITE" \in mode \cup fd_stack[g].flag)
    /\ Opened(f, s, mode, dir[s])
    /\ Answer("open", f, <<>>)
    /\ UNCHANGED <<fat, data, dir>>

\* FR_NO_FILE: FS_NO_ENTRY, unless the game is NMH2; then the file is created.
FS_Open_Missing(n, mode, nmh2) ==
  /\ ~ Exists(n)
  /\ \E f \in Fds : FreeHandle(f) /\
       IF nmh2 /\ ~ DirFull
       THEN \E s \in Slots :
              /\ FreeEntry(s)
              /\ dir' = [dir EXCEPT ![s] = [NoEntry EXCEPT !.name = n]]
              /\ Opened(f, s, mode \cup {"WRITTEN"}, NoEntry)
              /\ Answer("open", f, <<>>)
       ELSE /\ Answer("open", FS_NO_ENTRY, <<>>)
            /\ UNCHANGED <<dir, fd_stack>>
  /\ UNCHANGED <<fat, data, faults>>

FS_Open_NoHandle ==
  /\ \A f \in Fds : fd_stack[f].fs = 1
  /\ Answer("open", FS_NO_HANDLE, <<>>)
  /\ UNCHANGED <<fat, data, dir, fd_stack, faults>>

FS_Open(n, mode, nmh2) ==
  \/ FS_Open_Found(n, mode)
  \/ FS_Open_Missing(n, mode, nmh2)
  \/ FS_Open_NoHandle

FS_CreateFile(n) ==
  /\ IF Exists(n)
     THEN Answer("create", FS_FILE_EXIST, <<>>) /\ UNCHANGED dir
     ELSE IF DirFull
     THEN Answer("create", FS_FATAL, <<>>) /\ UNCHANGED dir
     ELSE \E s \in Slots :
            /\ FreeEntry(s)
            /\ dir' = [dir EXCEPT ![s] = [NoEntry EXCEPT !.name = n]]
            /\ Answer("create", FS_SUCCESS, <<>>)
  /\ UNCHANGED <<fat, data, fd_stack, faults>>

\* Mutant of f_sync: the start cluster is not saved.
f_sync_size_only(h) ==
  IF "WRITTEN" \in h.flag /\ dir[h.ent].name # NoName
  THEN dir' = [dir EXCEPT ![h.ent].size = h.fsize]
  ELSE dir' = dir

\* Mutant of f_sync: the size is not saved.
f_sync_clust_only(h) ==
  IF "WRITTEN" \in h.flag /\ dir[h.ent].name # NoName
  THEN dir' = [dir EXCEPT ![h.ent].clust = h.org]
  ELSE dir' = dir

\* f_sync: a file that was written has its entry updated, whatever file the
\* entry belongs to by now.
f_sync(h) ==
  IF "WRITTEN" \in h.flag /\ dir[h.ent].name # NoName
  THEN dir' = [dir EXCEPT ![h.ent] = [@ EXCEPT !.clust = h.org, !.size = h.fsize]]
  ELSE dir' = dir

\* FS_Close gives the slot back even when f_close failed.
\* A transfer that fails does so before the entry was changed or after it.
FS_Close(f) ==
  /\ fd_stack[f].fs = 1
  /\ \/ f_sync(fd_stack[f]) /\ Answer("close", FS_SUCCESS, <<>>) /\ faults' = faults
     \/ /\ "WRITTEN" \in fd_stack[f].flag
        /\ dir' = dir \/ f_sync(fd_stack[f])
        /\ Answer("close", FS_FATAL, <<>>) /\ Fail("io")
  /\ fd_stack' = [fd_stack EXCEPT ![f] = NoFile]
  /\ UNCHANGED <<fat, data>>

\* FS_CheckHandle fails: read, write, seek and close of a handle not in use.
BadHandle(op, f) ==
  /\ fd_stack[f].fs = 0
  /\ Answer(op, FS_INVALID, <<>>)
  /\ UNCHANGED <<fat, data, dir, fd_stack, faults>>

-----------------------------------------------------------------------------
(***************************************************************************)
(* Reading, writing and seeking.                                           *)
(***************************************************************************)

\* ABORT: the file object is marked and every later transfer is refused.
Marked(h) == [h EXCEPT !.flag = h.flag \cup {"ERROR"}]
Abort(op, f) ==
  /\ fd_stack' = [fd_stack EXCEPT ![f] = Marked(@)]
  /\ Answer(op, FS_FATAL, <<>>)

\* The tests at the head of f_read and f_write.
Refuse(op, f, access) ==
  /\ fd_stack[f].fs = 1
  /\ \/ "ERROR" \in fd_stack[f].flag /\ Answer(op, FS_FATAL, <<>>)
     \/ /\ {"ERROR", access} \cap fd_stack[f].flag = {}
        /\ Answer(op, FS_NO_ACCESS, <<>>)
  /\ UNCHANGED <<fat, data, dir, fd_stack, faults>>

Ready(f, access) ==
  /\ fd_stack[f].fs = 1
  /\ access \in fd_stack[f].flag
  /\ "ERROR" \notin fd_stack[f].flag

FS_Read(f, n) ==
  /\ Ready(f, "READ")
  /\ LET remain == (fd_stack[f].fsize - fd_stack[f].fptr) % Word
     IN  Start([Idle EXCEPT !.op = "read", !.fd = f, !.left = Smaller(n, remain)])
  /\ UNCHANGED <<fat, data, dir, fd_stack, faults>>

\* One unit further: c is the current cluster now.
Onto(h, c) == [h EXCEPT !.curr = c, !.fptr = h.fptr + 1]

\* The cluster the next unit is read from.
ReadClust(h) == IF h.fptr = 0 THEN h.org ELSE get_cluster(h.curr)

f_read_step ==
  LET f == req.fd
      c == ReadClust(fd_stack[f])
  IN  /\ req.op = "read" /\ req.left > 0
      /\ IF c \in Clusters
         THEN \E v \in Vals :
                /\ IF v = data[c] THEN faults' = faults ELSE Fail("io")
                /\ fd_stack' = [fd_stack EXCEPT ![f] = Onto(@, c)]
                /\ req' = [req EXCEPT !.left = req.left - 1, !.buf = Append(req.buf, v)]
                /\ reply' = reply
         ELSE Abort("read", f) /\ faults' = faults
      /\ UNCHANGED <<fat, data, dir>>

f_read_error ==
  /\ req.op = "read" /\ req.left > 0
  /\ Fail("io") /\ Abort("read", req.fd)
  /\ UNCHANGED <<fat, data, dir>>

f_read_end ==
  /\ req.op = "read" /\ req.left = 0
  /\ Answer("read", Len(req.buf), req.buf)
  /\ UNCHANGED <<fat, data, dir, fd_stack, faults>>

\* A request that would take the size past 2^32 writes nothing.
FS_Write(f, b) ==
  /\ Ready(f, "WRITE")
  /\ LET wraps == (fd_stack[f].fsize + Len(b)) % Word < fd_stack[f].fsize
     IN  Start([Idle EXCEPT !.op = "write", !.fd = f,
                              !.buf = IF wraps THEN <<>> ELSE b])
  /\ UNCHANGED <<fat, data, dir, fd_stack, faults>>

\* What f_write finds where the next unit goes: a cluster of the chain, or
\* the end of the chain, where create_chain has to find a free one.
WriteClust(h) == IF h.fptr = 0 THEN h.org ELSE get_cluster(h.curr)
Grows(h)      == WriteClust(h) = IF h.fptr = 0 THEN 0 ELSE EOC

\* Mutant of create_chain: the new cluster need not be free.
create_chain_any(h, c) ==
  LET taken == [fat EXCEPT ![c] = EOC]
  IN  fat' = IF h.fptr = 0 THEN taken ELSE [taken EXCEPT ![h.curr] = c]

\* create_chain: cluster c is taken and linked behind the current one.
create_chain(h, c) ==
  LET taken == [fat EXCEPT ![c] = EOC]
  IN  /\ fat[c] = 0
      /\ fat' = IF h.fptr = 0 THEN taken ELSE [taken EXCEPT ![h.curr] = c]

\* The first cluster of the chain when the unit at the position goes to c.
FirstClust(h, c) == IF h.fptr = 0 THEN c ELSE h.org

\* The unit goes to cluster c, which follows the current one or is now org.
Put(f, c) ==
  /\ data' = [data EXCEPT ![c] = Head(req.buf)]
  /\ fd_stack' = [fd_stack EXCEPT ![f] = Onto([@ EXCEPT !.org = FirstClust(fd_stack[f], c)], c)]
  /\ req' = [req EXCEPT !.buf = Tail(req.buf), !.done = req.done + 1]
  /\ reply' = reply

\* Mutant of f_write_step: a full card is tried again instead of ending the loop.
f_write_step_retry ==
  LET f == req.fd
      h == fd_stack[f]
      c == WriteClust(h)
  IN  /\ req.op = "write" /\ req.buf # <<>>
      /\ IF Grows(h)
         THEN \/ \E n \in Clusters : create_chain(h, n) /\ Put(f, n)
              \/ /\ \A n \in Clusters : fat[n] # 0
                 /\ UNCHANGED <<fat, data, fd_stack, req, reply>>
         ELSE IF c \in Clusters
         THEN Put(f, c) /\ fat' = fat
         ELSE Abort("write", f) /\ UNCHANGED <<fat, data>>
      /\ UNCHANGED <<dir, faults>>

f_write_step ==
  LET f == req.fd
      h == fd_stack[f]
      c == WriteClust(h)
  IN  /\ req.op = "write" /\ req.buf # <<>>
      /\ IF Grows(h)
         THEN \/ \E n \in Clusters : create_chain(h, n) /\ Put(f, n)
              \/ /\ \A n \in Clusters : fat[n] # 0
                 /\ req' = [req EXCEPT !.buf = <<>>]
                 /\ UNCHANGED <<fat, data, fd_stack, reply>>
         ELSE IF c \in Clusters
         THEN Put(f, c) /\ fat' = fat
         ELSE Abort("write", f) /\ UNCHANGED <<fat, data>>
      /\ UNCHANGED <<dir, faults>>

\* A failed transfer in f_write: nothing done, or create_chain failed after
\* it marked the new cluster (org_clust then takes its error value), or the
\* cluster is in the chain and its data was not written.
f_write_error ==
  LET f == req.fd
      h == fd_stack[f]
  IN  /\ req.op = "write" /\ req.buf # <<>>
      /\ Fail("io")
      /\ \/ Abort("write", f) /\ fat' = fat
         \/ /\ Grows(h)
            /\ \E n \in Clusters :
                 \/ /\ fat[n] = 0
                    /\ fat' = [fat EXCEPT ![n] = EOC]
                    /\ fd_stack' = [fd_stack EXCEPT ![f] =
                           [Marked(h) EXCEPT !.org = FirstClust(h, BadClust)]]
                 \/ /\ create_chain(h, n)
                    /\ fd_stack' = [fd_stack EXCEPT ![f] =
                           [Marked(h) EXCEPT !.curr = n, !.org = FirstClust(h, n)]]
            /\ Answer("write", FS_FATAL, <<>>)
      /\ UNCHANGED <<data, dir>>

\* The entry is brought up to date when the file is closed.
Written(h, size) == [h EXCEPT !.fsize = size, !.flag = h.flag \cup {"WRITTEN"}]

\* Mutant of f_write_end: the size is not brought up to the position.
f_write_end_no_size ==
  /\ req.op = "write" /\ req.buf = <<>>
  /\ fd_stack' = [fd_stack EXCEPT ![req.fd] = Written(@, fd_stack[req.fd].fsize)]
  /\ Answer("write", req.done, <<>>)
  /\ UNCHANGED <<fat, data, dir, faults>>

f_write_end ==
  LET h == fd_stack[req.fd]
  IN  /\ req.op = "write" /\ req.buf = <<>>
      /\ fd_stack' = [fd_stack EXCEPT ![req.fd] = Written(@, Larger(h.fsize, h.fptr))]
      /\ Answer("write", req.done, <<>>)
      /\ UNCHANGED <<fat, data, dir, faults>>

\* Mutant of Target: signed arithmetic.
Target_signed(h, where, whence) ==
  CASE whence = "SEEK_SET" -> where
    [] whence = "SEEK_CUR" -> where + h.fptr
    [] whence = "SEEK_END" -> where + h.fsize

\* Where a seek goes, computed in 32 bits: f_lseek clips it to the file size.
Target(h, where, whence) ==
  (CASE whence = "SEEK_SET" -> where
     [] whence = "SEEK_CUR" -> where + h.fptr
     [] whence = "SEEK_END" -> where + h.fsize) % Word
Clip(h, ofs) == Smaller(ofs, h.fsize)

FS_Seek_Refused(f, where, whence) ==
  /\ fd_stack[f].fs = 1
  /\ \/ "ERROR" \in fd_stack[f].flag
     \/ whence = "SEEK_SET" /\ Target(fd_stack[f], where, whence) > fd_stack[f].fsize
  /\ Answer("seek", FS_FATAL, <<>>)
  /\ UNCHANGED <<fat, data, dir, fd_stack, faults>>

\* f_lseek up to its loop: it starts from the current cluster when the target
\* is not before it, and else from the first one.
FS_Seek(f, where, whence) ==
  LET h     == fd_stack[f]
      ofs   == Clip(h, Target(h, where, whence))
      onward == h.fptr > 0 /\ ofs >= h.fptr
      start == IF onward THEN h.fptr - 1 ELSE 0
  IN  /\ h.fs = 1 /\ "ERROR" \notin h.flag
      /\ ~ (whence = "SEEK_SET" /\ Target(h, where, whence) > h.fsize)
      /\ IF ofs = 0
         THEN /\ fd_stack' = [fd_stack EXCEPT ![f] = [@ EXCEPT !.fptr = 0]]
              /\ Answer("seek", 0, <<>>)
         ELSE /\ fd_stack' = [fd_stack EXCEPT ![f] =
                                [@ EXCEPT !.fptr = start,
                                          !.curr = IF onward THEN h.curr ELSE h.org]]
              /\ Start([Idle EXCEPT !.op = "seek", !.fd = f, !.left = ofs - start])
      /\ UNCHANGED <<fat, data, dir, faults>>

f_lseek_step ==
  LET f == req.fd
      c == get_cluster(fd_stack[f].curr)
  IN  /\ req.op = "seek" /\ req.left > 1 /\ fd_stack[f].curr # 0
      /\ IF c \in Clusters
         THEN /\ fd_stack' = [fd_stack EXCEPT ![f] = Onto(@, c)]
              /\ req' = [req EXCEPT !.left = req.left - 1]
              /\ reply' = reply
         ELSE Abort("seek", f)
      /\ UNCHANGED <<fat, data, dir, faults>>

f_lseek_end ==
  LET f    == req.fd
      fptr == fd_stack[f].fptr + (IF fd_stack[f].curr # 0 THEN 1 ELSE 0)
  IN  /\ req.op = "seek" /\ (req.left = 1 \/ fd_stack[f].curr = 0)
      /\ fd_stack' = [fd_stack EXCEPT ![f] = [@ EXCEPT !.fptr = fptr]]
      /\ Answer("seek", fptr, <<>>)
      /\ UNCHANGED <<fat, data, dir, faults>>

-----------------------------------------------------------------------------
(***************************************************************************)
(* Deleting and renaming.                                                  *)
(***************************************************************************)

\* Mutant of Unlink: the chain is removed and the entry stays.
Unlink_keeps_entry(s, op, src, dst) ==
  /\ dir' = dir
  /\ Start([Idle EXCEPT !.op = op, !.clst = dir[s].clust, !.src = src, !.dst = dst])

\* f_unlink: the entry goes first, then remove_chain frees its clusters.
Unlink(s, op, src, dst) ==
  /\ dir' = [dir EXCEPT ![s] = NoEntry]
  /\ Start([Idle EXCEPT !.op = op, !.clst = dir[s].clust, !.src = src, !.dst = dst])

FS_DeleteFile(n) ==
  /\ \/ ~ Exists(n) /\ Answer("delete", FS_NO_ENTRY, <<>>) /\ UNCHANGED <<dir, faults>>
     \/ \E s \in EntryOf(n) : /\ MayShare(Users(s) # {})
                              /\ Unlink(s, "delete", NoName, NoName)
  /\ UNCHANGED <<fat, data, fd_stack>>

Freeing == req.op \in {"delete", "move"}

remove_chain_step ==
  /\ Freeing /\ req.clst \in Clusters /\ fat[req.clst] # 0
  /\ fat' = [fat EXCEPT ![req.clst] = 0]
  /\ req' = [req EXCEPT !.clst = fat[req.clst]]
  /\ UNCHANGED <<data, dir, fd_stack, reply, faults>>

\* f_rename: the new entry is registered before the old one is removed, so it
\* needs an entry that is not in use.
Rename(src, dst) ==
  \E s \in EntryOf(src) :
    IF DirFull
    THEN /\ Answer("move", FS_FATAL, <<>>)
         /\ dir' = dir
    ELSE \E t \in Slots :
           /\ FreeEntry(t)
           /\ dir' = [dir EXCEPT ![t] = [dir[s] EXCEPT !.name = dst], ![s] = NoEntry]
           /\ Answer("move", FS_SUCCESS, <<>>)

\* A transfer fails in f_rename, and FS_Move answers FS_FATAL: nothing was done
\* yet; or the new entry is there and the old one could not be removed, so that
\* both name the chain; or only the last sync failed.
Rename_error(src, dst) ==
  /\ Answer("move", FS_FATAL, <<>>)
  /\ \/ dir' = dir /\ Fail("io")
     \/ \E s \in EntryOf(src), t \in Slots :
          /\ FreeEntry(t) /\ "io" \in Faults
          /\ \/ /\ dir' = [dir EXCEPT ![t] = [dir[s] EXCEPT !.name = dst]]
                /\ "twin" \in Faults /\ faults' = faults \cup {"io", "twin"}
             \/ /\ dir' = [dir EXCEPT ![t] = [dir[s] EXCEPT !.name = dst], ![s] = NoEntry]
                /\ IF Users(s) = {} THEN faults' = faults \cup {"io"}
                   ELSE "share" \in Faults /\ faults' = faults \cup {"io", "share"}

\* The end of f_unlink; FS_Move then tries f_rename a second time.
remove_chain_end ==
  /\ Freeing
  /\ req.clst \in Clusters => fat[req.clst] = 0
  /\ IF req.op = "move"
     THEN \/ Exists(req.src) /\ Rename(req.src, req.dst)
          \/ ~ Exists(req.src) /\ Answer("move", FS_FATAL, <<>>) /\ dir' = dir
     ELSE Answer("delete", FS_SUCCESS, <<>>) /\ dir' = dir
  /\ UNCHANGED <<fat, data, fd_stack, faults>>

\* That second f_rename meets a failing transfer.
f_rename_again_error ==
  /\ req.op = "move"
  /\ req.clst \in Clusters => fat[req.clst] = 0
  /\ Rename_error(req.src, req.dst)
  /\ UNCHANGED <<fat, data, fd_stack>>

\* A failed transfer ends remove_chain early; f_unlink answers FR_OK anyway.
remove_chain_error ==
  /\ Freeing /\ req.clst \in Clusters
  /\ Fail("io")
  /\ req' = [req EXCEPT !.clst = 0]
  /\ UNCHANGED <<fat, data, dir, fd_stack, reply>>

FS_Move(src, dst) ==
  /\ \/ ~ Exists(src) /\ Answer("move", FS_NO_ENTRY, <<>>) /\ UNCHANGED <<dir, faults>>
     \/ /\ Exists(src) /\ ~ Exists(dst)
        /\ MayShare(~ DirFull /\ \E s \in EntryOf(src) : Users(s) # {})
        /\ Rename(src, dst)
     \/ Exists(src) /\ ~ Exists(dst) /\ Rename_error(src, dst)
     \/ /\ Exists(src)
        /\ MayShare(\E s \in EntryOf(src) \cup EntryOf(dst) : Users(s) # {})
        /\ \E d \in EntryOf(dst) : Unlink(d, "move", src, dst)
  /\ UNCHANGED <<fat, data, fd_stack>>

\* A transfer of a directory sector failed before anything was changed (what
\* f_rename and f_close may leave behind is Rename_error and FS_Close).  f_unlink
\* answers FR_OK even when the entry could not be removed, and FS_Move then
\* finds the target still there.
DirErrors == {<<"open", FS_NO_ENTRY>>, <<"create", FS_FATAL>>, <<"move", FS_FATAL>>,
              <<"delete", FS_FATAL>>, <<"delete", FS_SUCCESS>>}
DirError ==
  /\ Fail("io")
  /\ \E e \in DirErrors : Answer(e[1], e[2], <<>>)
  /\ UNCHANGED <<fat, data, dir, fd_stack>>

-----------------------------------------------------------------------------
\* Requests that name a path.
PathRequest(n) ==
  \/ \E mode \in Modes, nmh2 \in BOOLEAN : FS_Open(n, mode, nmh2)
  \/ FS_CreateFile(n)
  \/ FS_DeleteFile(n)
  \/ \E m \in Names : FS_Move(n, m)

\* Requests that name a handle.
HandleRequest(f) ==
  \/ FS_Close(f)
  \/ \E op \in {"read", "write", "seek", "close"} : BadHandle(op, f)
  \/ Refuse("read", f, "READ")
  \/ Refuse("write", f, "WRITE")
  \/ \E n \in Lengths : FS_Read(f, n)
  \/ \E b \in Buffers : FS_Write(f, b)
  \/ \E where \in Offsets, whence \in {"SEEK_SET", "SEEK_CUR", "SEEK_END"} :
       FS_Seek_Refused(f, where, whence) \/ FS_Seek(f, where, whence)

\* A new message is received when the last one was acknowledged.
Receive ==
  /\ req.op = "idle"
  /\ \/ \E n \in Names : PathRequest(n)
     \/ \E f \in Fds : HandleRequest(f)
     \/ DirError

\* A round of the loop of the request being worked on.
Work ==
  \/ f_read_step \/ f_read_error \/ f_read_end
  \/ f_write_step \/ f_write_error \/ f_write_end
  \/ f_lseek_step \/ f_lseek_end
  \/ remove_chain_step \/ remove_chain_end \/ remove_chain_error
  \/ f_rename_again_error

Next == Receive \/ Work

Spec == Init /\ [][Next]_vars

\* The server thread keeps running: a loop that can go on does.
FairSpec == Spec /\ WF_vars(Work)

-----------------------------------------------------------------------------
(***************************************************************************)
(* Properties.                                                             *)
(***************************************************************************)

\* The variables have the types of the structures they stand for.
TypeOK ==
  /\ fat \in [Clusters -> {0, EOC} \cup Clusters]
  /\ data \in [Clusters -> Vals]
  /\ dir \in [Slots -> Entry]
  /\ fd_stack \in [Fds -> FIL]
  /\ req \in Request
  /\ reply \in Reply
  /\ faults \subseteq {"share", "io", "twin"}

\* f_read computes how much is left as fsize - fptr in unsigned arithmetic.
\* It never wraps: outside a write, the position of a file object that was
\* not aborted is within the size that object knows, whatever other handles,
\* deletions and failed transfers did.
PositionInFile ==
  \A f \in Fds :
    \/ "ERROR" \in fd_stack[f].flag
    \/ req.op = "write" /\ req.fd = f
    \/ fd_stack[f].fptr <= fd_stack[f].fsize

\* Who refers to cluster c: its predecessor in a chain, a directory entry, an
\* open file whose first cluster is not yet in its entry, or remove_chain.
Refs(c) ==
       {<<"fat", p>> : p \in {p \in Clusters : fat[p] = c}}
  \cup {<<"dir", s>> : s \in {s \in Slots : dir[s].clust = c}}
  \cup {<<"fd", f>> : f \in {f \in Fds : /\ fd_stack[f].fs = 1
                                          /\ fd_stack[f].org = c
                                          /\ dir[fd_stack[f].ent].clust # c}}
  \cup {<<"req", 0>> : x \in {x \in {0} : Freeing /\ req.clst = c}}

\* What the driver relies on for the soundness of the volume: no file is shared,
\* and no rename has left a file two entries.
OneOwner(F) == F \cap {"share", "twin"} = {}

\* No cluster belongs to two chains, as long as the clients do not share a
\* file that is written, deleted or renamed and no rename failed between its two
\* halves (which leaves two entries for one chain): create_chain, f_sync,
\* f_unlink and f_rename never let two files reach the same cluster, whatever
\* other transfer fails.
NoCrossLink ==
  OneOwner(faults) => \A c \in Clusters : \A x, y \in Refs(c) : x = y

\* No chain runs into a free cluster, which create_chain could give away, under
\* the same conditions.
NoDanglingChain ==
  OneOwner(faults) => \A c \in Clusters : Refs(c) # {} => fat[c] # 0

\* No cluster is lost: what is marked in use is reachable from an entry, an
\* open file or the chain being removed, unless a transfer failed.
NoLostCluster ==
  faults = {} => \A c \in Clusters : fat[c] # 0 => Refs(c) # {}

\* The allocation table has no cycle, whatever handles share and whatever
\* transfer fails: create_chain only links to a cluster that was free and ends
\* the chain there, so the loops that follow a chain to its end do end.
ChainsEnd ==
  \A S \in SUBSET Clusters : S # {} => \E c \in S : fat[c] \notin S

\* Every request is answered, even over chains that shared use has corrupted
\* and on a full card.
RequestAnswered == (req.op # "idle") ~> (req.op = "idle")

\* The volume is sound while files have one owner: no two chains meet and none
\* dangles, whatever transfers failed; and while none failed no cluster is lost.
VolumeSound == NoCrossLink /\ NoDanglingChain /\ NoLostCluster
=============================================================================
