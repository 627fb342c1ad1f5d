------------------------------- MODULE FSTree -------------------------------
(***************************************************************************)
(* The directories of FFS-SD: the tree requests of fs/FS.c (create a       *)
(* directory or a file, list, count, move and delete) on top of the        *)
(* directory layer of fs/ff.c, with the cleaning of /tmp and /import that  *)
(* fs/main.c does at every start.                                          *)
(*                                                                         *)
(* A directory is a chain of clusters of Epc entries.  A name takes one    *)
(* entry or, when it has a long form, a row of NameLen entries that must   *)
(* lie next to each other.  Each call of an f_ function is one step, but   *)
(* for f_rename, whose two halves are: the power may fail between two      *)
(* steps of a recursive deletion or of a move, and the second half of a    *)
(* rename may meet a failing transfer.  What a power failure does inside   *)
(* another f_ call is the subject of FatWindow.                            *)
(* Files have no data or one cluster of it.                                *)
(***************************************************************************)
EXTENDS Integers, Sequences, FiniteSets, SequencesExt

CONSTANTS
  TreeNames,   \* components of paths
  NameLen,     \* entries a name takes in a directory
  TreeTmp, TreeImport,  \* the names of the two directories made at start
  DirPaths,    \* paths of the requests about directories
  FilePaths,   \* paths of the requests about files
  Moves,       \* pairs of paths of rename requests
  Epc,         \* directory entries of a cluster
  TreeClust,   \* fs->max_clust
  Half,        \* 2^16 in the code: a cluster number is two words in an entry
  MaxTreeCuts,     \* bound on the power failures and failing transfers
  MaxDepth         \* activations of FS_Delete the stack of the thread has room for

ASSUME FSTreeAssumption ==
  /\ NameLen \in [TreeNames -> 1 .. Epc]
  /\ {TreeTmp, TreeImport} \subseteq TreeNames
  /\ DirPaths \cup FilePaths \subseteq Seq(TreeNames) \ {<<>>}
  /\ Moves \subseteq (Seq(TreeNames) \X Seq(TreeNames))
  /\ Epc \in Nat /\ Epc > 2
  /\ TreeClust \in Nat /\ TreeClust > 3
  /\ Half \in Nat \ {0}
  /\ MaxTreeCuts \in Nat
  /\ MaxDepth \in Nat \ {0}

VARIABLES
  vol,    \* the volume: allocation table, directory entries, next-free hint
  call,   \* the request or the start-up work that is being done
  answer, \* the last acknowledgement
  treecuts    \* the power failures and failing transfers so far

treevars == <<vol, call, answer, treecuts>>

-----------------------------------------------------------------------------
(***************************************************************************)
(* The volume and its allocation table.                                    *)
(***************************************************************************)

DirClusters == 2 .. TreeClust - 1
RootDir  == 2                   \* dirbase of a FAT32 volume

\* A directory entry: "end" has first byte 0 and "gone" has 0xE5; `link' is
\* its start cluster, for ".." the start cluster of the parent, 0 for the root.
Kinds  == {"end", "gone", "dot", "long", "file", "readonly", "dir"}
Blank  == [kind |-> "end", name |-> TreeTmp, link |-> 0]
Gone   == [Blank EXCEPT !.kind = "gone"]
Long   == [Blank EXCEPT !.kind = "long"]
Dot(c) == [Blank EXCEPT !.kind = "dot", !.link = c]
Named(k, n, c) == [kind |-> k, name |-> n, link |-> c]

ClearTable == [i \in 1 .. Epc |-> Blank]

\* The allocation table is kept as the chains it describes: chain[c] is the
\* chain that starts at cluster c, <<>> if none does; table[c] is what it
\* holds when it is a directory, <<>> if it is not.
Volume == [chain : [DirClusters -> Seq(DirClusters)],
           table : [DirClusters -> Seq([kind : Kinds, name : TreeNames,
                                        link : 0 .. TreeClust - 1])],
           hint  : 0 .. TreeClust - 1]

\* create_chain looks for a free cluster behind `from' and wraps around; 0
\* is "no free cluster".
NextFree(v, from) ==
  LET free == {c \in DirClusters : \A d \in DirClusters :
                                      \A i \in DOMAIN v.chain[d] :
                                        v.chain[d][i] # c}
      first(S) == CHOOSE c \in S : \A d \in S : c <= d
  IN  IF \E c \in free : c > from THEN first({c \in free : c > from})
      ELSE IF free # {} THEN first(free) ELSE 0

\* create_chain(fs, 0): a chain of one cluster.
NewChain(v, c) == [v EXCEPT !.chain[c] = <<c>>, !.hint = c]

ChainRemoved(v, c) == [v EXCEPT !.chain[c] = <<>>, !.table[c] = <<>>]

-----------------------------------------------------------------------------
(***************************************************************************)
(* Directories: dir_read, dir_find, dir_register, dir_remove, follow_path. *)
(***************************************************************************)

Listed(e) == e.kind \in {"file", "readonly", "dir"}

\* dir_read: the first entry from `at' on, 0 when there is none; nothing is
\* listed behind an "end" (RowsWhole), where the code stops.
dir_read(t, at) ==
  IF at = 0 THEN 0 ELSE SelectInSubSeq(t, at, Len(t), Listed)

dir_find(t, n) == SelectInSeq(t, LAMBDA e : Listed(e) /\ e.name = n)

PutEntry(v, c, i, e) == [v EXCEPT !.table[c][i] = e]

\* dir_next with `streach': the chain grows and the new table is cleared.
Stretched(v, c, new) ==
  [v EXCEPT !.chain[c] = Append(@, new), !.table[c] = @ \o ClearTable,
            !.hint = new]

\* A row of free entries: entry `at' of ne entries is e, the others belong
\* to its long name.
PutRow(v, c, at, ne, e) ==
  [v EXCEPT !.table[c] = [i \in 1 .. Len(@) |->
     IF i < at \/ i >= at + ne THEN @[i]
     ELSE IF i = at + ne - 1 THEN e ELSE Long]]

\* The first row of ne free entries, which may go on behind the table.
FreeRow(t, ne) ==
  CHOOSE at \in 1 .. Len(t) + 1 :
    /\ \A j \in at .. (at + ne - 1) \cap 1 .. Len(t) :
         t[j].kind \in {"end", "gone"}
    /\ \A i \in 1 .. at - 1 : \E j \in i .. i + ne - 1 :
         j <= Len(t) /\ t[j].kind \notin {"end", "gone"}

\* dir_register on the row from `at' on; `new' is the cluster the table is
\* stretched by if the row does not fit.
Registered(v, c, e, at, new) ==
  IF at + NameLen[e.name] - 1 <= Len(v.table[c])
  THEN [res |-> "OK", vol |-> PutRow(v, c, at, NameLen[e.name], e)]
  ELSE IF new = 0 THEN [res |-> "DENIED", vol |-> v]
  ELSE [res |-> "OK", vol |-> PutRow(Stretched(v, c, new), c, at,
                                     NameLen[e.name], e)]

dir_register(v, c, e) ==
  Registered(v, c, e, FreeRow(v.table[c], NameLen[e.name]),
             NextFree(v, Last(v.chain[c])))

\* Mutant of dir_remove: the long-name entries stay.
dir_remove_short(v, c, i) == PutEntry(v, c, i, Gone)

\* dir_remove: the entry and the long-name entries before it.
dir_remove(v, c, i) ==
  [v EXCEPT !.table[c] = [j \in 1 .. Len(@) |->
     IF j <= i /\ j > i - NameLen[@[i].name] THEN Gone ELSE @[j]]]

\* follow_path: the directory that holds the last component, 0 if it cannot
\* be reached, and the index and the content of its entry.
SubDir(t, i) == IF i = 0 \/ t[i].kind # "dir" THEN 0 ELSE t[i].link
Below(v, d, n) == IF d = 0 THEN 0 ELSE SubDir(v.table[d], dir_find(v.table[d], n))
Place(v, d, i) ==
  [dir |-> d, at |-> i, entry |-> IF i = 0 THEN Blank ELSE v.table[d][i],
   res |-> IF d = 0 THEN "NO_PATH" ELSE IF i = 0 THEN "NO_FILE" ELSE "OK"]
LastPlace(v, d, n) == Place(v, d, IF d = 0 THEN 0 ELSE dir_find(v.table[d], n))

follow_path(v, p) ==
  LastPlace(v, FoldLeft(LAMBDA d, n : Below(v, d, n), RootDir, Front(p)),
            Last(p))

-----------------------------------------------------------------------------
(***************************************************************************)
(* The f_ functions: what they answer and the volume they leave.  Each is  *)
(* given the place `f' that follow_path found.                             *)
(***************************************************************************)

f_opendir(v, p) ==
  LET f == follow_path(v, p) IN IF f.entry.kind = "dir" THEN f.entry.link ELSE 0

\* f_readdir answers what dir_next says of the entry behind the one it read:
\* an entry in the very last slot is filled in and reported as "no file".
ReadAt(t, i) ==
  IF i = 0 THEN [ok |-> FALSE, entry |-> Blank, at |-> 0]
  ELSE [ok |-> i < Len(t), entry |-> t[i],
        at |-> IF i < Len(t) THEN i + 1 ELSE 0]
f_readdir(v, d) ==
  ReadAt(v.table[d.clust], dir_read(v.table[d.clust], d.at))

Refused(v, e) ==
  \/ e.kind = "readonly"
  \/ e.kind = "dir" /\ dir_read(v.table[e.link], 1) # 0

Unlinked(v, f) ==
  IF f.res # "OK" THEN [res |-> f.res, vol |-> v]
  ELSE IF Refused(v, f.entry) THEN [res |-> "DENIED", vol |-> v]
  ELSE [res |-> "OK",
        vol |-> IF f.entry.link = 0 THEN dir_remove(v, f.dir, f.at)
                ELSE ChainRemoved(dir_remove(v, f.dir, f.at), f.entry.link)]
f_unlink(v, p) == Unlinked(v, follow_path(v, p))

\* The volume with the table of a new directory in cluster c.
NewTable(v, c, up) ==
  [NewChain(v, c) EXCEPT !.table[c] = [ClearTable EXCEPT
     ![1] = Dot(c), ![2] = Dot(IF up = RootDir THEN 0 ELSE up)]]

\* The end of f_mkdir: without an entry the new cluster is given back.
Given(r, c) ==
  IF r.res = "OK" THEN r
  ELSE [res |-> r.res, vol |-> ChainRemoved(r.vol, c)]

\* f_mkdir: the table of the new directory is written before its entry.
Made(v, f, n, c) ==
  IF f.res = "OK" THEN [res |-> "EXIST", vol |-> v]
  ELSE IF f.res # "NO_FILE" THEN [res |-> f.res, vol |-> v]
  ELSE IF c = 0 THEN [res |-> "DENIED", vol |-> v]
  ELSE Given(dir_register(NewTable(v, c, f.dir), f.dir, Named("dir", n, c)), c)
f_mkdir(v, p) == Made(v, follow_path(v, p), Last(p),
                      NextFree(v, IF v.hint = 0 THEN 1 ELSE v.hint))

\* The directory f_rename looks up to correct "..": the two words of the
\* cluster number are joined without moving the upper one up.
Bit(n, k) == (n \div 2^k) % 2
JoinedWords(c) ==
  FoldLeft(LAMBDA s, k : s + 2^k * (IF Bit(c \div Half, k) + Bit(c % Half, k) > 0
                                    THEN 1 ELSE 0),
           0, <<0, 1, 2, 3>>)

\* f_rename: if what it takes for the moved directory has a second entry
\* that starts with a dot, that entry is pointed at the new parent.
DotsMoved(v, c, d) ==
  IF v.table[c] # <<>> /\ v.table[c][2].kind = "dot"
  THEN [v EXCEPT !.table[c][2].link = IF d = RootDir THEN 0 ELSE d] ELSE v

\* The first half of f_rename, from place f to place g: the new entry.
f_rename_new(v, f, g, n) ==
  IF f.res # "OK" THEN [res |-> f.res, vol |-> v]
  ELSE IF g.res = "OK" THEN [res |-> "EXIST", vol |-> v]
  ELSE IF g.res # "NO_FILE" THEN [res |-> g.res, vol |-> v]
  ELSE dir_register(v, g.dir, [f.entry EXCEPT !.name = n])

\* Mutant of f_rename_old: the old entry stays.
f_rename_old_kept(v, f, d) ==
  [res |-> "OK",
   vol |-> IF f.entry.kind = "dir" THEN DotsMoved(v, f.entry.link, d) ELSE v]

\* The second half: ".." of a moved directory, now in directory d, and the removal of
\* the old entry, which is at place f.
f_rename_old(v, f, d) ==
  LET c == JoinedWords(f.entry.link)
  IN  IF f.entry.kind # "dir"
      THEN [res |-> "OK", vol |-> dir_remove(v, f.dir, f.at)]
      ELSE IF c \notin DirClusters THEN [res |-> "INT_ERR", vol |-> v]
      ELSE [res |-> "OK", vol |-> dir_remove(DotsMoved(v, c, d), f.dir, f.at)]

\* f_open with FA_CREATE_NEW and f_close.
Created(v, f, n) ==
  IF f.res = "OK" THEN [res |-> "EXIST", vol |-> v]
  ELSE IF f.res # "NO_FILE" THEN [res |-> f.res, vol |-> v]
  ELSE dir_register(v, f.dir, Named("file", n, 0))
f_create(v, p) == Created(v, follow_path(v, p), Last(p))

-----------------------------------------------------------------------------
(***************************************************************************)
(* Requests of one step.                                                   *)
(***************************************************************************)

\* The codes of FS.h the handlers turn a result into.
Code(res) ==
  CASE res = "OK"                       -> "SUCCESS"
    [] res \in {"NO_FILE", "NO_PATH"}   -> "NO_ENTRY"
    [] res = "EXIST"                    -> "FILE_EXIST"
    [] res = "DENIED"                   -> "NO_ACCESS"
    [] OTHER                            -> "FATAL"

NoPlace  == [dir |-> 0, at |-> 0, entry |-> Blank, res |-> "NO_PATH"]
NoFrames == [op |-> "none", stack |-> <<>>, path |-> <<>>, todo |-> 0,
             odd |-> {}, to |-> <<>>, old |-> NoPlace, new |-> <<0, 0>>]
NoAnswer == [op |-> "none", ret |-> "SUCCESS", path |-> <<>>, n |-> <<0, 0>>,
             odd |-> {}]

\* The server waits in mqueue_recv and the client has its last answer.
Idle == call.op = "none" /\ answer = NoAnswer
Acknowledge(op, ret, p) ==
  answer' = [NoAnswer EXCEPT !.op = op, !.ret = ret, !.path = p]

FS_CreateDir(p) ==
  \E r \in {f_mkdir(vol, p)} :
    /\ Idle
    /\ vol' = r.vol
    /\ Acknowledge("mkdir", Code(r.res), p)
    /\ UNCHANGED <<call, treecuts>>

FS_CreateFile_Tree(p) ==
  \E r \in {f_create(vol, p)} :
    /\ Idle
    /\ vol' = r.vol
    /\ Acknowledge("create", IF r.res = "DENIED" THEN "FATAL"
                             ELSE Code(r.res), p)
    /\ UNCHANGED <<call, treecuts>>

\* A client opens an empty file, writes one cluster to it and closes it.
FillFile(p) ==
  \E f \in {follow_path(vol, p)},
     c \in {NextFree(vol, IF vol.hint = 0 THEN 1 ELSE vol.hint)} :
    /\ Idle
    /\ f.entry.kind = "file" /\ f.entry.link = 0
    /\ c # 0
    /\ vol' = PutEntry(NewChain(vol, c), f.dir, f.at,
                       [f.entry EXCEPT !.link = c])
    /\ UNCHANGED <<call, answer, treecuts>>

\* ioctlv READDIR without names: the entries f_readdir reports one by one.
RECURSIVE Counted(_, _)
Counted(v, d) ==
  LET r == f_readdir(v, d) IN
  IF r.ok THEN 1 + Counted(v, [d EXCEPT !.at = r.at]) ELSE 0

FS_ReadDir(p) ==
  \E f \in {follow_path(vol, p)}, c \in {f_opendir(vol, p)} :
    /\ Idle
    /\ answer' = [NoAnswer EXCEPT
         !.op = "list", !.path = p,
         !.n = <<IF c = 0 THEN 0 ELSE Counted(vol, [clust |-> c, at |-> 1]), 0>>,
         !.ret = IF f.entry.kind \in {"file", "readonly"} THEN "FATAL"
                 ELSE IF c = 0 THEN "NO_ENTRY" ELSE "SUCCESS"]
    /\ UNCHANGED <<vol, call, treecuts>>

\* ioctl SETATTR (and GETATTR): f_open of a file, else f_opendir.
FS_SetAttr(p) ==
  /\ Idle
  /\ Acknowledge("attr", IF follow_path(vol, p).res = "OK"
                         THEN "SUCCESS" ELSE "NO_ENTRY", p)
  /\ UNCHANGED <<vol, call, treecuts>>

\* FS_GetUsage adds up the files of a directory and of those below it.
RECURSIVE Usage(_, _)
Usage(v, d) ==
  LET r == f_readdir(v, d)
      u == IF r.entry.kind = "dir"
           THEN Usage(v, [clust |-> r.entry.link, at |-> 1])
           ELSE [files |-> 1, size |-> IF r.entry.link = 0 THEN 0 ELSE 1]
      rest == Usage(v, [d EXCEPT !.at = r.at])
  IN  IF ~ r.ok THEN [files |-> 0, size |-> 0]
      ELSE [files |-> u.files + rest.files, size |-> u.size + rest.size]

\* ioctlv GETUSAGE: the count starts at 1.
FS_GetUsage(p) ==
  \E c \in {f_opendir(vol, p)} :
    /\ Idle
    /\ answer' = [NoAnswer EXCEPT
         !.op = "usage", !.path = p,
         !.ret = IF c = 0 THEN "NO_ENTRY" ELSE "SUCCESS",
         !.n = IF c = 0 THEN <<1, 0>>
               ELSE LET u == Usage(vol, [clust |-> c, at |-> 1])
                    IN  <<1 + u.files, u.size>>]
    /\ UNCHANGED <<vol, call, treecuts>>

\* ioctl RENAME, in steps: `todo' is "half" of a rename to finish, a target to
\* remove first, or a rename to begin again.  `odd' records what f_rename gets
\* wrong or does not look at: the two words of a cluster number, and a directory
\* that is moved below itself.
Moving(p, q, todo, new) ==
  [NoFrames EXCEPT
     !.op = "move", !.path = p, !.to = q, !.todo = todo, !.new = new,
     !.old = follow_path(vol, p),
     !.odd = {x \in {"words", "below"} :
                \/ x = "words" /\ follow_path(vol, p).entry.link >= Half
                \/ x = "below" /\ IsStrictPrefix(p, q)}]

\* Where dj_new is in the volume v that f_rename_new left.
dj_new(v, q) ==
  LET d == follow_path(vol, q).dir IN <<d, dir_find(v.table[d], Last(q))>>

Moved(q, ret, odd) ==
  answer' = [NoAnswer EXCEPT !.op = "move", !.path = q, !.ret = ret, !.odd = odd]

FS_Move_Tree(p, q) ==
  \E r \in {f_rename_new(vol, follow_path(vol, p), follow_path(vol, q), Last(q))} :
    /\ Idle
    /\ vol' = r.vol
    /\ IF r.res \in {"OK", "EXIST"}
       THEN /\ call' = Moving(p, q, IF r.res = "OK" THEN 1 ELSE 2, dj_new(r.vol, q))
            /\ UNCHANGED answer
       ELSE /\ Moved(q, IF r.res = "DENIED" THEN "FATAL" ELSE Code(r.res), {})
            /\ UNCHANGED call
    /\ UNCHANGED treecuts

\* The target exists: it is removed first.
MoveReplaces ==
  /\ call.op = "move" /\ call.todo = 2
  /\ \E u \in {f_unlink(vol, call.to)} :
       /\ vol' = u.vol
       /\ IF u.res = "OK"
          THEN call' = [call EXCEPT !.todo = 3] /\ UNCHANGED answer
          ELSE call' = NoFrames /\ Moved(call.to, "FATAL", {})
  /\ UNCHANGED treecuts

\* The second f_rename begins; all its errors are FS_FATAL.
MoveAgain ==
  /\ call.op = "move" /\ call.todo = 3
  /\ \E r \in {f_rename_new(vol, follow_path(vol, call.path), follow_path(vol, call.to),
                            Last(call.to))} :
       /\ vol' = r.vol
       /\ IF r.res = "OK"
          THEN /\ call' = Moving(call.path, call.to, 1, dj_new(r.vol, call.to))
               /\ UNCHANGED answer
          ELSE call' = NoFrames /\ Moved(call.to, "FATAL", {})
  /\ UNCHANGED treecuts

\* The second half of f_rename.
MoveEnds ==
  /\ call.op = "move" /\ call.todo = 1
  /\ \E r \in {f_rename_old(vol, call.old, call.new[1])} :
       /\ vol' = r.vol
       /\ Moved(call.to, Code(r.res), call.odd)
  /\ call' = NoFrames
  /\ UNCHANGED treecuts

\* A transfer fails there: both entries stay, and ".." may name the new place already.
MoveTorn ==
  /\ call.op = "move" /\ call.todo = 1
  /\ treecuts < MaxTreeCuts
  /\ treecuts' = treecuts + 1
  /\ Moved(call.to, "FATAL", call.odd)
  /\ call' = NoFrames
  /\ \/ vol' = vol
     \/ /\ call.old.entry.kind = "dir" /\ JoinedWords(call.old.entry.link) \in DirClusters
        /\ vol' = DotsMoved(vol, JoinedWords(call.old.entry.link), call.new[1])

-----------------------------------------------------------------------------
(***************************************************************************)
(* FS_Delete: the content of a directory, subdirectories by recursion.     *)
(* `stack' holds one frame per activation: the directory it reads and the  *)
(* entry f_readdir filled in.  `odd' records what the deletion met that    *)
(* may leave entries behind: a listed entry in the last slot of a table,   *)
(* or a file that may not be written.                                      *)
(***************************************************************************)

\* The frames when the topmost one, of path p and reading d, got r from
\* f_readdir, and what the deletion missed by that.
Goes(below, p, d, r) ==
  IF r.ok
  THEN Append(below, [path |-> p, dir |-> [d EXCEPT !.at = r.at],
                      name |-> r.entry.name, isdir |-> r.entry.kind = "dir",
                      again |-> FALSE])
  ELSE below
Misses(r) == IF ~ r.ok /\ Listed(r.entry) THEN {"hidden"} ELSE {}

\* FS_Delete(p): f_opendir and the first f_readdir.
FirstEntry(v, c) ==
  IF c = 0 THEN ReadAt(<<>>, 0) ELSE f_readdir(v, [clust |-> c, at |-> 1])

Top == Last(call.stack)
Target == Append(Top.path, Top.name)

FS_DeleteFile_Tree(p) ==
  \E f \in {follow_path(vol, p)} : \E r \in {Unlinked(vol, f)} :
  \E c \in {f_opendir(vol, p)}  : \E e \in {FirstEntry(vol, c)} :
  \E odd \in {Misses(e) \cup
              IF f.entry.kind = "readonly" THEN {"readonly"} ELSE {}} :
    /\ Idle
    /\ vol' = r.vol
    /\ IF r.res = "DENIED" /\ e.ok
       THEN /\ call' = [NoFrames EXCEPT
                 !.op = "delete", !.path = p, !.odd = odd,
                 !.stack = Goes(<<>>, p, [clust |-> c, at |-> 1], e)]
            /\ UNCHANGED answer
       ELSE /\ answer' = [NoAnswer EXCEPT
                 !.op = "delete", !.path = p, !.odd = odd,
                 !.ret = IF r.res # "DENIED" THEN Code(r.res)
                         ELSE IF c = 0 THEN "SUCCESS" ELSE "FATAL"]
            /\ UNCHANGED call
    /\ UNCHANGED treecuts

\* The deletion is over: a request is acknowledged, the start goes on.
Over(ret, odd) ==
  IF call.op = "boot"
  THEN /\ call' = [call EXCEPT !.stack = <<>>, !.todo = @ + 1, !.odd = odd]
       /\ UNCHANGED answer
  ELSE /\ call' = NoFrames
       /\ answer' = [NoAnswer EXCEPT !.op = "delete", !.ret = ret,
                                     !.path = call.path, !.odd = odd]

GoOn(s, odd) ==
  IF s = <<>> THEN Over("SUCCESS", odd)
  ELSE /\ call' = [call EXCEPT !.stack = s, !.odd = odd]
       /\ UNCHANGED answer

\* f_unlink of the entry at hand did what was asked.
DeleteEntry ==
  /\ call.stack # <<>>
  /\ \E r \in {f_unlink(vol, Target)} : \E e \in {f_readdir(r.vol, Top.dir)} :
       /\ r.res = "OK" \/ Top.again
       /\ vol' = r.vol
       /\ GoOn(Goes(Front(call.stack), Top.path, Top.dir, e),
               call.odd \cup Misses(e))
  /\ UNCHANGED treecuts

\* It failed on a directory: FS_Delete of that, then f_unlink once more.
DeleteInside ==
  /\ call.stack # <<>> /\ Len(call.stack) < MaxDepth
  /\ f_unlink(vol, Target).res # "OK" /\ Top.isdir /\ ~ Top.again
  /\ \E c \in {f_opendir(vol, Target)} : \E e \in {FirstEntry(vol, c)} :
       GoOn(Goes(Append(Front(call.stack), [Top EXCEPT !.again = TRUE]),
                 Target, [clust |-> c, at |-> 1], e),
            call.odd \cup Misses(e))
  /\ UNCHANGED <<vol, treecuts>>

\* The same when the stack of the thread is used up: the server is lost.
DeleteTooDeep ==
  /\ call.stack # <<>> /\ Len(call.stack) = MaxDepth
  /\ f_unlink(vol, Target).res # "OK" /\ Top.isdir /\ ~ Top.again
  /\ call' = [call EXCEPT !.op = "lost", !.stack = <<>>]
  /\ UNCHANGED <<vol, answer, treecuts>>

\* It failed on a file: the activation ends with FS_FATAL; a caller that is
\* an activation of FS_Delete too does not look at that.
DeleteStuck ==
  /\ call.stack # <<>>
  /\ f_unlink(vol, Target).res # "OK" /\ ~ Top.isdir /\ ~ Top.again
  /\ IF Len(call.stack) = 1
     THEN Over("FATAL", call.odd \cup {"readonly"})
     ELSE GoOn(Front(call.stack), call.odd \cup {"readonly"})
  /\ UNCHANGED <<vol, treecuts>>

-----------------------------------------------------------------------------
(***************************************************************************)
(* Start: the content of /tmp and /import is deleted, both are made again. *)
(***************************************************************************)

Cleaned == <<TreeTmp, TreeImport>>

Starting == [NoFrames EXCEPT !.op = "boot", !.todo = 1]

\* FS_Delete("/tmp"), then FS_Delete("/import").
CleanTree ==
  /\ call.op = "boot" /\ call.todo <= 2 /\ call.stack = <<>>
  /\ \E p \in {<<Cleaned[call.todo]>>} : \E c \in {f_opendir(vol, p)} :
     \E e \in {FirstEntry(vol, c)} :
       GoOn(Goes(<<>>, p, [clust |-> c, at |-> 1], e), call.odd \cup Misses(e))
  /\ UNCHANGED <<vol, treecuts>>

\* f_mkdir("/tmp") and f_mkdir("/import").
MakeAgain ==
  /\ call.op = "boot" /\ call.todo > 2
  /\ \E r \in {f_mkdir(vol, <<TreeTmp>>)} :
     \E q \in {f_mkdir(r.vol, <<TreeImport>>)} :
       /\ vol' = q.vol
       /\ answer' = [NoAnswer EXCEPT !.op = "boot", !.odd = call.odd \cup
            (IF {r.res, q.res} \subseteq {"OK", "EXIST"} THEN {} ELSE {"nospace"})]
  /\ call' = NoFrames
  /\ UNCHANGED treecuts

\* The new entry of a rename is there, the old one as well.
Renaming == call.op = "move" /\ call.todo = 1

\* The power fails and the system starts again.  last_clust is not on the
\* volume: f_mount takes it from the FSInfo sector, which need not be current.
PowerCut ==
  /\ treecuts < MaxTreeCuts
  /\ treecuts' = treecuts + 1
  /\ \E h \in {0, vol.hint} : vol' = [vol EXCEPT !.hint = h]
  /\ call' = Starting
  /\ answer' = NoAnswer

-----------------------------------------------------------------------------
(***************************************************************************)
(* What a whole volume is.                                                 *)
(***************************************************************************)

\* The start clusters of the directories that can be reached from those of `at'.
SubDirs(v, d) == {e.link : e \in {f \in ToSet(v.table[d]) : f.kind = "dir"}}
ReachedFrom(v, at) ==
  LET within[n \in 0 .. TreeClust] ==
        IF n = 0 THEN at
        ELSE UNION {{d} \cup SubDirs(v, d) : d \in within[n - 1]}
  IN  within[TreeClust]
Reached(v) == ReachedFrom(v, {RootDir})

\* A directory that lies in itself.
Knotted(v) == \E d \in Reached(v) : d \in ReachedFrom(v, SubDirs(v, d))

\* The entries of reachable directories that own a cluster chain.
Owning(v) ==
  UNION {{<<d, i>> : i \in {j \in DOMAIN v.table[d] :
                              Listed(v.table[d][j]) /\ v.table[d][j].link # 0}} :
         d \in Reached(v)}

\* Every chain of clusters is the root's or belongs to exactly one entry that
\* a path leads to, and no entry names a chain that is not there; the entries of
\* `new' do not count.
Whole(v, new) ==
  /\ {c \in DirClusters : v.chain[c] # <<>>} =
       {RootDir} \cup {v.table[o[1]][o[2]].link : o \in Owning(v) \ new}
  /\ \A o, q \in Owning(v) \ new :
       v.table[o[1]][o[2]].link = v.table[q[1]][q[2]].link => o = q

TreeWhole == Whole(vol, {})

-----------------------------------------------------------------------------
\* A card as a PC formats it: empty, or with a write-protected file in /tmp.
EmptyVolume ==
  [chain |-> [c \in DirClusters |-> IF c = RootDir THEN <<c>> ELSE <<>>],
   table |-> [c \in DirClusters |-> IF c = RootDir THEN ClearTable ELSE <<>>],
   hint |-> 0]
TreeInit ==
  /\ \/ vol = EmptyVolume
     \/ \E n \in TreeNames :
          vol = LET w == f_mkdir(EmptyVolume, <<TreeTmp>>).vol IN
                dir_register(w, RootDir + 1, Named("readonly", n, 0)).vol
  /\ call = Starting
  /\ answer = NoAnswer
  /\ treecuts = 0

\* The client takes the answer mqueue_ack gave it.
Receive ==
  /\ answer # NoAnswer
  /\ answer' = NoAnswer
  /\ UNCHANGED <<vol, call, treecuts>>

\* Requests are served as long as the volume is whole.
TreeServe ==
  /\ Idle
  /\ \/ \E p \in DirPaths : FS_SetAttr(p)
     \/ /\ TreeWhole
        /\ \/ \E p \in DirPaths : \/ FS_CreateDir(p) \/ FS_ReadDir(p)
                                  \/ FS_GetUsage(p)
           \/ \E p \in FilePaths : FS_CreateFile_Tree(p) \/ FillFile(p)
           \/ \E p \in DirPaths \cup FilePaths : FS_DeleteFile_Tree(p)
           \/ \E m \in Moves : FS_Move_Tree(m[1], m[2])

TreeWork ==
  \/ CleanTree \/ DeleteEntry \/ DeleteInside \/ DeleteTooDeep \/ DeleteStuck \/ MakeAgain
  \/ MoveReplaces \/ MoveAgain \/ MoveEnds \/ MoveTorn

TreeNext == TreeServe \/ Receive \/ TreeWork \/ PowerCut

\* The server thread keeps running: while a request or the start-up work is
\* under way its steps, which are those of TreeWork, are not held up for ever.
\* (Some step of TreeWork is possible whenever call.op is not "none" or "lost".)
TreeFair == \/ []<>(call.op \in {"none", "lost"})
            \/ []<><<call.op # "none" /\ treecuts' = treecuts>>_treevars

TreeSpec == TreeInit /\ [][TreeNext]_treevars /\ TreeFair

-----------------------------------------------------------------------------
(***************************************************************************)
(* Properties.                                                             *)
(***************************************************************************)

TreeTypeOK ==
  /\ vol \in Volume
  /\ call.op \in {"none", "boot", "delete", "move", "lost"}
  /\ call.todo \in 0 .. 3
  /\ treecuts \in 0 .. MaxTreeCuts

\* The new entry while a rename is half done.
NewEntry == IF Renaming THEN {call.new} ELSE {}

\* What f_rename does not keep a volume whole through: a directory whose cluster
\* number needs two words (it joins them wrongly), a directory moved below itself
\* (it does not look, and the subtree is lost), and a power failure or a failing
\* transfer between its two halves (two entries stay for one chain).
Unkept ==
  \/ answer'.odd \cap {"words", "below"} # {}
  \/ Renaming /\ treecuts' # treecuts

\* No other step of a request or of the start loses a cluster or gives one to two
\* entries, and no other power failure between two steps does.  Half way through
\* a rename the volume is whole but for the new entry, and it is whole at its end.
TreeKept ==
  [][Whole(vol, NewEntry) /\ ~ Unkept => Whole(vol', NewEntry')]_<<vol, Renaming>>

\* The ".." entry of every directory names the directory it lies in, under the
\* same conditions.
DotsName(v, new) ==
  \A d \in Reached(v) : \A i \in 1 .. Len(v.table[d]) :
    v.table[d][i].kind = "dir" /\ <<d, i>> \notin new =>
      LET c == v.table[d][i].link IN
      v.table[c][2] = Dot(IF d = RootDir THEN 0 ELSE d)
DotsKept ==
  [][Whole(vol, NewEntry) /\ DotsName(vol, NewEntry) /\ ~ Unkept
       => DotsName(vol', NewEntry')]_<<vol, Renaming>>

\* No directory lists a name twice, and the long-name entries of a directory
\* are those of the names it lists: none is left behind to fill it up.
RowsWhole ==
  TreeWhole => \A d \in Reached(vol) :
    LET t == vol.table[d]
        L == {i \in 1 .. Len(t) : Listed(t[i])}
        rows == FoldLeft(LAMBDA n, i : n + IF Listed(t[i])
                                           THEN NameLen[t[i].name] - 1 ELSE 0,
                         0, [i \in 1 .. Len(t) |-> i])
    IN  /\ \A i, j \in L : t[i].name = t[j].name => i = j
        /\ Cardinality({i \in 1 .. Len(t) : t[i].kind = "long"}) = rows

Children(p) ==
  {n \in TreeNames : follow_path(vol, Append(p, n)).res = "OK"}

\* FS_DeleteFile answers success only when nothing is left of what it was to
\* delete but, at most, an empty directory; unless f_readdir hid an entry in
\* the last slot of a table or a file was write-protected.
DeletedIsGone ==
  answer.op = "delete" /\ answer.ret = "SUCCESS" /\ answer.odd = {} =>
    \/ follow_path(vol, answer.path).res # "OK"
    \/ follow_path(vol, answer.path).entry.kind = "dir" /\ Children(answer.path) = {}

\* FS_ReadDir counts the names that exist in the directory, but for one that
\* sits in the last slot of its table.
CountsNames ==
  answer.op = "list" /\ answer.ret = "SUCCESS" =>
    LET c == f_opendir(vol, answer.path) IN
    answer.n[1] = Cardinality(Children(answer.path)) -
                  IF Listed(Last(vol.table[c])) THEN 1 ELSE 0

\* After a start /tmp and /import are there and empty, whatever the power
\* failure interrupted.
StartsClean ==
  answer.op = "boot" /\ answer.odd = {} =>
    \A n \in {TreeTmp, TreeImport} :
      f_opendir(vol, <<n>>) # 0 /\ Children(<<n>>) = {}

\* A recursive deletion, the cleaning at start and a move come to an end, or the
\* thread runs out of stack.
CallsReturn == call.op # "none" ~> call.op \in {"none", "lost"}

\* It only does so where a directory lies in itself: that is what an unfinished move
\* of a directory below itself leaves for the start after the next power failure.
OnlyKnotsAreEndless == call.op = "lost" => Knotted(vol)

\* The tree has its shape, and what is answered about it is so.
TreeRight ==
  /\ TreeTypeOK
  /\ RowsWhole
  /\ DeletedIsGone
  /\ CountsNames
  /\ StartsClean
  /\ OnlyKnotsAreEndless
=============================================================================
