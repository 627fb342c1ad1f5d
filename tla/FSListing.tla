------------------------------- MODULE FSListing -------------------------------
(***************************************************************************)
(* Questions about directories that FFS-USB answers (fs-usb/FS.c): how     *)
(* many entries and which (ReadDir), how many files and how much in the    *)
(* whole tree below (GetUsage, which calls itself for each directory), and *)
(* whether something is there (GetAttr, SetAttr); and CreateDir.  A read   *)
(* of the disk may fail at any entry.                                      *)
(*                                                                         *)
(* Directories and files are numbers, and a directory is read in their     *)
(* order.  f_readdir loses the last entry of a directory that fills its    *)
(* clusters.                                                               *)
(***************************************************************************)
EXTENDS Integers, Sequences, FiniteSets, FiniteSetsExt

CONSTANTS
  EntryNos,   \* numbers of the directories and files there may be; 0 is the root
  Block,      \* bytes of a block, 0x4000
  PerDir,     \* entries that fill a cluster
  Canned,     \* "/title/00010001" and "/title/00010005", whose usage is not counted
  Trees,      \* the trees to begin with
  MaxAsked    \* bound: questions

ASSUME FSListingAssumption ==
  /\ EntryNos \subseteq Nat \ {0} /\ IsFiniteSet(EntryNos) /\ Canned \subseteq EntryNos
  /\ Block \in Nat \ {0} /\ PerDir \in Nat \ {0} /\ MaxAsked \in Nat

\* A tree begins as f_mkdir and f_open make one: what is there is in the root or in a
\* directory that is there, and no directory is below itself.
ASSUME TreesAssumption ==
  \A t \in Trees :
    /\ t \in [EntryNos -> [kind : {"none", "dir", "file"}, dir : EntryNos \cup {0}, len : Nat]]
    /\ \E depth \in [EntryNos -> 0 .. Cardinality(EntryNos)] :
         \A e \in EntryNos :
           t[e].kind # "none" /\ t[e].dir # 0 =>
             t[t[e].dir].kind = "dir" /\ depth[t[e].dir] < depth[e]

FS_OK     == 0
FS_FATAL  == -101
FS_EXISTS == -105
FS_NOENT  == -106

VARIABLES
  tree,     \* what there is: kind, directory and length of each entry
  query,    \* the question that is being answered
  frames,   \* the calls of FS_GetUsage: directory, entries read, whether f_opendir was called
  usage,    \* *FileCount and *TotalSize
  names,    \* FileNames
  blocks,   \* blocks of the heap that FS_GetUsage holds
  said,     \* the answer to the last question
  failed,   \* history: a read failed while it was answered
  lost,     \* history: questions about usage that were refused
  asked

listvars == <<tree, query, frames, usage, names, blocks, said, failed, lost, asked>>

Absent == [kind |-> "none", dir |-> 0, len |-> 0]
NoQuery == [op |-> "none", at |-> 0]
NoUsage == [count |-> 0, size |-> 0]

IsDir(d) == IF d = 0 THEN TRUE ELSE tree[d].kind = "dir"
In(d) == {e \in EntryNos : tree[e].kind # "none" /\ tree[e].dir = d}

\* What f_readdir shows of a directory.
ShownIn(d) ==
  IF In(d) # {} /\ Cardinality(In(d)) % PerDir = 0 THEN In(d) \ {Max(In(d))} ELSE In(d)

ListInit ==
  /\ tree \in Trees /\ query = NoQuery /\ frames = <<>> /\ usage = NoUsage /\ names = {}
  /\ blocks = 0 /\ said = [op |-> "none", at |-> 0, res |-> FS_OK]
  /\ failed = FALSE /\ lost = 0 /\ asked = 0

-----------------------------------------------------------------------------
(***************************************************************************)
(* A question begins, and is answered.                                     *)
(***************************************************************************)

Frame(d) == [dir |-> d, read |-> {}, open |-> FALSE]
TopFrame == frames[Len(frames)]
Callers == SubSeq(frames, 1, Len(frames) - 1)

Begins(op, at) ==
  /\ query = NoQuery /\ asked < MaxAsked /\ asked' = asked + 1
  /\ query' = [op |-> op, at |-> at] /\ frames' = <<Frame(at)>>
  /\ names' = {} /\ failed' = FALSE /\ said' = [said EXCEPT !.op = "none"]
  /\ UNCHANGED <<tree, lost>>

FFS_Ioctlv ==
  \E at \in EntryNos \cup {0} :
    \/ /\ at \notin Canned /\ Begins("usage", at)
       /\ usage' = [count |-> 1, size |-> 0] /\ blocks' = blocks + 1
    \/ Begins("readdir", at) /\ usage' = NoUsage /\ UNCHANGED blocks

Tells(op, at, res) ==
  /\ query' = NoQuery /\ frames' = <<>> /\ said' = [op |-> op, at |-> at, res |-> res]

Ends(res) == Tells(query.op, query.at, res)

\* A question that is answered at once.
AtOnce(op, at, res) ==
  /\ query = NoQuery /\ asked < MaxAsked /\ asked' = asked + 1
  /\ Tells(op, at, res)
  /\ names' = {} /\ UNCHANGED <<blocks, lost>>

\* The usage of a canned directory, which is not looked at: 42 files, 23 blocks.
CannedUsage ==
  /\ \E at \in Canned : AtOnce("canned", at, FS_OK)
  /\ usage' = [count |-> 42, size |-> 23] /\ failed' = FALSE /\ UNCHANGED tree

\* f_open of a file, else f_opendir: each of them may fail.
SetAttr ==
  /\ \E at \in EntryNos, bad \in SUBSET {"f_open", "f_opendir"} :
       /\ LET found == \/ tree[at].kind = "file" /\ "f_open" \notin bad
                       \/ tree[at].kind = "dir" /\ "f_opendir" \notin bad
          IN  AtOnce("attr", at, IF found THEN FS_OK ELSE FS_NOENT)
       /\ failed' = (bad # {})
  /\ usage' = NoUsage /\ UNCHANGED tree

CreateDir ==
  \E e \in EntryNos, d \in EntryNos \cup {0} :
    /\ tree[e].kind = "none" \/ tree[e].dir = d
    /\ \/ /\ ~IsDir(d) /\ AtOnce("mkdir", e, FS_NOENT)
          /\ failed' = FALSE /\ UNCHANGED tree
       \/ /\ IsDir(d) /\ tree[e].kind # "none" /\ AtOnce("mkdir", e, FS_EXISTS)
          /\ failed' = FALSE /\ UNCHANGED tree
       \/ /\ IsDir(d) /\ tree[e].kind = "none" /\ AtOnce("mkdir", e, FS_OK)
          /\ failed' = FALSE /\ tree' = [tree EXCEPT ![e] = [kind |-> "dir", dir |-> d, len |-> 0]]
       \/ AtOnce("mkdir", e, FS_FATAL) /\ failed' = TRUE /\ UNCHANGED tree
    /\ usage' = NoUsage

-----------------------------------------------------------------------------
(***************************************************************************)
(* FS_GetUsage and FS_ReadDir, one entry of a directory at a time.         *)
(***************************************************************************)

ToRead == ShownIn(TopFrame.dir) \ TopFrame.read

\* f_opendir fails, or there is no such directory: the innermost call of
\* FS_GetUsage does not free its block; those that called it free theirs.
OpenFails ==
  /\ query # NoQuery /\ ~TopFrame.open
  /\ \/ ~IsDir(TopFrame.dir) /\ failed' = failed
        /\ Ends(IF query.op = "readdir" /\ tree[TopFrame.dir].kind = "file" THEN FS_FATAL ELSE FS_NOENT)
     \/ failed' = TRUE /\ Ends(FS_FATAL)
     \/ query.op = "readdir" /\ ~IsDir(TopFrame.dir) /\ failed' = TRUE /\ Ends(FS_NOENT)
  /\ IF query.op = "usage" THEN blocks' = blocks - Len(Callers) /\ lost' = lost + 1
                           ELSE UNCHANGED <<blocks, lost>>
  /\ UNCHANGED <<tree, usage, names, asked>>

DirOpens ==
  /\ query # NoQuery /\ ~TopFrame.open /\ IsDir(TopFrame.dir)
  /\ frames' = [frames EXCEPT ![Len(frames)].open = TRUE]
  /\ UNCHANGED <<tree, query, usage, names, blocks, said, failed, lost, asked>>

GoneOver(e) == [frames EXCEPT ![Len(frames)].read = @ \cup {e}]

\* Mutant of UsageReads: directories are counted, too.
UsageReads_both ==
  /\ query.op = "usage" /\ TopFrame.open /\ ToRead # {}
  /\ LET e == Min(ToRead)
     IN  /\ IF tree[e].kind = "dir"
            THEN frames' = Append(GoneOver(e), Frame(e)) /\ blocks' = blocks + 1
            ELSE frames' = GoneOver(e) /\ UNCHANGED blocks
         /\ usage' = [count |-> usage.count + 1, size |-> usage.size + tree[e].len]
  /\ UNCHANGED <<tree, query, names, said, failed, lost, asked>>

UsageReads ==
  /\ query.op = "usage" /\ TopFrame.open /\ ToRead # {}
  /\ LET e == Min(ToRead)
     IN  IF tree[e].kind = "dir"
         THEN frames' = Append(GoneOver(e), Frame(e)) /\ blocks' = blocks + 1 /\ UNCHANGED usage
         ELSE /\ frames' = GoneOver(e) /\ UNCHANGED blocks
              /\ usage' = [count |-> usage.count + 1, size |-> usage.size + tree[e].len]
  /\ UNCHANGED <<tree, query, names, said, failed, lost, asked>>

\* The loop ends with the directory or with a read that fails, which it takes
\* for the same; the call returns success.
UsageReturns ==
  /\ query.op = "usage" /\ TopFrame.open
  /\ \/ ToRead = {} /\ UNCHANGED failed
     \/ failed' = TRUE
  /\ blocks' = blocks - 1
  /\ IF Len(frames) = 1
     THEN Ends(FS_OK) /\ usage' = [usage EXCEPT !.size = @ \div Block]
     ELSE frames' = Callers /\ UNCHANGED <<query, said, usage>>
  /\ UNCHANGED <<tree, names, lost, asked>>

ListReads ==
  /\ query.op = "readdir" /\ TopFrame.open /\ ToRead # {}
  /\ LET e == Min(ToRead)
     IN  /\ frames' = GoneOver(e) /\ names' = names \cup {e}
         /\ usage' = [usage EXCEPT !.count = @ + 1]
  /\ UNCHANGED <<tree, query, blocks, said, failed, lost, asked>>

\* Only the end of the directory is a success.
ListEnds ==
  /\ query.op = "readdir" /\ TopFrame.open
  /\ \/ ToRead = {} /\ UNCHANGED failed /\ Ends(FS_OK)
     \/ failed' = TRUE /\ Ends(FS_FATAL)
  /\ UNCHANGED <<tree, usage, names, blocks, lost, asked>>

ListServes ==
  OpenFails \/ DirOpens \/ UsageReads \/ UsageReturns \/ ListReads \/ ListEnds

ListNext == FFS_Ioctlv \/ CannedUsage \/ SetAttr \/ CreateDir \/ ListServes

\* The server has a thread of its own.
ListFairness == WF_listvars(ListServes)

ListSpec == ListInit /\ [][ListNext]_listvars /\ ListFairness

-----------------------------------------------------------------------------
(***************************************************************************)
(* Properties.                                                             *)
(***************************************************************************)

\* What f_readdir shows in a directory and in the directories that it shows.
AllBelow(at) ==
  LET reach[n \in 0 .. Cardinality(EntryNos)] ==
        IF n = 0 THEN ShownIn(at)
        ELSE reach[n - 1] \cup UNION {ShownIn(d) : d \in {e \in reach[n - 1] : IsDir(e)}}
  IN  reach[Cardinality(EntryNos)]

FilesBelow(at) == {e \in AllBelow(at) : tree[e].kind = "file"}

\* FS_GetUsage counts the files of the whole tree, each once, and one more, and
\* sums their lengths up; if a read fails it may say success with less, but
\* never with more.
UsageRight ==
  said.op = "usage" /\ said.res = FS_OK =>
    LET size == MapThenSumSet(LAMBDA e : tree[e].len, FilesBelow(said.at))
    IN  /\ usage.count <= 1 + Cardinality(FilesBelow(said.at)) /\ usage.size <= size \div Block
        /\ ~failed => /\ usage.count = 1 + Cardinality(FilesBelow(said.at))
                      /\ usage.size = size \div Block

\* A list that FS_ReadDir gives with success is the whole directory, each entry
\* counted once: a read that failed in the middle is told.
ListWhole ==
  said.op = "readdir" /\ said.res = FS_OK =>
    names = ShownIn(said.at) /\ usage.count = Cardinality(names)

\* Between two questions FS_GetUsage holds no block of the heap but those that
\* it lost, one for each question that it refused.
HeapKept == query = NoQuery => blocks = lost

\* Every question is answered.
ListingEnds == query # NoQuery ~> query = NoQuery

\* What is told of a directory is so, and costs no memory but for what is known to be
\* lost.
ListingRight == UsageRight /\ ListWhole /\ HeapKept
===============================================================================
