------------------------------ MODULE FatWindow ------------------------------
(***************************************************************************)
(* The sector window of FatFs as FFS-USB builds it (fs-usb/ff.c, _FS_TINY  *)
(* is 1): one buffer of one sector, fs->win, through which the allocation  *)
(* table, the directory entry and the partial sectors of the data all go,  *)
(* next to the whole sectors that f_read and f_write move directly.        *)
(*                                                                         *)
(* Each call of an f_ function is one step; `log' holds the disks it left  *)
(* behind one after the other, one per sector written, so that the power   *)
(* may fail between any two writes.  One file is used, by one client.      *)
(***************************************************************************)
EXTENDS Integers, Sequences, FiniteSets, SequencesExt

CONSTANTS
  SS,         \* bytes of a sector
  csize,      \* sectors of a cluster
  WinClust,   \* fs->max_clust
  Bytes,      \* what a byte of a write may be
  WriteLens, ReadLens, SeekTo,  \* sizes and offsets of the requests
  MaxOps      \* bound on the requests

ASSUME FatWindowAssumption ==
  /\ SS \in Nat \ {0} /\ csize \in Nat \ {0}
  /\ WinClust \in Nat /\ WinClust > 2
  /\ Bytes \subseteq Nat \ {0}
  /\ WriteLens \cup ReadLens \subseteq Nat \ {0} /\ SeekTo \subseteq Nat
  /\ MaxOps \in Nat

VARIABLES
  fs,      \* FATFS and the disk behind it
  fp,      \* the open file
  file,    \* history: the bytes of the file as the client wrote them
  may,     \* history: what each byte may be on the disk since the last sync
  old,     \* history: the size of the file at the last sync
  stale,   \* history: a direct transfer met the sector in the window
  got,     \* the bytes the last f_read returned and those it should have
  ops      \* requests so far

winvars == <<fs, fp, file, may, old, stale, got, ops>>

-----------------------------------------------------------------------------
WinClusters == 2 .. WinClust - 1
Chained     == WinClust            \* the end of a chain, any value >= max_clust
Bcs         == csize * SS          \* bytes of a cluster

\* Sectors: <<c, k>> is sector k of cluster c, <<1, j>> sector j of the table
\* (which holds the even or the odd clusters), Entry the directory's.
NoSect    == <<0, 0>>
EntrySect == <<0, 1>>
FatSect(c) == <<1, c % 2>>
InFat(j)   == {c \in WinClusters : c % 2 = j}

\* A directory entry: the size of the file and its first cluster.
DirEntry(size, clust) == <<size, clust>>
NoEntry  == DirEntry(0, 0)
SizeIn(e)  == e[1]
ClustIn(e) == e[2]
Blanks  == [i \in 1 .. SS |-> 0]

Content(d, s) ==
  IF s = EntrySect THEN d.entry
  ELSE IF s[1] = 1 THEN [c \in InFat(s[2]) |-> d.fat[c]]
  ELSE d.data[s]

Written(d, s, body) ==
  IF s = EntrySect THEN [d EXCEPT !.entry = body]
  ELSE IF s[1] = 1
  THEN [d EXCEPT !.fat = [c \in WinClusters |->
                            IF c % 2 = s[2] THEN body[c] ELSE d.fat[c]]]
  ELSE [d EXCEPT !.data[s] = body]

disk_write(f, s, body) ==
  [f EXCEPT !.disk = Written(@, s, body),
            !.log = Append(@, Written(f.disk, s, body))]

Flushed(f) ==
  IF f.wflag THEN [disk_write(f, f.winsect, f.win) EXCEPT !.wflag = FALSE]
  ELSE f

Loaded(f, s) == [f EXCEPT !.win = Content(f.disk, s), !.winsect = s]

move_window(f, s) ==
  IF f.winsect = s THEN f
  ELSE IF s = NoSect THEN Flushed(f) ELSE Loaded(Flushed(f), s)

\* sync: on FAT32 the FSInfo sector is made in the window when it is due.
sync(f) ==
  IF f.fat32 /\ f.fsi
  THEN [Flushed(f) EXCEPT !.winsect = NoSect, !.win = Blanks, !.fsi = FALSE]
  ELSE Flushed(f)

-----------------------------------------------------------------------------
(***************************************************************************)
(* The allocation table through the window.                                *)
(***************************************************************************)

\* get_cluster leaves its sector in the window.
get_cluster_in(f, c) == move_window(f, FatSect(c))
Link(f, c) == f.win[c]

Put(f, c, v) == [f EXCEPT !.win[c] = v, !.wflag = TRUE]
put_cluster(f, c, v) == Put(move_window(f, FatSect(c)), c, v)

\* The clusters create_chain looks at, from the one behind `scl' around to it.
Candidates(scl) ==
  SelectSeq([i \in 1 .. WinClust - 2 |->
               ((scl - 2 + i) % (WinClust - 2)) + 2], LAMBDA c : c # 0)

\* It stops at the first free one: `free' is that, 0 so far.
Looked(s, c) ==
  IF s.free # 0 THEN s
  ELSE LET f == get_cluster_in(s.fs, c)
       IN  [fs |-> f, free |-> IF Link(f, c) = 0 THEN c ELSE 0]

\* Mutant of Linked: the old end of the chain is linked first.
Linked_first(f, c, ncl) ==
  IF c = 0 THEN put_cluster(f, ncl, Chained)
  ELSE put_cluster(put_cluster(f, c, ncl), ncl, Chained)

\* The new end of the chain is marked before the old one is linked to it.
Linked(f, c, ncl) ==
  IF c = 0 THEN put_cluster(f, ncl, Chained)
  ELSE put_cluster(put_cluster(f, ncl, Chained), c, ncl)

Extended(f, c, s) ==
  IF s.free = 0 THEN [fs |-> s.fs, clst |-> 0]
  ELSE [fs |-> [Linked(s.fs, c, s.free) EXCEPT !.last = s.free, !.fsi = TRUE],
        clst |-> s.free]

\* create_chain(fs, c): a cluster that follows c already is returned as it is.
Stretch(f, c) ==
  IF c # 0 /\ Link(f, c) \in WinClusters
  THEN [fs |-> f, clst |-> Link(f, c)]
  ELSE Extended(f, c, FoldLeft(Looked, [fs |-> f, free |-> 0],
         Candidates(IF c # 0 THEN c
                    ELSE IF f.last = 0 THEN 1 ELSE f.last)))
create_chain(f, c) == Stretch(IF c = 0 THEN f ELSE get_cluster_in(f, c), c)

RECURSIVE remove_chain(_, _)
remove_chain(f, c) ==
  IF c \notin WinClusters THEN f
  ELSE LET g == get_cluster_in(f, c) IN
       IF Link(g, c) = 0 THEN g
       ELSE remove_chain([put_cluster(g, c, 0) EXCEPT !.fsi = TRUE], Link(g, c))

-----------------------------------------------------------------------------
(***************************************************************************)
(* f_read and f_write, one round of their loop after the other.  A round   *)
(* works on s: the volume, the file, the bytes left, the bytes read, what  *)
(* went wrong (`stop') and whether a direct transfer met the window.       *)
(***************************************************************************)

Sector(h) == <<h.curr, h.csect>>

\* The cluster step of a round: the file goes on in cluster c.
InCluster(s, f, c) ==
  [s EXCEPT !.fs = f, !.h.curr = c, !.h.csect = 0,
            !.stop = c \notin WinClusters]

ReadCluster(s) ==
  IF s.h.fptr % SS # 0 \/ s.h.csect < csize THEN s
  ELSE IF s.h.fptr = 0 THEN InCluster(s, s.fs, s.h.org)
  ELSE LET f == get_cluster_in(s.fs, s.h.curr) IN
       InCluster(s, f, Link(f, s.h.curr))

WriteCluster(s) ==
  IF s.h.fptr % SS # 0 \/ s.h.csect < csize THEN s
  ELSE IF s.h.fptr = 0 /\ s.h.org # 0 THEN InCluster(s, s.fs, s.h.org)
  ELSE LET r == create_chain(s.fs, IF s.h.fptr = 0 THEN 0 ELSE s.h.curr)
           t == [s EXCEPT !.h.org = IF s.h.fptr = 0 THEN r.clst ELSE @]
       IN  IF r.clst = 0 THEN [t EXCEPT !.fs = r.fs, !.stop = TRUE]
           ELSE InCluster(t, r.fs, r.clst)

\* cc: the whole sectors that can be moved at once, to the cluster's end.
WholeSectors(s) == IF s.h.fptr % SS # 0 THEN 0
            ELSE LET n == s.left \div SS IN
                 IF s.h.csect + n > csize THEN csize - s.h.csect ELSE n
Direct(s) == {<<s.h.curr, s.h.csect + k>> : k \in 0 .. WholeSectors(s) - 1}

Advance(s, n) == [s EXCEPT !.h.fptr = @ + n, !.left = @ - n]

\* Whole sectors are read past the window, dirty or not.
ReadDirect(s) ==
  LET n == WholeSectors(s) IN
  Advance([s EXCEPT
    !.met = @ \/ (s.fs.wflag /\ s.fs.winsect \in Direct(s)),
    !.out = @ \o FlattenSeq([k \in 1 .. n |->
                   s.fs.disk.data[<<s.h.curr, s.h.csect + k - 1>>]]),
    !.h.csect = @ + n], n * SS)

\* On a sector boundary dsect becomes the sector the file goes on in.
AtSector(s) ==
  IF s.h.fptr % SS # 0 THEN s
  ELSE [s EXCEPT !.h.dsect = Sector(s.h), !.h.csect = @ + 1]

Partial(s) == LET n == SS - (s.h.fptr % SS) IN IF n > s.left THEN s.left ELSE n

ReadPartial(s) ==
  LET f == move_window(s.fs, s.h.dsect)
      n == Partial(s)
  IN  Advance([s EXCEPT !.fs = f,
                 !.out = @ \o [i \in 1 .. n |-> f.win[(s.h.fptr % SS) + i]]], n)

ReadRound(s) ==
  IF s.stop \/ s.left = 0 THEN s
  ELSE IF WholeSectors(s) > 0 THEN ReadDirect(s) ELSE ReadPartial(AtSector(s))

RECURSIVE f_read_loop(_)
f_read_loop(s) ==
  IF s.stop \/ s.left = 0 THEN s ELSE f_read_loop(ReadRound(ReadCluster(s)))

\* Before whole sectors are written the window is written back if it holds
\* the sector dsect names; it is not read again afterwards.
BackFirst(s) ==
  IF s.h.fptr % SS = 0 /\ s.fs.winsect = s.h.dsect
  THEN [s EXCEPT !.fs = Flushed(@)] ELSE s

WriteDirect(s, v) ==
  LET n == WholeSectors(s) IN
  Advance([s EXCEPT
    !.met = @ \/ s.fs.winsect \in Direct(s),
    !.fs = FoldLeft(LAMBDA f, k : disk_write(f, <<s.h.curr, s.h.csect + k>>,
                                            [i \in 1 .. SS |-> v]),
                    @, [k \in 1 .. n |-> k - 1]),
    !.h.csect = @ + n], n * SS)

\* At the growing edge the window becomes the new sector without a read: it
\* still holds the bytes of another one.
AtEdge(s) ==
  IF s.h.fptr % SS = 0 /\ s.h.fptr >= s.h.fsize
  THEN [s EXCEPT !.fs = [Flushed(@) EXCEPT !.winsect = Sector(s.h),
                           !.win = IF s.fs.winsect[1] >= 2 THEN @ ELSE Blanks]]
  ELSE s

WritePartial(s, v) ==
  LET f == move_window(s.fs, s.h.dsect)
      n == Partial(s)
      at == s.h.fptr % SS
  IN  Advance([s EXCEPT !.fs = [f EXCEPT !.wflag = TRUE,
         !.win = [i \in 1 .. SS |->
                    IF i > at /\ i <= at + n THEN v ELSE @[i]]]], n)

WriteRound(s, v) ==
  IF s.stop THEN s
  ELSE IF WholeSectors(s) > 0 THEN WriteDirect(s, v)
  ELSE WritePartial(AtSector(AtEdge(s)), v)

RECURSIVE f_write_loop(_, _)
f_write_loop(s, v) ==
  IF s.stop \/ s.left = 0 THEN s
  ELSE f_write_loop(WriteRound(BackFirst(WriteCluster(s)), v), v)

Begin(n) == [fs |-> [fs EXCEPT !.log = <<>>], h |-> fp, left |-> n,
             out |-> <<>>, stop |-> FALSE, met |-> FALSE]

-----------------------------------------------------------------------------
(***************************************************************************)
(* f_lseek within the file and f_sync.                                     *)
(***************************************************************************)

RECURSIVE Follow(_, _)
Follow(s, ofs) ==
  IF ofs <= Bcs THEN [s EXCEPT !.left = ofs]
  ELSE LET f == get_cluster_in(s.fs, s.h.curr) IN
       Follow([s EXCEPT !.fs = f, !.h.curr = Link(f, s.h.curr),
                        !.h.fptr = @ + Bcs], ofs - Bcs)

\* From the current cluster if the target is not before it, else from the
\* first one.
SeekStart(s, ofs) ==
  LET base == ((s.h.fptr - 1) \div Bcs) * Bcs IN
  IF s.h.fptr > 0 /\ (ofs - 1) \div Bcs >= (s.h.fptr - 1) \div Bcs
  THEN Follow([s EXCEPT !.h.fptr = base], ofs - base)
  ELSE Follow([s EXCEPT !.h.fptr = 0, !.h.curr = s.h.org], ofs)

\* The rest of the way, inside the cluster.
SeekEnd(s) ==
  LET k == s.left \div SS
      h == [s.h EXCEPT !.fptr = @ + s.left, !.csect = k]
  IN  [s EXCEPT !.h = IF s.left % SS = 0 THEN h
                      ELSE [h EXCEPT !.csect = k + 1, !.dsect = <<h.curr, k>>]]

Sought(s, ofs) ==
  IF ofs = 0 \/ s.h.org = 0
  THEN [s EXCEPT !.h.fptr = 0, !.h.csect = csize]
  ELSE SeekEnd(SeekStart(s, ofs))

f_sync(f, h) ==
  IF ~ h.written THEN f
  ELSE sync([move_window(f, EntrySect) EXCEPT
               !.win = DirEntry(h.fsize, h.org), !.wflag = TRUE])

-----------------------------------------------------------------------------
(***************************************************************************)
(* The requests.                                                           *)
(***************************************************************************)

NoFP == [open |-> FALSE, fptr |-> 0, fsize |-> 0, org |-> 0, curr |-> 0,
         csect |-> 0, dsect |-> NoSect, written |-> FALSE]
NoneGot == [is |-> <<>>, want |-> <<>>]

Request == ops < MaxOps /\ ops' = ops + 1

\* The file as the disk alone has it: the bytes of the entry's chain.
RECURSIVE ChainBytes(_, _, _)
ChainBytes(d, c, n) ==
  IF n <= 0 THEN <<>>
  ELSE FlattenSeq([k \in 1 .. csize |-> d.data[<<c, k - 1>>]])
       \o ChainBytes(d, d.fat[c], n - Bcs)
OnDisk(d) == SubSeq(ChainBytes(d, ClustIn(d.entry), SizeIn(d.entry)),
                    1, SizeIn(d.entry))

WinOpened(f) == [NoFP EXCEPT !.open = TRUE, !.csect = csize,
                          !.fsize = SizeIn(f.win), !.org = ClustIn(f.win)]

WinOpen ==
  /\ Request
  /\ ~ fp.open
  /\ \E f \in {move_window([fs EXCEPT !.log = <<>>], EntrySect)} :
       fs' = f /\ fp' = WinOpened(f)
  /\ UNCHANGED <<file, may, old, stale, got>>

\* FA_CREATE_ALWAYS: the entry is emptied, then its clusters are freed and
\* the first of them is the next one to use.
Emptied(f) ==
  IF ClustIn(f.win) = 0 THEN [f EXCEPT !.win = NoEntry, !.wflag = TRUE]
  ELSE [remove_chain([f EXCEPT !.win = NoEntry, !.wflag = TRUE], ClustIn(f.win))
          EXCEPT !.last = ClustIn(f.win) - 1]

WinReplace ==
  /\ Request
  /\ ~ fp.open
  /\ \E f \in {move_window([fs EXCEPT !.log = <<>>], EntrySect)} :
     \E g \in {move_window(Emptied(f), EntrySect)} :
       /\ fs' = [g EXCEPT !.wflag = TRUE]
       /\ fp' = [WinOpened(g) EXCEPT !.written = TRUE]
  /\ file' = <<>> /\ may' = <<>> /\ old' = 0
  /\ UNCHANGED <<stale, got>>

Larger(m, n)  == IF m > n THEN m ELSE n

WinWrite(n, v) ==
  /\ Request
  /\ fp.open
  /\ \E s \in {f_write_loop(Begin(n), v)} :
     \E done \in {n - s.left} :
       /\ fs' = s.fs
       /\ fp' = [s.h EXCEPT !.fsize = Larger(@, s.h.fptr), !.written = TRUE]
       /\ stale' = (stale \/ s.met)
       /\ LET upto == Larger(Len(file), fp.fptr + done)
              mine(i) == i > fp.fptr /\ i <= fp.fptr + done
          IN  /\ file' = [i \in 1 .. upto |-> IF mine(i) THEN v ELSE file[i]]
              /\ may' = [i \in 1 .. Larger(Len(may), upto) |->
                   IF ~ mine(i) THEN may[i]
                   ELSE {v} \cup (IF i <= Len(may) THEN may[i] ELSE {})]
  /\ UNCHANGED <<old, got>>

WinRead(n) ==
  /\ Request
  /\ fp.open
  /\ \E left \in {IF n > fp.fsize - fp.fptr THEN fp.fsize - fp.fptr ELSE n} :
     \E s \in {f_read_loop(Begin(left))} :
       /\ fs' = s.fs /\ fp' = s.h
       /\ stale' = (stale \/ s.met)
       /\ got' = [is |-> s.out,
                  want |-> SubSeq(file, fp.fptr + 1, fp.fptr + left)]
  /\ UNCHANGED <<file, may, old>>

WinSeek(ofs) ==
  /\ Request
  /\ fp.open /\ ofs <= fp.fsize
  /\ \E s \in {Sought(Begin(0), ofs)} : fs' = s.fs /\ fp' = s.h
  /\ UNCHANGED <<file, may, old, stale, got>>

Saved == may' = [i \in 1 .. Len(file) |-> {file[i]}] /\ old' = Len(file)

WinSync ==
  /\ Request
  /\ fp.open
  /\ fs' = f_sync([fs EXCEPT !.log = <<>>], fp)
  /\ \E close \in BOOLEAN :
       fp' = IF close THEN NoFP ELSE [fp EXCEPT !.written = FALSE]
  /\ IF fp.written THEN Saved ELSE UNCHANGED <<may, old>>
  /\ UNCHANGED <<file, stale, got>>

\* The power fails during or after the last request; what the disk holds is
\* what the next mount finds.
WinCut ==
  /\ \E d \in ToSet(fs.log) \cup {fs.disk} :
       /\ fs' = [fs EXCEPT !.disk = d, !.log = <<>>, !.win = Blanks,
                           !.winsect = NoSect, !.wflag = FALSE,
                           !.fsi = FALSE, !.last = 0]
       /\ file' = OnDisk(d)
       /\ may' = [i \in 1 .. Len(OnDisk(d)) |-> {OnDisk(d)[i]}]
       /\ old' = Len(OnDisk(d))
  /\ fp' = NoFP
  /\ stale' = FALSE
  /\ got' = NoneGot
  /\ Request

WinInit ==
  /\ \E t \in BOOLEAN :
       fs = [disk |-> [fat |-> [c \in WinClusters |-> 0], entry |-> NoEntry,
                       data |-> [s \in WinClusters \X (0 .. csize - 1) |->
                                   Blanks]],
             log |-> <<>>, win |-> Blanks, winsect |-> NoSect, wflag |-> FALSE,
             fsi |-> FALSE, last |-> 0, fat32 |-> t]
  /\ fp = NoFP
  /\ file = <<>> /\ may = <<>> /\ old = 0
  /\ stale = FALSE
  /\ got = NoneGot
  /\ ops = 0

WinNext ==
  \/ WinOpen \/ WinSync \/ WinReplace \/ WinCut
  \/ \E n \in WriteLens, v \in Bytes : WinWrite(n, v)
  \/ \E n \in ReadLens : WinRead(n)
  \/ \E o \in SeekTo : WinSeek(o)

WinSpec == WinInit /\ [][WinNext]_winvars

-----------------------------------------------------------------------------
(***************************************************************************)
(* Properties.                                                             *)
(***************************************************************************)

WinTypeOK ==
  /\ fs.winsect \in {NoSect, EntrySect} \cup ({1} \X {0, 1})
                    \cup (WinClusters \X (0 .. csize - 1))
  /\ fs.wflag => fs.winsect # NoSect
  /\ fp.fptr \in 0 .. fp.fsize /\ fp.fsize \in 0 .. (WinClust - 2) * Bcs
  /\ stale \in BOOLEAN /\ ops \in 0 .. MaxOps

\* A read returns the bytes written last, through the window or directly,
\* as long as no direct transfer met the sector in the window: FatFs R0.07c
\* reads past a dirty window and does not renew it after a direct write.
ReadBack == ~ stale => got.is = got.want

\* At every write of a sector the disk alone is a sound volume: the entry's
\* chain is long enough for its size, no chain runs into a free cluster and
\* no cluster is in two chains.
SoundDisk(d) ==
  LET next(c) == d.fat[c]
      links == {c \in WinClusters : next(c) \in WinClusters}
  IN  /\ \A c \in links : d.fat[next(c)] # 0
      /\ \A c, e \in links : next(c) = next(e) => c = e
      /\ ClustIn(d.entry) # 0 => /\ d.fat[ClustIn(d.entry)] # 0
                              /\ \A c \in links : next(c) # ClustIn(d.entry)
      /\ SizeIn(d.entry) > 0 =>
           LET have[n \in 0 .. WinClust] ==
                 IF n = 0 THEN <<ClustIn(d.entry)>>
                 ELSE LET s == have[n - 1] IN
                      IF Last(s) \in links THEN Append(s, next(Last(s))) ELSE s
           IN  ClustIn(d.entry) # 0 /\ SizeIn(d.entry) <= Len(have[WinClust]) * Bcs
SoundAtCut == \A d \in ToSet(fs.log) \cup {fs.disk} : SoundDisk(d)

\* A power failure leaves the file with its size of the last sync, or of the
\* sync it interrupts, and every byte either as of that sync or as written
\* since: a later write never costs bytes that were safe.
Kept(d) ==
  /\ SizeIn(d.entry) \in {old, old'}
  /\ \A i \in 1 .. SizeIn(d.entry) :
       OnDisk(d)[i] \in (IF i <= Len(may) THEN may[i] ELSE {})
                        \cup (IF i <= Len(may') THEN may'[i] ELSE {})
SafeAtCut == [][~ stale' => \A d \in ToSet(fs'.log) : Kept(d)]_winvars

\* What is read is what was written, and what a power cut leaves behind is sound.
WindowRight == WinTypeOK /\ ReadBack /\ SoundAtCut
=============================================================================
