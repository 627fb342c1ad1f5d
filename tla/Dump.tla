---------------------------------- MODULE Dump ----------------------------------
(***************************************************************************)
(* The disc dumper of the menu (es/Dump.c).  Each time the menu is drawn   *)
(* DumpDoTick takes one step: it looks for a disc, copies one sector of it *)
(* to an image in two parts, or extracts the files of a Wii disc one by    *)
(* one, in the order they have on the disc.  A read may fail, and the disc *)
(* may be taken out at any time.                                           *)
(*                                                                         *)
(* A sector is READSIZE bytes; what it holds is named by its number.  The  *)
(* data of a Wii partition is named by its address, and comes in clusters  *)
(* of which ClusterData bytes are data.  Offsets in ExtractFile are 32 bit *)
(* wide, here Word.  Speed, progress and what is drawn are left out.       *)
(***************************************************************************)
EXTENDS Naturals, Sequences, FiniteSets

CONSTANTS
  Sectors,     \* DVDSectorSize of each type of disc
  Split,       \* sectors in the first part, 131071
  MaxRetry,    \* retries of a read, 5
  Fsts,        \* file tables: sequences of [offset, size]
  ClusterData, \* bytes of data in a cluster, 0x7C00
  Cluster,     \* bytes of a cluster, 0x8000
  Word,        \* 2^32
  MaxSwaps, MaxDumps \* bounds: discs put in, dumps started

ASSUME DumpAssumption ==
  /\ DOMAIN Sectors = {"gc", "wii", "wii2"}
  /\ \A t \in DOMAIN Sectors : Sectors[t] \in Nat \ {0}
  /\ Split \in Nat \ {0} /\ MaxRetry \in Nat
  /\ ClusterData \in Nat \ {0} /\ Cluster \in Nat /\ Cluster > ClusterData
  /\ Word \in Nat /\ Word > Cluster
  /\ Fsts \subseteq Seq([offset : Nat, size : Nat])

VARIABLES
  drive,    \* in the drive: a type, "other", or "none"
  fst,      \* the file table of the disc that is extracted
  DVDStatus, DVDType, DVDError, DVDOffset, DVDErrorRetry, DVDErrorSkip,
  buffer,   \* the sector in DVDBuffer
  handle,   \* the part that is open
  parts,    \* what the parts hold
  settings, \* CONFIG_DUMP_MODE and CONFIG_DUMP_ERROR_SKIP
  ex,       \* extracting: OldOff, and what each file got
  clean,    \* history: this dump began at sector 0, and every read succeeded
  swaps, dumps

duvars == <<drive, fst, DVDStatus, DVDType, DVDError, DVDOffset, DVDErrorRetry, DVDErrorSkip,
            buffer, handle, parts, settings, ex, clean, swaps, dumps>>

Nothing == "none"
Zero == 0      \* a sector of zeros; sector n of the disc is n + 1
NoPart == 2    \* not open

Drive == <<drive, fst, settings, swaps, dumps>>
Image == <<DVDOffset, DVDErrorRetry, DVDErrorSkip, buffer, handle, parts>>

-----------------------------------------------------------------------------
(***************************************************************************)
(* ExtractFile: the data from address o on, of which the clusters are read *)
(* whole.  The cluster and the place in it are found in 32 bits.           *)
(***************************************************************************)
Garbage == Word

\* Mutant of Extracted: the first cluster is not cut at its end.
Extracted_uncut(o, size) ==
  LET at == o % ClusterData
  IN  [i \in 1 .. size |-> IF at + i <= ClusterData THEN o + i - 1 ELSE Garbage]

\* The k-th cluster is read, from c on, and what the file still lacks is written:
\* only the first does not begin at the start of a cluster.
NextCluster(written, k, c, soffset, size) ==
  LET at == IF k = 1 THEN soffset ELSE 0
      left == size - Len(written)
      w == IF at + left > ClusterData THEN ClusterData - at ELSE left
  IN  written \o [i \in 1 .. w |-> ((c + k - 1) * ClusterData) + at + i - 1]

Clusters(c, soffset, size) ==
  LET f[k \in Nat] == IF k = 0 THEN <<>> ELSE NextCluster(f[k - 1], k, c, soffset, size)
  IN  f[size]

Extracted(o, size) ==
  LET div == o \div ClusterData
      roffset == (div * Cluster) % Word
      soffset == o - ((div * ClusterData) % Word)
  IN  IF soffset >= ClusterData THEN [i \in 1 .. size |-> Garbage]
      ELSE Clusters(roffset \div Cluster, soffset, size)

-----------------------------------------------------------------------------
(***************************************************************************)
(* DumpDoTick.                                                             *)
(***************************************************************************)

\* The drive is opened when the menu first dumps.
FirstTick ==
  /\ DVDStatus = 0
  /\ drive' = Nothing /\ DVDStatus' = 1
  /\ UNCHANGED <<fst, settings, swaps, dumps, DVDType, DVDError, Image, ex, clean>>

\* Without a disc the dumper waits for one, and the error is forgotten.
WaitForDisc ==
  /\ DVDStatus # 0 /\ drive = Nothing
  /\ DVDStatus' = 1 /\ DVDError' = FALSE
  /\ UNCHANGED <<Drive, DVDType, Image, ex, clean>>

Works(s) == DVDStatus = s /\ drive # Nothing /\ ~ DVDError

\* The ID is read, and the type found by a read past the first layer.  A disc of
\* no known kind leaves the type of the disc before.
Identify ==
  /\ Works(1)
  /\ \/ DVDError' = TRUE /\ UNCHANGED <<DVDStatus, DVDType>>
     \/ /\ DVDStatus' = 2
        /\ \/ /\ DVDType' = IF drive = "other" THEN DVDType ELSE drive
              /\ UNCHANGED DVDError
           \/ drive \in {"wii", "wii2"} /\ DVDError' = TRUE /\ UNCHANGED DVDType
  /\ UNCHANGED <<Drive, Image, ex, clean>>

\* A in the menu: Wii discs are extracted, if the settings say so.
StartDump ==
  /\ DVDStatus = 2 /\ DVDType # Nothing /\ dumps < MaxDumps
  /\ dumps' = dumps + 1
  /\ DVDStatus' = IF settings.extract /\ DVDType # "gc" THEN 6 ELSE 3
  /\ UNCHANGED <<drive, fst, settings, swaps, DVDType, DVDError, Image, ex, clean>>

\* The image is made; the first files of a GC disc are written besides.  The
\* sector to start with is where the last dump ended, or was given up.
OpenImage ==
  /\ Works(3)
  /\ DVDStatus' = 4
  /\ \/ DVDError' = TRUE /\ UNCHANGED <<DVDErrorRetry, buffer, handle, parts>>
     \/ /\ handle' = 0 /\ parts' = [parts EXCEPT ![0] = <<>>]
        /\ DVDErrorRetry' = 0 /\ buffer' = Zero
        /\ DVDError' \in (IF DVDType = "gc" THEN BOOLEAN ELSE {FALSE})
  /\ clean' = (DVDOffset = 0)
  /\ UNCHANGED <<Drive, DVDType, DVDOffset, DVDErrorSkip, ex>>

\* The sector is written, with the error the read had.  After the last sector
\* of the first part the second is opened, after the last of all it is done.
WriteSector(data, err) ==
  LET n == DVDOffset + 1
      put == [parts EXCEPT ![handle] = Append(@, data)]
      over == n >= Sectors[DVDType]
  IN  \/ DVDError' = TRUE /\ UNCHANGED <<DVDStatus, DVDOffset, handle, parts>>
      \/ /\ n = Split
         /\ DVDError' = TRUE /\ handle' = NoPart /\ parts' = put /\ DVDOffset' = n
         /\ UNCHANGED DVDStatus
      \/ /\ DVDOffset' = n
         /\ parts' = IF n = Split THEN [put EXCEPT ![1] = <<>>] ELSE put
         /\ handle' = IF over THEN NoPart ELSE IF n = Split THEN 1 ELSE handle
         /\ DVDStatus' = IF over THEN 5 ELSE 4
         /\ DVDError' = err

ReadSector ==
  /\ Works(4) /\ DVDOffset < Sectors[DVDType]
  /\ buffer' = DVDOffset + 1
  /\ WriteSector(DVDOffset + 1, FALSE)
  /\ UNCHANGED <<Drive, DVDType, DVDErrorRetry, DVDErrorSkip, ex, clean>>

\* Error 0x30200 is skipped, if the settings say so: the first time with what is
\* in the buffer, then with zeros.  The error stays, and ends the dump.
SkipSector ==
  /\ Works(4) /\ DVDOffset < Sectors[DVDType]
  /\ DVDErrorSkip \/ settings.skip
  /\ clean' = FALSE /\ DVDErrorSkip' = TRUE
  /\ buffer' = IF DVDErrorSkip THEN Zero ELSE buffer
  /\ WriteSector(buffer', TRUE)
  /\ UNCHANGED <<Drive, DVDType, DVDErrorRetry, ex>>

\* Error 0x30201: a step back, and no error, so often.
RetrySector ==
  /\ Works(4) /\ DVDErrorRetry < MaxRetry
  /\ clean' = FALSE
  /\ DVDErrorRetry' = DVDErrorRetry + 1
  /\ DVDOffset' = (DVDOffset + Word - 1) % Word
  /\ UNCHANGED <<Drive, DVDStatus, DVDType, DVDError, DVDErrorSkip, buffer, handle, parts, ex>>

\* Any other error ends the dump.
ReadFails ==
  /\ Works(4)
  /\ DVDError' = TRUE /\ clean' = FALSE
  /\ UNCHANGED <<Drive, Image, DVDStatus, DVDType, ex>>

-----------------------------------------------------------------------------
(***************************************************************************)
(* Extracting, all in one tick: the file with the lowest offset above the  *)
(* last one's is next, until as many files were written as there are.      *)
(***************************************************************************)
Extract ==
  /\ Works(6) /\ ~ ex.on
  /\ fst' \in Fsts
  /\ ex' = [on |-> TRUE, old |-> 0, got |-> [i \in DOMAIN fst' |-> <<>>], count |-> 0]
  /\ clean' = TRUE
  /\ UNCHANGED <<drive, settings, swaps, dumps, Image, DVDStatus, DVDType, DVDError>>

Above == {i \in DOMAIN fst : fst[i].offset > ex.old}
\* The first of the files with the lowest offset.
Lowest(i) ==
  \A j \in Above : fst[i].offset <= fst[j].offset /\ (fst[i].offset = fst[j].offset => i <= j)

\* A read may fail, or the file not be opened: the file is not what it should be.
ExtractNext ==
  /\ ex.on /\ ex.count < Len(fst)
  /\ \E i \in Above :
       /\ Lowest(i)
       /\ ex' = [ex EXCEPT !.old = fst[i].offset, !.count = @ + 1,
                           !.got[i] = Extracted(fst[i].offset, fst[i].size)]
  /\ clean' \in {clean, FALSE}
  /\ UNCHANGED <<Drive, Image, DVDStatus, DVDType, DVDError>>

ExtractDone ==
  /\ ex.on /\ ex.count = Len(fst)
  /\ DVDStatus' = 7 /\ ex' = [ex EXCEPT !.on = FALSE]
  /\ UNCHANGED <<Drive, Image, DVDType, DVDError, clean>>

DumpDoTick ==
  \/ ~ ex.on /\ (FirstTick \/ WaitForDisc \/ Identify \/ OpenImage \/ ReadSector \/ SkipSector
                 \/ RetrySector \/ ReadFails \/ Extract)
  \/ ExtractNext \/ ExtractDone

\* The disc is taken out, or another put in.
Eject ==
  /\ drive # Nothing /\ drive' = Nothing /\ clean' = FALSE
  /\ UNCHANGED <<fst, settings, swaps, dumps, Image, DVDStatus, DVDType, DVDError, ex>>
Insert ==
  /\ drive = Nothing /\ swaps < MaxSwaps
  /\ swaps' = swaps + 1 /\ drive' \in DOMAIN Sectors \cup {"other"}
  /\ UNCHANGED <<fst, settings, dumps, Image, DVDStatus, DVDType, DVDError, ex, clean>>

DUInit ==
  /\ drive = Nothing /\ fst = <<>>
  /\ DVDStatus = 0 /\ DVDType = Nothing /\ DVDError = FALSE /\ DVDOffset = 0
  /\ DVDErrorRetry = 0 /\ DVDErrorSkip = FALSE /\ buffer = Zero /\ handle = NoPart
  /\ parts = [p \in {0, 1} |-> <<>>]
  /\ settings \in [extract : BOOLEAN, skip : BOOLEAN]
  /\ ex = [on |-> FALSE, old |-> 0, got |-> <<>>, count |-> 0]
  /\ clean = TRUE /\ swaps = 0 /\ dumps = 0

DUNext == DumpDoTick \/ StartDump \/ Eject \/ Insert

DUFairness == WF_duvars(DumpDoTick)

DUSpec == DUInit /\ [][DUNext]_duvars /\ DUFairness

-----------------------------------------------------------------------------
(***************************************************************************)
(* Properties.                                                             *)
(***************************************************************************)

\* An image that was begun at sector 0 and read without an error is the disc:
\* its first part is the sectors below Split, its second the others.
ImageIsDisc ==
  (DVDStatus = 5 /\ clean) =>
    /\ parts[0] = [i \in 1 .. IF Sectors[DVDType] < Split THEN Sectors[DVDType] ELSE Split |-> i]
    /\ Sectors[DVDType] > Split =>
         parts[1] = [i \in 1 .. Sectors[DVDType] - Split |-> Split + i]

\* Each file that was extracted, every read of it good, is what the disc has at
\* its offset, wherever in a cluster it begins and ends.
FilesAreRight ==
  (DVDStatus = 7 /\ clean) =>
    \A i \in DOMAIN fst : ex.got[i] = [k \in 1 .. fst[i].size |-> fst[i].offset + k - 1]

\* A dump comes to an end, with an error or without, however often a read fails.
DumpEnds == (DVDStatus \in {3, 4} /\ ~ DVDError) ~> (DVDStatus \notin {3, 4} \/ DVDError)

\* So does extracting, if no two files have the same offset and none has 0: the
\* search finds each offset once and would look for the other file for ever.
Findable ==
  \A i, j \in DOMAIN fst : fst[i].offset # 0 /\ (fst[i].offset = fst[j].offset => i = j)
ExtractEnds == (ex.on /\ Findable) ~> ~ ex.on

\* The image and the files that were dumped are those of the disc.
DumpRight == ImageIsDisc /\ FilesAreRight
=============================================================================
