------------------------------ MODULE ESContent ------------------------------
(***************************************************************************)
(* What clients of ES read of the titles on the NAND (es/ES.c): contents   *)
(* opened through a TMD and the cached content.map, counts followed by the *)
(* lists they announce, and exports.  All of it uses the few file handles  *)
(* of FFS, which other processes use as well, and iTMD, which imports use  *)
(* as well.                                                                *)
(*                                                                         *)
(* ES serves one call at a time.  An import is its start and its end here  *)
(* (ESImport has the steps); a content has its hash for a name.            *)
(***************************************************************************)
EXTENDS Naturals, Sequences, FiniteSets, SequencesExt

CONSTANTS
  Titles, First, \* titles, and the one that runs when ES starts
  Tmds,        \* of each title, the TMDs it may have: sequences of [index, id, shared]
  FFSHandles,  \* the handles of FFS (16)
  Views,       \* numbers of tickets in a ticket file
  MaxCalls     \* bound: calls

\* A TMD names an index once.  An ID is of a title's own content or of a shared
\* one, in every TMD of the title: an export looks for both among the title's own.
ASSUME ESContentAssumption ==
  /\ First \in Titles
  /\ \A t \in Titles : Tmds[t] \subseteq Seq([index : Nat, id : Nat, shared : BOOLEAN])
  /\ \A t \in Titles : \A tmd \in Tmds[t] : \A i, j \in DOMAIN tmd :
       tmd[i].index = tmd[j].index => i = j
  /\ \A t \in Titles : \A a, b \in Tmds[t] : \A i \in DOMAIN a, j \in DOMAIN b :
       a[i].id = b[j].id => a[i].shared = b[j].shared
  /\ Views \subseteq Nat /\ MaxCalls \in Nat

VARIABLES
  nand,         \* the card: title.tmd, contents of its own, tickets; content.map
  CNTMap, CNTMapDirty,
  ffs,          \* FFS (external): the file each handle has open
  TitleID,      \* the title that runs
  iTMD,         \* the TMD of an import or an export
  session,      \* history: the import or export that is going on
  ended,        \* history: what the last one was
  held, leaked, \* history: handles of the clients, with the files of the contents
                \* they asked for, and handles that nobody will close
  counted,        \* history: the last count told, and whether it may be out of date
  told,         \* the last answer, a list or that a content was not found
  strayed,      \* history: iTMD was used after it had been freed
  calls

contentvars == <<nand, CNTMap, CNTMapDirty, ffs, TitleID, iTMD, session, ended, held,
                 leaked, counted, told, strayed, calls>>

NoTMD     == <<>>
Unopened  == [what |-> "none"]
NoSession == [op |-> "none"]
NoCount   == [kind |-> "none"]
NullTMD   == [at |-> "null"]
Silence   == [op |-> "none"]

App(t, c)  == [what |-> "app", title |-> t, id |-> c.id]
SharedApp(id) == [what |-> "shared", id |-> id]
TmdFile(t) == [what |-> "tmd", title |-> t]
Foreign    == [what |-> "foreign"]

\* The file of what a TMD names at an index.
Named(t, tmd, index) ==
  LET cs == {c \in Range(tmd) : c.index = index}
      c  == CHOOSE d \in cs : TRUE
  IN  IF cs = {} THEN Unopened ELSE IF c.shared THEN SharedApp(c.id) ELSE App(t, c)

ContentInit ==
  /\ nand = [tmd |-> [t \in Titles |-> NoTMD], apps |-> [t \in Titles |-> {}],
             views |-> [t \in Titles |-> 0], map |-> <<>>]
  /\ CNTMap = <<>> /\ CNTMapDirty = TRUE
  /\ ffs = [h \in FFSHandles |-> Unopened]
  /\ TitleID = First
  /\ iTMD = NullTMD /\ session = NoSession /\ ended = "none"
  /\ held = <<>> /\ leaked = {} /\ counted = NoCount /\ told = Silence
  /\ strayed = FALSE /\ calls = 0

-----------------------------------------------------------------------------
(***************************************************************************)
(* Files.  A handler opens one file at a time and closes it before the     *)
(* next: with a free handle each may be opened, without one NANDLoadFile   *)
(* and IOS_Open fail.  Each may fail by itself as well, whatever became of *)
(* the others: another process takes the last handle between two of them   *)
(* (one that gives its own back does so before the call), a read fails, or *)
(* the heap is full.                                                       *)
(***************************************************************************)

Room == \E h \in FFSHandles : ffs[h] = Unopened
Slot == CHOOSE h \in FFSHandles : ffs[h] = Unopened
LoadsTMD(t) == Room /\ nand.tmd[t] # NoTMD
LoadsMap == Room /\ nand.map # <<>>

\* The copy of content.map that ES_CheckSharedContent and GetSharedContentID
\* search, loaded if it is out of date and that succeeds.  One that cannot be loaded
\* is nothing, and stays out of date.
MapNow(loads) == IF ~CNTMapDirty THEN CNTMap ELSE IF loads THEN nand.map ELSE <<>>
MapUsed(loads) ==
  /\ CNTMap' = MapNow(loads)
  /\ CNTMapDirty' = (CNTMapDirty /\ ~loads)
MapUnused == UNCHANGED <<CNTMap, CNTMapDirty>>

ES_CheckSharedContent(id, loads) == id \in Range(MapNow(loads))
GetSharedContentID(id, loads) == SelectInSeq(MapNow(loads), LAMBDA e : e = id)

UsesMap(tmd) == \E i \in DOMAIN tmd : tmd[i].shared

\* The contents of a TMD that are found, one after the other, if the files of some
\* cannot be opened: each shared one loads content.map until that has succeeded.
LoadedBy(tmd, i, failed) == LoadsMap /\ \E j \in 1 .. i : tmd[j].shared /\ j \notin failed
OnCard(tmd, t, failed) ==
  {i \in DOMAIN tmd : IF tmd[i].shared
                      THEN ES_CheckSharedContent(tmd[i].id, LoadedBy(tmd, i, failed))
                      ELSE Room /\ i \notin failed /\ tmd[i].id \in nand.apps[t]}
MapSearched(tmd, failed) ==
  IF UsesMap(tmd) THEN MapUsed(LoadedBy(tmd, Len(tmd), failed)) ELSE MapUnused

Opened(h, f, c) ==
  /\ ffs' = [ffs EXCEPT ![h] = f]
  /\ held' = [k \in DOMAIN held \cup {h} |-> IF k = h THEN c ELSE held[k]]
  /\ told' = Silence

Answers(r) == told' = r /\ UNCHANGED <<ffs, held>>
Fails == Answers(Silence)

-----------------------------------------------------------------------------
(***************************************************************************)
(* Contents.                                                               *)
(***************************************************************************)

\* Mutant of ContentAt: the contents are in the order of their indexes.
ContentAt_position(tmd, index) == IF index \in DOMAIN tmd THEN index ELSE 0

ContentAt(tmd, index) == SelectInSeq(tmd, LAMBDA c : c.index = index)

\* The TMD, content.map for a shared content, and the content are opened in turn.
\* If content.map cannot be loaded, a shared content counts as not found (missed).
ESP_OpenContent(t, index) ==
  LET tmd == nand.tmd[t]
      i   == ContentAt(tmd, index)
      c   == tmd[i]
      nfound(missed) ==
        Answers([op |-> "nfound", title |-> t, index |-> index, missed |-> missed])
  IN  \/ Fails /\ MapUnused
      \/ LoadsTMD(t) /\ i = 0 /\ nfound(FALSE) /\ MapUnused
      \/ /\ LoadsTMD(t) /\ i # 0 /\ c.shared
         /\ \E loads \in {FALSE, LoadsMap} :
              LET id == GetSharedContentID(c.id, loads)
              IN  /\ \/ id = 0 /\ nfound(CNTMapDirty /\ ~loads)
                     \/ id # 0 /\ Opened(Slot, SharedApp(nand.map[id]), Named(t, tmd, index))
                     \/ id # 0 /\ Fails
                  /\ MapUsed(loads)
      \/ /\ LoadsTMD(t) /\ i # 0 /\ ~c.shared /\ c.id \in nand.apps[t]
         /\ Opened(Slot, App(t, c), Named(t, tmd, index)) /\ MapUnused

Indexes == {c.index : c \in UNION {Range(tmd) : tmd \in UNION {Tmds[t] : t \in Titles}}}

Keeps == UNCHANGED <<nand, TitleID, iTMD, session, ended, leaked, strayed>>

ES_OpenContent == \E i \in Indexes : ESP_OpenContent(TitleID, i) /\ Keeps /\ UNCHANGED counted
ES_OpenTitleContent ==
  \E t \in Titles, i \in Indexes : ESP_OpenContent(t, i) /\ Keeps /\ UNCHANGED counted

\* IOS_Close, also of ES_ExportContentEnd.
ClosedFile(h) ==
  /\ ffs' = [ffs EXCEPT ![h] = Unopened]
  /\ held' = [k \in DOMAIN held \ {h} |-> held[k]]
  /\ told' = Silence

ES_CloseContent ==
  \E h \in DOMAIN held :
    ClosedFile(h) /\ MapUnused /\ Keeps /\ UNCHANGED counted

\* SetUID takes the title over before anything can fail.
ES_SetUID ==
  \E t \in Titles :
    /\ TitleID' = t /\ Answers(Silence) /\ MapUnused
    /\ UNCHANGED <<nand, iTMD, session, ended, leaked, counted, strayed>>

-----------------------------------------------------------------------------
(***************************************************************************)
(* Counts and lists.  A count may be out of date when a title changed      *)
(* after it, or when a file could not be opened for it.                    *)
(***************************************************************************)

Counts(kind, t, tmd, n, short) ==
  /\ counted' = [kind |-> kind, title |-> t, tmd |-> tmd, n |-> n, old |-> short \/ ~Room]
  /\ Answers(Silence) /\ Keeps

\* written: entries put into the client's buffer, which has room for the
\* count; read of had: entries taken from a file of so many.
Listed(written, read, had) ==
  /\ Answers([op |-> "list", written |-> written, room |-> counted.n,
              read |-> read, had |-> had, old |-> counted.old])
  /\ counted' = NoCount /\ Keeps
\* The file of the list, or the TMD, cannot be loaded.
Refuses == Fails /\ Keeps /\ UNCHANGED counted

Follows(kind) == counted.kind = kind

ES_GetTitleContentCount(t) ==
  \/ /\ LoadsTMD(t)
     /\ LET tmd == nand.tmd[t]
        IN  \E failed \in SUBSET DOMAIN tmd :
              /\ Counts("contents", t, NoTMD, Cardinality(OnCard(tmd, t, failed)), failed # {})
              /\ MapSearched(tmd, failed)
  \/ Refuses /\ MapUnused

ES_GetTitleContentsOnCard ==
  /\ Follows("contents")
  /\ \/ /\ LoadsTMD(counted.title)
        /\ LET tmd == nand.tmd[counted.title]
           IN  \E failed \in SUBSET DOMAIN tmd :
                 /\ Listed(Cardinality(OnCard(tmd, counted.title, failed)), 0, 0)
                 /\ MapSearched(tmd, failed)
     \/ Refuses /\ MapUnused

\* The same for a TMD the client has.
ES_GetTmdContentsOnCardCount(t, tmd) ==
  \E failed \in SUBSET DOMAIN tmd :
    /\ Counts("tmd contents", t, tmd, Cardinality(OnCard(tmd, t, failed)), failed # {})
    /\ MapSearched(tmd, failed)

ES_ListTmdContentsOnCard ==
  /\ Follows("tmd contents")
  /\ \E failed \in SUBSET DOMAIN counted.tmd :
       /\ Listed(Cardinality(OnCard(counted.tmd, counted.title, failed)), 0, 0)
       /\ MapSearched(counted.tmd, failed)

\* The file itself, not the copy; the list is as long as the client says.
ES_GetSharedContentCount ==
  /\ \/ LoadsMap /\ Counts("shared", TitleID, NoTMD, Len(nand.map), FALSE)
     \/ Refuses
  /\ MapUnused
ES_GetSharedContents ==
  /\ Follows("shared")
  /\ \/ LoadsMap /\ Listed(counted.n, counted.n, Len(nand.map))
     \/ Refuses
  /\ MapUnused

\* A ticket file that cannot be opened counts as one without tickets.
ES_GetTicketViewCount(t) ==
  /\ \/ Counts("views", t, NoTMD, 0, nand.views[t] # 0)
     \/ Room /\ Counts("views", t, NoTMD, nand.views[t], FALSE)
  /\ MapUnused
ES_GetTicketViews ==
  /\ Follows("views")
  /\ LET n == nand.views[counted.title]
     IN  (Room /\ n > 0 /\ Listed(counted.n, counted.n, n)) \/ Refuses
  /\ MapUnused

ES_GetTMDViewSize(t) ==
  /\ (LoadsTMD(t) /\ Counts("view", t, NoTMD, Len(nand.tmd[t]), FALSE)) \/ Refuses
  /\ MapUnused
ES_GetTMDView ==
  /\ Follows("view")
  /\ (LoadsTMD(counted.title) /\ Listed(Len(nand.tmd[counted.title]), 0, 0)) \/ Refuses
  /\ MapUnused

ES_GetStoredTMDSize(t) ==
  /\ (LoadsTMD(t) /\ Counts("tmd", t, NoTMD, Len(nand.tmd[t]), FALSE)) \/ Refuses
  /\ MapUnused
\* IOS_Read of as much as the client has room for.
ES_GetStoredTMD ==
  /\ Follows("tmd")
  /\ \/ /\ LoadsTMD(counted.title)
        /\ LET n == Len(nand.tmd[counted.title])
               m == IF counted.n < n THEN counted.n ELSE n
           IN  Listed(m, m, n)
     \/ Refuses
  /\ MapUnused

\* The handle of title.tmd is not closed.
ES_DIGetStoredTMDSize ==
  /\ \/ /\ LoadsTMD(TitleID)
        /\ counted' = [kind |-> "di", title |-> TitleID, tmd |-> NoTMD,
                       n |-> Len(nand.tmd[TitleID]), old |-> FALSE]
        /\ ffs' = [ffs EXCEPT ![Slot] = TmdFile(TitleID)]
        /\ leaked' = leaked \cup {Slot}
        /\ told' = Silence
        /\ UNCHANGED <<nand, TitleID, iTMD, session, ended, held, strayed>>
     \/ Refuses
  /\ MapUnused
ES_DIGetStoredTMD ==
  /\ Follows("di") /\ counted.title = TitleID
  /\ (LoadsTMD(TitleID) /\ Listed(Len(nand.tmd[TitleID]), 0, 0)) \/ Refuses
  /\ MapUnused

ContentQuery ==
  \/ \E t \in Titles :
       \/ ES_GetTitleContentCount(t) \/ ES_GetTicketViewCount(t)
       \/ ES_GetTMDViewSize(t) \/ ES_GetStoredTMDSize(t)
       \/ \E tmd \in Tmds[t] : ES_GetTmdContentsOnCardCount(t, tmd)
  \/ ES_GetTitleContentsOnCard \/ ES_ListTmdContentsOnCard
  \/ ES_GetSharedContentCount \/ ES_GetSharedContents
  \/ ES_GetTicketViews \/ ES_GetTMDView \/ ES_GetStoredTMD
  \/ ES_DIGetStoredTMDSize \/ ES_DIGetStoredTMD

-----------------------------------------------------------------------------
(***************************************************************************)
(* iTMD.  Clients open one import or export at a time and end it once, but *)
(* they may give up an import that is not open.                            *)
(***************************************************************************)

Begun(op, t, tmd) ==
  /\ iTMD' = [at |-> "live", title |-> t, tmd |-> tmd]
  /\ session' = [op |-> op, title |-> t, tmd |-> tmd]
Over ==
  /\ session' = NoSession
  /\ ended' = IF session.op = "none" THEN ended ELSE session.op

OtherKept == UNCHANGED <<ffs, held, leaked, TitleID>>
CardKept  == UNCHANGED <<nand, counted>>

\* The card changes: a count told before may be out of date.
Outdates == counted' = IF counted = NoCount THEN counted ELSE [counted EXCEPT !.old = TRUE]

ES_AddTitleStart ==
  /\ session = NoSession
  /\ \E t \in Titles : \E tmd \in Tmds[t] : Begun("import", t, tmd)
  /\ told' = Silence
  /\ UNCHANGED <<ended, strayed>> /\ CardKept /\ OtherKept /\ MapUnused

NewEntries == CNTMap' = MapNow(LoadsMap) /\ CNTMapDirty' = TRUE

\* What an import that succeeds has changed at its end.
ES_AddTitleFinish ==
  /\ session.op = "import" /\ Room
  /\ LET t   == session.title
         tmd == session.tmd
         new == {i \in DOMAIN tmd : tmd[i].shared /\ ~ES_CheckSharedContent(tmd[i].id, LoadsMap)}
     IN  /\ \E order \in [1 .. Cardinality(new) -> new] :   \* they are added in the order of the TMD
              /\ \A j, k \in DOMAIN order : j < k => order[j] < order[k]
              /\ nand' = [nand EXCEPT
                            !.tmd[t] = tmd,
                            !.apps[t] = @ \cup {c.id : c \in {d \in Range(tmd) : ~d.shared}},
                            !.map = @ \o [k \in DOMAIN order |-> tmd[order[k]].id]]
         /\ IF new # {} THEN NewEntries
            ELSE IF UsesMap(tmd) THEN MapUsed(LoadsMap) ELSE MapUnused
  /\ iTMD' = NullTMD /\ Over /\ Outdates
  /\ told' = Silence /\ UNCHANGED strayed /\ OtherKept

iCleanUpTikTMD == iTMD' = NullTMD

ES_AddTitleCancel ==
  /\ session.op # "export"
  /\ IF iTMD.at = "null" THEN UNCHANGED <<iTMD, strayed>>
     ELSE iCleanUpTikTMD /\ strayed' = (iTMD.at = "freed")
  /\ Over /\ told' = Silence
  /\ CardKept /\ OtherKept /\ MapUnused

ES_ExportTitleInit ==
  /\ session = NoSession
  /\ \E t \in Titles :
       \/ LoadsTMD(t) /\ Begun("export", t, nand.tmd[t])
       \/ iTMD' = NullTMD /\ UNCHANGED session
  /\ told' = Silence
  /\ UNCHANGED <<ended, strayed>> /\ CardKept /\ OtherKept /\ MapUnused

\* The number is a place in the TMD here, and a shared content is looked for
\* among those of the title.
ES_ExportContentBegin ==
  /\ session.op = "export"
  /\ \E i \in DOMAIN session.tmd :
       LET c == iTMD.tmd[i]
       IN  \/ /\ Room /\ c.id \in nand.apps[iTMD.title]
              /\ Opened(Slot, App(iTMD.title, c),
                        Named(session.title, session.tmd, session.tmd[i].index))
           \/ Fails
  /\ Keeps /\ UNCHANGED counted /\ MapUnused

ES_ExportContentEnd ==
  /\ session.op = "export"
  /\ \E h \in DOMAIN held : ClosedFile(h)
  /\ Keeps /\ UNCHANGED counted /\ MapUnused

ES_ExportTitleDone ==
  /\ session.op = "export"
  /\ strayed' = (iTMD.at = "freed")
  /\ iTMD' = IF iTMD.at = "null" THEN iTMD ELSE [iTMD EXCEPT !.at = "freed"]
  /\ Over /\ told' = Silence
  /\ CardKept /\ OtherKept /\ MapUnused

-----------------------------------------------------------------------------
(***************************************************************************)
(* What else changes the card and the handles.                             *)
(***************************************************************************)

\* The directory goes with everything in it, and comes back empty.
ES_DeleteTitleContent ==
  /\ \E t \in Titles :
       /\ nand.tmd[t] # NoTMD
       /\ nand' = [nand EXCEPT !.tmd[t] = NoTMD, !.apps[t] = {}]
  /\ Outdates /\ told' = Silence
  /\ UNCHANGED <<iTMD, session, ended, strayed>> /\ OtherKept /\ MapUnused

ES_AddTicket ==
  /\ Room
  /\ \E t \in Titles, n \in Views : nand' = [nand EXCEPT !.views[t] = n]
  /\ Outdates /\ told' = Silence
  /\ UNCHANGED <<iTMD, session, ended, strayed>> /\ OtherKept /\ MapUnused

\* Another process opens or closes a file.
OthersFile ==
  /\ \E h \in FFSHandles :
       \/ Room /\ h = Slot /\ ffs' = [ffs EXCEPT ![h] = Foreign]
       \/ ffs[h] = Foreign /\ ffs' = [ffs EXCEPT ![h] = Unopened]
  /\ told' = Silence /\ UNCHANGED <<held, counted>> /\ Keeps /\ MapUnused

\* ES_Init.
ContentRestart ==
  /\ TitleID' = First /\ CNTMap' = <<>> /\ CNTMapDirty' = TRUE
  /\ ffs' = [h \in FFSHandles |-> Unopened]
  /\ iTMD' = NullTMD /\ session' = NoSession /\ ended' = "none"
  /\ held' = <<>> /\ leaked' = {} /\ counted' = NoCount /\ told' = Silence
  /\ UNCHANGED <<nand, strayed>>

\* Memory that was freed has been used: what follows is not modelled.
ContentNext ==
  /\ ~strayed /\ calls < MaxCalls /\ calls' = calls + 1
  /\ \/ ES_OpenContent \/ ES_OpenTitleContent \/ ES_CloseContent \/ ES_SetUID
     \/ ContentQuery
     \/ ES_AddTitleStart \/ ES_AddTitleFinish \/ ES_AddTitleCancel
     \/ ES_ExportTitleInit \/ ES_ExportContentBegin \/ ES_ExportContentEnd
     \/ ES_ExportTitleDone
     \/ ES_DeleteTitleContent \/ ES_AddTicket \/ OthersFile \/ ContentRestart

ContentSpec == ContentInit /\ [][ContentNext]_contentvars

-----------------------------------------------------------------------------
(***************************************************************************)
(* Properties.                                                             *)
(***************************************************************************)

\* A handle a client got has open what the TMD named at that time, although a
\* shared content is found by its place in a copy of content.map.
HandleIsContent == \A h \in DOMAIN held : ffs[h] = held[h]

\* A content is not found only if the TMD does not name it or it is a shared one
\* that is not in content.map, however old the copy of content.map is; or if this
\* call had to load content.map, and could not.
NotFoundIsGone ==
  told.op = "nfound" /\ ~told.missed =>
    \A c \in Range(nand.tmd[told.title]) :
      c.index = told.index => c.shared /\ c.id \notin Range(nand.map)

\* A list fits into the buffer a client made for the count it was told, and no
\* more is read of a file than it has, unless the count was out of date.
ListFitsCount ==
  told.op = "list" /\ ~told.old => told.written <= told.room /\ told.read <= told.had

\* Of the handles of FFS those that no client and no other process can close
\* are the ones of ES_DIGetStoredTMDSize.
HandlesOwned ==
  \A h \in FFSHandles :
    ffs[h] # Unopened => h \in DOMAIN held \/ h \in leaked \/ ffs[h] = Foreign

\* During an import or export iTMD is its TMD, and it is not used after it was
\* freed, unless an import that is not open is given up after an export.
SessionHasTmd ==
  /\ session.op # "none" =>
       iTMD = [at |-> "live", title |-> session.title, tmd |-> session.tmd]
  /\ strayed => ended = "export"

\* Handles, counts and lists are of the contents that are there.
ContentRight ==
  /\ HandleIsContent
  /\ NotFoundIsGone
  /\ ListFitsCount
  /\ HandlesOwned
  /\ SessionHasTmd
==============================================================================
