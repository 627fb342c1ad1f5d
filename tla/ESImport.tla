------------------------------ MODULE ESImport ------------------------------
(***************************************************************************)
(* Title import in ES (es/ES.c): tickets, title meta data (TMD), private   *)
(* and shared contents, and the files on the NAND they end up in.  ES is   *)
(* one thread that works off one ioctlv at a time (es/main.c).             *)
(*                                                                         *)
(* The console can be switched off at any time.  At the next start FFS     *)
(* empties /tmp (fs/main.c) and ES starts with fresh variables, so only    *)
(* what happened to files outside /tmp counts: a handler that touches them *)
(* once is one step, one that touches them several times takes a step for  *)
(* each, and its request is kept in `req' meanwhile.                       *)
(*                                                                         *)
(* The data of a content is the hash it decrypts to, or Bad.  A file that  *)
(* is not there is None.                                                   *)
(***************************************************************************)
EXTENDS Integers, Sequences, Functions

CONSTANTS
  Titles,      \* title IDs
  SysMenu,     \* the title of the system menu, 1-2
  Ids,         \* content IDs
  Hashes,      \* SHA1 sums of contents
  Tmds,        \* the TMDs that are imported
  Bad,         \* content data with no such sum
  None,        \* no such file, or a NULL pointer
  Torn,        \* a TMD file that was not written completely
  Dirty,       \* CNTMap while *CNTMapDirty is set
  InitMap,     \* /shared1/content.map of the NAND the console starts with
  InitUid,     \* /sys/uid.sys of that NAND
  EmptyLoads,  \* whether heap_alloc_aligned returns a block of size 0
  MaxChunks,   \* bound: pieces a content is delivered in
  MaxFaults    \* bound: operations on files that fail

Content == [id : Ids, hash : Hashes, shared : BOOLEAN, optional : BOOLEAN]

ASSUME ESAssumption ==
  /\ SysMenu \in Titles
  /\ Tmds \subseteq [title : Titles, contents : Seq(Content)]
  /\ \A m \in Tmds : \A i, j \in DOMAIN m.contents :
       m.contents[i].id = m.contents[j].id => i = j
  /\ {Bad, None, Torn, Dirty} \cap (Titles \cup Ids \cup Hashes \cup Tmds) = {}
  /\ Bad # None /\ None # Torn
  /\ InitMap \in Seq(Hashes) /\ \A i, j \in DOMAIN InitMap : InitMap[i] = InitMap[j] => i = j
  /\ InitUid \in Seq(Titles) \cup {None}
  /\ Dirty \notin Seq(Hashes) /\ None \notin Seq(Titles) \cup Seq(Hashes \cup {Bad})
  /\ EmptyLoads \in BOOLEAN
  /\ MaxChunks \in Nat
  /\ MaxFaults \in Nat

Data == Hashes \cup {Bad}

VARIABLES
  ticket,       \* the titles with a file below /ticket
  tmd,          \* title.tmd of each title
  content,      \* the other files in the content directory of each title
  shared1,      \* /shared1/xxxxxxxx.app by number
  map,          \* /shared1/content.map: entry i names the file i - 1
  uid,          \* /sys/uid.sys
  tmp,          \* the files in /tmp
  iTMD,         \* the TMD of the title being imported
  SkipContent,  \* the content being added is there already
  CNTMap,       \* content.map as it was read last
  req,          \* the request whose handler is at work
  reply,        \* the last acknowledgement
  pathFreed,    \* the global buffer `path' was given back to the heap
  cut,          \* history: titles whose deletion was interrupted
  faults        \* history: how many there were

nand == <<ticket, tmd, content, shared1, map, uid, cut>>
ram  == <<iTMD, SkipContent, CNTMap, pathFreed>>
vars == <<nand, tmp, ram, req, reply, faults>>

-----------------------------------------------------------------------------
ES_SUCCESS == 0
ES_EEXIST  == -105      \* FS_FILE_EXIST
ES_NFOUND  == -106
FS_FATAL   == -101
ES_FATAL   == -1017
ES_EHASH   == -1022
ES_ETIKTMD == -1029
SHORT      == 1         \* the count of a write that was cut short

Ops == {"idle", "AddTicket", "GetUID", "NewUID", "finish", "share", "map",
        "close", "tmd", "delete"}
Idle == [op |-> "idle", title |-> None, i |-> 0, r |-> 0, by |-> "none"]

NoTmp == [tik |-> {}, tmd |-> None, raw |-> [c \in Ids |-> None],
          app |-> [c \in Ids |-> None]]

With(f, x, y) == [z \in DOMAIN f \cup {x} |-> IF z = x THEN y ELSE f[z]]

Reply(op, r) == reply' = [op |-> op, ret |-> r] /\ req' = Idle
Go(r)        == req' = r /\ reply' = [op |-> "none", ret |-> 0]
Goto(op)     == Go([req EXCEPT !.op = op])

\* Whether a file operation of the step fails.
Works == faults' = faults
Breaks == faults < MaxFaults /\ faults' = faults + 1

ContentOf(m, c) == {k \in DOMAIN m.contents : m.contents[k].id = c}

Init ==
  /\ ticket = {}
  /\ tmd = [t \in Titles |-> None]
  /\ content = [t \in Titles |-> [c \in Ids |-> None]]
  /\ shared1 = [i \in 0 .. Len(InitMap) - 1 |-> InitMap[i + 1]]
  /\ map = InitMap
  /\ uid = InitUid
  /\ tmp = NoTmp
  /\ iTMD = None /\ SkipContent = FALSE /\ CNTMap = Dirty
  /\ req = Idle /\ reply = [op |-> "none", ret |-> 0]
  /\ pathFreed = FALSE /\ cut = {} /\ faults = 0

-----------------------------------------------------------------------------
(***************************************************************************)
(* Tickets.                                                                *)
(***************************************************************************)

\* The ticket goes to a file in /tmp, which is then renamed.  A write
\* that is cut short gives the count as the result.
AddTicket(t) ==
  /\ \/ /\ t \in tmp.tik /\ Works
        /\ Reply("AddTicket", ES_EEXIST)
        /\ UNCHANGED tmp
     \/ /\ t \notin tmp.tik /\ Works
        /\ tmp' = [tmp EXCEPT !.tik = @ \cup {t}]
        /\ Go([Idle EXCEPT !.op = "AddTicket", !.title = t])
     \/ /\ t \notin tmp.tik /\ Breaks
        /\ \/ Reply("AddTicket", FS_FATAL) /\ UNCHANGED tmp
           \/ /\ tmp' = [tmp EXCEPT !.tik = @ \cup {t}]
              /\ \E r \in {FS_FATAL, SHORT} : Reply("AddTicket", r)
  /\ UNCHANGED <<nand, ram>>

\* FS_Move removes a ticket that is there and then renames the new one.
AddTicket_Overwrite ==
  /\ req.op = "AddTicket" /\ req.title \in ticket
  /\ Works
  /\ ticket' = ticket \ {req.title}
  /\ UNCHANGED <<tmd, content, shared1, map, uid, cut, tmp, ram, req, reply>>

AddTicket_Move ==
  /\ req.op = "AddTicket"
  /\ \/ /\ req.title \notin ticket /\ Works
        /\ ticket' = ticket \cup {req.title}
        /\ tmp' = [tmp EXCEPT !.tik = @ \ {req.title}]
        /\ Reply("AddTicket", ES_SUCCESS)
     \/ /\ Breaks
        /\ Reply("AddTicket", FS_FATAL)
        /\ UNCHANGED <<ticket, tmp>>
  /\ UNCHANGED <<tmd, content, shared1, map, uid, cut, ram>>

-----------------------------------------------------------------------------
(***************************************************************************)
(* Titles and their user IDs.                                              *)
(***************************************************************************)

\* iTMD is replaced before it is known whether /tmp/title.tmd can be made.
AddTitleStart(m) ==
  /\ iTMD' = m
  /\ \/ /\ tmp.tmd # None /\ Works
        /\ Reply("AddTitleStart", ES_EEXIST)
        /\ UNCHANGED tmp
     \/ /\ tmp.tmd = None /\ Works
        /\ tmp' = [tmp EXCEPT !.tmd = m]
        /\ Go([Idle EXCEPT !.op = "GetUID", !.title = m.title, !.by = "AddTitleStart"])
     \/ /\ tmp.tmd = None /\ Breaks
        /\ \/ Reply("AddTitleStart", FS_FATAL) /\ UNCHANGED tmp
           \/ /\ tmp' = [tmp EXCEPT !.tmd = Torn]
              /\ \E r \in {FS_FATAL, SHORT} : Reply("AddTitleStart", r)
  /\ UNCHANGED <<nand, SkipContent, CNTMap, pathFreed>>

ES_SetUID(t) ==
  /\ Go([Idle EXCEPT !.op = "GetUID", !.title = t, !.by = "SetUID"])
  /\ UNCHANGED <<nand, tmp, ram, faults>>

\* AddTitleStart does not look at the result of GetUID; SetUID does, and then
\* takes the group from the title's TMD.
GotUID(r) ==
  Reply(req.by, IF req.by = "AddTitleStart" THEN ES_SUCCESS
                ELSE IF r < 0 THEN r
                ELSE IF tmd[req.title] = None THEN ES_NFOUND ELSE ES_SUCCESS)

\* Without uid.sys one is created, and its first entry is written next.
GetUID_Create ==
  /\ req.op = "GetUID" /\ uid = None
  /\ \/ Works /\ uid' = <<>> /\ Goto("NewUID")
     \/ Breaks /\ GotUID(FS_FATAL) /\ UNCHANGED uid
  /\ UNCHANGED <<ticket, tmd, content, shared1, map, cut, tmp, ram>>

GetUID_Default ==
  /\ req.op = "NewUID"
  /\ \/ Works /\ uid' = <<SysMenu>> /\ Goto("GetUID")
     \/ Breaks /\ GotUID(FS_FATAL) /\ UNCHANGED uid
  /\ UNCHANGED <<ticket, tmd, content, shared1, map, cut, tmp, ram>>

\* A title without an entry gets the next one.  When uid.sys cannot be loaded
\* it gets none; for an empty file that depends on the heap.
GetUID ==
  /\ req.op = "GetUID" /\ uid # None
  /\ \/ /\ Works
        /\ uid' = IF req.title \in Range(uid) \/ (uid = <<>> /\ ~ EmptyLoads)
                  THEN uid ELSE Append(uid, req.title)
        /\ GotUID(1)
     \/ /\ Breaks
        /\ GotUID(FS_FATAL)
        /\ UNCHANGED uid
  /\ UNCHANGED <<ticket, tmd, content, shared1, map, cut, tmp, ram>>

-----------------------------------------------------------------------------
(***************************************************************************)
(* Contents.                                                               *)
(***************************************************************************)

\* ES_CheckSharedContent: 1 when content.map has the hash, 0 when not, and
\* ES_FATAL when the map has to be loaded and cannot be.
ES_CheckSharedContent(h, r) ==
  \/ /\ r = ES_FATAL /\ CNTMap = Dirty
     /\ \/ map = <<>> /\ ~ EmptyLoads /\ Works
        \/ Breaks
     /\ UNCHANGED CNTMap
  \/ LET m == IF CNTMap = Dirty THEN map ELSE CNTMap
     IN  /\ CNTMap = Dirty => (map # <<>> \/ EmptyLoads)
         /\ Works
         /\ CNTMap' = m
         /\ r = IF h \in Range(m) THEN 1 ELSE 0

Checks == {0, 1, ES_FATAL}

\* A shared content that is on the NAND is skipped.
AddContentStart(c) ==
  /\ IF iTMD = None
     THEN /\ SkipContent' = FALSE /\ UNCHANGED CNTMap /\ Works
          /\ Reply("AddContentStart", ES_FATAL)
     ELSE /\ \/ \E k \in ContentOf(iTMD, c), r \in Checks :
                  /\ iTMD.contents[k].shared
                  /\ ES_CheckSharedContent(iTMD.contents[k].hash, r)
                  /\ SkipContent' = (r = 1)
             \/ /\ \A k \in ContentOf(iTMD, c) : ~ iTMD.contents[k].shared
                /\ SkipContent' = FALSE /\ UNCHANGED CNTMap /\ Works
          /\ Reply("AddContentStart", ES_SUCCESS)
  /\ UNCHANGED <<nand, tmp, iTMD, pathFreed>>

\* The data is appended to the file of the content in /tmp.
AddContentData(c, d) ==
  LET old    == IF tmp.raw[c] = None THEN <<>> ELSE tmp.raw[c]
      raw(s) == tmp' = [tmp EXCEPT !.raw[c] = s]
  IN  /\ Len(old) < MaxChunks
      /\ \/ SkipContent /\ Works /\ Reply("AddContentData", ES_SUCCESS) /\ UNCHANGED tmp
         \/ /\ ~ SkipContent /\ iTMD = None /\ Works
            /\ Reply("AddContentData", ES_FATAL)
            /\ UNCHANGED tmp
         \/ /\ ~ SkipContent /\ iTMD # None /\ Works
            /\ raw(Append(old, d))
            /\ Reply("AddContentData", ES_SUCCESS)
         \/ /\ ~ SkipContent /\ iTMD # None /\ Breaks
            /\ \E r \in {FS_FATAL, SHORT} : Reply("AddContentData", r)
            /\ \/ UNCHANGED tmp
               \/ raw(old)
               \/ raw(Append(old, Bad))
      /\ UNCHANGED <<nand, ram>>

\* Mutant of Decrypted: the sum of the data is not compared.
Decrypted_unchecked(c, d, r) ==
  /\ Works
  /\ d = IF tmp.raw[c] = <<>> THEN Bad ELSE Head(tmp.raw[c])
  /\ r = IF ContentOf(iTMD, c) = {} THEN ES_FATAL ELSE ES_SUCCESS

\* What is in the decrypted file of content c, and the result: the first
\* piece is all that belongs to the content.  A failing write of the last,
\* incomplete block is only logged.
Decrypted(c, d, r) ==
  LET first == IF tmp.raw[c] = <<>> THEN Bad ELSE Head(tmp.raw[c])
      good  == \E k \in ContentOf(iTMD, c) : iTMD.contents[k].hash = first
  IN  IF ContentOf(iTMD, c) = {}
      THEN Works /\ d = Bad /\ r = ES_FATAL
      ELSE \/ Works  /\ d = first /\ r = IF good THEN ES_SUCCESS ELSE ES_EHASH
           \/ Breaks /\ d = Bad   /\ r = ES_EHASH
           \/ Breaks /\ d = Bad   /\ r = IF good THEN ES_SUCCESS ELSE ES_EHASH

\* ESP_AddContentFinish: the file is decrypted to another one in /tmp.
Decrypt(c) ==
  \/ /\ tmp.raw[c] = None /\ Works
     /\ Reply("AddContentFinish", ES_SUCCESS)
     /\ UNCHANGED tmp
  \/ /\ tmp.raw[c] # None /\ tmp.app[c] # None /\ Works
     /\ Reply("AddContentFinish", ES_EEXIST)
     /\ UNCHANGED tmp
  \/ /\ tmp.raw[c] # None /\ tmp.app[c] = None
     /\ \E d \in Data, r \in {ES_SUCCESS, ES_EHASH, ES_FATAL} :
          /\ Decrypted(c, d, r)
          /\ tmp' = [tmp EXCEPT !.app[c] = d]
          /\ Reply("AddContentFinish", r)
  \/ /\ Breaks
     /\ Reply("AddContentFinish", FS_FATAL)
     /\ \/ UNCHANGED tmp
        \/ tmp.app[c] = None /\ tmp' = [tmp EXCEPT !.app[c] = Bad]

\* Without the title's ticket there is no key, and the import state is freed.
AddContentFinish(c) ==
  /\ \/ /\ SkipContent /\ Works
        /\ Reply("AddContentFinish", ES_SUCCESS)
        /\ UNCHANGED <<tmp, iTMD>>
     \/ /\ ~ SkipContent /\ iTMD = None /\ Works
        /\ Reply("AddContentFinish", ES_FATAL)
        /\ UNCHANGED <<tmp, iTMD>>
     \/ /\ ~ SkipContent /\ iTMD # None
        /\ (iTMD.title \notin ticket /\ Works) \/ Breaks
        /\ iTMD' = None
        /\ Reply("AddContentFinish", ES_ETIKTMD)
        /\ UNCHANGED tmp
     \/ /\ ~ SkipContent /\ iTMD # None /\ iTMD.title \in ticket
        /\ Decrypt(c)
        /\ UNCHANGED iTMD
  /\ UNCHANGED <<nand, SkipContent, CNTMap, pathFreed>>

-----------------------------------------------------------------------------
(***************************************************************************)
(* The end of an import: the contents are moved to their places one by     *)
(* one, and the TMD last.                                                  *)
(***************************************************************************)

\* Mutant of CleanTmp: title.tmd stays.
CleanTmp_no_tmd ==
  tmp' = [tmp EXCEPT
            !.raw = [c \in Ids |-> IF ContentOf(iTMD, c) # {} THEN None ELSE @[c]],
            !.app = [c \in Ids |-> IF ContentOf(iTMD, c) # {} THEN None ELSE @[c]]]

\* title.tmd and the files of every content of the import are deleted.
CleanTmp ==
  tmp' = [tmp EXCEPT !.tmd = None,
            !.raw = [c \in Ids |-> IF ContentOf(iTMD, c) # {} THEN None ELSE @[c]],
            !.app = [c \in Ids |-> IF ContentOf(iTMD, c) # {} THEN None ELSE @[c]]]

AddTitleFinish ==
  /\ iTMD # None       \* else the handler follows a NULL pointer
  /\ Go([Idle EXCEPT !.op = "finish", !.title = iTMD.title, !.i = 1, !.r = ES_FATAL])
  /\ UNCHANGED <<nand, tmp, ram, faults>>

Current == iTMD.contents[req.i]
AtContent == req.op = "finish" /\ req.i <= Len(iTMD.contents)
App == tmp.app[Current.id]

\* On to the next content with result r, or out of the loop.
NextContent(r) == Go([req EXCEPT !.op = "finish", !.i = req.i + 1, !.r = r])
Break(r)       == Go([req EXCEPT !.op = "close", !.r = r])
DropApp        == tmp' = [tmp EXCEPT !.app[Current.id] = None]

\* A shared content: it is there and the result stays what it was, or
\* content.map cannot be loaded, or it is to be moved to /shared1.
FinishShared ==
  /\ AtContent /\ Current.shared
  /\ \E r \in Checks :
       /\ ES_CheckSharedContent(Current.hash, r)
       /\ \/ r = 1 /\ NextContent(req.r) /\ DropApp
          \/ r = ES_FATAL /\ NextContent(req.r) /\ UNCHANGED tmp
          \/ r = 0 /\ Goto("share") /\ UNCHANGED tmp
  /\ UNCHANGED <<nand, iTMD, SkipContent, pathFreed>>

\* Mutant of FinishShared_Overwrite: the number of the last entry is taken.
FinishShared_Overwrite_last ==
  /\ req.op = "share" /\ App # None /\ Len(map) - 1 \in DOMAIN shared1
  /\ Works
  /\ shared1' = Restrict(shared1, DOMAIN shared1 \ {Len(map) - 1})
  /\ UNCHANGED <<ticket, tmd, content, map, uid, cut, tmp, ram, req, reply>>

\* A file that an interrupted import left at the number of the next entry is
\* removed first.
FinishShared_Overwrite ==
  /\ req.op = "share" /\ App # None /\ Len(map) \in DOMAIN shared1
  /\ Works
  /\ shared1' = Restrict(shared1, DOMAIN shared1 \ {Len(map)})
  /\ UNCHANGED <<ticket, tmd, content, map, uid, cut, tmp, ram, req, reply>>

\* Mutant of FinishShared_Move: the rename is taken to succeed.
FinishShared_Move_any ==
  /\ req.op = "share" /\ Len(map) \notin DOMAIN shared1
  /\ Works
  /\ shared1' = With(shared1, Len(map), App)
  /\ DropApp
  /\ Goto("map")
  /\ UNCHANGED <<ticket, tmd, content, map, uid, cut, ram>>

\* The content gets the number of the next entry.
FinishShared_Move ==
  /\ req.op = "share" /\ App # None /\ Len(map) \notin DOMAIN shared1
  /\ Works
  /\ shared1' = With(shared1, Len(map), App)
  /\ DropApp
  /\ Goto("map")
  /\ UNCHANGED <<ticket, tmd, content, map, uid, cut, ram>>

\* The rename failed.  For a mandatory content the
\* handler gives up, with `path' freed and /tmp as it is.
FinishShared_Missing ==
  /\ req.op = "share"
  /\ (App = None /\ Works) \/ Breaks
  /\ \E e \in {ES_NFOUND, FS_FATAL} :
       IF Current.optional
       THEN NextContent(e) /\ UNCHANGED pathFreed
       ELSE Reply("AddTitleFinish", e) /\ pathFreed' = TRUE
  /\ UNCHANGED <<nand, tmp, iTMD, SkipContent, CNTMap>>

\* Mutant of FinishShared_Map: the loaded map is not marked as out of date.
FinishShared_Map_clean ==
  /\ req.op = "map"
  /\ Works /\ map' = Append(map, Current.hash)
  /\ NextContent(ES_SUCCESS)
  /\ UNCHANGED <<ticket, tmd, content, shared1, uid, cut, tmp, ram>>

\* The entry is written and the map is to be loaded again; the result of the
\* write is not looked at.
FinishShared_Map ==
  /\ req.op = "map"
  /\ \/ Works /\ map' = Append(map, Current.hash)
     \/ Breaks /\ UNCHANGED map
  /\ CNTMap' = Dirty
  /\ NextContent(ES_SUCCESS)
  /\ UNCHANGED <<ticket, tmd, content, shared1, uid, cut, tmp, iTMD, SkipContent, pathFreed>>

\* Mutant of FinishPrivate: the file in /tmp is deleted before it is moved.
FinishPrivate_dropped ==
  LET t == req.title
      c == Current.id
  IN  /\ AtContent /\ ~ Current.shared
      /\ Works
      /\ \/ /\ content[t][c] # None \/ App # None
            /\ DropApp
            /\ NextContent(ES_SUCCESS)
         \/ /\ content[t][c] = None /\ App = None
            /\ IF Current.optional THEN NextContent(ES_SUCCESS) ELSE Break(ES_NFOUND)
            /\ UNCHANGED tmp
      /\ UNCHANGED <<ticket, content, tmd, shared1, map, uid, cut, ram>>

\* content.map could not be opened: the content is renamed to the negative
\* number that stands for the error, where no entry will ever name it (it is
\* left out of shared1), and the write of the entry fails unseen.
FinishShared_Lost ==
  /\ req.op = "share" /\ App # None
  /\ Breaks
  /\ DropApp
  /\ CNTMap' = Dirty
  /\ NextContent(ES_SUCCESS)
  /\ UNCHANGED <<nand, iTMD, SkipContent, pathFreed>>

\* A private content: it is there already, or it is moved, or there is nothing
\* to move, which ends the loop for a mandatory content.  A rename onto a file
\* that is there removes that file first.
FinishPrivate ==
  LET t == req.title
      c == Current.id
  IN  /\ AtContent /\ ~ Current.shared
      /\ \/ /\ content[t][c] # None /\ Works
            /\ DropApp
            /\ NextContent(ES_SUCCESS)
            /\ UNCHANGED content
         \/ /\ content[t][c] = None /\ App # None /\ Works
            /\ content' = [content EXCEPT ![t][c] = App]
            /\ DropApp
            /\ NextContent(ES_SUCCESS)
         \/ /\ App # None /\ Breaks     \* it was there and could not be opened
            /\ content' = [content EXCEPT ![t][c] = App]
            /\ DropApp
            /\ NextContent(ES_SUCCESS)
         \/ /\ (content[t][c] = None /\ App = None /\ Works) \/ Breaks
            /\ IF Current.optional THEN NextContent(ES_SUCCESS) ELSE Break(ES_NFOUND)
            /\ \/ UNCHANGED content
               \/ App # None /\ content' = [content EXCEPT ![t][c] = None]
            /\ UNCHANGED tmp
      /\ UNCHANGED <<ticket, tmd, shared1, map, uid, cut, ram>>

\* After the loop the TMD is moved when the last result was ES_SUCCESS.
FinishLoop ==
  /\ req.op = "finish" /\ req.i > Len(iTMD.contents)
  /\ Goto(IF req.r = ES_SUCCESS THEN "tmd" ELSE "close")
  /\ UNCHANGED <<nand, tmp, ram, faults>>

FinishTmd_Overwrite ==
  /\ req.op = "tmd" /\ tmp.tmd # None /\ tmd[req.title] # None
  /\ Works
  /\ tmd' = [tmd EXCEPT ![req.title] = None]
  /\ UNCHANGED <<ticket, content, shared1, map, uid, cut, tmp, ram, req, reply>>

FinishTmd_Move ==
  /\ req.op = "tmd"
  /\ \/ /\ tmp.tmd # None /\ tmd[req.title] = None /\ Works
        /\ tmd' = [tmd EXCEPT ![req.title] = tmp.tmd]
        /\ tmp' = [tmp EXCEPT !.tmd = None]
        /\ cut' = cut \ {req.title}
        /\ Break(ES_SUCCESS)
     \/ /\ (tmp.tmd = None /\ Works) \/ Breaks
        /\ Break(ES_NFOUND)
        /\ UNCHANGED <<tmd, tmp, cut>>
  /\ UNCHANGED <<ticket, content, shared1, map, uid, ram>>

\* iCleanUpTikTMD and the acknowledgement.
FinishClose ==
  /\ req.op = "close"
  /\ CleanTmp
  /\ iTMD' = None
  /\ Reply("AddTitleFinish", req.r)
  /\ UNCHANGED <<nand, SkipContent, CNTMap, pathFreed, faults>>

AddTitleCancel ==
  /\ IF iTMD = None THEN UNCHANGED tmp ELSE CleanTmp
  /\ iTMD' = None
  /\ Reply("AddTitleCancel", ES_SUCCESS)
  /\ UNCHANGED <<nand, SkipContent, CNTMap, pathFreed, faults>>

-----------------------------------------------------------------------------
(***************************************************************************)
(* Deleting a title's content directory, file by file, and the power.      *)
(***************************************************************************)

DeleteTitleContent(t) ==
  /\ Go([Idle EXCEPT !.op = "delete", !.title = t])
  /\ UNCHANGED <<nand, tmp, ram, faults>>

DeleteFile ==
  LET t == req.title
  IN  /\ req.op = "delete"
      /\ Works
      /\ \/ \E c \in Ids : /\ content[t][c] # None
                           /\ content' = [content EXCEPT ![t][c] = None]
                           /\ UNCHANGED tmd
         \/ /\ tmd[t] # None
            /\ tmd' = [tmd EXCEPT ![t] = None]
            /\ UNCHANGED content
      /\ UNCHANGED <<ticket, shared1, map, uid, cut, tmp, ram, req, reply>>

\* All files are gone, or one could not be deleted, or there is no directory.
DeleteEnd ==
  LET gone == tmd[req.title] = None /\ \A c \in Ids : content[req.title][c] = None
  IN  /\ req.op = "delete"
      /\ \/ /\ gone /\ Works
            /\ \E r \in {ES_SUCCESS, ES_NFOUND} : Reply("DeleteTitleContent", r)
            /\ cut' = cut \ {req.title}
         \/ /\ ~ gone /\ Breaks
            /\ Reply("DeleteTitleContent", FS_FATAL)
            /\ cut' = cut \cup {req.title}
      /\ UNCHANGED <<ticket, tmd, content, shared1, map, uid, tmp, ram>>

\* Power off and on: FFS empties /tmp, ES starts again.
Restart ==
  /\ tmp' = NoTmp
  /\ iTMD' = None /\ SkipContent' = FALSE /\ CNTMap' = Dirty
  /\ pathFreed' = FALSE
  /\ req' = Idle /\ reply' = [op |-> "none", ret |-> 0]
  /\ cut' = IF req.op = "delete" THEN cut \cup {req.title} ELSE cut
  /\ UNCHANGED <<ticket, tmd, content, shared1, map, uid, faults>>

-----------------------------------------------------------------------------
Accepts == req.op = "idle" /\ ~ pathFreed

\* The ioctlvs, in any order a client may send them.
Request ==
  \/ \E t \in Titles : AddTicket(t) \/ ES_SetUID(t) \/ DeleteTitleContent(t)
  \/ \E m \in Tmds : AddTitleStart(m)
  \/ \E c \in Ids : \/ AddContentStart(c)
                    \/ \E d \in Data : AddContentData(c, d)
                    \/ AddContentFinish(c)
  \/ AddTitleFinish
  \/ AddTitleCancel

\* The rest of the handler of the request that was accepted.
Work ==
  \/ AddTicket_Overwrite \/ AddTicket_Move
  \/ GetUID_Create \/ GetUID_Default \/ GetUID
  \/ FinishShared \/ FinishShared_Overwrite \/ FinishShared_Move
  \/ FinishShared_Missing \/ FinishShared_Lost \/ FinishShared_Map
  \/ FinishPrivate \/ FinishLoop
  \/ FinishTmd_Overwrite \/ FinishTmd_Move \/ FinishClose
  \/ DeleteFile \/ DeleteEnd

Next == (Accepts /\ Request) \/ Work \/ Restart

Spec == Init /\ [][Next]_vars

-----------------------------------------------------------------------------
(***************************************************************************)
(* Properties that hold whatever calls the clients make, whichever file    *)
(* operations fail and whenever the power goes.                            *)
(***************************************************************************)

Step == [op : Ops, title : Titles \cup {None}, i : Nat, r : Int,
         by : {"none", "AddTitleStart", "SetUID"}]

Calls == {"none", "AddTicket", "AddTitleStart", "SetUID", "AddContentStart",
          "AddContentData", "AddContentFinish", "AddTitleFinish", "AddTitleCancel",
          "DeleteTitleContent"}

TmpFiles == [tik : SUBSET Titles, tmd : Tmds \cup {None, Torn},
             raw : [Ids -> {None} \cup Seq(Data)], app : [Ids -> Data \cup {None}]]

\* The variables have the types of the files and structures they stand for.
TypeOK ==
  /\ ticket \subseteq Titles /\ cut \subseteq Titles
  /\ tmd \in [Titles -> Tmds \cup {None, Torn}]
  /\ content \in [Titles -> [Ids -> Data \cup {None}]]
  /\ DOMAIN shared1 \subseteq Nat /\ Range(shared1) \subseteq Data
  /\ map \in Seq(Hashes)
  /\ uid \in {None} \cup Seq(Titles)
  /\ tmp \in TmpFiles
  /\ iTMD \in Tmds \cup {None}
  /\ CNTMap \in {Dirty} \cup Seq(Hashes)
  /\ req \in Step /\ reply \in [op : Calls, ret : Int]
  /\ SkipContent \in BOOLEAN /\ pathFreed \in BOOLEAN
  /\ faults \in 0 .. MaxFaults

\* Every entry of content.map has its file: the file is moved before the entry
\* is written, and the place of an entry is never given to another file.
MapBacked == \A i \in DOMAIN map : i - 1 \in DOMAIN shared1

\* No shared content is on the NAND twice: the copy of content.map that ES
\* looks at is never behind the file.
MapDistinct == \A i, j \in DOMAIN map : map[i] = map[j] => i = j

\* A title keeps its user ID, that is its place in uid.sys, for ever: the file
\* is never made anew, and a new entry is never written over an older one.
UidStable ==
  [][uid # None => /\ uid' # None
                   /\ \A i \in DOMAIN uid : i \in DOMAIN uid' /\ uid'[i] = uid[i]]_vars

\* A title's TMD is put in place, or replaced, only while all the mandatory
\* private contents of the import are in place, whatever calls were made,
\* failed or were left out before.
CommitLast ==
  [][\A t \in Titles : tmd'[t] \notin {None, tmd[t]} =>
       \A j \in DOMAIN iTMD.contents :
         \/ iTMD.contents[j].shared \/ iTMD.contents[j].optional
         \/ content[t][iTMD.contents[j].id] # None]_vars

\* A file of /shared1 that an entry names is never replaced.
SharedStable ==
  [][\A i \in DOMAIN map : /\ i - 1 \in DOMAIN shared1'
                           /\ shared1'[i - 1] = shared1[i - 1]]_vars

\* content.map names only files that are there, and none twice.
MapRight == MapBacked /\ MapDistinct

\* What titles share stays: the files of shared contents and the user IDs.
NothingLost == SharedStable /\ UidStable
=============================================================================
