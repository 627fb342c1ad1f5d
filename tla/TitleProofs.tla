------------------------------ MODULE TitleProofs ------------------------------
(***************************************************************************)
(* Theorems about the installer of TitleInstall and the lists of           *)
(* TitleLists, for any imports, while no file operation fails: the power   *)
(* may go off at any step, data may arrive damaged, imports may be given   *)
(* up and titles be deleted.                                               *)
(***************************************************************************)
EXTENDS TitleLists, ESProofs, Counting

\* The content number p of the import at work, and its files in /tmp.
Piece(p) == Tmd.contents[p]
Pieces   == DOMAIN Tmd.contents
Raw(p)   == tmp.raw[Piece(p).id]
Plain(p) == tmp.app[Piece(p).id]

\* Nothing of an import is left in memory or in /tmp.
Quiet ==
  /\ iTMD = None /\ tmp.tmd = None
  /\ \A c \in Ids : tmp.raw[c] = None /\ tmp.app[c] = None

\* The files in /tmp belong to the import at work.
Own ==
  /\ iTMD = Tmd
  /\ \A c \in Ids : tmp.raw[c] # None \/ tmp.app[c] # None => ContentOf(Tmd, c) # {}

\* No data was delivered of content p; what was is what the TMD asks for.
Untouched(n) == \A p \in Pieces : p >= n => Raw(p) = None /\ Plain(p) = None
AllGenuine   == \A p \in Pieces : Plain(p) \in {None, Piece(p).hash}

\* Content p is on the NAND; it is there, in /tmp, or need not be.
There(p)    == IF Piece(p).shared THEN Piece(p).hash \in Range(map)
                                  ELSE content[Tmd.title][Piece(p).id] # None
Provided(p) == Piece(p).optional \/ There(p) \/ Plain(p) = Piece(p).hash

ProvidedTo(n)   == \A p \in Pieces : p <= n => Provided(p)
ProvidedFrom(n) == \A p \in Pieces : p >= n => Provided(p)
PlacedTo(n)     == \A p \in Pieces : p < n => Piece(p).optional \/ There(p)

HasUid == EmptyLoads => uid # None /\ Tmd.title \in Range(uid)

\* Once a content of its own is passed, the result of AddTitleFinish is settled.
Settled(n) == Ordinary /\ (\E p \in Pieces : p < n /\ ~ Piece(p).shared) => req.r = ES_SUCCESS

-----------------------------------------------------------------------------
(***************************************************************************)
(* Where the installer and its request are.                                *)
(***************************************************************************)

Resting ==
  /\ Quiet
  /\ step = "none" => req.op \in {"idle", "delete"}
  /\ step = "cancel" => req.op = "idle"
  /\ step = "ticket" =>
       /\ req.op \in {"idle", "AddTicket"}
       /\ req.op = "AddTicket" => req.title = Tmd.title
       /\ req.op = "idle" => reply.ret = ES_SUCCESS /\ Tmd.title \in ticket

Starting ==
  /\ iTMD = Tmd /\ tmp.tmd = Tmd /\ k = 0
  /\ \A c \in Ids : tmp.raw[c] = None /\ tmp.app[c] = None
  /\ req.op \in {"idle", "GetUID", "NewUID"}
  /\ req.op # "idle" => req.by = "AddTitleStart" /\ req.title = Tmd.title
  /\ req.op = "idle" => reply.ret = ES_SUCCESS /\ HasUid

Delivering ==
  /\ Own /\ tmp.tmd = Tmd /\ HasUid
  /\ req.op = "idle" /\ k \in Pieces
  /\ Untouched(k + 1)
  /\ step \in {"cstart", "cdata"} =>
       /\ reply.ret = ES_SUCCESS
       /\ AllGenuine /\ Plain(k) = None /\ ProvidedTo(k - 1)
       /\ SkipContent => Piece(k).shared /\ There(k)
  /\ step = "cstart" => Raw(k) = None
  /\ step = "cdata" => SkipContent \/ Raw(k) \in {<<Bad>>, <<Piece(k).hash>>}
  /\ step = "cfinish" => ~ Ok \/ (AllGenuine /\ ProvidedTo(k))

Finishing ==
  /\ HasUid
  /\ req.op \in {"finish", "share", "map", "tmd", "close", "idle"}
  /\ req.op # "idle" => req.title = Tmd.title
  /\ req.op \in {"finish", "share", "map", "tmd"} => Own /\ tmp.tmd = Tmd /\ AllGenuine
  /\ req.op \in {"finish", "share", "map"} => PlacedTo(req.i) /\ Settled(req.i)
  /\ req.op \in {"finish", "share"} => ProvidedFrom(req.i)
  /\ req.op = "map" => ProvidedFrom(req.i + 1) /\ shared1[Len(map)] = Current.hash
  /\ req.op = "tmd" => PlacedTo(Len(Tmd.contents) + 1)
  /\ req.op = "close" => Own /\ (Ordinary => req.r = ES_SUCCESS)
  /\ req.op = "idle" => Quiet /\ (Ordinary => reply.ret = ES_SUCCESS)

ClientOK ==
  /\ job \in 1 .. Len(Jobs) + 1
  /\ step \in {"none", "ticket", "cancel", "start", "cstart", "cdata", "cfinish", "finish"}
  /\ step # "none" => Working
  /\ ~ pathFreed
  /\ tmp.tik \subseteq (IF req.op = "AddTicket" THEN {Tmd.title} ELSE {})
  /\ step \notin {"none", "ticket", "cancel"} => Tmd.title \in ticket
  /\ step \in {"none", "ticket", "cancel"} => Resting
  /\ step = "start" => Starting
  /\ step \in {"cstart", "cdata", "cfinish"} => Delivering
  /\ step = "finish" => Finishing

\* The files of the NAND hold what their names say.
SharedRight ==
  /\ \A i \in DOMAIN map : shared1[i - 1] = map[i]
  /\ EmptyLoads \/ map # <<>>

PrivateRight ==
  \A j \in DOMAIN Jobs : \A p \in DOMAIN Jobs[j].contents :
    \/ Jobs[j].contents[p].shared
    \/ content[Jobs[j].title][Jobs[j].contents[p].id] \in {None, Jobs[j].contents[p].hash}

Complete(t) ==
  \A i \in DOMAIN tmd[t].contents :
    tmd[t].contents[i].optional \/ Available(t, tmd[t].contents[i])

TmdRightOf(t) ==
  /\ tmd[t] \in Tmds /\ tmd[t].title = t
  /\ EmptyLoads => uid # None /\ t \in Range(uid)
  /\ ~ Deleting(t) => Complete(t)

TmdRight == \A t \in Titles : tmd[t] # None => TmdRightOf(t)

Sound    == SharedRight /\ PrivateRight /\ TmdRight /\ ClientOK
TitleInv == faults = 0 => Sound

-----------------------------------------------------------------------------
\* An import of the list is a TMD, and its contents have numbers from 1 on.
LEMMA JobFacts ==
  ASSUME NEW j \in DOMAIN Jobs
  PROVE  /\ Jobs[j] \in Tmds /\ Jobs[j].title \in Titles
         /\ Jobs[j].contents \in Seq(Content)
         /\ \A p \in DOMAIN Jobs[j].contents :
              /\ p \in Nat /\ p >= 1 /\ p <= Len(Jobs[j].contents)
              /\ Jobs[j].contents[p] \in Content
              /\ Jobs[j].contents[p].id \in Ids /\ Jobs[j].contents[p].hash \in Hashes
              /\ Jobs[j].contents[p].hash \notin {Bad, None}
         /\ \A p, q \in DOMAIN Jobs[j].contents :
              Jobs[j].contents[p].id = Jobs[j].contents[q].id => p = q
<1>1. Jobs[j] \in Tmds
  BY InstallAssumption
<1>2. \A h \in Hashes : h \notin {Bad, None}
  BY ESAssumption
<1> QED
  BY <1>1, <1>2, Contents, ESAssumption

LEMMA TmdFacts ==
  ASSUME job \in 1 .. Len(Jobs) + 1, Working
  PROVE  /\ job \in DOMAIN Jobs /\ Tmd \in Tmds /\ Tmd.title \in Titles
         /\ Tmd.contents \in Seq(Content) /\ Pieces = 1 .. Len(Tmd.contents)
         /\ Len(Tmd.contents) \in Nat
         /\ \A p \in Pieces :
              /\ p \in Nat /\ p >= 1 /\ p <= Len(Tmd.contents)
              /\ Piece(p) \in Content
              /\ Piece(p).id \in Ids /\ Piece(p).hash \in Hashes
              /\ Piece(p).hash \notin {Bad, None}
         /\ \A p, q \in Pieces : Piece(p).id = Piece(q).id => p = q
<1>1. job \in DOMAIN Jobs
  BY InstallAssumption DEF Working
<1>2. PICK j \in DOMAIN Jobs : j = job
  BY <1>1
<1> QED
  BY <1>2, JobFacts DEF Tmd, Pieces, Piece

\* The contents of the import with an ID are one.
LEMMA TheContent ==
  ASSUME job \in 1 .. Len(Jobs) + 1, Working, NEW p \in Pieces
  PROVE  ContentOf(Tmd, Piece(p).id) = {p}
  BY TmdFacts DEF ContentOf, Piece, Pieces

\* Without a fault before and after, a step's file operations work.
LEMMA NoFault ==
  ASSUME TypeOK, faults' = 0, Works \/ Breaks
  PROVE  Works /\ faults = 0 /\ ~ Breaks
  BY DEF Works, Breaks, TypeOK

LEMMA ReplyIs ==
  ASSUME NEW op, NEW r, Reply(op, r)
  PROVE  req'.op = "idle" /\ req'.title = None /\ reply'.ret = r
  BY DEF Reply, Idle

LEMMA GoIs ==
  ASSUME NEW q, Go(q) PROVE req' = q
  BY DEF Go

\* What ES finds out about a shared content, unless a file cannot be loaded.
LEMMA CheckSays ==
  ASSUME MapOK, NEW h, NEW r, ES_CheckSharedContent(h, r)
  PROVE  /\ Works \/ Breaks
         /\ CNTMap' \in {Dirty, map}
         /\ r = 1 => h \in Range(map)
         /\ r = 0 => h \notin Range(map)
         /\ r = ES_FATAL => Breaks \/ (map = <<>> /\ ~ EmptyLoads)
  BY DEF ES_CheckSharedContent, MapOK, ES_FATAL

-----------------------------------------------------------------------------
(***************************************************************************)
(* The calls of the installer.                                             *)
(***************************************************************************)

\* What is on the NAND stays right when no file of it changes.
LEMMA StoreFrame ==
  ASSUME Sound, UNCHANGED <<tmd, content, shared1, map>>,
         uid # None => uid' # None /\ Range(uid) \subseteq Range(uid'),
         \A t \in Titles : Deleting(t) => Deleting(t)'
  PROVE  SharedRight' /\ PrivateRight' /\ TmdRight'
<1>1. SharedRight' /\ PrivateRight'
  BY DEF Sound, SharedRight, PrivateRight
<1>2. \A t \in Titles : \A c : Available(t, c) => Available(t, c)'
  BY DEF Available
<1>3. TmdRight'
  <2>1. \A t \in Titles : Complete(t) => Complete(t)'
    BY <1>2 DEF Complete, Available
  <2> QED
    BY <2>1 DEF Sound, TmdRight, TmdRightOf
<1> QED
  BY <1>1, <1>3

LEMMA CallFrame ==
  ASSUME Sound, UNCHANGED nand, req.op = "idle"
  PROVE  SharedRight' /\ PrivateRight' /\ TmdRight'
<1>1. UNCHANGED <<tmd, content, shared1, map, uid, cut>>
  BY DEF nand
<1>2. \A t \in Titles : Deleting(t) => Deleting(t)'
  BY <1>1 DEF Deleting
<1> QED
  BY <1>1, <1>2, StoreFrame

LEMMA TicketCall ==
  ASSUME TypedOK, Sound, faults' = 0, InstallTicket PROVE Sound'
<1>1. /\ req.op = "idle" /\ ~ pathFreed /\ Working /\ step = "none" /\ AddTicket(Tmd.title)
      /\ step' = "ticket" /\ k' = 0 /\ job' = job
  BY DEF InstallTicket, Ready, Accepts, Call
<1>2. /\ job \in 1 .. Len(Jobs) + 1 /\ tmp.tik = {} /\ Quiet
  BY <1>1 DEF Sound, ClientOK, Resting
<1>3. ~ Breaks
  BY <1>1, NoFault DEF AddTicket, TypedOK
<1>4. /\ tmp' = [tmp EXCEPT !.tik = @ \cup {Tmd.title}]
      /\ Go([Idle EXCEPT !.op = "AddTicket", !.title = Tmd.title])
      /\ UNCHANGED <<nand, ram>>
  BY <1>1, <1>2, <1>3 DEF AddTicket
<1>5. req' = [Idle EXCEPT !.op = "AddTicket", !.title = Tmd.title]
  BY <1>4 DEF Go
<1>6. req'.op = "AddTicket" /\ req'.title = Tmd.title
  BY <1>5 DEF Idle
<1>7. /\ tmp'.tik = {Tmd.title} /\ tmp'.raw = tmp.raw /\ tmp'.app = tmp.app
      /\ tmp'.tmd = tmp.tmd
  BY <1>2, <1>4 DEF TypedOK, TypeOK, TmpFiles
<1>8. Tmd' = Tmd /\ Working'
  BY <1>1 DEF Tmd, Working
<1>9. Resting'
  BY <1>1, <1>2, <1>4, <1>6, <1>7, <1>8 DEF Resting, Quiet, ram
<1>10. ClientOK'
  BY <1>1, <1>2, <1>4, <1>6, <1>7, <1>8, <1>9 DEF ClientOK, ram
<1> QED
  BY <1>1, <1>4, <1>10, CallFrame DEF Sound

LEMMA StartCall ==
  ASSUME TypedOK, Sound, faults' = 0, InstallStart PROVE Sound'
<1>1. /\ req.op = "idle" /\ ~ pathFreed /\ Working /\ step = "ticket" /\ AddTitleStart(Tmd)
      /\ step' = "start" /\ k' = 0 /\ job' = job
  BY DEF InstallStart, Ready, Accepts, Call
<1>2. /\ job \in 1 .. Len(Jobs) + 1 /\ tmp.tik = {} /\ Quiet /\ Tmd.title \in ticket
  BY <1>1 DEF Sound, ClientOK, Resting
<1>3. tmp.tmd = None /\ ~ Breaks
  BY <1>1, <1>2, NoFault DEF AddTitleStart, TypedOK, Quiet
<1>4. /\ iTMD' = Tmd /\ tmp' = [tmp EXCEPT !.tmd = Tmd]
      /\ Go([Idle EXCEPT !.op = "GetUID", !.title = Tmd.title, !.by = "AddTitleStart"])
      /\ UNCHANGED <<nand, pathFreed>>
  BY <1>1, <1>3 DEF AddTitleStart
<1>5. req' = [Idle EXCEPT !.op = "GetUID", !.title = Tmd.title, !.by = "AddTitleStart"]
  BY <1>4 DEF Go
<1>6. req'.op = "GetUID" /\ req'.title = Tmd.title /\ req'.by = "AddTitleStart"
  BY <1>5 DEF Idle
<1>7. /\ tmp'.tik = {} /\ tmp'.raw = tmp.raw /\ tmp'.app = tmp.app
      /\ tmp'.tmd = Tmd
  BY <1>2, <1>4 DEF TypedOK, TypeOK, TmpFiles
<1>8. Tmd' = Tmd /\ Working' /\ ticket' = ticket
  BY <1>1, <1>4 DEF Tmd, Working, nand
<1>9. Starting'
  BY <1>1, <1>2, <1>4, <1>6, <1>7, <1>8 DEF Starting, Quiet
<1>10. ClientOK'
  BY <1>1, <1>2, <1>4, <1>6, <1>7, <1>8, <1>9 DEF ClientOK
<1> QED
  BY <1>1, <1>4, <1>10, CallFrame DEF Sound

\* Between two contents: what was passed is provided, what comes is untouched.
LEMMA BetweenIs ==
  ASSUME Sound, Working, req.op = "idle", Between
  PROVE  /\ Own /\ tmp.tmd = Tmd /\ HasUid /\ Tmd.title \in ticket
         /\ job \in 1 .. Len(Jobs) + 1 /\ tmp.tik = {} /\ ~ pathFreed
         /\ k \in 0 .. Len(Tmd.contents)
         /\ Untouched(k + 1) /\ AllGenuine /\ ProvidedTo(k)
<1>1. job \in 1 .. Len(Jobs) + 1 /\ tmp.tik = {} /\ Tmd.title \in ticket /\ ~ pathFreed
  BY DEF Sound, ClientOK, Between
<1>2. CASE step = "start"
  <2>1. Starting
    BY <1>2 DEF Sound, ClientOK
  <2>2. /\ iTMD = Tmd /\ tmp.tmd = Tmd /\ HasUid /\ k = 0
        /\ \A c \in Ids : tmp.raw[c] = None /\ tmp.app[c] = None
    BY <2>1 DEF Starting
  <2>3. \A p \in Pieces : Raw(p) = None /\ Plain(p) = None /\ p >= 1 /\ p \in Nat
    BY <1>1, <2>2, TmdFacts DEF Raw, Plain
  <2>4. Own /\ Untouched(k + 1) /\ AllGenuine
    BY <2>2, <2>3 DEF Own, Untouched, AllGenuine
  <2>5. ProvidedTo(k) /\ k \in 0 .. Len(Tmd.contents)
    BY <1>1, <2>2, <2>3, TmdFacts DEF ProvidedTo
  <2> QED
    BY <1>1, <2>2, <2>4, <2>5
<1>3. CASE step = "cfinish"
  <2>1. Delivering /\ Ok
    BY <1>3 DEF Sound, ClientOK, Between
  <2> QED
    BY <1>1, <1>3, <2>1, TmdFacts DEF Delivering
<1> QED
  BY <1>2, <1>3 DEF Between

LEMMA ContentCall ==
  ASSUME TypedOK, MapOK, Sound, faults' = 0, InstallContent PROVE Sound'
<1>1. /\ req.op = "idle" /\ ~ pathFreed /\ Working /\ Between
      /\ step' = "cstart" /\ job' = job
  BY DEF InstallContent, Ready, Accepts, Call
<1>2. /\ Own /\ tmp.tmd = Tmd /\ HasUid /\ Tmd.title \in ticket
      /\ job \in 1 .. Len(Jobs) + 1 /\ tmp.tik = {}
      /\ k \in 0 .. Len(Tmd.contents)
      /\ Untouched(k + 1) /\ AllGenuine /\ ProvidedTo(k)
  BY <1>1, BetweenIs
<1>3. PICK n \in k + 1 .. Len(Tmd.contents) :
        /\ \A i \in k + 1 .. n - 1 : Tmd.contents[i].optional
        /\ AddContentStart(Tmd.contents[n].id)
        /\ k' = n
  BY DEF InstallContent, Call
<1>4. /\ n \in Pieces /\ n \in Nat /\ k \in Nat /\ k + 1 <= n /\ Tmd \in Tmds
      /\ Piece(n) = Tmd.contents[n]
  BY <1>1, <1>2, <1>3, TmdFacts DEF Piece
<1>5. iTMD = Tmd /\ Tmd # None
  BY <1>2, <1>4, ESAssumption DEF Own
<1>6. /\ UNCHANGED <<nand, tmp, iTMD, pathFreed>>
      /\ Reply("AddContentStart", ES_SUCCESS)
      /\ SkipContent' => Piece(n).shared /\ There(n)
  <2>1. UNCHANGED <<nand, tmp, iTMD, pathFreed>> /\ Reply("AddContentStart", ES_SUCCESS)
    BY <1>3, <1>5 DEF AddContentStart
  <2>2. ContentOf(iTMD, Tmd.contents[n].id) = {n}
    BY <1>1, <1>2, <1>4, <1>5, TheContent
  <2>3. \/ \E r \in Checks : /\ Piece(n).shared
                             /\ ES_CheckSharedContent(Piece(n).hash, r)
                             /\ SkipContent' = (r = 1)
        \/ SkipContent' = FALSE
    BY <1>3, <1>4, <1>5, <2>2 DEF AddContentStart
  <2>4. ASSUME NEW r, ES_CheckSharedContent(Piece(n).hash, r), r = 1
        PROVE  Piece(n).hash \in Range(map)
    <3>1. PICK h : h = Piece(n).hash
      OBVIOUS
    <3> QED
      BY <2>4, <3>1, CheckSays
  <2> QED
    BY <2>1, <2>3, <2>4 DEF There
<1>7. reply'.ret = ES_SUCCESS /\ req'.op = "idle"
  BY <1>6, ReplyIs
<1>8. Tmd' = Tmd /\ Working' /\ k' = n
  BY <1>1, <1>3 DEF Tmd, Working
<1>9. UNCHANGED <<tmp, iTMD, map, content, ticket, uid, pathFreed>>
  BY <1>6 DEF nand
<1>10. ProvidedTo(n - 1) /\ Untouched(n)
  <2>1. ASSUME NEW p \in Pieces, p <= n - 1 PROVE Provided(p)
    <3>1. p \in Nat /\ (p <= k \/ p \in k + 1 .. n - 1)
      BY <1>1, <1>2, <1>4, <2>1, TmdFacts
    <3> QED
      BY <1>2, <1>3, <3>1 DEF ProvidedTo, Provided, Piece
  <2>2. \A p \in Pieces : p >= n => p >= k + 1
    BY <1>1, <1>2, <1>4, TmdFacts
  <2> QED
    BY <1>2, <2>1, <2>2 DEF ProvidedTo, Untouched
<1>11. Raw(n) = None /\ Plain(n) = None /\ Untouched(n + 1)
  <2>1. n >= n /\ \A p \in Pieces : p >= n + 1 => p >= n
    BY <1>1, <1>2, <1>4, TmdFacts
  <2>2. \A p \in Pieces : p >= n => Raw(p) = None /\ Plain(p) = None
    BY <1>10 DEF Untouched
  <2>3. Raw(n) = None /\ Plain(n) = None
    BY <1>4, <2>1, <2>2
  <2>4. Untouched(n + 1)
    BY <2>1, <2>2 DEF Untouched
  <2> QED
    BY <2>3, <2>4
<1>12. Delivering'
  <2>1. Own' /\ HasUid' /\ Untouched(n + 1)' /\ AllGenuine'
    BY <1>2, <1>8, <1>9, <1>11 DEF Own, HasUid, Untouched, AllGenuine, Raw, Plain, Piece, Pieces
  <2>2. Raw(n)' = None /\ Plain(n)' = None /\ ProvidedTo(n - 1)' /\ n \in Pieces'
    BY <1>4, <1>8, <1>9, <1>10, <1>11
    DEF ProvidedTo, Provided, There, Raw, Plain, Piece, Pieces
  <2>3. SkipContent' => Piece(n)'.shared /\ There(n)'
    BY <1>6, <1>8, <1>9 DEF There, Piece
  <2> QED
    BY <1>1, <1>2, <1>7, <1>8, <1>9, <2>1, <2>2, <2>3
    DEF Delivering, Untouched, Raw, Plain, ProvidedTo, Provided, There, Piece, Pieces
<1>13. ClientOK'
  BY <1>1, <1>2, <1>7, <1>8, <1>9, <1>12 DEF ClientOK, Sound
<1> QED
  BY <1>1, <1>6, <1>13, CallFrame DEF Sound

LEMMA DataCall ==
  ASSUME TypedOK, MapOK, Sound, faults' = 0, InstallData PROVE Sound'
<1>1. /\ req.op = "idle" /\ ~ pathFreed /\ Working /\ step = "cstart"
      /\ step' = "cdata" /\ job' = job /\ k' = k
  BY DEF InstallData, Ready, Accepts, Call
<1>2. Delivering /\ job \in 1 .. Len(Jobs) + 1 /\ tmp.tik = {} /\ Tmd.title \in ticket
  BY <1>1 DEF Sound, ClientOK
<1>3. /\ Own /\ tmp.tmd = Tmd /\ HasUid /\ k \in Pieces /\ Untouched(k + 1)
      /\ AllGenuine /\ Plain(k) = None /\ ProvidedTo(k - 1) /\ Raw(k) = None
      /\ (SkipContent => Piece(k).shared /\ There(k))
  BY <1>1, <1>2 DEF Delivering
<1>4. /\ k \in Nat /\ Piece(k).id \in Ids /\ Tmd \in Tmds /\ iTMD = Tmd /\ Tmd # None
      /\ \A p, q \in Pieces : Piece(p).id = Piece(q).id => p = q
      /\ \A p \in Pieces : p \in Nat
  BY <1>1, <1>2, <1>3, TmdFacts, ESAssumption DEF Own
<1>5. PICK d \in {Bad, Piece(k).hash} : AddContentData(Piece(k).id, d)
  BY DEF InstallData, Piece
<1>6. Works /\ ~ Breaks
  BY <1>5, NoFault DEF AddContentData, TypedOK
<1>7. UNCHANGED <<nand, ram>> /\ Reply("AddContentData", ES_SUCCESS)
  BY <1>4, <1>5, <1>6 DEF AddContentData
<1>8. \/ SkipContent /\ tmp' = tmp
      \/ tmp' = [tmp EXCEPT !.raw[Piece(k).id] = <<d>>]
  BY <1>3, <1>4, <1>5, <1>6 DEF AddContentData, Raw
<1>9. reply'.ret = ES_SUCCESS /\ req'.op = "idle"
  BY <1>7, ReplyIs
<1>10. Tmd' = Tmd /\ Working'
  BY <1>1 DEF Tmd, Working
<1>11. UNCHANGED <<iTMD, map, content, ticket, uid, pathFreed, SkipContent>>
  BY <1>7 DEF nand, ram
<1>12. /\ tmp'.tik = {} /\ tmp'.tmd = Tmd /\ tmp'.app = tmp.app
       /\ \A c \in Ids : c # Piece(k).id => tmp'.raw[c] = tmp.raw[c]
       /\ tmp'.raw[Piece(k).id] = <<d>> \/ SkipContent
  <2>1. tmp \in TmpFiles
    BY DEF TypedOK, TypeOK
  <2>2. CASE SkipContent /\ tmp' = tmp
    BY <1>2, <1>3, <2>2
  <2>3. CASE tmp' = [tmp EXCEPT !.raw[Piece(k).id] = <<d>>]
    BY <1>2, <1>3, <1>4, <2>1, <2>3 DEF TmpFiles
  <2> QED
    BY <1>8, <2>2, <2>3
<1>13. Delivering'
  <2>1. HasUid' /\ AllGenuine'
    BY <1>3, <1>10, <1>11, <1>12 DEF HasUid, AllGenuine, Plain, Piece, Pieces
  <2>2. Own'
    <3>1. ContentOf(Tmd, Piece(k).id) # {}
      BY <1>1, <1>2, <1>3, TheContent
    <3> QED
      BY <1>3, <1>10, <1>11, <1>12, <3>1 DEF Own
  <2>3. Untouched(k + 1)'
    <3>1. \A p \in Pieces : p >= k + 1 => Piece(p).id # Piece(k).id /\ Piece(p).id \in Ids
      BY <1>1, <1>2, <1>3, <1>4, TmdFacts
    <3> QED
      BY <1>1, <1>3, <1>10, <1>12, <3>1 DEF Untouched, Raw, Plain, Piece, Pieces
  <2>4. Plain(k)' = None /\ ProvidedTo(k - 1)' /\ k \in Pieces'
    BY <1>1, <1>3, <1>10, <1>11, <1>12
    DEF ProvidedTo, Provided, There, Plain, Piece, Pieces
  <2>5. SkipContent' => Piece(k)'.shared /\ There(k)'
    BY <1>1, <1>3, <1>10, <1>11 DEF There, Piece
  <2>6. SkipContent' \/ Raw(k)' \in {<<Bad>>, <<Piece(k)'.hash>>}
    BY <1>1, <1>5, <1>10, <1>11, <1>12 DEF Raw, Piece
  <2> QED
    BY <1>1, <1>9, <1>10, <1>12, <2>1, <2>2, <2>3, <2>4, <2>5, <2>6
    DEF Delivering, Untouched, Raw, Plain, ProvidedTo, Provided, There, Piece, Pieces
<1>14. ClientOK'
  BY <1>1, <1>2, <1>9, <1>10, <1>11, <1>12, <1>13 DEF ClientOK, Sound
<1> QED
  BY <1>1, <1>7, <1>14, CallFrame DEF Sound

LEMMA ContentDone ==
  ASSUME TypedOK, MapOK, Sound, faults' = 0, InstallContentFinish PROVE Sound'
<1>1. /\ req.op = "idle" /\ ~ pathFreed /\ Working /\ step = "cdata"
      /\ step' = "cfinish" /\ job' = job /\ k' = k /\ AddContentFinish(Piece(k).id)
  BY DEF InstallContentFinish, Ready, Accepts, Call, Piece
<1>2. Delivering /\ job \in 1 .. Len(Jobs) + 1 /\ tmp.tik = {} /\ Tmd.title \in ticket
  BY <1>1 DEF Sound, ClientOK
<1>3. /\ Own /\ tmp.tmd = Tmd /\ HasUid /\ k \in Pieces /\ Untouched(k + 1)
      /\ AllGenuine /\ Plain(k) = None /\ ProvidedTo(k - 1)
      /\ (SkipContent => Piece(k).shared /\ There(k))
      /\ SkipContent \/ Raw(k) \in {<<Bad>>, <<Piece(k).hash>>}
  BY <1>1, <1>2 DEF Delivering
<1>4. /\ k \in Nat /\ Piece(k).id \in Ids /\ Tmd \in Tmds /\ iTMD = Tmd /\ Tmd # None
      /\ \A p, q \in Pieces : Piece(p).id = Piece(q).id => p = q
      /\ \A p \in Pieces : p \in Nat /\ Piece(p).id \in Ids
      /\ Piece(k).hash \in Hashes /\ Piece(k).hash \notin {Bad, None} /\ Bad # None
      /\ ContentOf(iTMD, Piece(k).id) = {k}
  BY <1>1, <1>2, <1>3, TmdFacts, TheContent, ESAssumption DEF Own
<1>5. Works /\ ~ Breaks
  <2>1. Works \/ Breaks
    <3>1. ASSUME NEW d, NEW r, Decrypted(Piece(k).id, d, r) PROVE Works \/ Breaks
      BY <3>1 DEF Decrypted
    <3>2. Decrypt(Piece(k).id) => Works \/ Breaks
      BY <3>1 DEF Decrypt
    <3> QED
      BY <1>1, <3>2 DEF AddContentFinish
  <2> QED
    BY <2>1, NoFault DEF TypedOK
<1>6. UNCHANGED <<nand, SkipContent, CNTMap, pathFreed>>
  BY <1>1 DEF AddContentFinish
<1>7. \/ SkipContent /\ Reply("AddContentFinish", ES_SUCCESS) /\ UNCHANGED <<tmp, iTMD>>
      \/ ~ SkipContent /\ Decrypt(Piece(k).id) /\ UNCHANGED iTMD
  BY <1>1, <1>2, <1>4, <1>5 DEF AddContentFinish
<1>8. Tmd' = Tmd /\ Working'
  BY <1>1 DEF Tmd, Working
<1>9. UNCHANGED <<map, content, ticket, uid, pathFreed, SkipContent>>
  BY <1>6 DEF nand
<1>10. ProvidedTo(k - 1) /\ Provided(k) => ProvidedTo(k)
  <2>1. \A p \in Pieces : p <= k => p <= k - 1 \/ p = k
    BY <1>4
  <2> QED
    BY <2>1 DEF ProvidedTo
<1>11. CASE SkipContent
  <2>1. UNCHANGED <<tmp, iTMD>> /\ Reply("AddContentFinish", ES_SUCCESS)
    BY <1>7, <1>11
  <2>2. reply'.ret = ES_SUCCESS /\ req'.op = "idle"
    BY <2>1, ReplyIs
  <2>3. Own' /\ HasUid' /\ Untouched(k + 1)' /\ AllGenuine'
    BY <1>1, <1>3, <1>8, <1>9, <2>1
    DEF Own, HasUid, Untouched, AllGenuine, Raw, Plain, Piece, Pieces
  <2>4. ProvidedTo(k)
    BY <1>3, <1>10, <1>11 DEF Provided
  <2>5. ProvidedTo(k)' /\ k \in Pieces'
    BY <1>1, <1>3, <1>8, <1>9, <2>1, <2>4
    DEF ProvidedTo, Provided, There, Plain, Piece, Pieces
  <2>6. Delivering'
    BY <1>1, <1>3, <1>8, <2>1, <2>2, <2>3, <2>5
    DEF Delivering, Untouched, Raw, Plain, ProvidedTo, Provided, There, Piece, Pieces
  <2>7. ClientOK'
    BY <1>1, <1>2, <1>8, <1>9, <2>1, <2>2, <2>6 DEF ClientOK
  <2> QED
    BY <1>1, <1>6, <2>7, CallFrame DEF Sound
<1>12. CASE ~ SkipContent
  <2>1. Raw(k) # None
    <3>1. Raw(k) \in {<<Bad>>, <<Piece(k).hash>>}
      BY <1>3, <1>12
    <3>2. <<Bad>> \in Seq(Hashes \cup {Bad}) /\ <<Piece(k).hash>> \in Seq(Hashes \cup {Bad})
      BY <1>4
    <3> QED
      BY <3>1, <3>2, ESAssumption
  <2>2. PICK d \in Data, r \in {ES_SUCCESS, ES_EHASH, ES_FATAL} :
          /\ Decrypted(Piece(k).id, d, r)
          /\ tmp' = [tmp EXCEPT !.app[Piece(k).id] = d]
          /\ Reply("AddContentFinish", r)
    BY <1>3, <1>5, <1>7, <1>12, <2>1 DEF Decrypt, Raw, Plain
  <2>3. reply'.ret = r /\ req'.op = "idle"
    BY <2>2, ReplyIs
  <2>4. (r = ES_SUCCESS /\ d = Piece(k).hash) \/ r = ES_EHASH
    <3>1. Raw(k) # <<>> /\ Head(Raw(k)) \in {Bad, Piece(k).hash}
      BY <1>3, <1>12
    <3>2. /\ d = Head(Raw(k))
          /\ r = IF iTMD.contents[k].hash = Head(Raw(k)) THEN ES_SUCCESS ELSE ES_EHASH
      BY <1>4, <1>5, <2>2, <3>1 DEF Decrypted, Raw
    <3> QED
      BY <1>4, <3>1, <3>2 DEF Piece
  <2>5. /\ tmp'.tik = {} /\ tmp'.tmd = Tmd /\ tmp'.raw = tmp.raw
        /\ \A c \in Ids : c # Piece(k).id => tmp'.app[c] = tmp.app[c]
        /\ tmp'.app[Piece(k).id] = d
    BY <1>2, <1>3, <1>4, <2>2 DEF TypedOK, TypeOK, TmpFiles
  <2>6. Own'
    <3>1. iTMD' = iTMD
      BY <1>7, <1>12
    <3> QED
      BY <1>3, <1>4, <1>8, <2>5, <3>1 DEF Own
  <2>7. HasUid' /\ k \in Pieces'
    BY <1>3, <1>8, <1>9 DEF HasUid, Pieces
  <2>8. Untouched(k + 1)'
    <3>1. \A p \in Pieces : p >= k + 1 => Piece(p).id # Piece(k).id /\ Piece(p).id \in Ids
      BY <1>1, <1>2, <1>3, <1>4, TmdFacts
    <3> QED
      BY <1>1, <1>3, <1>8, <2>5, <3>1 DEF Untouched, Raw, Plain, Piece, Pieces
  <2>9. CASE r = ES_EHASH
    <3>1. ~ Ok'
      BY <2>3, <2>9 DEF Ok, ES_EHASH
    <3>2. Delivering'
      BY <1>1, <1>8, <2>3, <2>5, <2>6, <2>7, <2>8, <3>1
      DEF Delivering, Untouched, Raw, Plain, Piece, Pieces
    <3>3. ClientOK'
      BY <1>1, <1>2, <1>8, <1>9, <2>3, <2>5, <3>2 DEF ClientOK
    <3> QED
      BY <1>1, <1>6, <3>3, CallFrame DEF Sound
  <2>10. CASE d = Piece(k).hash
    <3>1. AllGenuine'
      BY <1>3, <1>4, <1>8, <2>5, <2>10 DEF AllGenuine, Plain, Piece, Pieces
    <3>2. \A p \in Pieces : p <= k => Provided(p)'
      <4>1. \A p \in Pieces : p <= k => p = k \/ (Provided(p) /\ Piece(p).id # Piece(k).id)
        <5>1. \A p \in Pieces : p <= k => p <= k - 1 \/ p = k
          BY <1>4
        <5>2. \A p \in Pieces : p <= k - 1 => Piece(p).id # Piece(k).id
          BY <1>3, <1>4
        <5> QED
          BY <1>3, <5>1, <5>2 DEF ProvidedTo
      <4> QED
        BY <1>4, <1>8, <1>9, <2>5, <2>10, <4>1 DEF Provided, There, Plain, Piece
    <3>3. ProvidedTo(k)'
      BY <1>1, <1>8, <3>2 DEF ProvidedTo, Pieces
    <3>4. Delivering'
      BY <1>1, <1>8, <2>3, <2>5, <2>6, <2>7, <2>8, <3>1, <3>3
      DEF Delivering, Untouched, Raw, Plain, ProvidedTo, Provided, There, Piece, Pieces
    <3>5. ClientOK'
      BY <1>1, <1>2, <1>8, <1>9, <2>3, <2>5, <3>4 DEF ClientOK
    <3> QED
      BY <1>1, <1>6, <3>5, CallFrame DEF Sound
  <2> QED
    BY <2>4, <2>9, <2>10
<1> QED
  BY <1>11, <1>12

LEMMA FinishCall ==
  ASSUME TypedOK, MapOK, Sound, faults' = 0, InstallFinish PROVE Sound'
<1>1. /\ req.op = "idle" /\ ~ pathFreed /\ Working /\ Between /\ AddTitleFinish
      /\ step' = "finish" /\ job' = job
      /\ \A i \in k + 1 .. Len(Tmd.contents) : Tmd.contents[i].optional
  BY DEF InstallFinish, Ready, Accepts, Call
<1>2. /\ Own /\ tmp.tmd = Tmd /\ HasUid /\ Tmd.title \in ticket
      /\ job \in 1 .. Len(Jobs) + 1 /\ tmp.tik = {} /\ ~ pathFreed
      /\ k \in 0 .. Len(Tmd.contents)
      /\ Untouched(k + 1) /\ AllGenuine /\ ProvidedTo(k)
  BY <1>1, BetweenIs
<1>3. /\ req' = [Idle EXCEPT !.op = "finish", !.title = iTMD.title, !.i = 1, !.r = ES_FATAL]
      /\ UNCHANGED <<nand, tmp, ram, faults>>
  BY <1>1 DEF AddTitleFinish, Go
<1>4. req'.op = "finish" /\ req'.title = Tmd.title /\ req'.i = 1
  BY <1>2, <1>3 DEF Idle, Own
<1>5. Tmd' = Tmd /\ Working'
  BY <1>1 DEF Tmd, Working
<1>6. UNCHANGED <<tmp, iTMD, map, content, ticket, uid, pathFreed>>
  BY <1>3 DEF nand, ram
<1>7. \A p \in Pieces : Provided(p) /\ p \in Nat /\ ~ (p < 1)
  <2>1. \A p \in Pieces : p \in Nat /\ p >= 1 /\ (p <= k \/ p \in k + 1 .. Len(Tmd.contents))
    BY <1>1, <1>2, TmdFacts
  <2> QED
    BY <1>1, <1>2, <2>1 DEF ProvidedTo, Provided, Piece
<1>8. ProvidedFrom(req.i)' /\ PlacedTo(req.i)' /\ Settled(req.i)'
  <2>1. Pieces' = Pieces /\ \A p \in Pieces : Provided(p)'
    BY <1>5, <1>6, <1>7 DEF Provided, There, Plain, Piece, Pieces
  <2>2. \A p \in Pieces' : Provided(p)' /\ ~ (p < req'.i)
    BY <1>4, <1>7, <2>1
  <2> QED
    BY <2>2 DEF ProvidedFrom, PlacedTo, Settled
<1>9. Own' /\ HasUid' /\ AllGenuine'
  BY <1>2, <1>5, <1>6 DEF Own, HasUid, AllGenuine, Plain, Piece, Pieces
<1>10. Finishing'
  BY <1>2, <1>4, <1>5, <1>6, <1>8, <1>9 DEF Finishing
<1>11. ClientOK'
  BY <1>1, <1>2, <1>4, <1>5, <1>6, <1>10 DEF ClientOK
<1> QED
  BY <1>1, <1>3, <1>11, CallFrame DEF Sound

\* Cleaning up takes away what belongs to the import at work.
LEMMA Cleaned ==
  ASSUME TypedOK, Own, CleanTmp
  PROVE  /\ tmp'.tik = tmp.tik /\ tmp'.tmd = None
         /\ \A c \in Ids : tmp'.raw[c] = None /\ tmp'.app[c] = None
<1>1. tmp \in TmpFiles
  BY DEF TypedOK, TypeOK
<1>2. /\ tmp'.tik = tmp.tik /\ tmp'.tmd = None
      /\ tmp'.raw = [c \in Ids |-> IF ContentOf(iTMD, c) # {} THEN None ELSE tmp.raw[c]]
      /\ tmp'.app = [c \in Ids |-> IF ContentOf(iTMD, c) # {} THEN None ELSE tmp.app[c]]
  BY <1>1 DEF CleanTmp, TmpFiles
<1> QED
  BY <1>2 DEF Own

LEMMA CancelCall ==
  ASSUME TypedOK, MapOK, Sound, faults' = 0, InstallCancel PROVE Sound'
<1>1. /\ req.op = "idle" /\ ~ pathFreed /\ Working /\ step \notin {"none", "cancel"}
      /\ AddTitleCancel /\ step' = "cancel" /\ job' = job
  BY DEF InstallCancel, Ready, Accepts, Call
<1>2. job \in 1 .. Len(Jobs) + 1 /\ tmp.tik = {}
  BY <1>1 DEF Sound, ClientOK
<1>3. /\ IF iTMD = None THEN UNCHANGED tmp ELSE CleanTmp
      /\ iTMD' = None /\ Reply("AddTitleCancel", ES_SUCCESS)
      /\ UNCHANGED <<nand, SkipContent, CNTMap, pathFreed, faults>>
  BY <1>1 DEF AddTitleCancel
<1>4. Tmd \in Tmds /\ Tmd # None
  BY <1>1, <1>2, TmdFacts, ESAssumption
<1>5. Quiet \/ (Own /\ iTMD # None)
  <2>1. CASE step = "ticket" \/ step = "finish"
    BY <1>1, <2>1 DEF Sound, ClientOK, Resting, Finishing
  <2>2. CASE step = "start"
    BY <1>1, <1>4, <2>2 DEF Sound, ClientOK, Starting, Own
  <2>3. CASE step \in {"cstart", "cdata", "cfinish"}
    BY <1>1, <1>4, <2>3 DEF Sound, ClientOK, Delivering, Own
  <2> QED
    BY <1>1, <2>1, <2>2, <2>3 DEF Sound, ClientOK
<1>6. tmp'.tik = {} /\ tmp'.tmd = None /\ \A c \in Ids : tmp'.raw[c] = None /\ tmp'.app[c] = None
  <2>1. CASE Quiet
    BY <1>2, <1>3, <2>1 DEF Quiet
  <2>2. CASE Own /\ iTMD # None
    BY <1>2, <1>3, <2>2, Cleaned
  <2> QED
    BY <1>5, <2>1, <2>2
<1>7. req'.op = "idle"
  BY <1>3, ReplyIs
<1>8. Resting'
  BY <1>1, <1>3, <1>6, <1>7 DEF Resting, Quiet
<1>9. Tmd' = Tmd /\ Working'
  BY <1>1 DEF Tmd, Working
<1>10. ClientOK'
  BY <1>1, <1>2, <1>3, <1>6, <1>7, <1>8, <1>9 DEF ClientOK
<1> QED
  BY <1>1, <1>3, <1>10, CallFrame DEF Sound

\* The installer moves on: nothing of an import is left.
LEMMA OtherCall ==
  ASSUME TypedOK, MapOK, Sound, faults' = 0, InstallDone \/ InstallAgain
  PROVE  Sound'
<1>1. /\ req.op = "idle" /\ ~ pathFreed /\ Working /\ step \in {"finish", "cancel"}
      /\ UNCHANGED <<vars, troubles>> /\ step' = "none" /\ job' \in {job, job + 1}
  BY DEF InstallDone, InstallAgain, Ready, Accepts, Call
<1>2. job \in 1 .. Len(Jobs) + 1 /\ job' \in 1 .. Len(Jobs) + 1
  <2>1. job \in 1 .. Len(Jobs) + 1
    BY DEF Sound, ClientOK
  <2>2. job <= Len(Jobs) /\ Len(Jobs) \in Nat
    BY <1>1, InstallAssumption DEF Working
  <2> QED
    BY <1>1, <2>1, <2>2
<1>3. Quiet /\ tmp.tik = {}
  BY <1>1 DEF Sound, ClientOK, Resting, Finishing
<1>4. UNCHANGED <<tmp, iTMD, req, reply, pathFreed, ticket>> /\ UNCHANGED nand
  BY <1>1 DEF vars, nand, ram
<1>5. Resting'
  BY <1>1, <1>3, <1>4 DEF Resting, Quiet
<1>6. ClientOK'
  BY <1>1, <1>2, <1>3, <1>4, <1>5 DEF ClientOK
<1> QED
  BY <1>1, <1>4, <1>6, CallFrame DEF Sound

LEMMA DeleteCall ==
  ASSUME TypedOK, MapOK, Sound, faults' = 0, Delete PROVE Sound'
<1>1. /\ req.op = "idle" /\ ~ pathFreed /\ Working /\ step = "none"
      /\ UNCHANGED <<job, step, k>> /\ \E t \in Titles : DeleteTitleContent(t)
  BY DEF Delete, Ready, Accepts
<1>2. PICK t \in Titles : DeleteTitleContent(t)
  BY <1>1
<1>3. /\ req' = [Idle EXCEPT !.op = "delete", !.title = t] /\ UNCHANGED <<nand, tmp, ram>>
  BY <1>2 DEF DeleteTitleContent, Go
<1>4. req'.op = "delete"
  BY <1>3 DEF Idle
<1>5. Quiet /\ tmp.tik = {} /\ job \in 1 .. Len(Jobs) + 1
  BY <1>1 DEF Sound, ClientOK, Resting
<1>6. UNCHANGED <<tmp, iTMD, pathFreed>>
  BY <1>3 DEF ram
<1>7. Resting'
  BY <1>1, <1>4, <1>5, <1>6 DEF Resting, Quiet
<1>8. ClientOK'
  BY <1>1, <1>4, <1>5, <1>6, <1>7 DEF ClientOK
<1> QED
  BY <1>1, <1>3, <1>8, CallFrame DEF Sound

\* The power goes off: the files outside /tmp stay, and a title that was being
\* deleted counts as cut.
LEMMA PowerLost ==
  ASSUME TypedOK, MapOK, Sound, faults' = 0, PowerOff PROVE Sound'
<1>1. /\ Restart /\ step' = "none" /\ k' = 0 /\ job' = job
  BY DEF PowerOff
<1>2. /\ tmp' = NoTmp /\ iTMD' = None /\ pathFreed' = FALSE /\ req' = Idle
      /\ UNCHANGED <<ticket, tmd, content, shared1, map, uid>>
      /\ cut' = IF req.op = "delete" THEN cut \cup {req.title} ELSE cut
  BY <1>1 DEF Restart
<1>3. Quiet' /\ tmp'.tik = {} /\ req'.op = "idle"
  BY <1>2 DEF Quiet, NoTmp, Idle
<1>4. job' \in 1 .. Len(Jobs) + 1
  BY <1>1 DEF Sound, ClientOK
<1>5. Resting'
  BY <1>1, <1>3 DEF Resting
<1>6. ClientOK'
  BY <1>1, <1>2, <1>3, <1>4, <1>5 DEF ClientOK
<1>7. \A t \in Titles : Deleting(t) => Deleting(t)'
  BY <1>2 DEF Deleting
<1> QED
  BY <1>2, <1>6, <1>7, StoreFrame DEF Sound

-----------------------------------------------------------------------------
(***************************************************************************)
(* The work on tickets, user IDs and deleted titles.                       *)
(***************************************************************************)

LEMMA TicketWork ==
  ASSUME TypedOK, MapOK, Sound, faults' = 0, UNCHANGED client,
         AddTicket_Overwrite \/ AddTicket_Move
  PROVE  Sound'
<1>1. req.op = "AddTicket"
  BY DEF AddTicket_Overwrite, AddTicket_Move
<1>2. UNCHANGED <<job, step, k>>
  BY DEF client
<1>3. step = "ticket"
  <2>1. step # "none" /\ step # "cancel" /\ step # "start" /\ step # "finish"
    BY <1>1 DEF Sound, ClientOK, Resting, Starting, Finishing
  <2>2. step \notin {"cstart", "cdata", "cfinish"}
    BY <1>1 DEF Sound, ClientOK, Delivering
  <2> QED
    BY <2>1, <2>2 DEF Sound, ClientOK
<1>4. /\ Quiet /\ req.title = Tmd.title /\ tmp.tik \subseteq {Tmd.title} /\ Working
      /\ job \in 1 .. Len(Jobs) + 1 /\ ~ pathFreed
  BY <1>1, <1>3 DEF Sound, ClientOK, Resting
<1>5. Tmd' = Tmd /\ Working'
  BY <1>2, <1>4 DEF Tmd, Working
<1>6. UNCHANGED <<tmd, content, shared1, map, uid, cut, iTMD, pathFreed>>
  BY DEF AddTicket_Overwrite, AddTicket_Move, ram
<1>7. Works /\ ~ Breaks
  BY NoFault DEF AddTicket_Overwrite, AddTicket_Move, TypedOK
<1>8. ASSUME AddTicket_Overwrite PROVE ClientOK'
  <2>1. UNCHANGED <<tmp, req, reply>>
    BY <1>8 DEF AddTicket_Overwrite
  <2>2. Resting'
    BY <1>1, <1>2, <1>3, <1>4, <1>5, <1>6, <2>1 DEF Resting, Quiet
  <2> QED
    BY <1>1, <1>2, <1>3, <1>4, <1>5, <1>6, <2>1, <2>2 DEF ClientOK
<1>9. ASSUME AddTicket_Move PROVE ClientOK'
  <2>1. /\ ticket' = ticket \cup {req.title}
        /\ tmp' = [tmp EXCEPT !.tik = @ \ {req.title}]
        /\ Reply("AddTicket", ES_SUCCESS)
    BY <1>7, <1>9 DEF AddTicket_Move
  <2>2. req'.op = "idle" /\ reply'.ret = ES_SUCCESS
    BY <2>1, ReplyIs
  <2>3. /\ tmp'.tik = {} /\ tmp'.raw = tmp.raw /\ tmp'.app = tmp.app /\ tmp'.tmd = tmp.tmd
    BY <1>4, <2>1 DEF TypedOK, TypeOK, TmpFiles
  <2>4. Resting'
    BY <1>2, <1>3, <1>4, <1>5, <1>6, <2>1, <2>2, <2>3 DEF Resting, Quiet
  <2> QED
    BY <1>2, <1>3, <1>4, <1>5, <1>6, <2>1, <2>2, <2>3, <2>4 DEF ClientOK
<1>10. \A t \in Titles : Deleting(t) => Deleting(t)'
  BY <1>1, <1>6 DEF Deleting
<1> QED
  BY <1>6, <1>8, <1>9, <1>10, StoreFrame DEF Sound

\* Only a title import asks for a user ID, and then has one.
LEMMA UidWork ==
  ASSUME TypedOK, MapOK, Sound, faults' = 0, UNCHANGED client,
         GetUID_Create \/ GetUID_Default \/ GetUID
  PROVE  Sound'
<1>1. req.op \in {"GetUID", "NewUID"}
  BY DEF GetUID_Create, GetUID_Default, GetUID
<1>2. UNCHANGED <<job, step, k>>
  BY DEF client
<1>3. step = "start"
  <2>1. step \notin {"none", "ticket", "cancel", "finish"}
    BY <1>1 DEF Sound, ClientOK, Resting, Finishing
  <2>2. step \notin {"cstart", "cdata", "cfinish"}
    BY <1>1 DEF Sound, ClientOK, Delivering
  <2> QED
    BY <2>1, <2>2 DEF Sound, ClientOK
<1>4. /\ Starting /\ Working /\ job \in 1 .. Len(Jobs) + 1 /\ ~ pathFreed
      /\ tmp.tik = {} /\ Tmd.title \in ticket
  BY <1>1, <1>3 DEF Sound, ClientOK
<1>5. req.by = "AddTitleStart" /\ req.title = Tmd.title /\ req \in Step
  BY <1>1, <1>4 DEF Starting, TypedOK, TypeOK
<1>6. Tmd' = Tmd /\ Working'
  BY <1>2, <1>4 DEF Tmd, Working
<1>7. UNCHANGED <<tmd, content, shared1, map, ticket, cut, tmp, iTMD, pathFreed>>
  BY DEF GetUID_Create, GetUID_Default, GetUID, ram
<1>8. Works /\ ~ Breaks
  BY NoFault DEF GetUID_Create, GetUID_Default, GetUID, GotUID, TypedOK
<1>9. /\ uid # None => uid' # None /\ Range(uid) \subseteq Range(uid')
      /\ \/ req'.op \in {"GetUID", "NewUID"} /\ req'.by = req.by /\ req'.title = req.title
         \/ req'.op = "idle" /\ reply'.ret = ES_SUCCESS /\ HasUid'
  <2>1. ASSUME NEW op, Goto(op) PROVE req'.op = op /\ req'.by = req.by /\ req'.title = req.title
    BY <1>5, <2>1 DEF Goto, Go, Step
  <2>2. uid \in {None} \cup Seq(Titles)
    BY DEF TypedOK, TypeOK
  <2>3. CASE GetUID_Create
    BY <1>8, <2>1, <2>3 DEF GetUID_Create
  <2>4. CASE GetUID_Default
    <3>1. uid' = <<SysMenu>> /\ Goto("GetUID") /\ uid = <<>>
      BY <1>8, <2>4 DEF GetUID_Default, TypedOK, RequestOK
    <3>2. uid' \in Seq(Titles)
      BY <3>1, ESAssumption
    <3>3. uid' # None
      BY <3>2, ESAssumption
    <3>4. Range(uid) \subseteq Range(uid')
      <4>1. DOMAIN uid = {}
        BY <3>1
      <4> QED
        BY <4>1 DEF Range
    <3> QED
      BY <2>1, <3>1, <3>3, <3>4
  <2>5. CASE GetUID
    <3>1. /\ uid # None
          /\ uid' = IF req.title \in Range(uid) \/ (uid = <<>> /\ ~ EmptyLoads)
                    THEN uid ELSE Append(uid, req.title)
          /\ GotUID(1)
      BY <1>8, <2>5 DEF GetUID
    <3>2. req'.op = "idle" /\ reply'.ret = ES_SUCCESS
      BY <1>5, <3>1, ReplyIs DEF GotUID, ES_SUCCESS
    <3>3. uid \in Seq(Titles) /\ req.title \in Titles
      BY <1>1, <2>2, <3>1 DEF TypedOK, RequestOK
    <3>4. CASE uid' = uid
      BY <1>5, <1>6, <3>1, <3>2, <3>4 DEF HasUid, Range
    <3>5. CASE uid' = Append(uid, req.title)
      <4>1. /\ uid' \in Seq(Titles) /\ Len(uid') = Len(uid) + 1 /\ Len(uid) \in Nat
            /\ \A i \in 1 .. Len(uid) : uid'[i] = uid[i]
            /\ uid'[Len(uid) + 1] = req.title
        BY <3>3, <3>5
      <4>2. DOMAIN uid = 1 .. Len(uid) /\ DOMAIN uid' = 1 .. Len(uid) + 1
        BY <3>3, <4>1
      <4>3. Range(uid) \subseteq Range(uid') /\ req.title \in Range(uid')
        BY <4>1, <4>2 DEF Range
      <4>4. uid' # None
        BY <4>1, ESAssumption
      <4> QED
        BY <1>5, <1>6, <3>2, <4>3, <4>4 DEF HasUid
    <3>6. uid' = uid \/ uid' = Append(uid, req.title)
      BY <3>1
    <3> QED
      BY <3>4, <3>5, <3>6
  <2> QED
    BY <2>3, <2>4, <2>5
<1>10. Starting'
  BY <1>2, <1>4, <1>5, <1>6, <1>7, <1>9 DEF Starting
<1>11. ClientOK'
  BY <1>2, <1>3, <1>4, <1>6, <1>7, <1>9, <1>10 DEF ClientOK
<1>12. \A t \in Titles : Deleting(t) => Deleting(t)'
  BY <1>1, <1>7 DEF Deleting
<1> QED
  BY <1>7, <1>9, <1>11, <1>12, StoreFrame DEF Sound

\* Files only go, and the title they belong to counts as being deleted until all
\* of them are gone.
LEMMA DeleteWork ==
  ASSUME TypedOK, MapOK, Sound, faults' = 0, UNCHANGED client, DeleteFile \/ DeleteEnd
  PROVE  Sound'
<1>1. req.op = "delete" /\ req.title \in Titles
  BY DEF DeleteFile, DeleteEnd, TypedOK, RequestOK
<1>2. UNCHANGED <<job, step, k>>
  BY DEF client
<1>3. step = "none"
  <2>1. step \notin {"ticket", "cancel", "start", "finish"}
    BY <1>1 DEF Sound, ClientOK, Resting, Starting, Finishing
  <2>2. step \notin {"cstart", "cdata", "cfinish"}
    BY <1>1 DEF Sound, ClientOK, Delivering
  <2> QED
    BY <2>1, <2>2 DEF Sound, ClientOK
<1>4. Quiet /\ job \in 1 .. Len(Jobs) + 1 /\ ~ pathFreed /\ tmp.tik = {}
  BY <1>1, <1>3 DEF Sound, ClientOK, Resting
<1>5. UNCHANGED <<shared1, map, uid, tmp, iTMD, pathFreed>> /\ req'.op \in {"idle", "delete"}
  BY <1>1, ReplyIs DEF DeleteFile, DeleteEnd, ram
<1>6. ClientOK'
  BY <1>2, <1>3, <1>4, <1>5 DEF ClientOK, Resting, Quiet
<1>7. SharedRight'
  BY <1>5 DEF Sound, SharedRight
<1>8. Works /\ ~ Breaks
  BY NoFault DEF DeleteFile, DeleteEnd, TypedOK
<1>9. /\ content \in [Titles -> [Ids -> Data \cup {None}]]
      /\ tmd \in [Titles -> Tmds \cup {None, Torn}]
  BY DEF TypedOK, TypeOK
<1>10. /\ \A t \in Titles : tmd'[t] \in {None, tmd[t]}
       /\ \A t \in Titles, c \in Ids : content'[t][c] \in {None, content[t][c]}
       /\ \A t \in Titles : t # req.title => content'[t] = content[t]
       /\ \A t \in Titles : Deleting(t) => Deleting(t)' \/ tmd'[t] = None
  <2>1. CASE DeleteFile
    <3>1. UNCHANGED <<cut, req>>
      BY <2>1 DEF DeleteFile
    <3>2. CASE tmd' = tmd /\ \E c \in Ids : content' = [content EXCEPT ![req.title][c] = None]
      <4>1. PICK c \in Ids : content' = [content EXCEPT ![req.title][c] = None]
        BY <3>2
      <4> QED
        BY <1>1, <1>9, <3>1, <3>2, <4>1 DEF Deleting
    <3>3. CASE tmd' = [tmd EXCEPT ![req.title] = None] /\ content' = content
      BY <1>1, <1>9, <3>1, <3>3 DEF Deleting
    <3>4. \/ tmd' = tmd /\ (\E c \in Ids : content' = [content EXCEPT ![req.title][c] = None])
          \/ tmd' = [tmd EXCEPT ![req.title] = None] /\ content' = content
      BY <2>1 DEF DeleteFile
    <3> QED
      BY <3>2, <3>3, <3>4
  <2>2. CASE DeleteEnd
    <3>1. /\ tmd[req.title] = None /\ cut' = cut \ {req.title}
          /\ UNCHANGED <<tmd, content>>
      BY <1>8, <2>2 DEF DeleteEnd
    <3> QED
      BY <1>1, <3>1 DEF Deleting
  <2> QED
    BY <2>1, <2>2
<1>11. PrivateRight'
  <2>1. \A j \in DOMAIN Jobs : \A p \in DOMAIN Jobs[j].contents :
          Jobs[j].title \in Titles /\ Jobs[j].contents[p].id \in Ids
    BY JobFacts
  <2> QED
    BY <1>10, <2>1 DEF Sound, PrivateRight
<1>12. TmdRight'
  <2>1. SUFFICES ASSUME NEW t \in Titles, tmd'[t] # None PROVE TmdRightOf(t)'
    BY DEF TmdRight
  <2>2. tmd'[t] = tmd[t] /\ tmd[t] # None
    BY <1>10, <2>1
  <2>3. TmdRightOf(t)
    BY <2>2 DEF Sound, TmdRight
  <2>4. ~ Deleting(t)' => ~ Deleting(t) /\ t # req.title
    BY <1>1, <1>10, <2>1 DEF Deleting
  <2>5. t # req.title /\ Complete(t) => Complete(t)'
    BY <1>5, <1>10, <2>2 DEF Complete, Available
  <2> QED
    BY <1>5, <2>2, <2>3, <2>4, <2>5 DEF TmdRightOf
<1> QED
  BY <1>6, <1>7, <1>11, <1>12 DEF Sound

-----------------------------------------------------------------------------
(***************************************************************************)
(* The work of AddTitleFinish.                                             *)
(***************************************************************************)

FinishOps == {"finish", "share", "map", "tmd", "close"}

LEMMA FinishFacts ==
  ASSUME Sound, req.op \in FinishOps
  PROVE  /\ step = "finish" /\ Finishing /\ Working /\ job \in 1 .. Len(Jobs) + 1
         /\ ~ pathFreed /\ tmp.tik = {} /\ Tmd.title \in ticket
         /\ Own /\ iTMD = Tmd /\ req.title = Tmd.title /\ Tmd.title \in Titles
         /\ HasUid
<1>1. step = "finish"
  <2>1. step \notin {"none", "ticket", "cancel", "start"}
    BY DEF Sound, ClientOK, Resting, Starting, FinishOps
  <2>2. step \notin {"cstart", "cdata", "cfinish"}
    BY DEF Sound, ClientOK, Delivering, FinishOps
  <2> QED
    BY <2>1, <2>2 DEF Sound, ClientOK
<1>2. Finishing /\ Working /\ job \in 1 .. Len(Jobs) + 1 /\ ~ pathFreed /\ Tmd.title \in ticket
  BY <1>1 DEF Sound, ClientOK
<1>3. tmp.tik = {}
  BY DEF Sound, ClientOK, FinishOps
<1>4. Own /\ iTMD = Tmd /\ req.title = Tmd.title /\ HasUid
  BY <1>2 DEF Finishing, FinishOps, Own
<1>5. Tmd.title \in Titles
  BY <1>2, TmdFacts
<1> QED
  BY <1>1, <1>2, <1>3, <1>4, <1>5

LEMMA FinishKeeps ==
  ASSUME Sound, req.op \in FinishOps, UNCHANGED <<client, ticket, pathFreed>>,
         tmp'.tik = tmp.tik, Finishing'
  PROVE  ClientOK'
<1>1. UNCHANGED <<job, step, k>>
  BY DEF client
<1>2. Tmd' = Tmd /\ Working' /\ step' = "finish"
  BY <1>1, FinishFacts DEF Tmd, Working
<1> QED
  BY <1>1, <1>2, FinishFacts DEF ClientOK

\* The loop is at content req.i of the import.
LEMMA AtPiece ==
  ASSUME TypedOK, Sound, AtContent \/ req.op \in {"share", "map"}
  PROVE  /\ req.op \in FinishOps /\ req.i \in Pieces /\ req.i \in Nat
         /\ Current = Piece(req.i) /\ App = Plain(req.i)
         /\ App \in {None, Current.hash} /\ AllGenuine
         /\ Current.hash \in Hashes /\ Current.hash # None /\ Current.id \in Ids
         /\ PlacedTo(req.i) /\ Settled(req.i) /\ tmp.tmd = Tmd
<1>1. req.op \in {"finish", "share", "map"}
  BY DEF AtContent
<1>2. req.op \in FinishOps
  BY <1>1 DEF FinishOps
<1>3. iTMD = Tmd /\ Finishing /\ Working /\ job \in 1 .. Len(Jobs) + 1
  BY <1>2, FinishFacts
<1>4. req.i \in Pieces /\ req.i \in Nat
  BY <1>3, CurrentType DEF Pieces
<1>5. Current = Piece(req.i) /\ App = Plain(req.i)
  BY <1>3 DEF Current, Piece, App, Plain
<1>6. AllGenuine /\ PlacedTo(req.i) /\ Settled(req.i) /\ tmp.tmd = Tmd
  BY <1>1, <1>3 DEF Finishing
<1>7. App \in {None, Current.hash}
  BY <1>4, <1>5, <1>6 DEF AllGenuine
<1>8. Current.hash \in Hashes /\ Current.hash # None /\ Current.id \in Ids
  BY <1>3, <1>4, <1>5, TmdFacts
<1> QED
  BY <1>2, <1>4, <1>5, <1>6, <1>7, <1>8

LEMMA NextIs ==
  ASSUME TypedOK, NEW r, NextContent(r)
  PROVE  req'.op = "finish" /\ req'.i = req.i + 1 /\ req'.title = req.title /\ req'.r = r
<1>1. req \in Step
  BY DEF TypedOK, TypeOK
<1> QED
  BY <1>1 DEF NextContent, Go, Step

LEMMA GotoIs ==
  ASSUME TypedOK, NEW op, Goto(op)
  PROVE  req'.op = op /\ req'.i = req.i /\ req'.title = req.title /\ req'.r = req.r
<1>1. req \in Step
  BY DEF TypedOK, TypeOK
<1> QED
  BY <1>1 DEF Goto, Go, Step

\* What dropping the file in /tmp leaves.
LEMMA DropIs ==
  ASSUME TypedOK, Sound, AtContent \/ req.op \in {"share", "map"}, DropApp
  PROVE  /\ tmp'.tik = tmp.tik /\ tmp'.tmd = tmp.tmd /\ tmp'.raw = tmp.raw
         /\ \A c \in Ids : tmp'.app[c] = IF c = Current.id THEN None ELSE tmp.app[c]
<1>1. tmp \in TmpFiles
  BY DEF TypedOK, TypeOK
<1>2. Current.id \in Ids
  BY AtPiece
<1> QED
  BY <1>1, <1>2 DEF DropApp, TmpFiles

\* What is provided stays when files are added and those of content n are dropped.
LEMMA Remains ==
  ASSUME TypedOK, Sound, AtContent \/ req.op \in {"share", "map"},
         UNCHANGED <<client, iTMD, uid>>,
         tmp'.tmd = tmp.tmd, tmp'.raw = tmp.raw,
         \A c \in Ids : tmp'.app[c] \in {None, tmp.app[c]},
         \A c \in Ids : c # Current.id => tmp'.app[c] = tmp.app[c],
         Range(map) \subseteq Range(map'),
         \A c \in Ids : content[Tmd.title][c] # None => content'[Tmd.title][c] # None
  PROVE  /\ Tmd' = Tmd /\ Own' /\ HasUid' /\ AllGenuine' /\ tmp'.tmd = Tmd'
         /\ Pieces' = Pieces
         /\ \A p \in Pieces : There(p) => There(p)'
         /\ \A p \in Pieces : Provided(p) /\ p # req.i => Provided(p)'
<1>1. UNCHANGED <<job, step, k>>
  BY DEF client
<1>2. /\ req.op \in FinishOps /\ req.i \in Pieces /\ Current = Piece(req.i) /\ AllGenuine
      /\ tmp.tmd = Tmd
  BY AtPiece
<1>3. /\ Own /\ HasUid /\ Working /\ job \in 1 .. Len(Jobs) + 1
  BY <1>2, FinishFacts
<1>4. Tmd' = Tmd /\ Pieces' = Pieces
  BY <1>1 DEF Tmd, Pieces
<1>5. \A p \in Pieces : /\ Piece(p).id \in Ids /\ Piece(p).hash # None
                        /\ (Piece(p).id = Current.id => p = req.i)
  BY <1>2, <1>3, TmdFacts
<1>6. Own' /\ HasUid'
  BY <1>3, <1>4 DEF Own, HasUid
<1>7. AllGenuine'
  BY <1>2, <1>4, <1>5 DEF AllGenuine, Plain, Piece
<1>8. \A p \in Pieces : There(p) => There(p)'
  BY <1>4, <1>5 DEF There, Piece
<1>9. \A p \in Pieces : Provided(p) /\ p # req.i => Provided(p)'
  BY <1>4, <1>5, <1>8 DEF Provided, Plain, Piece
<1> QED
  BY <1>2, <1>4, <1>6, <1>7, <1>8, <1>9

\* On to the next content, when this one is on the NAND or need not be.
LEMMA Advance ==
  ASSUME TypedOK, Sound, NEW n, req.i = n, AtContent \/ req.op \in {"share", "map"},
         UNCHANGED <<client, iTMD, uid>>,
         tmp'.tmd = tmp.tmd, tmp'.raw = tmp.raw,
         \A c \in Ids : tmp'.app[c] \in {None, tmp.app[c]},
         \A c \in Ids : c # Current.id => tmp'.app[c] = tmp.app[c],
         Range(map) \subseteq Range(map'),
         \A c \in Ids : content[Tmd.title][c] # None => content'[Tmd.title][c] # None,
         req'.op = "finish", req'.i = req.i + 1, req'.title = req.title,
         Current.optional \/ There(n)',
         \/ req'.r = ES_SUCCESS
         \/ req'.r = req.r /\ Current.shared
         \/ ~ Ordinary
  PROVE  Finishing'
<1>1. /\ req.op \in FinishOps /\ req.i \in Pieces /\ n \in Nat /\ n \in Pieces /\ Current = Piece(n)
      /\ PlacedTo(n) /\ Settled(n)
  BY AtPiece
<1>2. Finishing /\ Working /\ job \in 1 .. Len(Jobs) + 1 /\ req.title = Tmd.title
  BY <1>1, FinishFacts
<1>3. /\ Tmd' = Tmd /\ Own' /\ HasUid' /\ AllGenuine' /\ tmp'.tmd = Tmd' /\ Pieces' = Pieces
      /\ \A p \in Pieces : There(p) => There(p)'
      /\ \A p \in Pieces : Provided(p) /\ p # n => Provided(p)'
  BY Remains
<1>4. \A p \in Pieces : p \in Nat
  BY <1>2, TmdFacts
<1>5. \A p \in Pieces : Piece(p)' = Piece(p)
  BY <1>3 DEF Piece
<1>10. \A p \in Pieces : p < n + 1 => p < n \/ p = n
  BY <1>1, <1>4
<1>6. PlacedTo(n + 1)'
  <2>1. ASSUME NEW p \in Pieces, p < n + 1 PROVE Piece(p).optional \/ There(p)'
    <3>1. p < n \/ p = n
      BY <1>10, <2>1
    <3>2. CASE p = n
      BY <1>1, <3>2
    <3>3. CASE p < n
      BY <1>1, <1>3, <3>3 DEF PlacedTo
    <3> QED
      BY <3>1, <3>2, <3>3
  <2> QED
    BY <1>3, <1>5, <2>1 DEF PlacedTo
<1>7. ProvidedFrom(n + 1)'
  <2>1. ASSUME NEW p \in Pieces, p >= n + 1 PROVE Provided(p)'
    <3>1. p >= n /\ p # n
      BY <1>1, <1>4, <2>1
    <3>2. Provided(p)
      BY <1>2, <1>1, <2>1, <3>1 DEF Finishing, ProvidedFrom, AtContent
    <3> QED
      BY <1>3, <3>1, <3>2
  <2> QED
    BY <1>3, <2>1 DEF ProvidedFrom
<1>8. Settled(n + 1)'
  <2>1. ASSUME Ordinary, NEW p \in Pieces, p < n + 1, ~ Piece(p).shared
        PROVE  req'.r = ES_SUCCESS
    <3>1. p < n \/ p = n
      BY <1>10, <2>1
    <3>2. CASE p = n
      BY <1>1, <2>1, <3>2
    <3>3. CASE p < n
      BY <1>1, <2>1, <3>3 DEF Settled
    <3> QED
      BY <3>1, <3>2, <3>3
  <2> QED
    BY <1>3, <1>5, <2>1 DEF Settled
<1>9. PlacedTo(req.i)' /\ ProvidedFrom(req.i)' /\ Settled(req.i)'
  BY <1>6, <1>7, <1>8 DEF PlacedTo, ProvidedFrom, Settled
<1> QED
  BY <1>2, <1>3, <1>9 DEF Finishing

\* No import is complete any less when files are added.
LEMMA StoreGrows ==
  ASSUME TypedOK, MapOK, Sound, req.op \in FinishOps, UNCHANGED <<tmd, uid, cut>>,
         \A i \in DOMAIN map : /\ i \in DOMAIN map' /\ map'[i] = map[i]
                               /\ shared1'[i - 1] = shared1[i - 1],
         \A t \in Titles, c \in Ids : content[t][c] \in {None, content'[t][c]}
  PROVE  TmdRight'
<1>1. SUFFICES ASSUME NEW t \in Titles, tmd[t] # None PROVE TmdRightOf(t)'
  BY DEF TmdRight
<1>2. TmdRightOf(t)
  BY <1>1 DEF Sound, TmdRight
<1>3. tmd[t] \in Tmds /\ \A i \in DOMAIN tmd[t].contents :
        tmd[t].contents[i].id \in Ids /\ tmd[t].contents[i].hash # None
  <2>1. PICK m \in Tmds : m = tmd[t]
    BY <1>2 DEF TmdRightOf
  <2>2. \A i \in DOMAIN m.contents : m.contents[i].id \in Ids /\ m.contents[i].hash \in Hashes
    BY Contents
  <2> QED
    BY <2>1, <2>2, ESAssumption
<1>4. Complete(t) => Complete(t)'
  BY <1>3 DEF Complete, Available
<1>5. ~ Deleting(t)' => ~ Deleting(t)
  BY DEF Deleting, FinishOps
<1> QED
  BY <1>2, <1>4, <1>5 DEF TmdRightOf

LEMMA SharedKnown ==
  ASSUME TypedOK, MapOK, Sound, faults' = 0, UNCHANGED client, FinishShared
  PROVE  Sound'
<1>1. /\ AtContent /\ Current.shared /\ UNCHANGED <<nand, iTMD, SkipContent, pathFreed>>
      /\ req.op \in FinishOps
  BY DEF FinishShared, AtContent, FinishOps
<1>2. PICK r \in Checks :
        /\ ES_CheckSharedContent(Current.hash, r)
        /\ \/ r = 1 /\ NextContent(req.r) /\ DropApp
           \/ r = ES_FATAL /\ NextContent(req.r) /\ UNCHANGED tmp
           \/ r = 0 /\ Goto("share") /\ UNCHANGED tmp
  BY DEF FinishShared
<1>3. PICK n : n = req.i
  OBVIOUS
<1>4. /\ (Works \/ Breaks) /\ (r = 1 => Current.hash \in Range(map))
      /\ (r = ES_FATAL => Breaks \/ (map = <<>> /\ ~ EmptyLoads))
  <2>1. PICK h : h = Current.hash
    OBVIOUS
  <2> QED
    BY <1>2, <2>1, CheckSays
<1>5. r # ES_FATAL
  BY <1>4, NoFault DEF Sound, SharedRight, TypedOK
<1>6. UNCHANGED <<ticket, tmd, content, shared1, map, uid, cut, iTMD, pathFreed>>
  BY <1>1 DEF nand
<1>7. SharedRight' /\ PrivateRight' /\ TmdRight'
  <2>1. \A t \in Titles : Deleting(t) => Deleting(t)'
    BY <1>1, <1>6 DEF Deleting, FinishOps
  <2> QED
    BY <1>6, <2>1, StoreFrame
<1>8. n \in Pieces /\ Current = Piece(n) /\ iTMD = Tmd /\ tmp.tmd = Tmd
  BY <1>1, <1>3, AtPiece, FinishFacts
<1>9. ASSUME r = 1 PROVE ClientOK'
  <2>1. NextContent(req.r) /\ DropApp
    BY <1>2, <1>9, <1>5 DEF ES_FATAL
  <2>2. /\ req'.op = "finish" /\ req'.i = req.i + 1 /\ req'.title = req.title /\ req'.r = req.r
    <3>1. PICK q : q = req.r
      OBVIOUS
    <3> QED
      BY <2>1, <3>1, NextIs
  <2>3. /\ tmp'.tik = tmp.tik /\ tmp'.tmd = tmp.tmd /\ tmp'.raw = tmp.raw
        /\ \A c \in Ids : tmp'.app[c] = IF c = Current.id THEN None ELSE tmp.app[c]
    BY <1>1, <2>1, DropIs
  <2>4. There(n)'
    <3>1. Tmd' = Tmd
      BY DEF client, Tmd
    <3> QED
      BY <1>1, <1>4, <1>6, <1>8, <1>9, <3>1 DEF There, Piece
  <2>5. Finishing'
    BY <1>1, <1>3, <1>6, <2>2, <2>3, <2>4, Advance
  <2> QED
    BY <1>1, <1>6, <2>3, <2>5, FinishKeeps
<1>10. ASSUME r = 0 PROVE ClientOK'
  <2>1. Goto("share") /\ UNCHANGED tmp
    BY <1>2, <1>5, <1>10
  <2>2. /\ req'.op = "share" /\ req'.i = req.i /\ req'.title = req.title /\ req'.r = req.r
    BY <2>1, GotoIs
  <2>3. Finishing
    BY <1>1, FinishFacts
  <2>4. UNCHANGED <<job, step, k>> /\ Tmd' = Tmd
    BY DEF client, Tmd
  <2>5. Finishing'
    BY <1>1, <1>6, <2>1, <2>2, <2>3, <2>4
    DEF Finishing, HasUid, Own, AllGenuine, PlacedTo, Settled, ProvidedFrom, Provided, There,
        Plain, Piece, Pieces, AtContent
  <2> QED
    BY <1>1, <1>6, <2>1, <2>5, FinishKeeps
<1> QED
  BY <1>2, <1>5, <1>7, <1>9, <1>10 DEF Sound

\* While a content is shared, its file and its number are what was decided.
LEMMA SharedWork ==
  ASSUME TypedOK, MapOK, Sound, req.op \in {"share", "map"}
  PROVE  /\ map \in Seq(Hashes) /\ Len(map) \in Nat /\ DOMAIN map = 1 .. Len(map)
         /\ Current.shared /\ Current.hash \notin Range(map) /\ req.op \in FinishOps
         /\ \A i \in DOMAIN map : i - 1 \in DOMAIN shared1 /\ i - 1 # Len(map) /\ i \in Nat
<1>1. map \in Seq(Hashes)
  BY DEF TypedOK, TypeOK
<1>2. Len(map) \in Nat /\ DOMAIN map = 1 .. Len(map)
  BY <1>1
<1>3. \A i \in DOMAIN map : i - 1 \in DOMAIN shared1 /\ i - 1 # Len(map) /\ i \in Nat
  BY <1>2 DEF MapOK, MapBacked
<1> QED
  BY <1>1, <1>2, <1>3 DEF TypedOK, RequestOK, MapOK, FinishOps

LEMMA SharedOverwritten ==
  ASSUME TypedOK, MapOK, Sound, faults' = 0, UNCHANGED client, FinishShared_Overwrite
  PROVE  Sound'
<1>1. /\ req.op = "share"
      /\ shared1' = Restrict(shared1, DOMAIN shared1 \ {Len(map)})
      /\ UNCHANGED <<ticket, tmd, content, map, uid, cut, tmp, ram, req, reply>>
  BY DEF FinishShared_Overwrite
<1>2. \A i \in DOMAIN map : shared1'[i - 1] = shared1[i - 1]
  BY <1>1, SharedWork DEF Restrict
<1>3. \A t \in Titles, c \in Ids : content[t][c] \in {None, content'[t][c]}
  BY <1>1
<1>4. TmdRight' /\ SharedRight' /\ PrivateRight'
  BY <1>1, <1>2, <1>3, StoreGrows DEF Sound, SharedRight, PrivateRight, FinishOps
<1>5. UNCHANGED <<job, step, k>> /\ Tmd' = Tmd /\ UNCHANGED <<iTMD, pathFreed>>
  BY <1>1 DEF client, Tmd, ram
<1>6. Finishing
  BY <1>1, FinishFacts DEF FinishOps
<1>7. Finishing'
  BY <1>1, <1>5, <1>6
  DEF Finishing, HasUid, Own, AllGenuine, PlacedTo, Settled, ProvidedFrom, Provided, There,
      Plain, Piece, Pieces
<1>8. ClientOK'
  BY <1>1, <1>5, <1>7, FinishKeeps DEF FinishOps
<1> QED
  BY <1>4, <1>8 DEF Sound

LEMMA SharedMoved ==
  ASSUME TypedOK, MapOK, Sound, faults' = 0, UNCHANGED client, FinishShared_Move
  PROVE  Sound'
<1>1. /\ req.op = "share" /\ App # None
      /\ shared1' = With(shared1, Len(map), App) /\ DropApp /\ Goto("map")
      /\ UNCHANGED <<ticket, tmd, content, map, uid, cut, ram>>
  BY DEF FinishShared_Move
<1>2. App = Current.hash /\ req.i \in Pieces /\ req.i \in Nat /\ Settled(req.i)
      /\ PlacedTo(req.i)
  BY <1>1, AtPiece
<1>3. /\ \A i \in DOMAIN map : shared1'[i - 1] = shared1[i - 1]
      /\ shared1'[Len(map)] = Current.hash
  BY <1>1, <1>2, SharedWork DEF With
<1>4. \A t \in Titles, c \in Ids : content[t][c] \in {None, content'[t][c]}
  BY <1>1
<1>5. TmdRight' /\ SharedRight' /\ PrivateRight'
  BY <1>1, <1>3, <1>4, StoreGrows DEF Sound, SharedRight, PrivateRight, FinishOps
<1>6. UNCHANGED <<job, step, k>> /\ Tmd' = Tmd /\ UNCHANGED <<iTMD, pathFreed>>
  BY <1>1 DEF client, Tmd, ram
<1>7. /\ tmp'.tik = tmp.tik /\ tmp'.tmd = tmp.tmd /\ tmp'.raw = tmp.raw
      /\ \A c \in Ids : tmp'.app[c] = IF c = Current.id THEN None ELSE tmp.app[c]
  BY <1>1, DropIs
<1>8. /\ req'.op = "map" /\ req'.i = req.i /\ req'.title = req.title /\ req'.r = req.r
  BY <1>1, GotoIs
<1>9. /\ Own' /\ HasUid' /\ AllGenuine' /\ tmp'.tmd = Tmd' /\ Pieces' = Pieces
      /\ \A p \in Pieces : There(p) => There(p)'
      /\ \A p \in Pieces : Provided(p) /\ p # req.i => Provided(p)'
  BY <1>1, <1>6, <1>7, Remains
<1>10. Finishing /\ Working /\ job \in 1 .. Len(Jobs) + 1
  BY <1>1, FinishFacts DEF FinishOps
<1>11. ProvidedFrom(req.i + 1)'
  <2>1. \A p \in Pieces : p >= req.i + 1 => p >= req.i /\ p # req.i
    BY <1>2, <1>10, TmdFacts
  <2>2. ProvidedFrom(req.i)
    BY <1>1, <1>10 DEF Finishing
  <2> QED
    BY <1>8, <1>9, <2>1, <2>2 DEF ProvidedFrom
<1>12. PlacedTo(req.i)' /\ Settled(req.i)'
  BY <1>2, <1>6, <1>8, <1>9 DEF PlacedTo, Settled, Piece
<1>13. shared1'[Len(map')] = Current'.hash
  BY <1>1, <1>3, <1>6, <1>8 DEF Current
<1>14. Finishing'
  BY <1>1, <1>6, <1>8, <1>9, <1>10, <1>11, <1>12, <1>13 DEF Finishing
<1>15. ClientOK'
  BY <1>1, <1>6, <1>7, <1>14, FinishKeeps DEF FinishOps
<1> QED
  BY <1>5, <1>15 DEF Sound

\* What an ordinary import shares was delivered.
LEMMA SharedMissing ==
  ASSUME TypedOK, MapOK, Sound, faults' = 0, UNCHANGED client, FinishShared_Missing
  PROVE  Sound'
<1>1. /\ req.op = "share"
      /\ (App = None /\ Works) \/ Breaks
      /\ UNCHANGED <<nand, tmp, iTMD, SkipContent, CNTMap>>
      /\ \E e \in {ES_NFOUND, FS_FATAL} :
           IF Current.optional
           THEN NextContent(e) /\ UNCHANGED pathFreed
           ELSE Reply("AddTitleFinish", e) /\ pathFreed' = TRUE
  BY DEF FinishShared_Missing
<1>2. App = None
  BY <1>1, NoFault DEF TypedOK
<1>3. PICK n : n = req.i
  OBVIOUS
<1>4. /\ n \in Pieces /\ Current = Piece(n) /\ App = Plain(n) /\ Current.hash # None
      /\ Current.shared /\ Current.hash \notin Range(map)
  BY <1>1, <1>3, AtPiece, SharedWork
<1>5. Finishing /\ Working /\ job \in 1 .. Len(Jobs) + 1
  BY <1>1, FinishFacts DEF FinishOps
<1>6. Current.optional
  <2>1. Provided(n)
    <3>1. n >= n
      BY <1>4, <1>5, TmdFacts
    <3> QED
      BY <1>1, <1>3, <1>4, <1>5, <3>1 DEF Finishing, ProvidedFrom
  <2> QED
    BY <1>2, <1>4, <2>1 DEF Provided, There
<1>7. ~ Ordinary
  <2>1. job \in DOMAIN Jobs
    BY <1>5, TmdFacts
  <2> QED
    BY <1>4, <1>6, <2>1 DEF Ordinary, Tmd, Piece, Pieces
<1>8. PICK e : NextContent(e) /\ UNCHANGED pathFreed
  BY <1>1, <1>6
<1>9. /\ req'.op = "finish" /\ req'.i = req.i + 1 /\ req'.title = req.title
  BY <1>8, NextIs
<1>10. UNCHANGED <<ticket, tmd, content, shared1, map, uid, cut, tmp, iTMD, pathFreed>>
  BY <1>1, <1>8 DEF nand
<1>11. SharedRight' /\ PrivateRight' /\ TmdRight'
  <2>1. \A t \in Titles : Deleting(t) => Deleting(t)'
    BY <1>1, <1>10 DEF Deleting, FinishOps
  <2> QED
    BY <1>10, <2>1, StoreFrame
<1>12. Finishing'
  BY <1>1, <1>3, <1>6, <1>7, <1>9, <1>10, Advance
<1>13. ClientOK'
  BY <1>1, <1>10, <1>12, FinishKeeps DEF FinishOps
<1> QED
  BY <1>11, <1>13 DEF Sound

LEMMA SharedEntered ==
  ASSUME TypedOK, MapOK, Sound, faults' = 0, UNCHANGED client, FinishShared_Map
  PROVE  Sound'
<1>1. /\ req.op = "map" /\ NextContent(ES_SUCCESS) /\ (Works \/ Breaks)
      /\ UNCHANGED <<ticket, tmd, content, shared1, uid, cut, tmp, iTMD, pathFreed>>
  BY DEF FinishShared_Map
<1>2. map' = Append(map, Current.hash)
  BY <1>1, NoFault DEF FinishShared_Map, TypedOK
<1>3. PICK n : n = req.i
  OBVIOUS
<1>4. /\ n \in Pieces /\ Current = Piece(n) /\ Current.hash \in Hashes /\ Current.shared
      /\ map \in Seq(Hashes) /\ Len(map) \in Nat /\ DOMAIN map = 1 .. Len(map)
  BY <1>1, <1>3, AtPiece, SharedWork
<1>5. Finishing /\ Working
  BY <1>1, FinishFacts DEF FinishOps
<1>6. /\ DOMAIN map' = 1 .. Len(map) + 1 /\ map'[Len(map) + 1] = Current.hash
      /\ \A i \in DOMAIN map : i \in DOMAIN map' /\ map'[i] = map[i]
      /\ map' # <<>>
  <2>1. map' \in Seq(Hashes) /\ Len(map') = Len(map) + 1
    BY <1>2, <1>4
  <2> QED
    BY <1>2, <1>4, <2>1
<1>7. Range(map) \subseteq Range(map') /\ Current.hash \in Range(map')
  BY <1>4, <1>6 DEF Range
<1>8. shared1[Len(map)] = Current.hash
  BY <1>1, <1>5 DEF Finishing
<1>9. SharedRight'
  <2>1. ASSUME NEW i \in DOMAIN map' PROVE shared1'[i - 1] = map'[i]
    <3>1. i \in DOMAIN map \/ (i = Len(map) + 1 /\ i - 1 = Len(map))
      BY <1>4, <1>6
    <3> QED
      BY <1>1, <1>6, <1>8, <3>1 DEF Sound, SharedRight
  <2> QED
    BY <1>6, <2>1 DEF SharedRight
<1>10. TmdRight' /\ PrivateRight'
  <2>1. \A t \in Titles, c \in Ids : content[t][c] \in {None, content'[t][c]}
    BY <1>1
  <2> QED
    BY <1>1, <1>6, <2>1, StoreGrows DEF Sound, PrivateRight, FinishOps
<1>11. There(n)'
  <2>1. Tmd' = Tmd
    BY DEF client, Tmd
  <2> QED
    BY <1>4, <1>7, <2>1 DEF There, Piece
<1>12. /\ req'.op = "finish" /\ req'.i = req.i + 1 /\ req'.title = req.title
       /\ req'.r = ES_SUCCESS
  BY <1>1, NextIs
<1>13. Finishing'
  BY <1>1, <1>3, <1>7, <1>11, <1>12, Advance
<1>14. ClientOK'
  BY <1>1, <1>13, FinishKeeps DEF FinishOps
<1> QED
  BY <1>9, <1>10, <1>14 DEF Sound

\* A private content is moved to its title, unless a file of it is there.
LEMMA PrivateMoved ==
  ASSUME TypedOK, MapOK, Sound, faults' = 0, UNCHANGED client, IdNamesData, FinishPrivate
  PROVE  Sound'
<1>1. /\ AtContent /\ ~ Current.shared /\ req.op \in FinishOps
      /\ UNCHANGED <<ticket, tmd, shared1, map, uid, cut, ram>>
  BY DEF FinishPrivate, AtContent, FinishOps
<1>2. PICK n : n = req.i
  OBVIOUS
<1>3. /\ n \in Pieces /\ Current = Piece(n) /\ App = Plain(n)
      /\ App \in {None, Current.hash} /\ Current.hash # None
      /\ Current.id \in Ids /\ Current.hash \in Hashes
  BY <1>1, <1>2, AtPiece
<1>4. /\ Finishing /\ Working /\ job \in 1 .. Len(Jobs) + 1 /\ req.title = Tmd.title
      /\ Tmd.title \in Titles
  BY <1>1, FinishFacts
<1>5. Works /\ ~ Breaks
  BY NoFault DEF FinishPrivate, TypedOK
<1>6. content \in [Titles -> [Ids -> Data \cup {None}]]
  BY DEF TypedOK, TypeOK
<1>7. Current.optional \/ content[Tmd.title][Current.id] # None \/ App # None
  <2>1. Provided(n)
    <3>1. n >= n
      BY <1>3, <1>4, TmdFacts
    <3> QED
      BY <1>1, <1>2, <1>3, <1>4, <3>1 DEF Finishing, ProvidedFrom, AtContent
  <2> QED
    BY <1>1, <1>3, <2>1 DEF Provided, There
<1>8. /\ NextContent(ES_SUCCESS)
      /\ \/ content[Tmd.title][Current.id] # None /\ DropApp /\ UNCHANGED content
         \/ /\ content[Tmd.title][Current.id] = None /\ App # None /\ DropApp
            /\ content' = [content EXCEPT ![Tmd.title][Current.id] = App]
         \/ Current.optional /\ UNCHANGED <<content, tmp>>
  BY <1>4, <1>5, <1>7 DEF FinishPrivate
<1>9. /\ \A t \in Titles, c \in Ids : content[t][c] \in {None, content'[t][c]}
      /\ \A t \in Titles, c \in Ids :
           content'[t][c] = content[t][c]
           \/ (t = Tmd.title /\ c = Current.id /\ content'[t][c] = Current.hash)
      /\ Current.optional \/ content'[Tmd.title][Current.id] # None
  <2>1. CASE /\ UNCHANGED content
             /\ Current.optional \/ content[Tmd.title][Current.id] # None
    BY <2>1
  <2>2. CASE /\ content[Tmd.title][Current.id] = None /\ App # None
             /\ content' = [content EXCEPT ![Tmd.title][Current.id] = App]
    BY <1>3, <1>4, <1>6, <2>2
  <2> QED
    BY <1>8, <2>1, <2>2
<1>10. PrivateRight'
  <2>1. SUFFICES ASSUME NEW j \in DOMAIN Jobs, NEW p \in DOMAIN Jobs[j].contents,
                        ~ Jobs[j].contents[p].shared
                 PROVE  content'[Jobs[j].title][Jobs[j].contents[p].id]
                          \in {None, Jobs[j].contents[p].hash}
    BY DEF PrivateRight
  <2>2. /\ Jobs[j].title \in Titles /\ Jobs[j].contents[p].id \in Ids
        /\ content[Jobs[j].title][Jobs[j].contents[p].id] \in {None, Jobs[j].contents[p].hash}
    BY <2>1, JobFacts DEF Sound, PrivateRight
  <2>3. CASE Jobs[j].title = Tmd.title /\ Jobs[j].contents[p].id = Current.id
    <3>1. job \in DOMAIN Jobs /\ n \in DOMAIN Jobs[job].contents
          /\ Current = Jobs[job].contents[n] /\ Jobs[job].title = Jobs[j].title
      BY <1>3, <1>4, <2>3, TmdFacts DEF Tmd, Piece, Pieces
    <3>2. Current.hash = Jobs[j].contents[p].hash
      BY <1>1, <2>1, <2>3, <3>1 DEF IdNamesData
    <3> QED
      BY <1>9, <2>2, <3>2
  <2> QED
    BY <1>9, <2>2, <2>3
<1>11. SharedRight' /\ TmdRight'
  BY <1>1, <1>9, StoreGrows DEF Sound, SharedRight
<1>12. /\ tmp'.tik = tmp.tik /\ tmp'.tmd = tmp.tmd /\ tmp'.raw = tmp.raw
       /\ \A c \in Ids : tmp'.app[c] \in {None, tmp.app[c]}
       /\ \A c \in Ids : c # Current.id => tmp'.app[c] = tmp.app[c]
  <2>1. CASE DropApp
    BY <1>1, <2>1, DropIs
  <2> QED
    BY <1>8, <2>1
<1>13. Current.optional \/ There(n)'
  <2>1. Tmd' = Tmd
    BY DEF client, Tmd
  <2> QED
    BY <1>1, <1>3, <1>9, <2>1 DEF There, Piece
<1>14. /\ req'.op = "finish" /\ req'.i = req.i + 1 /\ req'.title = req.title
       /\ req'.r = ES_SUCCESS
  BY <1>8, NextIs
<1>15. UNCHANGED <<iTMD, pathFreed>> /\ Range(map) \subseteq Range(map')
  BY <1>1 DEF ram
<1>16. \A c \in Ids : content[Tmd.title][c] # None => content'[Tmd.title][c] # None
  BY <1>4, <1>9
<1>17. Finishing'
  BY <1>1, <1>2, <1>12, <1>13, <1>14, <1>15, <1>16, Advance
<1>18. ClientOK'
  BY <1>1, <1>12, <1>15, <1>17, FinishKeeps
<1> QED
  BY <1>10, <1>11, <1>18 DEF Sound

LEMMA LoopDone ==
  ASSUME TypedOK, MapOK, Sound, faults' = 0, UNCHANGED client, FinishLoop
  PROVE  Sound'
<1>1. /\ req.op = "finish" /\ req.i > Len(iTMD.contents) /\ req.op \in FinishOps
      /\ Goto(IF req.r = ES_SUCCESS THEN "tmd" ELSE "close")
      /\ UNCHANGED <<nand, tmp, ram, faults>>
  BY DEF FinishLoop, FinishOps
<1>2. /\ Finishing /\ Working /\ job \in 1 .. Len(Jobs) + 1 /\ req.title = Tmd.title
      /\ Own /\ iTMD = Tmd
  BY <1>1, FinishFacts
<1>3. PlacedTo(req.i) /\ Settled(req.i) /\ AllGenuine /\ HasUid /\ tmp.tmd = Tmd
  BY <1>1, <1>2 DEF Finishing
<1>4. req.i \in Nat /\ \A p \in Pieces : p < req.i
  <2>1. req.i \in Nat
    BY DEF TypedOK, TypeOK, Step
  <2> QED
    BY <1>1, <1>2, <2>1, TmdFacts
<1>5. UNCHANGED <<ticket, tmd, content, shared1, map, uid, cut, tmp, iTMD, pathFreed>>
  BY <1>1 DEF nand, ram
<1>6. Tmd' = Tmd /\ Pieces' = Pieces
  BY DEF client, Tmd, Pieces
<1>7. PlacedTo(Len(Tmd.contents) + 1)'
  <2>1. \A p \in Pieces : Piece(p).optional \/ There(p)
    BY <1>3, <1>4 DEF PlacedTo
  <2> QED
    BY <1>5, <1>6, <2>1 DEF PlacedTo, There, Piece
<1>8. Ordinary => req.r = ES_SUCCESS
  <2>1. job \in DOMAIN Jobs
    BY <1>2, TmdFacts
  <2>2. Ordinary => \E p \in Pieces : ~ Piece(p).shared
    BY <2>1 DEF Ordinary, Tmd, Piece, Pieces
  <2> QED
    BY <1>3, <1>4, <2>2 DEF Settled
<1>9. PICK op \in {"tmd", "close"} : Goto(op)
  BY <1>1
<1>10. req'.op = op /\ req'.title = req.title /\ req'.r = req.r
  BY <1>9, GotoIs
<1>11. Own' /\ AllGenuine' /\ HasUid'
  BY <1>2, <1>3, <1>5, <1>6 DEF Own, AllGenuine, HasUid, Plain, Piece
<1>12. Finishing'
  BY <1>2, <1>3, <1>5, <1>6, <1>7, <1>8, <1>9, <1>10, <1>11 DEF Finishing
<1>13. \A t \in Titles : Deleting(t) => Deleting(t)'
  BY <1>1, <1>5 DEF Deleting, FinishOps
<1>14. SharedRight' /\ PrivateRight' /\ TmdRight'
  BY <1>5, <1>13, StoreFrame
<1>15. ClientOK'
  BY <1>1, <1>5, <1>12, FinishKeeps
<1> QED
  BY <1>14, <1>15 DEF Sound

LEMMA TmdOverwritten ==
  ASSUME TypedOK, MapOK, Sound, faults' = 0, UNCHANGED client, FinishTmd_Overwrite
  PROVE  Sound'
<1>1. /\ req.op = "tmd" /\ req.op \in FinishOps /\ tmd' = [tmd EXCEPT ![req.title] = None]
      /\ UNCHANGED <<ticket, content, shared1, map, uid, cut, tmp, ram, req, reply>>
  BY DEF FinishTmd_Overwrite, FinishOps
<1>2. Finishing /\ req.title = Tmd.title /\ Tmd.title \in Titles
  BY <1>1, FinishFacts
<1>3. UNCHANGED <<iTMD, pathFreed, job, step, k>> /\ Tmd' = Tmd
  BY <1>1 DEF client, Tmd, ram
<1>4. Finishing'
  BY <1>1, <1>2, <1>3
  DEF Finishing, HasUid, Own, AllGenuine, PlacedTo, There, Plain, Piece, Pieces
<1>5. ClientOK'
  BY <1>1, <1>3, <1>4, FinishKeeps
<1>6. SharedRight' /\ PrivateRight'
  BY <1>1 DEF Sound, SharedRight, PrivateRight
<1>7. TmdRight'
  <2>1. SUFFICES ASSUME NEW t \in Titles, tmd'[t] # None PROVE TmdRightOf(t)'
    BY DEF TmdRight
  <2>2. tmd \in [Titles -> Tmds \cup {None, Torn}]
    BY DEF TypedOK, TypeOK
  <2>3. tmd'[t] = tmd[t] /\ tmd[t] # None
    BY <1>1, <1>2, <2>1, <2>2
  <2>4. TmdRightOf(t)
    BY <2>3 DEF Sound, TmdRight
  <2> QED
    BY <1>1, <2>3, <2>4 DEF TmdRightOf, Complete, Available, Deleting
<1> QED
  BY <1>5, <1>6, <1>7 DEF Sound

\* The title that is installed now is complete.
LEMMA TmdMoved ==
  ASSUME TypedOK, MapOK, Sound, faults' = 0, UNCHANGED client, FinishTmd_Move
  PROVE  Sound'
<1>1. /\ req.op = "tmd" /\ req.op \in FinishOps
      /\ UNCHANGED <<ticket, content, shared1, map, uid, ram>>
  BY DEF FinishTmd_Move, FinishOps
<1>2. /\ Finishing /\ req.title = Tmd.title /\ Tmd.title \in Titles /\ Own /\ iTMD = Tmd
      /\ Working /\ job \in 1 .. Len(Jobs) + 1 /\ HasUid
  BY <1>1, FinishFacts
<1>3. tmp.tmd = Tmd /\ PlacedTo(Len(Tmd.contents) + 1)
  BY <1>1, <1>2 DEF Finishing
<1>4. Tmd \in Tmds /\ Tmd # None /\ Tmd.title \in Titles /\ job \in DOMAIN Jobs
  BY <1>2, TmdFacts, ESAssumption
<1>5. Works /\ ~ Breaks
  BY NoFault DEF FinishTmd_Move, TypedOK
<1>6. /\ tmd' = [tmd EXCEPT ![req.title] = tmp.tmd]
      /\ tmp' = [tmp EXCEPT !.tmd = None]
      /\ cut' = cut \ {req.title}
      /\ Break(ES_SUCCESS)
  BY <1>3, <1>4, <1>5 DEF FinishTmd_Move
<1>7. UNCHANGED <<iTMD, pathFreed, job, step, k>> /\ Tmd' = Tmd /\ Pieces' = Pieces
  BY <1>1 DEF client, Tmd, Pieces, ram
<1>8. req'.op = "close" /\ req'.title = req.title /\ req'.r = ES_SUCCESS
  <2>1. req \in Step
    BY DEF TypedOK, TypeOK
  <2> QED
    BY <1>6, <2>1 DEF Break, Go, Step
<1>9. tmp'.tik = tmp.tik /\ tmp'.raw = tmp.raw /\ tmp'.app = tmp.app
  BY <1>6 DEF TypedOK, TypeOK, TmpFiles
<1>10. Own' /\ HasUid'
  BY <1>1, <1>2, <1>7, <1>9 DEF Own, HasUid
<1>11. Finishing'
  BY <1>2, <1>7, <1>8, <1>10 DEF Finishing
<1>12. ClientOK'
  BY <1>1, <1>7, <1>9, <1>11, FinishKeeps
<1>13. SharedRight' /\ PrivateRight'
  BY <1>1 DEF Sound, SharedRight, PrivateRight
<1>14. \A p \in Pieces : Piece(p).optional \/ Available(Tmd.title, Piece(p))
  <2>1. SUFFICES ASSUME NEW p \in Pieces, ~ Piece(p).optional
                 PROVE  Available(Tmd.title, Piece(p))
    OBVIOUS
  <2>2. There(p)
    <3>1. p < Len(Tmd.contents) + 1
      BY <1>2, TmdFacts
    <3> QED
      BY <1>3, <2>1, <3>1 DEF PlacedTo
  <2>3. CASE Piece(p).shared
    BY <2>2, <2>3 DEF There, Available, Sound, SharedRight, Range
  <2>4. CASE ~ Piece(p).shared
    <3>1. content[Tmd.title][Piece(p).id] \in {None, Piece(p).hash}
      BY <1>4, <2>4 DEF Sound, PrivateRight, Tmd, Piece, Pieces
    <3> QED
      BY <2>2, <2>4, <3>1 DEF There, Available
  <2> QED
    BY <2>3, <2>4
<1>15. TmdRight'
  <2>1. SUFFICES ASSUME NEW t \in Titles, tmd'[t] # None PROVE TmdRightOf(t)'
    BY DEF TmdRight
  <2>2. tmd \in [Titles -> Tmds \cup {None, Torn}]
    BY DEF TypedOK, TypeOK
  <2>3. CASE t = Tmd.title
    <3>1. tmd'[t] = Tmd
      BY <1>2, <1>3, <1>6, <2>2, <2>3
    <3>2. Complete(t)'
      BY <1>1, <1>14, <2>3, <3>1 DEF Complete, Available, Piece, Pieces
    <3>3. EmptyLoads => uid' # None /\ t \in Range(uid')
      BY <1>1, <1>2, <2>3 DEF HasUid
    <3> QED
      BY <1>4, <2>3, <3>1, <3>2, <3>3 DEF TmdRightOf
  <2>4. CASE t # Tmd.title
    <3>1. tmd'[t] = tmd[t]
      BY <1>2, <1>6, <2>2, <2>4
    <3>2. TmdRightOf(t)
      BY <2>1, <3>1 DEF Sound, TmdRight
    <3>3. ~ Deleting(t)' => ~ Deleting(t)
      BY <1>1, <1>2, <1>6, <2>4 DEF Deleting
    <3> QED
      BY <1>1, <3>1, <3>2, <3>3 DEF TmdRightOf, Complete, Available
  <2> QED
    BY <2>3, <2>4
<1> QED
  BY <1>12, <1>13, <1>15 DEF Sound

LEMMA ImportClosed ==
  ASSUME TypedOK, MapOK, Sound, faults' = 0, UNCHANGED client, FinishClose
  PROVE  Sound'
<1>1. /\ req.op = "close" /\ req.op \in FinishOps /\ CleanTmp /\ iTMD' = None
      /\ Reply("AddTitleFinish", req.r) /\ UNCHANGED <<nand, SkipContent, CNTMap, pathFreed, faults>>
  BY DEF FinishClose, FinishOps
<1>2. Finishing /\ Own /\ HasUid
  BY <1>1, FinishFacts
<1>3. /\ tmp'.tik = tmp.tik /\ tmp'.tmd = None
      /\ \A c \in Ids : tmp'.raw[c] = None /\ tmp'.app[c] = None
  BY <1>1, <1>2, Cleaned
<1>4. req'.op = "idle" /\ reply'.ret = req.r
  BY <1>1 DEF Reply, Idle
<1>5. UNCHANGED <<ticket, tmd, content, shared1, map, uid, cut, pathFreed>>
  BY <1>1 DEF nand
<1>6. Quiet'
  BY <1>1, <1>3 DEF Quiet
<1>7. Tmd' = Tmd
  BY DEF client, Tmd
<1>8. Finishing'
  BY <1>1, <1>2, <1>4, <1>5, <1>6, <1>7 DEF Finishing, HasUid
<1>9. \A t \in Titles : Deleting(t) => Deleting(t)'
  BY <1>1, <1>5 DEF Deleting
<1>10. SharedRight' /\ PrivateRight' /\ TmdRight'
  BY <1>5, <1>9, StoreFrame
<1>11. ClientOK'
  BY <1>1, <1>3, <1>5, <1>8, FinishKeeps
<1> QED
  BY <1>10, <1>11 DEF Sound

-----------------------------------------------------------------------------
(***************************************************************************)
(* All steps, and what the invariant says.                                 *)
(***************************************************************************)

LEMMA FaultsGrow == Works \/ Breaks \/ UNCHANGED faults => (TypeOK /\ faults' = 0 => faults = 0)
  BY DEF Works, Breaks, TypeOK

\* No step takes a fault back.
LEMMA Faultless ==
  ASSUME TypedOK, Next, faults' = 0 PROVE faults = 0
<1>1. ASSUME NEW h, NEW r, ES_CheckSharedContent(h, r) PROVE Works \/ Breaks
  BY <1>1 DEF ES_CheckSharedContent
<1>2. ASSUME NEW c, NEW d, NEW r, Decrypted(c, d, r) PROVE Works \/ Breaks
  BY <1>2 DEF Decrypted
<1>3. CASE Request
  <2>1. ASSUME NEW t, AddTicket(t) \/ ES_SetUID(t) \/ DeleteTitleContent(t)
        PROVE  Works \/ Breaks \/ UNCHANGED faults
    BY <2>1 DEF AddTicket, ES_SetUID, DeleteTitleContent
  <2>2. ASSUME NEW m, AddTitleStart(m) PROVE Works \/ Breaks
    BY <2>2 DEF AddTitleStart
  <2>3. ASSUME NEW c, AddContentStart(c) PROVE Works \/ Breaks
    <3>1. ASSUME NEW kk, NEW r, ES_CheckSharedContent(iTMD.contents[kk].hash, r)
          PROVE  Works \/ Breaks
      <4>1. PICK h : h = iTMD.contents[kk].hash
        OBVIOUS
      <4> QED
        BY <1>1, <3>1, <4>1
    <3> QED
      BY <2>3, <3>1 DEF AddContentStart
  <2>4. ASSUME NEW c, (\E d \in Data : AddContentData(c, d)) \/ AddContentFinish(c)
        PROVE  Works \/ Breaks
    <3>1. Decrypt(c) => Works \/ Breaks
      BY <1>2 DEF Decrypt
    <3> QED
      BY <2>4, <3>1 DEF AddContentData, AddContentFinish
  <2>5. CASE AddTitleFinish \/ AddTitleCancel
    BY <2>5, FaultsGrow DEF AddTitleFinish, AddTitleCancel, TypedOK
  <2> QED
    BY <1>3, <2>1, <2>2, <2>3, <2>4, <2>5, FaultsGrow DEF Request, TypedOK
<1>4. CASE Work
  <2>1. FinishShared => Works \/ Breaks
    <3>1. ASSUME NEW r, ES_CheckSharedContent(Current.hash, r) PROVE Works \/ Breaks
      <4>1. PICK h : h = Current.hash
        OBVIOUS
      <4> QED
        BY <1>1, <3>1, <4>1
    <3> QED
      BY <3>1 DEF FinishShared
  <2>2. Works \/ Breaks \/ UNCHANGED faults
    BY <1>4, <2>1
    DEF Work, AddTicket_Overwrite, AddTicket_Move, GetUID_Create, GetUID_Default, GetUID,
        FinishShared_Overwrite, FinishShared_Move, FinishShared_Missing, FinishShared_Lost,
        FinishShared_Map, FinishPrivate, FinishLoop, FinishTmd_Overwrite, FinishTmd_Move,
        FinishClose, DeleteFile, DeleteEnd
  <2> QED
    BY <2>2, FaultsGrow DEF TypedOK
<1>5. CASE Restart
  BY <1>5, FaultsGrow DEF Restart, TypedOK
<1> QED
  BY <1>3, <1>4, <1>5 DEF Next

\* The installer is at an import of the list and at a content of it.
ClientTyped ==
  /\ job \in 1 .. Len(Jobs) + 1 /\ k \in Nat
  /\ step \in {"cstart", "cdata"} => Working /\ k \in Pieces

LEMMA StepClientTyped == ClientTyped /\ [InstallNext]_allvars => ClientTyped'
<1>1. SUFFICES ASSUME ClientTyped, [InstallNext]_allvars PROVE ClientTyped'
  OBVIOUS
<1>2. Len(Jobs) \in Nat /\ job \in Nat
  BY <1>1, InstallAssumption DEF ClientTyped
<1>3. CASE UNCHANGED <<job, k, step>>
  BY <1>1, <1>3 DEF ClientTyped, Working, Pieces, Tmd
<1>4. CASE job' \in 1 .. Len(Jobs) + 1 /\ k' = 0 /\ step' \notin {"cstart", "cdata"}
  BY <1>4 DEF ClientTyped
<1>5. CASE InstallTicket \/ InstallStart \/ InstallFinish \/ InstallCancel \/ InstallAgain \/ PowerOff
  <2>1. job' = job /\ k' = 0 /\ step' \notin {"cstart", "cdata"}
    BY <1>5 DEF InstallTicket, InstallStart, InstallFinish, InstallCancel, InstallAgain, PowerOff, Call
  <2> QED
    BY <1>1, <1>4, <2>1 DEF ClientTyped
<1>6. CASE InstallContent
  <2>1. PICK n \in k + 1 .. Len(Tmd.contents) : k' = n
    BY <1>6 DEF InstallContent, Call
  <2>2. job' = job /\ Working
    BY <1>6 DEF InstallContent, Call, Ready
  <2>3. n \in Pieces /\ n \in Nat
    BY <1>1, <2>1, <2>2, TmdFacts DEF ClientTyped
  <2> QED
    BY <1>1, <2>1, <2>2, <2>3 DEF ClientTyped, Working, Pieces, Tmd
<1>7. CASE InstallData \/ InstallContentFinish
  <2>1. job' = job /\ k' = k /\ step \in {"cstart", "cdata"}
    BY <1>7 DEF InstallData, InstallContentFinish, Call
  <2> QED
    BY <1>1, <2>1 DEF ClientTyped, Working, Pieces, Tmd
<1>8. CASE InstallDone
  <2>1. job' = job + 1 /\ k' = 0 /\ step' = "none" /\ job <= Len(Jobs)
    BY <1>8 DEF InstallDone, Ready, Working
  <2>2. job' \in 1 .. Len(Jobs) + 1
    BY <1>1, <1>2, <2>1 DEF ClientTyped
  <2> QED
    BY <1>4, <2>1, <2>2
<1>9. CASE (Work /\ UNCHANGED client) \/ Delete \/ AllDone \/ UNCHANGED allvars
  BY <1>3, <1>9 DEF client, Delete, AllDone, allvars
<1> QED
  BY <1>1, <1>5, <1>6, <1>7, <1>8, <1>9 DEF InstallNext, Install

\* The installer makes calls that any client may make.
LEMMA InstallIsNext ==
  ASSUME ClientTyped, [InstallNext]_allvars
  PROVE  [Next]_vars
<1>1. CASE Ready
  <2>1. Accepts /\ Tmd \in Tmds /\ Tmd.title \in Titles /\ \A p \in Pieces : Piece(p).id \in Ids
                /\ Piece(p).hash \in Data
    BY <1>1, TmdFacts DEF Ready, ClientTyped, Data
  <2>2. CASE InstallTicket
    BY <2>1, <2>2 DEF InstallTicket, Next, Request
  <2>3. CASE InstallStart
    BY <2>1, <2>3 DEF InstallStart, Next, Request
  <2>4. CASE InstallContent
    <3>1. PICK n \in k + 1 .. Len(Tmd.contents) : AddContentStart(Piece(n).id)
      BY <2>4 DEF InstallContent, Piece
    <3>2. n \in Pieces
      BY <1>1, <3>1, TmdFacts DEF Ready, ClientTyped
    <3> QED
      BY <2>1, <3>1, <3>2 DEF Next, Request
  <2>5. CASE InstallData
    <3>1. k \in Pieces /\ Bad \in Data
      BY <2>5 DEF InstallData, ClientTyped, Data
    <3>2. AddContentData(Piece(k).id, Piece(k).hash) \/ AddContentData(Piece(k).id, Bad)
      BY <2>5 DEF InstallData, Piece
    <3> QED
      BY <2>1, <3>1, <3>2 DEF Next, Request
  <2>6. CASE InstallContentFinish
    <3>1. k \in Pieces /\ AddContentFinish(Piece(k).id)
      BY <2>6 DEF InstallContentFinish, ClientTyped, Piece
    <3> QED
      BY <2>1, <3>1 DEF Next, Request
  <2>7. CASE InstallFinish \/ InstallCancel
    BY <2>1, <2>7 DEF InstallFinish, InstallCancel, Next, Request
  <2>8. CASE InstallDone \/ InstallAgain
    BY <2>8 DEF InstallDone, InstallAgain
  <2>9. CASE Delete
    BY <2>1, <2>9 DEF Delete, Next, Request
  <2>10. CASE PowerOff \/ Work
    BY <2>10 DEF PowerOff, Next
  <2>11. CASE AllDone \/ UNCHANGED allvars
    BY <2>11 DEF AllDone, allvars
  <2> QED
    BY <2>2, <2>3, <2>4, <2>5, <2>6, <2>7, <2>8, <2>9, <2>10, <2>11 DEF InstallNext, Install
<1>2. CASE ~ Ready
  <2>1. Work \/ PowerOff \/ AllDone \/ UNCHANGED allvars
    BY <1>2 DEF InstallNext, Install, InstallTicket, InstallStart, InstallContent, InstallData,
       InstallContentFinish, InstallFinish, InstallDone, InstallCancel, InstallAgain, Delete
  <2> QED
    BY <2>1 DEF PowerOff, AllDone, allvars, Next
<1> QED
  BY <1>1, <1>2

\* The console starts right.
LEMMA InitSound ==
  ASSUME EmptyLoads \/ InitMap # <<>>, InstallInit
  PROVE  TypedOK /\ MapOK /\ ClientTyped /\ Sound
<1>1. Init /\ job = 1 /\ step = "none" /\ k = 0
  BY DEF InstallInit
<1>2. TypedOK /\ MapOK
  BY <1>1, InitTyped, InitMapOK
<1>3. Len(Jobs) \in Nat
  BY InstallAssumption
<1>4. ClientTyped
  BY <1>1, <1>3 DEF ClientTyped
<1>5. /\ map = InitMap /\ shared1 = [i \in 0 .. Len(InitMap) - 1 |-> InitMap[i + 1]]
      /\ tmd = [t \in Titles |-> None] /\ content = [t \in Titles |-> [c \in Ids |-> None]]
      /\ tmp = NoTmp /\ iTMD = None /\ req = Idle /\ ~ pathFreed
  BY <1>1 DEF Init
<1>6. SharedRight
  <2>1. InitMap \in Seq(Hashes) /\ Len(InitMap) \in Nat /\ DOMAIN InitMap = 1 .. Len(InitMap)
    BY ESAssumption
  <2> QED
    BY <1>5, <2>1 DEF SharedRight
<1>7. PrivateRight /\ TmdRight
  <2>1. \A j \in DOMAIN Jobs : \A p \in DOMAIN Jobs[j].contents :
          Jobs[j].title \in Titles /\ Jobs[j].contents[p].id \in Ids
    BY JobFacts
  <2> QED
    BY <1>5, <2>1 DEF PrivateRight, TmdRight
<1>8. Quiet /\ tmp.tik = {} /\ req.op = "idle"
  BY <1>5 DEF Quiet, NoTmp, Idle
<1>9. ClientOK
  BY <1>1, <1>3, <1>5, <1>8 DEF ClientOK, Resting
<1> QED
  BY <1>2, <1>4, <1>6, <1>7, <1>9 DEF Sound

\* Every step keeps the invariant, until a file operation fails.
LEMMA StepSound ==
  ASSUME IdNamesData, TypedOK, MapOK, ClientTyped, TitleInv, [InstallNext]_allvars
  PROVE  TitleInv'
<1>1. SUFFICES ASSUME faults' = 0 PROVE Sound'
  BY DEF TitleInv
<1>2. [Next]_vars
  BY InstallIsNext
<1>3. faults = 0
  BY <1>1, <1>2, Faultless DEF vars
<1>4. Sound
  BY <1>3 DEF TitleInv
<1>5. CASE Install
  BY <1>1, <1>4, <1>5, TicketCall, StartCall, ContentCall, DataCall, ContentDone, FinishCall,
     OtherCall, CancelCall DEF Install
<1>6. CASE Work /\ UNCHANGED client
  <2>1. ~ FinishShared_Lost
    <3>1. ~ Breaks
      BY <1>1, <1>3 DEF Breaks
    <3> QED
      BY <3>1 DEF FinishShared_Lost
  <2> QED
    BY <1>1, <1>4, <1>6, <2>1, TicketWork, UidWork, SharedKnown, SharedOverwritten, SharedMoved,
       SharedMissing, SharedEntered, PrivateMoved, LoopDone, TmdOverwritten, TmdMoved,
       ImportClosed, DeleteWork DEF Work
<1>7. CASE Delete \/ PowerOff
  BY <1>1, <1>4, <1>7, DeleteCall, PowerLost
<1>8. CASE UNCHANGED allvars
  <2>1. UNCHANGED <<vars, job, step, k>>
    BY <1>8 DEF allvars, client
  <2>2. UNCHANGED <<ticket, tmd, content, shared1, map, uid, cut, tmp, iTMD, SkipContent,
                    CNTMap, pathFreed, req, reply, job, step, k>>
    BY <2>1 DEF vars, nand, ram
  <2>3. \A t \in Titles : Deleting(t) => Deleting(t)'
    BY <2>2 DEF Deleting
  <2>4. SharedRight' /\ PrivateRight' /\ TmdRight'
    BY <1>4, <2>2, <2>3, StoreFrame
  <2>5. Tmd' = Tmd /\ Pieces' = Pieces /\ (Ok <=> Ok') /\ (Quiet <=> Quiet') /\ (HasUid <=> HasUid')
    BY <2>2 DEF Tmd, Pieces, Ok, Quiet, HasUid
  <2>6. Own <=> Own'
    BY <2>2, <2>5 DEF Own
  <2>7. Resting => Resting'
    BY <2>2, <2>5 DEF Resting
  <2>8. Starting => Starting'
    BY <2>2, <2>5 DEF Starting
  <2>9. Delivering => Delivering'
    BY <2>2, <2>5, <2>6 DEF Delivering, Untouched, AllGenuine, There, Provided, ProvidedTo,
       Raw, Plain, Piece
  <2>10. Finishing => Finishing'
    BY <2>2, <2>5, <2>6 DEF Finishing, AllGenuine, There, Provided, ProvidedFrom, PlacedTo,
       Settled, Plain, Piece, Current
  <2>11. ClientOK'
    BY <1>4, <2>2, <2>5, <2>7, <2>8, <2>9, <2>10 DEF Sound, ClientOK, Working
  <2> QED
    BY <2>4, <2>11 DEF Sound
<1> QED
  BY <1>5, <1>6, <1>7, <1>8 DEF InstallNext, AllDone

\* All that the theorems below follow from.
LEMMA InvHolds ==
  ASSUME EmptyLoads \/ InitMap # <<>>, IdNamesData
  PROVE  InstallSpec => [](TypedOK /\ MapOK /\ ClientTyped /\ TitleInv)
<1>1. InstallInit => TypedOK /\ MapOK /\ ClientTyped /\ TitleInv
  BY InitSound DEF TitleInv
<1>2. TypedOK /\ MapOK /\ ClientTyped /\ TitleInv /\ [InstallNext]_allvars
        => (TypedOK /\ MapOK /\ ClientTyped /\ TitleInv)'
  BY StepTyped, StepMapOK, StepClientTyped, StepSound, InstallIsNext
<1> QED
  BY <1>1, <1>2, PTL DEF InstallSpec

\* A title whose TMD is on the NAND is complete, with the data the TMD asks for, at
\* every step of every import, wherever the power goes off and whatever damaged data
\* arrives, until a file operation fails: ES compares the hash of a content before it
\* moves it, and moves the TMD last.  An empty content.map has to load, and an ID to
\* mean the same data in all TMDs of a title.
THEOREM TitlesComplete ==
  ASSUME EmptyLoads \/ InitMap # <<>>, IdNamesData
  PROVE  InstallSpec => [](faults = 0 => InstalledComplete)
<1>1. TypedOK /\ MapOK /\ ClientTyped /\ TitleInv => (faults = 0 => InstalledComplete)
  BY DEF TitleInv, Sound, TmdRight, TmdRightOf, Complete, InstalledComplete
<1> QED
  BY <1>1, InvHolds, PTL

\* It also has its user ID, content.map names only files that are there and none twice, and
\* an import whose data was good ends with success when its TMD is an ordinary one.
THEOREM InstallSound ==
  ASSUME EmptyLoads, IdNamesData, Ordinary
  PROVE  InstallSpec => [](faults = 0 => InstalledRight)
<1>1. TypedOK /\ MapOK /\ ClientTyped /\ TitleInv => (faults = 0 => InstalledRight)
  <2>1. SUFFICES ASSUME MapOK, Sound, faults = 0 PROVE InstalledRight
    BY DEF TitleInv
  <2>2. InstalledComplete /\ InstalledHasUid
    BY <2>1 DEF Sound, TmdRight, TmdRightOf, Complete, InstalledComplete, InstalledHasUid
  <2>3. FinishSucceeds
    BY <2>1 DEF Sound, ClientOK, Finishing, FinishSucceeds
  <2> QED
    BY <2>1, <2>2, <2>3 DEF MapOK, MapRight, InstalledRight
<1> QED
  BY <1>1, InvHolds, PTL

-----------------------------------------------------------------------------
(***************************************************************************)
(* The lists of titles.                                                    *)
(***************************************************************************)

\* The equation that defines the prefixes of a list.
Prefixes(s, S, f) ==
  f = [n \in 0 .. Len(s) |->
         IF n = 0 THEN <<>>
         ELSE IF s[n] \in S THEN Append(f[n - 1], s[n]) ELSE f[n - 1]]

\* There are such prefixes.
LEMMA PrefixesExist ==
  ASSUME NEW T, NEW s \in Seq(T), NEW S
  PROVE  \E f : Prefixes(s, S, f)
<1> DEFINE Eq(f, m) == f = [n \in 0 .. m |->
             IF n = 0 THEN <<>>
             ELSE IF s[n] \in S THEN Append(f[n - 1], s[n]) ELSE f[n - 1]]
<1> DEFINE G == {m \in Nat : \E f : Eq(f, m)}
<1>1. 0 \in G
  <2>1. Eq([n \in 0 .. 0 |-> <<>>], 0)
    OBVIOUS
  <2> QED
    BY <2>1
<1>2. ASSUME NEW m \in Nat, m \in G PROVE m + 1 \in G
  <2>1. PICK f : Eq(f, m)
    BY <1>2
  <2> DEFINE g == [n \in 0 .. m + 1 |->
             IF n <= m THEN f[n]
             ELSE IF s[m + 1] \in S THEN Append(f[m], s[m + 1]) ELSE f[m]]
  <2>2. \A n \in 0 .. m : f[n] = IF n = 0 THEN <<>>
             ELSE IF s[n] \in S THEN Append(f[n - 1], s[n]) ELSE f[n - 1]
    BY <2>1
  <2>3. \A n \in 0 .. m + 1 : g[n] = IF n = 0 THEN <<>>
             ELSE IF s[n] \in S THEN Append(g[n - 1], s[n]) ELSE g[n - 1]
    <3>1. SUFFICES ASSUME NEW n \in 0 .. m + 1
                   PROVE g[n] = IF n = 0 THEN <<>>
                     ELSE IF s[n] \in S THEN Append(g[n - 1], s[n]) ELSE g[n - 1]
      OBVIOUS
    <3>2. CASE n <= m
      <4>1. g[n] = f[n] /\ (n # 0 => g[n - 1] = f[n - 1])
        BY <3>1, <3>2
      <4>2. n \in 0 .. m
        BY <3>1, <3>2
      <4> QED
        BY <2>2, <4>1, <4>2
    <3>3. CASE n = m + 1
      <4>1. /\ n - 1 = m /\ n # 0 /\ g[n - 1] = f[m]
            /\ g[n] = IF s[m + 1] \in S THEN Append(f[m], s[m + 1]) ELSE f[m]
        BY <1>2, <3>3
      <4> QED
        BY <3>3, <4>1
    <3> QED
      BY <1>2, <3>1, <3>2, <3>3
  <2>4. Eq(g, m + 1)
    <3>1. g = [n \in 0 .. m + 1 |-> g[n]]
      OBVIOUS
    <3> HIDE DEF g
    <3> QED
      BY <2>3, <3>1
  <2> HIDE DEF Eq, g
  <2> QED
    BY <1>2, <2>4
<1>3. \A m \in Nat : m \in G
  <2> HIDE DEF G
  <2> QED
    BY <1>1, <1>2, NatInduct
<1>4. \E f : Eq(f, Len(s))
  <2>1. Len(s) \in G
    <3> HIDE DEF G
    <3> QED
      BY <1>3
  <2> HIDE DEF Eq
  <2> QED
    BY <2>1
<1> QED
  BY <1>4 DEF Prefixes

\* A list has the entries of s that are in S, each as often as s has it.
LEMMA ListedIs ==
  ASSUME NEW T, NEW s \in Seq(T), NEW S
  PROVE  /\ Listed(s, S) \in Seq(T)
         /\ Range(Listed(s, S)) = Range(s) \cap S
         /\ IsInjective(s) => IsInjective(Listed(s, S))
<1> DEFINE U == CHOOSE f : Prefixes(s, S, f)
<1>1. Prefixes(s, S, U)
  BY PrefixesExist
<1>2. Listed(s, S) = U[Len(s)]
  BY DEF Listed, Prefixes
<1> DEFINE P(n) == /\ U[n] \in Seq(T)
                   /\ \A x : x \in Range(U[n]) <=> x \in S /\ \E i \in 1 .. n : x = s[i]
                   /\ IsInjective(s) => IsInjective(U[n])
<1> DEFINE G == {n \in Nat : n <= Len(s) => P(n)}
<1>3. Len(s) \in Nat /\ DOMAIN s = 1 .. Len(s) /\ \A i \in 1 .. Len(s) : s[i] \in T
  OBVIOUS
<1>g. \A n : n \in G <=> n \in Nat /\ (n <= Len(s) => P(n))
  <2> HIDE DEF P
  <2> QED
    OBVIOUS
<1> HIDE DEF G
<1>4. 0 \in G
  <2>1. U[0] = <<>>
    <3> HIDE DEF U
    <3> QED
      BY <1>1, <1>3 DEF Prefixes
  <2>2. U[0] \in Seq(T) /\ DOMAIN U[0] = {}
    <3> HIDE DEF U
    <3> QED
      BY <2>1
  <2>3. P(0)
    BY <2>2 DEF Range, IsInjective
  <2> HIDE DEF P
  <2> QED
    BY <2>3, <1>g
<1>5. ASSUME NEW n \in Nat, n \in G PROVE n + 1 \in G
  <2>1. SUFFICES ASSUME n + 1 <= Len(s) PROVE P(n + 1)
    <3> HIDE DEF P
    <3> QED
      BY <1>5, <1>g
  <2>2. P(n)
    <3>1. n <= Len(s)
      BY <1>3, <1>5, <2>1
    <3> HIDE DEF P
    <3> QED
      BY <1>5, <1>g, <3>1
  <2>3. U[n + 1] = IF s[n + 1] \in S THEN Append(U[n], s[n + 1]) ELSE U[n]
    <3>1. n + 1 \in 0 .. Len(s) /\ n + 1 # 0 /\ (n + 1) - 1 = n
      BY <1>3, <1>5, <2>1
    <3> HIDE DEF U
    <3> QED
      BY <1>1, <3>1 DEF Prefixes
  <2>4. n + 1 \in 1 .. Len(s) /\ s[n + 1] \in T
    BY <1>3, <2>1
  <2>5. \A i : i \in 1 .. n + 1 <=> i \in 1 .. n \/ i = n + 1
    BY <1>5
  <2> DEFINE u == U[n]
  <2> DEFINE v == U[n + 1]
  <2>6. u \in Seq(T) /\ v = (IF s[n + 1] \in S THEN Append(u, s[n + 1]) ELSE u)
        /\ (\A x : x \in Range(u) <=> x \in S /\ \E i \in 1 .. n : x = s[i])
        /\ (IsInjective(s) => IsInjective(u))
    BY <2>2, <2>3
  <2> HIDE DEF u, v, U
  <2>7. CASE s[n + 1] \notin S
    <3>1. v = u
      BY <2>6, <2>7
    <3>2. \A x : x \in Range(v) <=> x \in S /\ \E i \in 1 .. n + 1 : x = s[i]
      BY <2>5, <2>6, <2>7, <3>1
    <3> QED
      BY <2>6, <3>1, <3>2 DEF v
  <2>8. CASE s[n + 1] \in S
    <3>1. v = Append(u, s[n + 1])
      BY <2>6, <2>8
    <3>2. /\ v \in Seq(T) /\ Len(u) \in Nat /\ DOMAIN u = 1 .. Len(u)
          /\ DOMAIN v = 1 .. Len(u) + 1 /\ v[Len(u) + 1] = s[n + 1]
          /\ \A i \in 1 .. Len(u) : v[i] = u[i]
      BY <2>4, <2>6, <3>1
    <3>3. \A x : x \in Range(v) <=> x \in Range(u) \/ x = s[n + 1]
      BY <3>2 DEF Range
    <3>4. \A x : x \in Range(v) <=> x \in S /\ \E i \in 1 .. n + 1 : x = s[i]
      BY <2>5, <2>6, <2>8, <3>3
    <3>5. ASSUME IsInjective(s) PROVE IsInjective(v)
      <4>1. s[n + 1] \notin Range(u)
        <5>1. \A i \in 1 .. n : s[i] # s[n + 1]
          <6>1. \A i \in 1 .. n : i \in DOMAIN s /\ n + 1 \in DOMAIN s /\ i # n + 1
            BY <1>3, <1>5, <2>1
          <6> QED
            BY <3>5, <6>1 DEF IsInjective
        <5> QED
          BY <2>6, <5>1
      <4>2. \A i \in 1 .. Len(u) : v[i] # v[Len(u) + 1]
        BY <3>2, <4>1 DEF Range
      <4>3. \A i, j \in 1 .. Len(u) : v[i] = v[j] => i = j
        BY <2>6, <3>2, <3>5 DEF IsInjective
      <4>4. \A i \in DOMAIN v : i \in 1 .. Len(u) \/ i = Len(u) + 1
        BY <3>2
      <4> QED
        BY <4>2, <4>3, <4>4 DEF IsInjective
    <3> QED
      BY <3>2, <3>4, <3>5 DEF v
  <2> QED
    BY <2>7, <2>8
<1>6. \A n \in Nat : n \in G
  BY <1>4, <1>5, NatInduct
<1>7. P(Len(s))
  <2> HIDE DEF P
  <2> QED
    BY <1>3, <1>6, <1>g
<1> DEFINE l == U[Len(s)]
<1>8. /\ l \in Seq(T) /\ (IsInjective(s) => IsInjective(l))
      /\ \A x : x \in Range(l) <=> x \in S /\ \E i \in 1 .. Len(s) : x = s[i]
  BY <1>7
<1>9. Listed(s, S) = l
  BY <1>2
<1> HIDE DEF l
<1>10. Range(l) = Range(s) \cap S
  BY <1>3, <1>8 DEF Range
<1> QED
  BY <1>8, <1>9, <1>10

\* A list without repetition has as many titles as entries.
LEMMA CountOf ==
  ASSUME NEW T, NEW l \in Seq(T), IsInjective(l)
  PROVE  Cardinality(Range(l)) = Len(l)
<1>1. Len(l) \in Nat /\ DOMAIN l = 1 .. Len(l)
  OBVIOUS
<1>2. l \in Bijection(1 .. Len(l), Range(l))
  BY <1>1 DEF Bijection, Injection, Surjection, IsInjective, Range
<1> QED
  BY <1>1, <1>2, FS_CountingElements DEF ExistsBijection

\* A whole list is copied as it is.
LEMMA CopiedIs ==
  ASSUME NEW T, NEW l \in Seq(T)
  PROVE  Copied(l, Len(l)) = l
<1>1. l = [j \in 1 .. Len(l) |-> l[j]] /\ \A j \in 1 .. Len(l) : j <= Len(l)
  OBVIOUS
<1> QED
  BY <1>1 DEF Copied

-----------------------------------------------------------------------------
\* uid.sys is made empty, gets the system menu as its first title, or gets a title
\* that it does not have.
LEMMA UidSteps ==
  ASSUME TypedOK, [Next]_vars
  PROVE  \/ uid' = uid
         \/ uid = None /\ uid' = <<>>
         \/ uid = <<>> /\ uid' = <<SysMenu>>
         \/ /\ uid \in Seq(Titles) /\ req.title \in Titles \ Range(uid)
            /\ uid' = Append(uid, req.title)
<1>1. CASE GetUID_Create
  BY <1>1 DEF GetUID_Create
<1>2. CASE GetUID_Default
  BY <1>2 DEF GetUID_Default, TypedOK, RequestOK
<1>3. CASE GetUID
  BY <1>3 DEF GetUID, TypedOK, TypeOK, RequestOK
<1>4. CASE Request
  BY <1>4 DEF Request, AddTicket, ES_SetUID, DeleteTitleContent, AddTitleStart,
     AddContentStart, AddContentData, AddContentFinish, AddTitleFinish, AddTitleCancel, nand
<1>5. CASE Restart \/ UNCHANGED vars
  BY <1>5 DEF Restart, vars, nand
<1>6. CASE AddTicket_Overwrite \/ AddTicket_Move
  BY <1>6 DEF AddTicket_Overwrite, AddTicket_Move
<1>7. CASE FinishShared \/ FinishShared_Overwrite \/ FinishShared_Move
           \/ FinishShared_Missing \/ FinishShared_Lost \/ FinishShared_Map
  BY <1>7 DEF FinishShared, FinishShared_Overwrite, FinishShared_Move,
     FinishShared_Missing, FinishShared_Lost, FinishShared_Map, nand
<1>8. CASE FinishPrivate \/ FinishLoop \/ FinishTmd_Overwrite \/ FinishTmd_Move
           \/ FinishClose
  BY <1>8 DEF FinishPrivate, FinishLoop, FinishTmd_Overwrite, FinishTmd_Move,
     FinishClose, nand
<1>9. CASE DeleteFile \/ DeleteEnd
  BY <1>9 DEF DeleteFile, DeleteEnd
<1> QED
  BY <1>1, <1>2, <1>3, <1>4, <1>5, <1>6, <1>7, <1>8, <1>9 DEF Next, Work

\* A title gets a TMD only where the lists are marked as out of date.
LEMMA TmdSteps ==
  ASSUME TypedOK, [Next]_vars, NEW t \in Titles, tmd[t] = None, tmd'[t] # None
  PROVE  req.op = "tmd" /\ req'.op = "close"
<1>1. tmd \in [Titles -> Tmds \cup {None, Torn}] /\ tmd' # tmd
  BY DEF TypedOK, TypeOK
<1>2. CASE FinishTmd_Move
  BY <1>1, <1>2, NextOp DEF FinishTmd_Move
<1>3. CASE FinishTmd_Overwrite
  BY <1>1, <1>3 DEF FinishTmd_Overwrite
<1>4. CASE DeleteFile
  BY <1>1, <1>4 DEF DeleteFile
<1>5. CASE GetUID_Create \/ GetUID_Default \/ GetUID
  BY <1>1, <1>5 DEF GetUID_Create, GetUID_Default, GetUID
<1>6. CASE Request
  BY <1>1, <1>6 DEF Request, AddTicket, ES_SetUID, DeleteTitleContent, AddTitleStart,
     AddContentStart, AddContentData, AddContentFinish, AddTitleFinish, AddTitleCancel, nand
<1>7. CASE Restart \/ UNCHANGED vars
  BY <1>1, <1>7 DEF Restart, vars, nand
<1>8. CASE AddTicket_Overwrite \/ AddTicket_Move
  BY <1>1, <1>8 DEF AddTicket_Overwrite, AddTicket_Move
<1>9. CASE FinishShared \/ FinishShared_Overwrite \/ FinishShared_Move
           \/ FinishShared_Missing \/ FinishShared_Lost \/ FinishShared_Map
  BY <1>1, <1>9 DEF FinishShared, FinishShared_Overwrite, FinishShared_Move,
     FinishShared_Missing, FinishShared_Lost, FinishShared_Map, nand
<1>10. CASE FinishPrivate \/ FinishLoop \/ FinishClose \/ DeleteEnd
  BY <1>1, <1>10 DEF FinishPrivate, FinishLoop, FinishClose, DeleteEnd, nand
<1> QED
  BY <1>2, <1>3, <1>4, <1>5, <1>6, <1>7, <1>8, <1>9, <1>10 DEF Next, Work

-----------------------------------------------------------------------------
\* No title has two entries in uid.sys.
UidOnce == uid # None => IsInjective(uid)

\* A list of n titles that all have a user ID, each of them once.
ListOf(l, n) ==
  /\ uid # None /\ l \in Seq(Titles) /\ IsInjective(l)
  /\ Range(l) \subseteq Range(uid) /\ Len(l) = n

\* A list that is not out of date has the length that was counted for it.
Cached ==
  /\ TCount \in Nat /\ TOCount \in Nat
  /\ ~ TCountDirty  => ListOf(TTitles, TCount)
  /\ ~ TOCountDirty => ListOf(TTitlesO, TOCount)

\* A count that was told is that of the list the next call makes.
ToldOK ==
  /\ told.what \in {"none", "count", "ocount", "list", "olist"}
  /\ told.what = "count"  => /\ told.count = TCount
                             /\ TCountDirty => Loads /\ TCount = Len(Installed)
  /\ told.what = "ocount" => /\ told.count = TOCount
                             /\ TOCountDirty /\ Loads => TOCount = Len(Owned)
  /\ told.what \in {"list", "olist"} => ListOf(told.list, told.count)

\* No installed title is missing from the lists.
NoneLeftOut ==
  /\ ~ TCountDirty => HasTmd \subseteq Range(TTitles)
  /\ told.what = "list" => HasTmd \subseteq Range(told.list)

ListsInv == UidOnce /\ Cached /\ ToldOK

-----------------------------------------------------------------------------
\* What is asked of the lists changes nothing, and the rest is what the installer does.
LEMMA ListsIsInstall == [ListsNext]_listvars => [InstallNext]_allvars
  BY DEF ListsNext, listvars, Query, Import, EsWork, Installer, ListsRestart, InstallNext

\* The other steps forget what was told, and leave the lists as they are or out of date.
LEMMA OtherStep ==
  ASSUME Import \/ ListsRestart
  PROVE  /\ told' = Nothing
         /\ \/ /\ UNCHANGED <<TCount, TTitles, TOCount, TTitlesO>>
               /\ TCountDirty' = (TCountDirty \/ (req.op = "tmd" /\ req'.op = "close"))
               /\ TOCountDirty' = (TOCountDirty \/ (req.op = "tmd" /\ req'.op = "close"))
            \/ TCount' = 0 /\ TOCount' = 0 /\ TCountDirty' /\ TOCountDirty'
  BY DEF Import, ListsRestart, Installer, EsWork, Dirtied

LEMMA StepUidOnce ==
  ASSUME TypedOK, UidOnce, [Next]_vars
  PROVE  UidOnce' /\ \A l, n : ListOf(l, n) => ListOf(l, n)'
<1>0. <<>> \in Seq(Titles) /\ <<SysMenu>> \in Seq(Titles) /\ \A s \in Seq(Titles) : s # None
  BY ESAssumption
<1>1. CASE uid' = uid
  BY <1>1 DEF UidOnce, ListOf
<1>2. CASE uid = None /\ uid' = <<>>
  BY <1>0, <1>2 DEF UidOnce, ListOf, IsInjective
<1>3. CASE uid = <<>> /\ uid' = <<SysMenu>>
  <2>0. \A i \in DOMAIN uid : FALSE
    BY <1>3
  <2>1. DOMAIN uid = {} /\ uid # None
    BY <1>0, <1>3, <2>0
  <2>2. uid' \in Seq(Titles) /\ Len(uid') = 1 /\ uid' # None
    BY <1>0, <1>3
  <2>3. DOMAIN uid' = {1}
    BY <2>2
  <2> QED
    BY <2>1, <2>2, <2>3 DEF UidOnce, ListOf, IsInjective, Range
<1>4. CASE /\ uid \in Seq(Titles) /\ req.title \in Titles \ Range(uid)
           /\ uid' = Append(uid, req.title)
  <2>1. /\ DOMAIN uid = 1 .. Len(uid) /\ DOMAIN uid' = 1 .. Len(uid) + 1 /\ Len(uid) \in Nat
        /\ uid'[Len(uid) + 1] = req.title /\ \A i \in 1 .. Len(uid) : uid'[i] = uid[i]
        /\ uid # None /\ uid' # None
    BY <1>0, <1>4
  <2>2. \A i \in DOMAIN uid : uid'[i] # uid'[Len(uid) + 1] /\ i \in DOMAIN uid'
    BY <1>4, <2>1 DEF Range
  <2>3. \A i \in DOMAIN uid' : i \in DOMAIN uid \/ i = Len(uid) + 1
    BY <2>1
  <2>4. \A i, j \in DOMAIN uid : uid'[i] = uid'[j] => i = j
    BY <2>1 DEF UidOnce, IsInjective
  <2>5. IsInjective(uid')
    BY <2>2, <2>3, <2>4 DEF IsInjective
  <2>6. Range(uid) \subseteq Range(uid')
    BY <2>1, <2>2 DEF Range
  <2> QED
    BY <2>1, <2>5, <2>6 DEF UidOnce, ListOf
<1> QED
  BY <1>1, <1>2, <1>3, <1>4, UidSteps

\* A new list of installed or of owned titles is one.
LEMMA NewList ==
  ASSUME TypedOK, UidOnce, uid # None, NEW S
  PROVE  /\ Listed(uid, S) \in Seq(Titles)
         /\ ListOf(Listed(uid, S), Len(Listed(uid, S)))
         /\ Range(Listed(uid, S)) = Range(uid) \cap S
<1>1. uid \in Seq(Titles)
  BY DEF TypedOK, TypeOK
<1>2. PICK s \in Seq(Titles) : s = uid
  BY <1>1
<1>3. /\ Listed(s, S) \in Seq(Titles) /\ Range(Listed(s, S)) = Range(s) \cap S
      /\ IsInjective(s) => IsInjective(Listed(s, S))
  BY ListedIs
<1> QED
  BY <1>2, <1>3 DEF ListOf, UidOnce

\* A copy of the whole of a list is that list.
LEMMA CopiedOf ==
  ASSUME NEW l, NEW n, ListOf(l, n)
  PROVE  Copied(l, n) = l
  BY CopiedIs DEF ListOf

\* What an answer leaves of the lists.
LEMMA QueryKeeps ==
  ASSUME TypedOK, ListsInv, Query
  PROVE  ListsInv'
<1>1. /\ UNCHANGED allvars /\ UNCHANGED <<uid, tmd, ticket>>
      /\ Loads' = Loads /\ Installed' = Installed /\ Owned' = Owned
  <2>1. UNCHANGED allvars
    BY DEF Query
  <2>2. UNCHANGED <<uid, tmd, ticket>>
    BY <2>1 DEF allvars, vars, nand
  <2> QED
    BY <2>1, <2>2 DEF Loads, Installed, Owned, HasTmd
<1>2. UidOnce' /\ \A l, n : ListOf(l, n)' <=> ListOf(l, n)
  BY <1>1 DEF UidOnce, ListOf, ListsInv
<1>3. Loads => uid # None
  BY DEF Loads
<1>4. uid # None => /\ ListOf(Installed, Len(Installed)) /\ Len(Installed) \in Nat
                    /\ ListOf(Owned, Len(Owned)) /\ Len(Owned) \in Nat
  BY NewList DEF ListsInv, Installed, Owned
<1>5. CASE GetTitleCount
  <2>1. UNCHANGED <<TCountDirty, TTitles, TOCount, TOCountDirty, TTitlesO>>
    BY <1>5 DEF GetTitleCount
  <2>2. TCount' = IF TCountDirty /\ Loads THEN Len(Installed) ELSE TCount
    BY <1>5 DEF GetTitleCount
  <2>3. told' = IF TCountDirty /\ ~ Loads THEN Nothing
                ELSE [what |-> "count", count |-> TCount', list |-> <<>>]
    BY <1>5 DEF GetTitleCount, Told
  <2>4. Cached'
    BY <1>2, <1>3, <1>4, <2>1, <2>2 DEF ListsInv, Cached
  <2>5. ToldOK'
    BY <1>1, <2>1, <2>2, <2>3 DEF ToldOK, Nothing
  <2> QED
    BY <1>2, <2>4, <2>5 DEF ListsInv
<1>6. CASE told.what = "count" /\ GetTitles
  <2>1. UNCHANGED <<TCount, TOCount, TOCountDirty, TTitlesO>>
    BY <1>6 DEF GetTitles
  <2>2. CASE ~ TCountDirty
    <3>1. UNCHANGED <<TTitles, TCountDirty>>
          /\ told' = [what |-> "list", count |-> told.count, list |-> Copied(TTitles, TCount)]
      BY <1>6, <2>2 DEF GetTitles, Told
    <3>2. ListOf(TTitles, TCount) /\ told.count = TCount
      BY <1>6, <2>2 DEF ListsInv, Cached, ToldOK
    <3>3. told' = [what |-> "list", count |-> TCount, list |-> TTitles]
      BY <3>1, <3>2, CopiedOf
    <3>4. ToldOK'
      BY <1>2, <3>2, <3>3 DEF ToldOK
    <3> QED
      BY <1>2, <2>1, <3>1, <3>4 DEF ListsInv, Cached
  <2>3. CASE TCountDirty /\ Loads
    <3>1. /\ told' = [what |-> "list", count |-> told.count, list |-> Installed]
          /\ TTitles' = Copied(Installed, TCount) /\ ~ TCountDirty'
      BY <1>6, <2>3 DEF GetTitles, Told
    <3>2. told.count = TCount /\ TCount = Len(Installed) /\ ListOf(Installed, TCount)
      BY <1>3, <1>4, <1>6, <2>3 DEF ListsInv, ToldOK
    <3>3. TTitles' = Installed
      BY <3>1, <3>2, CopiedOf
    <3>4. Cached'
      BY <1>2, <2>1, <3>2, <3>3 DEF ListsInv, Cached
    <3>5. ToldOK'
      BY <1>2, <3>1, <3>2 DEF ToldOK
    <3> QED
      BY <1>2, <3>4, <3>5 DEF ListsInv
  <2>4. CASE TCountDirty /\ ~ Loads
    <3>1. UNCHANGED <<TTitles, TCountDirty>> /\ told' = Nothing
      BY <1>6, <2>4 DEF GetTitles
    <3>2. ToldOK'
      BY <3>1 DEF ToldOK, Nothing
    <3> QED
      BY <1>2, <2>1, <3>1, <3>2 DEF ListsInv, Cached
  <2> QED
    BY <2>2, <2>3, <2>4
<1>7. CASE GetOwnedTitleCount
  <2>1. UNCHANGED <<TCount, TCountDirty, TTitles, TOCountDirty, TTitlesO>>
    BY <1>7 DEF GetOwnedTitleCount
  <2>2. TOCount' = IF ~ TOCountDirty THEN TOCount ELSE IF Loads THEN Len(Owned) ELSE 0
    BY <1>7 DEF GetOwnedTitleCount
  <2>3. told' = [what |-> "ocount", count |-> TOCount', list |-> <<>>]
    BY <1>7 DEF GetOwnedTitleCount, Told
  <2>4. Cached'
    BY <1>2, <1>3, <1>4, <2>1, <2>2 DEF ListsInv, Cached
  <2>5. ToldOK'
    BY <1>1, <2>1, <2>2, <2>3 DEF ToldOK
  <2> QED
    BY <1>2, <2>4, <2>5 DEF ListsInv
<1>8. CASE told.what = "ocount" /\ GetOwnedTitles
  <2>1. UNCHANGED <<TCount, TCountDirty, TTitles, TOCount>>
    BY <1>8 DEF GetOwnedTitles
  <2>2. CASE ~ TOCountDirty
    <3>1. UNCHANGED <<TTitlesO, TOCountDirty>>
          /\ told' = [what |-> "olist", count |-> told.count, list |-> Copied(TTitlesO, TOCount)]
      BY <1>8, <2>2 DEF GetOwnedTitles, Told
    <3>2. ListOf(TTitlesO, TOCount) /\ told.count = TOCount
      BY <1>8, <2>2 DEF ListsInv, Cached, ToldOK
    <3>3. told' = [what |-> "olist", count |-> TOCount, list |-> TTitlesO]
      BY <3>1, <3>2, CopiedOf
    <3>4. ToldOK'
      BY <1>2, <3>2, <3>3 DEF ToldOK
    <3> QED
      BY <1>2, <2>1, <3>1, <3>4 DEF ListsInv, Cached
  <2>3. CASE TOCountDirty /\ Loads
    <3>1. /\ told' = [what |-> "olist", count |-> told.count, list |-> Owned]
          /\ TTitlesO' = Owned /\ ~ TOCountDirty'
      BY <1>8, <2>3 DEF GetOwnedTitles, Told
    <3>2. told.count = TOCount /\ TOCount = Len(Owned) /\ ListOf(Owned, TOCount)
      BY <1>3, <1>4, <1>8, <2>3 DEF ListsInv, ToldOK
    <3>3. Cached'
      BY <1>2, <2>1, <3>1, <3>2 DEF ListsInv, Cached
    <3>4. ToldOK'
      BY <1>2, <3>1, <3>2 DEF ToldOK
    <3> QED
      BY <1>2, <3>3, <3>4 DEF ListsInv
  <2>4. CASE TOCountDirty /\ ~ Loads
    <3>1. UNCHANGED <<TTitlesO, TOCountDirty>> /\ told' = Nothing
      BY <1>8, <2>4 DEF GetOwnedTitles
    <3>2. ToldOK'
      BY <3>1 DEF ToldOK, Nothing
    <3> QED
      BY <1>2, <2>1, <3>1, <3>2 DEF ListsInv, Cached
  <2> QED
    BY <2>2, <2>3, <2>4
<1> QED
  BY <1>5, <1>6, <1>7, <1>8 DEF Query

LEMMA OtherKeeps ==
  ASSUME TypedOK, ListsInv, [Next]_vars, Import \/ ListsRestart
  PROVE  ListsInv'
<1>1. UidOnce' /\ \A l, n : ListOf(l, n) => ListOf(l, n)'
  BY StepUidOnce DEF ListsInv
<1>2. ToldOK'
  BY OtherStep DEF ToldOK, Nothing
<1>3. CASE /\ UNCHANGED <<TCount, TTitles, TOCount, TTitlesO>>
           /\ TCountDirty' = (TCountDirty \/ (req.op = "tmd" /\ req'.op = "close"))
           /\ TOCountDirty' = (TOCountDirty \/ (req.op = "tmd" /\ req'.op = "close"))
  <2>1. ~ TCountDirty' => ~ TCountDirty
    BY <1>3, Zenon
  <2>2. ~ TOCountDirty' => ~ TOCountDirty
    BY <1>3, Zenon
  <2>3. Cached'
    BY <1>1, <1>3, <2>1, <2>2 DEF ListsInv, Cached
  <2> QED
    BY <1>1, <1>2, <2>3 DEF ListsInv
<1>4. CASE TCount' = 0 /\ TOCount' = 0 /\ TCountDirty' /\ TOCountDirty'
  <2>1. Cached'
    BY <1>4 DEF Cached
  <2> QED
    BY <1>1, <1>2, <2>1 DEF ListsInv
<1> QED
  BY <1>3, <1>4, OtherStep

LEMMA StepLists == TypedOK /\ ListsInv /\ ClientTyped /\ [ListsNext]_listvars => ListsInv'
<1>1. SUFFICES ASSUME TypedOK, ListsInv, ClientTyped, [ListsNext]_listvars PROVE ListsInv'
  OBVIOUS
<1>2. [Next]_vars
  BY <1>1, ListsIsInstall, InstallIsNext
<1>3. CASE UNCHANGED listvars
  <2>1. UNCHANGED <<uid, tmd, ticket, TCount, TCountDirty, TTitles, TOCount, TOCountDirty, TTitlesO, told>>
    BY <1>3 DEF listvars, allvars, vars, nand, lists
  <2>2. Loads' = Loads /\ Installed' = Installed /\ Owned' = Owned
    BY <2>1 DEF Loads, Installed, Owned, HasTmd
  <2>3. \A l, n : ListOf(l, n)' <=> ListOf(l, n)
    BY <2>1 DEF ListOf
  <2>4. Cached'
    BY <1>1, <2>1, <2>3 DEF ListsInv, Cached
  <2>5. ToldOK'
    BY <1>1, <2>1, <2>2, <2>3 DEF ListsInv, ToldOK
  <2> QED
    BY <1>1, <2>1, <2>4, <2>5 DEF ListsInv, UidOnce
<1> QED
  BY <1>1, <1>2, <1>3, QueryKeeps, OtherKeeps DEF ListsNext

\* No installed title falls out of a list before the list is marked as out of date.
LEMMA StepNoneLeftOut ==
  ASSUME EmptyLoads, TypedOK, ListsInv, TmdRight, NoneLeftOut, ClientTyped, [ListsNext]_listvars
  PROVE  NoneLeftOut'
<1>1. [Next]_vars
  BY ListsIsInstall, InstallIsNext
<1>2. CASE UNCHANGED listvars
  <2>1. UNCHANGED <<tmd, TCountDirty, TTitles, told>>
    BY <1>2 DEF listvars, allvars, vars, nand, lists
  <2> QED
    BY <2>1 DEF NoneLeftOut, HasTmd
<1>3. CASE Import \/ ListsRestart
  <2>1. told'.what = "none"
    BY <1>3, OtherStep DEF Nothing
  <2>2. SUFFICES ASSUME ~ TCountDirty' PROVE (HasTmd \subseteq Range(TTitles))'
    BY <2>1 DEF NoneLeftOut
  <2>3. /\ TTitles' = TTitles
        /\ TCountDirty' = (TCountDirty \/ (req.op = "tmd" /\ req'.op = "close"))
    BY <1>3, <2>2, OtherStep
  <2>4. ~ TCountDirty /\ ~ (req.op = "tmd" /\ req'.op = "close")
    BY <2>2, <2>3, Zenon
  <2>5. HasTmd' \subseteq HasTmd
    BY <1>1, <2>4, TmdSteps DEF HasTmd
  <2> QED
    BY <2>3, <2>4, <2>5 DEF NoneLeftOut
<1>4. CASE Query
  <2>1. UNCHANGED <<tmd, uid>>
    BY <1>4 DEF Query, allvars, vars, nand
  <2>2. HasTmd' = HasTmd /\ Installed' = Installed
    BY <2>1 DEF HasTmd, Installed
  <2>3. uid # None => HasTmd \subseteq Range(Installed)
    <3>1. \A t \in HasTmd : t \in Range(uid)
      BY DEF HasTmd, TmdRight, TmdRightOf
    <3> QED
      BY <3>1, NewList DEF ListsInv, Installed
  <2>4. CASE GetTitleCount \/ GetOwnedTitleCount \/ GetOwnedTitles
    <3>1. UNCHANGED <<TTitles, TCountDirty>> /\ told'.what # "list"
      BY <2>4 DEF GetTitleCount, GetOwnedTitleCount, GetOwnedTitles, Told, Nothing
    <3> QED
      BY <2>2, <3>1 DEF NoneLeftOut
  <2>5. CASE told.what = "count" /\ GetTitles
    <3>1. CASE ~ TCountDirty
      <4>1. UNCHANGED <<TTitles, TCountDirty>> /\ told'.list = Copied(TTitles, TCount)
        BY <2>5, <3>1 DEF GetTitles, Told
      <4>2. told'.list = TTitles
        BY <3>1, <4>1, CopiedOf DEF ListsInv, Cached
      <4> QED
        BY <2>2, <3>1, <4>1, <4>2 DEF NoneLeftOut
    <3>2. CASE TCountDirty /\ Loads
      <4>1. told'.list = Installed /\ TTitles' = Copied(Installed, TCount)
        BY <2>5, <3>2 DEF GetTitles, Told
      <4>2. TCount = Len(Installed) /\ uid # None
        BY <2>5, <3>2 DEF ListsInv, ToldOK, Loads
      <4>3. TTitles' = Installed
        BY <4>1, <4>2, NewList, CopiedOf DEF ListsInv, Installed
      <4> QED
        BY <2>2, <2>3, <4>1, <4>2, <4>3 DEF NoneLeftOut
    <3>3. CASE TCountDirty /\ ~ Loads
      <4>1. UNCHANGED <<TTitles, TCountDirty>> /\ told'.what # "list"
        BY <2>5, <3>3 DEF GetTitles, Nothing
      <4> QED
        BY <2>2, <4>1 DEF NoneLeftOut
    <3> QED
      BY <3>1, <3>2, <3>3
  <2> QED
    BY <1>4, <2>4, <2>5 DEF Query
<1> QED
  BY <1>2, <1>3, <1>4 DEF ListsNext

LEMMA InitLists ==
  ASSUME InitUid # None => IsInjective(InitUid), ListsInit
  PROVE  ListsInv /\ NoneLeftOut
  BY DEF ListsInit, InstallInit, Init, ListsInv, UidOnce, Cached, ToldOK, NoneLeftOut, Nothing

\* The cached lists have the lengths that are copied from them, and a client that asks
\* for a count first gets a list that fits its buffer, has each title once and only titles
\* of uid.sys, whatever imports, deletions, failing file operations and losses of power
\* come between the calls.  No title may be in the first uid.sys twice.
THEOREM ListsFit ==
  ASSUME InitUid # None => IsInjective(InitUid)
  PROVE  ListsSpec => [](CacheHasCount /\ ListFits)
<1>1. ListsInit => TypedOK /\ ClientTyped /\ ListsInv
  <2>1. Len(Jobs) \in Nat
    BY InstallAssumption
  <2> QED
    BY <2>1, InitLists, InitTyped DEF ListsInit, InstallInit, ClientTyped
<1>2. TypedOK /\ ClientTyped /\ ListsInv /\ [ListsNext]_listvars
        => (TypedOK /\ ClientTyped /\ ListsInv)'
  BY StepTyped, StepClientTyped, StepLists, ListsIsInstall, InstallIsNext
<1>3. TypedOK /\ ClientTyped /\ ListsInv => CacheHasCount /\ ListFits
  <2>1. ASSUME NEW l, NEW n, ListOf(l, n)
        PROVE  Len(l) = n /\ Range(l) \subseteq Range(uid) /\ Cardinality(Range(l)) = n
    BY <2>1, CountOf DEF ListOf
  <2> QED
    BY <2>1 DEF ListsInv, Cached, ToldOK, CacheHasCount, ListFits
<1> QED
  BY <1>1, <1>2, <1>3, PTL DEF ListsSpec

\* The steps of the lists are steps of the installer.
LEMMA ListsImplyInstall == ListsSpec => InstallSpec
  BY ListsIsInstall, PTL DEF ListsSpec, ListsInit, InstallSpec

\* The lists are right: besides, a list of installed titles misses none, however old the cache
\* is that it comes from, until a file operation fails.
THEOREM ListsSound ==
  ASSUME EmptyLoads, IdNamesData, InitUid # None => IsInjective(InitUid)
  PROVE  ListsSpec => [](faults = 0 => ListsRight)
<1> DEFINE Inv == TypedOK /\ MapOK /\ ClientTyped /\ TitleInv
<1>1. InstallSpec => []Inv
  BY InvHolds
<1>2. ListsInit => ListsInv /\ (faults = 0 => NoneLeftOut)
  BY InitLists
<1>3. Inv /\ ListsInv /\ (faults = 0 => NoneLeftOut) /\ [ListsNext]_listvars
        => (ListsInv /\ (faults = 0 => NoneLeftOut))'
  <2>1. SUFFICES ASSUME Inv, ListsInv, faults = 0 => NoneLeftOut, [ListsNext]_listvars
                 PROVE  ListsInv' /\ (faults' = 0 => NoneLeftOut')
    OBVIOUS
  <2>2. ListsInv'
    BY <2>1, StepLists
  <2>3. ASSUME faults' = 0 PROVE NoneLeftOut'
    <3>1. [Next]_vars
      BY <2>1, ListsIsInstall, InstallIsNext
    <3>2. faults = 0
      BY <2>1, <2>3, <3>1, Faultless DEF vars
    <3>3. TmdRight
      BY <2>1, <3>2 DEF TitleInv, Sound
    <3> QED
      BY <2>1, <3>2, <3>3, StepNoneLeftOut
  <2> QED
    BY <2>2, <2>3
<1>4. ListsSpec => []ListsInv /\ [](faults = 0 => NoneLeftOut)
  <2> HIDE DEF Inv
  <2> QED
    BY <1>1, <1>2, <1>3, ListsImplyInstall, PTL DEF ListsSpec
<1>5. Inv /\ ListsInv /\ (faults = 0 => NoneLeftOut) /\ (CacheHasCount /\ ListFits)
        => (faults = 0 => ListsRight)
  <2>1. SUFFICES ASSUME TypedOK, ListsInv, NoneLeftOut, CacheHasCount /\ ListFits PROVE NoneMissing
    BY DEF ListsRight
  <2>2. told.what = "list" => uid # None
    BY <2>1 DEF ListsInv, ToldOK, ListOf
  <2>3. uid # None => Range(Installed) \subseteq HasTmd
    BY <2>1, NewList DEF ListsInv, Installed
  <2> QED
    BY <2>1, <2>2, <2>3 DEF NoneLeftOut, NoneMissing
<1> QED
  <2> HIDE DEF Inv
  <2> QED
    BY <1>1, <1>4, <1>5, ListsFit, ListsImplyInstall, PTL
==============================================================================
