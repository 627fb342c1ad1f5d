------------------------------- MODULE ESProofs -------------------------------
(***************************************************************************)
(* Theorems about the title import for any titles, contents and TMDs, with *)
(* failing file operations and the power going off at any step.            *)
(***************************************************************************)
EXTENDS ESImport, TLAPS

\* The handler at work has a title, and the end of an import has its TMD.
RequestOK ==
  /\ req.op # "idle" => req.title \in Titles
  /\ req.op = "NewUID" => uid = <<>>
  /\ req.op \in {"finish", "share", "map", "tmd", "close"} => iTMD \in Tmds
  /\ req.op = "finish" => req.i >= 1
  /\ req.op \in {"share", "map"} => req.i \in DOMAIN iTMD.contents /\ Current.shared

\* What a handler between the checks of content.map and its new entry relies
\* on: the copy in memory is never behind the file.
MapOK ==
  /\ MapBacked
  /\ MapDistinct
  /\ CNTMap \in {Dirty, map}
  /\ req.op \in {"share", "map"} => Current.hash \notin Range(map)
  /\ req.op = "map" => Len(map) \in DOMAIN shared1

\* The contents before number n of the import are where the TMD wants them.
Placed(n) ==
  \A j \in DOMAIN iTMD.contents :
    j < n => \/ iTMD.contents[j].shared \/ iTMD.contents[j].optional
             \/ content[req.title][iTMD.contents[j].id] # None

\* The loop over the contents never leaves a mandatory one behind.
CommitOK ==
  /\ req.op \in {"finish", "share", "map"} => Placed(req.i)
  /\ req.op = "tmd" => Placed(Len(iTMD.contents) + 1)

-----------------------------------------------------------------------------
(***************************************************************************)
(* Types.                                                                  *)
(***************************************************************************)

Answer == [op : Calls, ret : Int]
TypedOK == TypeOK /\ RequestOK

\* Result codes are integers.
LEMMA Codes ==
  /\ ES_SUCCESS \in Int /\ ES_EEXIST \in Int /\ ES_NFOUND \in Int /\ FS_FATAL \in Int
  /\ ES_FATAL \in Int /\ ES_EHASH \in Int /\ ES_ETIKTMD \in Int /\ SHORT \in Int
  BY DEF ES_SUCCESS, ES_EEXIST, ES_NFOUND, FS_FATAL, ES_FATAL, ES_EHASH, ES_ETIKTMD, SHORT

\* An acknowledged request leaves the server idle.
LEMMA Replied ==
  ASSUME NEW op \in Calls, NEW r \in Int, Reply(op, r)
  PROVE  req' \in Step /\ req'.op = "idle" /\ reply' \in Answer
  BY DEF Reply, Idle, Step, Ops, Answer, Calls

\* A request that is worked on has the fields it is given.
LEMMA Began ==
  ASSUME NEW q \in Step, Go(q)
  PROVE  req' = q /\ req' \in Step /\ reply' \in Answer
  BY DEF Go, Answer, Calls

\* The records a request is made of.
LEMMA Steps ==
  /\ Idle \in Step
  /\ \A q \in Step, op \in Ops, t \in Titles : [q EXCEPT !.op = op, !.title = t] \in Step
  /\ \A q \in Step, t \in Titles, by \in {"AddTitleStart", "SetUID"} :
       [q EXCEPT !.op = "GetUID", !.title = t, !.by = by] \in Step
  /\ \A q \in Step, t \in Titles, i \in Nat, r \in Int :
       [q EXCEPT !.op = "finish", !.title = t, !.i = i, !.r = r] \in Step
  /\ \A q \in Step, op \in Ops : [q EXCEPT !.op = op] \in Step
  /\ \A q \in Step, i \in Nat, r \in Int :
       [q EXCEPT !.op = "finish", !.i = i, !.r = r] \in Step
  /\ \A q \in Step, r \in Int : [q EXCEPT !.op = "close", !.r = r] \in Step
<1>1. Idle \in Step
  BY DEF Idle, Step, Ops
<1>2. \A q \in Step, op \in Ops, t \in Titles : [q EXCEPT !.op = op, !.title = t] \in Step
  BY DEF Idle, Step, Ops
<1>3. \A q \in Step, t \in Titles, by \in {"AddTitleStart", "SetUID"} :
        [q EXCEPT !.op = "GetUID", !.title = t, !.by = by] \in Step
  BY DEF Idle, Step, Ops
<1>4. \A q \in Step, t \in Titles, i \in Nat, r \in Int :
        [q EXCEPT !.op = "finish", !.title = t, !.i = i, !.r = r] \in Step
  BY DEF Idle, Step, Ops
<1>5. \A q \in Step, op \in Ops : [q EXCEPT !.op = op] \in Step
  BY DEF Idle, Step, Ops
<1>6. \A q \in Step, i \in Nat, r \in Int :
        [q EXCEPT !.op = "finish", !.i = i, !.r = r] \in Step
  BY DEF Idle, Step, Ops
<1>7. \A q \in Step, r \in Int : [q EXCEPT !.op = "close", !.r = r] \in Step
  BY DEF Idle, Step, Ops
<1> QED
  BY <1>1, <1>2, <1>3, <1>4, <1>5, <1>6, <1>7

\* A file operation that works or fails keeps the history well typed.
LEMMA Faulty ==
  ASSUME TypeOK, Works \/ Breaks PROVE faults' \in 0 .. MaxFaults
  BY ESAssumption DEF TypeOK, Works, Breaks, ESAssumption

\* /tmp stays what it is when one of its files changes.
LEMMA TmpUpdates ==
  /\ NoTmp \in TmpFiles
  /\ \A f \in TmpFiles, S \in SUBSET Titles : [f EXCEPT !.tik = S] \in TmpFiles
  /\ \A f \in TmpFiles, m \in Tmds \cup {None, Torn} : [f EXCEPT !.tmd = m] \in TmpFiles
  /\ \A f \in TmpFiles, c \in Ids, s \in {None} \cup Seq(Data) :
       [f EXCEPT !.raw[c] = s] \in TmpFiles
  /\ \A f \in TmpFiles, c \in Ids, d \in Data \cup {None} :
       [f EXCEPT !.app[c] = d] \in TmpFiles
  BY DEF NoTmp, TmpFiles

\* The contents of a TMD.
LEMMA Contents ==
  ASSUME NEW m \in Tmds
  PROVE  /\ m.title \in Titles /\ m.contents \in Seq(Content)
         /\ \A k \in DOMAIN m.contents :
              /\ k \in Nat /\ k >= 1 /\ k <= Len(m.contents)
              /\ m.contents[k] \in Content /\ m.contents[k].id \in Ids
              /\ m.contents[k].hash \in Hashes
<1>1. m \in [title : Titles, contents : Seq(Content)]
  BY ESAssumption
<1>2. m.title \in Titles /\ m.contents \in Seq(Content)
  BY <1>1
<1>3. \A k \in DOMAIN m.contents : k \in 1 .. Len(m.contents) /\ m.contents[k] \in Content
  BY <1>2
<1> QED
  BY <1>2, <1>3 DEF Content

\* The initial state.
LEMMA InitTyped == Init => TypedOK
<1>1. SUFFICES ASSUME Init PROVE TypedOK
  OBVIOUS
<1>2. shared1 = [i \in 0 .. Len(InitMap) - 1 |-> InitMap[i + 1]]
  BY <1>1 DEF Init
<1>3. \A i \in DOMAIN shared1 : i \in Nat /\ shared1[i] \in Hashes
  BY <1>2, ESAssumption
<1>4. DOMAIN shared1 \subseteq Nat /\ Range(shared1) \subseteq Data
  BY <1>3 DEF Range, Data
<1>5. req = Idle /\ req \in Step
  BY <1>1 DEF Init, Idle, Step, Ops
<1>6. RequestOK
  BY <1>5 DEF RequestOK, Idle
<1>7. tmp \in TmpFiles
  BY <1>1, TmpUpdates DEF Init
<1>8. reply \in [op : Calls, ret : Int]
  BY <1>1 DEF Init, Calls
<1>9. faults \in 0 .. MaxFaults
  <2>1. faults = 0 /\ MaxFaults \in Nat
    BY <1>1, ESAssumption DEF Init, ESAssumption
  <2> QED
    BY <2>1
<1> QED
  BY <1>1, <1>4, <1>5, <1>6, <1>7, <1>8, <1>9, ESAssumption DEF TypedOK, Init, TypeOK

\* Nothing is asked of a request that is not there.
LEMMA IdleOK == req'.op = "idle" => RequestOK'
  BY DEF RequestOK

\* Tickets.
LEMMA TicketType ==
  ASSUME TypedOK,
         \/ \E t \in Titles : AddTicket(t)
         \/ AddTicket_Overwrite
         \/ AddTicket_Move
  PROVE  TypedOK'
<1>1. ASSUME NEW t \in Titles, AddTicket(t) PROVE TypedOK'
  <2>1. UNCHANGED <<nand, ram>> /\ faults' \in 0 .. MaxFaults
    BY <1>1, Faulty DEF AddTicket, TypedOK
  <2>2. tmp' = tmp \/ tmp' = [tmp EXCEPT !.tik = @ \cup {t}]
    BY <1>1 DEF AddTicket
  <2>3. tmp.tik \cup {t} \in SUBSET Titles
    BY DEF TypedOK, TypeOK, TmpFiles
  <2>4. tmp' \in TmpFiles
    BY <2>2, <2>3 DEF TypedOK, TypeOK, TmpFiles
  <2>5. CASE \E r \in {ES_EEXIST, FS_FATAL, SHORT} : Reply("AddTicket", r)
    <3>1. req' \in Step /\ req'.op = "idle" /\ reply' \in Answer
      BY <2>5, Replied, Codes DEF Calls
    <3> QED
      BY <2>1, <2>4, <3>1, IdleOK DEF TypedOK, TypeOK, nand, ram, Answer
  <2>6. CASE Go([Idle EXCEPT !.op = "AddTicket", !.title = t])
    <3>1. /\ req' = [Idle EXCEPT !.op = "AddTicket", !.title = t]
          /\ req' \in Step /\ reply' \in Answer
      BY <2>6, Steps, Began DEF Ops
    <3>2. req'.op = "AddTicket" /\ req'.title = t
      BY <3>1 DEF Idle
    <3> QED
      BY <2>1, <2>4, <3>1, <3>2 DEF TypedOK, TypeOK, RequestOK, nand, ram, Answer
  <2> QED
    BY <1>1, <2>5, <2>6 DEF AddTicket
<1>2. CASE AddTicket_Overwrite
  <2>1. faults' \in 0 .. MaxFaults
    BY <1>2, Faulty DEF AddTicket_Overwrite, TypedOK
  <2> QED
    BY <1>2, <2>1 DEF AddTicket_Overwrite, TypedOK, TypeOK, RequestOK, ram, Current
<1>3. CASE AddTicket_Move
  <2>1. faults' \in 0 .. MaxFaults
    BY <1>3, Faulty DEF AddTicket_Move, TypedOK
  <2>2. req.title \in Titles
    BY <1>3 DEF AddTicket_Move, TypedOK, RequestOK
  <2>3. \E r \in {ES_SUCCESS, FS_FATAL} : Reply("AddTicket", r)
    BY <1>3 DEF AddTicket_Move
  <2>4. req' \in Step /\ req'.op = "idle" /\ reply' \in Answer
    BY <2>3, Replied, Codes DEF Calls
  <2>5. tmp.tik \ {req.title} \in SUBSET Titles
    BY DEF TypedOK, TypeOK, TmpFiles
  <2>6. tmp' = tmp \/ tmp' = [tmp EXCEPT !.tik = @ \ {req.title}]
    BY <1>3 DEF AddTicket_Move
  <2>7. tmp' \in TmpFiles
    BY <2>5, <2>6 DEF TypedOK, TypeOK, TmpFiles
  <2>8. ticket' \subseteq Titles
    BY <1>3, <2>2 DEF AddTicket_Move, TypedOK, TypeOK
  <2> QED
    BY <1>3, <2>1, <2>4, <2>7, <2>8, IdleOK DEF AddTicket_Move, TypedOK, TypeOK, ram, Answer
<1> QED
  BY <1>1, <1>2, <1>3

\* The start of an import.
LEMMA TitleStartType ==
  ASSUME TypedOK, NEW m \in Tmds, AddTitleStart(m)
  PROVE  TypedOK'
<1>1. /\ UNCHANGED <<nand, SkipContent, CNTMap, pathFreed>>
      /\ faults' \in 0 .. MaxFaults /\ iTMD' \in Tmds \cup {None}
  BY Faulty DEF AddTitleStart, TypedOK
<1>2. tmp' = tmp \/ \E x \in {m, Torn} : tmp' = [tmp EXCEPT !.tmd = x]
  BY DEF AddTitleStart
<1>3. tmp' \in TmpFiles
  BY <1>2 DEF TypedOK, TypeOK, TmpFiles
<1>4. CASE \E r \in {ES_EEXIST, FS_FATAL, SHORT} : Reply("AddTitleStart", r)
  <2>1. req' \in Step /\ req'.op = "idle" /\ reply' \in Answer
    BY <1>4, Replied, Codes DEF Calls
  <2> QED
    BY <1>1, <1>3, <2>1, IdleOK DEF TypedOK, TypeOK, nand, Answer
<1>5. CASE Go([Idle EXCEPT !.op = "GetUID", !.title = m.title, !.by = "AddTitleStart"])
  <2>1. m.title \in Titles
    BY Contents
  <2>2. /\ req' = [Idle EXCEPT !.op = "GetUID", !.title = m.title, !.by = "AddTitleStart"]
        /\ req' \in Step /\ reply' \in Answer
    BY <1>5, <2>1, Steps, Began
  <2>3. req'.op = "GetUID" /\ req'.title = m.title
    BY <2>2 DEF Idle
  <2> QED
    BY <1>1, <1>3, <2>1, <2>2, <2>3 DEF TypedOK, TypeOK, RequestOK, nand, Answer
<1> QED
  BY <1>4, <1>5 DEF AddTitleStart

\* User IDs.
LEMMA UidType ==
  ASSUME TypedOK,
         \/ \E t \in Titles : ES_SetUID(t)
         \/ GetUID_Create \/ GetUID_Default \/ GetUID
  PROVE  TypedOK'
<1>1. ASSUME NEW t \in Titles, ES_SetUID(t) PROVE TypedOK'
  <2>1. /\ req' = [Idle EXCEPT !.op = "GetUID", !.title = t, !.by = "SetUID"]
        /\ req' \in Step /\ reply' \in Answer
    BY <1>1, Steps, Began DEF ES_SetUID
  <2>2. req'.op = "GetUID" /\ req'.title = t
    BY <2>1 DEF Idle
  <2> QED
    BY <1>1, <2>1, <2>2 DEF ES_SetUID, TypedOK, TypeOK, RequestOK, nand, ram, Answer
\* The two ways on from a step of GetUID.
<1>2. ASSUME NEW op \in {"GetUID", "NewUID"}, Goto(op), req.title \in Titles
      PROVE  /\ req' \in Step /\ reply' \in Answer
             /\ req'.op = op /\ req'.title \in Titles
  <2>1. req \in Step
    BY DEF TypedOK, TypeOK
  <2>2. req' = [req EXCEPT !.op = op] /\ req' \in Step /\ reply' \in Answer
    BY <1>2, <2>1, Steps, Began DEF Goto, Ops
  <2> QED
    BY <1>2, <2>1, <2>2 DEF Step
<1>3. ASSUME NEW r \in Int, GotUID(r)
      PROVE  req' \in Step /\ reply' \in Answer /\ req'.op = "idle"
  <2>1. req.by \in {"none", "AddTitleStart", "SetUID"} /\ req.by \in Calls
    BY DEF TypedOK, TypeOK, Step, Calls
  <2>2. PICK x \in Int : Reply(req.by, x)
    BY <1>3, Codes DEF GotUID
  <2> QED
    BY <2>1, <2>2, Replied
<1>4. CASE GetUID_Create
  <2>1. faults' \in 0 .. MaxFaults /\ req.title \in Titles
    BY <1>4, Faulty DEF GetUID_Create, TypedOK, RequestOK
  <2>2. CASE uid' = <<>> /\ Goto("NewUID")
    <3>1. /\ req' \in Step /\ reply' \in Answer
          /\ req'.op = "NewUID" /\ req'.title \in Titles
      BY <1>2, <2>1, <2>2
    <3> QED
      BY <1>4, <2>1, <2>2, <3>1 DEF GetUID_Create, TypedOK, TypeOK, RequestOK, ram, Answer
  <2>3. CASE uid' = uid /\ GotUID(FS_FATAL)
    <3>1. req' \in Step /\ reply' \in Answer /\ req'.op = "idle"
      BY <1>3, <2>3, Codes
    <3> QED
      BY <1>4, <2>1, <2>3, <3>1, IdleOK DEF GetUID_Create, TypedOK, TypeOK, ram, Answer
  <2> QED
    BY <1>4, <2>2, <2>3 DEF GetUID_Create
<1>5. CASE GetUID_Default
  <2>1. faults' \in 0 .. MaxFaults /\ req.title \in Titles
    BY <1>5, Faulty DEF GetUID_Default, TypedOK, RequestOK
  <2>2. CASE uid' = <<SysMenu>> /\ Goto("GetUID")
    <3>1. /\ req' \in Step /\ reply' \in Answer
          /\ req'.op = "GetUID" /\ req'.title \in Titles
      BY <1>2, <2>1, <2>2
    <3>2. uid' \in Seq(Titles)
      BY <2>2, ESAssumption
    <3> QED
      BY <1>5, <2>1, <3>1, <3>2 DEF GetUID_Default, TypedOK, TypeOK, RequestOK, ram, Answer
  <2>3. CASE uid' = uid /\ GotUID(FS_FATAL)
    <3>1. req' \in Step /\ reply' \in Answer /\ req'.op = "idle"
      BY <1>3, <2>3, Codes
    <3> QED
      BY <1>5, <2>1, <2>3, <3>1, IdleOK DEF GetUID_Default, TypedOK, TypeOK, ram, Answer
  <2> QED
    BY <1>5, <2>2, <2>3 DEF GetUID_Default
<1>6. CASE GetUID
  <2>1. faults' \in 0 .. MaxFaults /\ req.title \in Titles
    BY <1>6, Faulty DEF GetUID, TypedOK, RequestOK
  <2>2. uid \in Seq(Titles)
    BY <1>6 DEF GetUID, TypedOK, TypeOK
  <2>3. uid' = uid \/ uid' = Append(uid, req.title)
    BY <1>6 DEF GetUID
  <2>4. uid' \in Seq(Titles)
    BY <2>1, <2>2, <2>3
  <2>5. \E r \in Int : GotUID(r)
    BY <1>6, Codes DEF GetUID
  <2>6. req' \in Step /\ reply' \in Answer /\ req'.op = "idle"
    BY <1>3, <2>5
  <2> QED
    BY <1>6, <2>1, <2>4, <2>6, IdleOK DEF GetUID, TypedOK, TypeOK, ram, Answer
<1> QED
  BY <1>1, <1>4, <1>5, <1>6

\* content.map as it was loaded.
LEMMA CheckType ==
  ASSUME TypedOK, NEW h, NEW r, ES_CheckSharedContent(h, r)
  PROVE  CNTMap' \in {Dirty} \cup Seq(Hashes) /\ faults' \in 0 .. MaxFaults
  BY Faulty DEF ES_CheckSharedContent, TypedOK, TypeOK

\* Deliveries of contents.
LEMMA ContentType ==
  ASSUME TypedOK, NEW c \in Ids,
         \/ AddContentStart(c)
         \/ \E d \in Data : AddContentData(c, d)
         \/ AddContentFinish(c)
  PROVE  TypedOK'
<1>1. CASE AddContentStart(c)
  <2>1. CNTMap' \in {Dirty} \cup Seq(Hashes) /\ faults' \in 0 .. MaxFaults
    BY <1>1, CheckType, Faulty DEF AddContentStart, TypedOK, TypeOK
  <2>2. SkipContent' \in BOOLEAN
    BY <1>1 DEF AddContentStart
  <2>3. \E r \in {ES_FATAL, ES_SUCCESS} : Reply("AddContentStart", r)
    BY <1>1 DEF AddContentStart
  <2>4. req' \in Step /\ req'.op = "idle" /\ reply' \in Answer
    BY <2>3, Replied, Codes DEF Calls
  <2> QED
    BY <1>1, <2>1, <2>2, <2>4, IdleOK DEF AddContentStart, TypedOK, TypeOK, nand, Answer
<1>2. ASSUME NEW d \in Data, AddContentData(c, d) PROVE TypedOK'
  <2>1. UNCHANGED <<nand, ram>> /\ faults' \in 0 .. MaxFaults
    BY <1>2, Faulty DEF AddContentData, TypedOK
  <2>2. \E r \in {ES_SUCCESS, ES_FATAL, FS_FATAL, SHORT} : Reply("AddContentData", r)
    BY <1>2 DEF AddContentData
  <2>3. req' \in Step /\ req'.op = "idle" /\ reply' \in Answer
    BY <2>2, Replied, Codes DEF Calls
  <2> DEFINE old == IF tmp.raw[c] = None THEN <<>> ELSE tmp.raw[c]
  <2>4. old \in Seq(Data) /\ Append(old, d) \in Seq(Data) /\ Append(old, Bad) \in Seq(Data)
    BY DEF TypedOK, TypeOK, TmpFiles, Data
  <2>5. \/ tmp' = tmp
        \/ \E s \in {old, Append(old, d), Append(old, Bad)} : tmp' = [tmp EXCEPT !.raw[c] = s]
    BY <1>2 DEF AddContentData
  <2> HIDE DEF old
  <2>6. ASSUME NEW s \in Seq(Data), tmp' = [tmp EXCEPT !.raw[c] = s]
        PROVE  tmp' \in TmpFiles
    BY <2>6, TmpUpdates DEF TypedOK, TypeOK
  <2>7. tmp' \in TmpFiles
    BY <2>4, <2>5, <2>6 DEF TypedOK, TypeOK
  <2> QED
    BY <2>1, <2>3, <2>7, IdleOK DEF TypedOK, TypeOK, nand, ram, Answer
<1>3. CASE AddContentFinish(c)
  <2>1. /\ UNCHANGED <<nand, SkipContent, CNTMap, pathFreed>>
        /\ iTMD' \in Tmds \cup {None}
    BY <1>3 DEF AddContentFinish, TypedOK, TypeOK
  <2>2. CASE Decrypt(c)
    <3>1. faults' \in 0 .. MaxFaults
      BY <2>2, Faulty DEF Decrypt, Decrypted, TypedOK
    <3>2. \E r \in {ES_SUCCESS, ES_EEXIST, ES_EHASH, ES_FATAL, FS_FATAL} :
            Reply("AddContentFinish", r)
      BY <2>2 DEF Decrypt
    <3>3. req' \in Step /\ req'.op = "idle" /\ reply' \in Answer
      BY <3>2, Replied, Codes DEF Calls
    <3>4. tmp' = tmp \/ \E d \in Data : tmp' = [tmp EXCEPT !.app[c] = d]
      BY <2>2 DEF Decrypt, Data
    <3>5. ASSUME NEW d \in Data, tmp' = [tmp EXCEPT !.app[c] = d]
          PROVE  tmp' \in TmpFiles
      BY <3>5, TmpUpdates DEF TypedOK, TypeOK
    <3>6. tmp' \in TmpFiles
      BY <3>4, <3>5 DEF TypedOK, TypeOK
    <3> QED
      BY <2>1, <3>1, <3>3, <3>6, IdleOK DEF TypedOK, TypeOK, nand, Answer
  <2>3. CASE /\ \E r \in {ES_SUCCESS, ES_FATAL, ES_ETIKTMD} : Reply("AddContentFinish", r)
             /\ Works \/ Breaks
             /\ UNCHANGED tmp
    <3>1. req' \in Step /\ req'.op = "idle" /\ reply' \in Answer
      BY <2>3, Replied, Codes DEF Calls
    <3>2. faults' \in 0 .. MaxFaults
      BY <2>3, Faulty DEF TypedOK
    <3> QED
      BY <2>1, <2>3, <3>1, <3>2, IdleOK DEF TypedOK, TypeOK, nand, Answer
  <2> QED
    BY <1>3, <2>2, <2>3 DEF AddContentFinish
<1> QED
  BY <1>1, <1>2, <1>3

\* The ways on in the loop over the contents.
LEMMA LoopSteps ==
  ASSUME TypedOK, req.op \in {"finish", "share", "map"}, iTMD' = iTMD
  PROVE  /\ \A r \in Int : NextContent(r) =>
              /\ req' \in Step /\ reply' \in Answer /\ RequestOK'
              /\ req'.op = "finish"
         /\ \A op \in {"tmd", "close"} : Goto(op) =>
              req' \in Step /\ reply' \in Answer /\ RequestOK'
         /\ \A r \in Int : Break(r) =>
              req' \in Step /\ reply' \in Answer /\ RequestOK'
<1>1. /\ req \in Step /\ iTMD \in Tmds /\ req.title \in Titles /\ req.i \in Nat
  BY DEF TypedOK, TypeOK, RequestOK, Step
<1>2. ASSUME NEW r \in Int, NextContent(r)
      PROVE  req' \in Step /\ reply' \in Answer /\ RequestOK' /\ req'.op = "finish"
  <2>1. /\ req' = [req EXCEPT !.op = "finish", !.i = req.i + 1, !.r = r]
        /\ req' \in Step /\ reply' \in Answer
    <3>1. req.i + 1 \in Nat
      BY <1>1
    <3>2. ASSUME NEW i \in Nat, i = req.i + 1
          PROVE  [req EXCEPT !.op = "finish", !.i = i, !.r = r] \in Step
      BY <1>1, Steps
    <3> QED
      BY <1>2, <3>1, <3>2, Began DEF NextContent
  <2>2. req'.op = "finish" /\ req'.title \in Titles /\ req'.i = req.i + 1
    BY <1>1, <2>1 DEF Step
  <2> QED
    BY <1>1, <2>1, <2>2 DEF RequestOK
<1>3. ASSUME NEW op \in {"tmd", "close"}, Goto(op)
      PROVE  req' \in Step /\ reply' \in Answer /\ RequestOK'
  <2>1. req' = [req EXCEPT !.op = op] /\ req' \in Step /\ reply' \in Answer
    BY <1>1, <1>3, Steps, Began DEF Goto, Ops
  <2>2. req'.op = op /\ req'.title \in Titles
    BY <1>1, <2>1 DEF Step
  <2> QED
    BY <1>1, <2>1, <2>2 DEF RequestOK
<1>4. ASSUME NEW r \in Int, Break(r)
      PROVE  req' \in Step /\ reply' \in Answer /\ RequestOK'
  <2>1. req' = [req EXCEPT !.op = "close", !.r = r] /\ req' \in Step /\ reply' \in Answer
    BY <1>1, <1>4, Steps, Began DEF Break
  <2>2. req'.op = "close" /\ req'.title \in Titles
    BY <1>1, <2>1 DEF Step
  <2> QED
    BY <1>1, <2>1, <2>2 DEF RequestOK
<1> QED
  BY <1>2, <1>3, <1>4

\* The content the loop is at.
LEMMA CurrentType ==
  ASSUME TypedOK, AtContent \/ req.op \in {"share", "map"}
  PROVE  /\ iTMD \in Tmds /\ req.i \in DOMAIN iTMD.contents
         /\ req.i \in Nat /\ req.i >= 1
         /\ Current \in Content /\ Current.id \in Ids /\ Current.hash \in Hashes
         /\ App \in Data \cup {None}
<1>1. iTMD \in Tmds /\ req.i \in Nat
  BY DEF TypedOK, TypeOK, RequestOK, AtContent, Step
<1>2. iTMD.contents \in Seq(Content)
  BY <1>1, Contents
<1>3. req.i \in DOMAIN iTMD.contents
  BY <1>1, <1>2 DEF TypedOK, RequestOK, AtContent
<1>4. Current.id \in Ids /\ Current.hash \in Hashes /\ Current \in Content /\ req.i >= 1
  BY <1>1, <1>3, Contents DEF Current
<1> QED
  BY <1>1, <1>3, <1>4 DEF App, TypedOK, TypeOK, TmpFiles

\* DropApp leaves /tmp well typed.
LEMMA DropType ==
  ASSUME TypedOK, AtContent \/ req.op \in {"share", "map"}, DropApp
  PROVE  tmp' \in TmpFiles
  BY CurrentType, TmpUpdates DEF DropApp, TypedOK, TypeOK

\* Shared contents, up to the new entry.
LEMMA SharedType ==
  ASSUME TypedOK,
         \/ FinishShared \/ FinishShared_Overwrite \/ FinishShared_Move
         \/ FinishShared_Missing \/ FinishShared_Lost \/ FinishShared_Map
  PROVE  TypedOK'
<1>1. CASE FinishShared
  <2>1. PICK r \in Checks :
          /\ ES_CheckSharedContent(Current.hash, r)
          /\ \/ NextContent(req.r) /\ DropApp
             \/ NextContent(req.r) /\ UNCHANGED tmp
             \/ Goto("share") /\ UNCHANGED tmp
    BY <1>1 DEF FinishShared
  <2>2. CNTMap' \in {Dirty} \cup Seq(Hashes) /\ faults' \in 0 .. MaxFaults
    BY <2>1, CheckType
  <2>3. AtContent /\ req.op = "finish" /\ req \in Step /\ req.r \in Int
    BY <1>1 DEF FinishShared, AtContent, TypedOK, TypeOK, Step
  <2>4. tmp' \in TmpFiles
    BY <2>1, <2>3, DropType DEF TypedOK, TypeOK
  <2>5. UNCHANGED <<nand, iTMD, SkipContent, pathFreed>>
    BY <1>1 DEF FinishShared
  <2>6. req' \in Step /\ reply' \in Answer /\ RequestOK'
    <3>1. CASE NextContent(req.r)
      BY <2>3, <2>5, <3>1, LoopSteps
    <3>2. CASE Goto("share")
      <4>1. req' = [req EXCEPT !.op = "share"] /\ req' \in Step /\ reply' \in Answer
        BY <2>3, <3>2, Steps, Began DEF Goto, Ops
      <4>2. req'.op = "share" /\ req'.title = req.title /\ req'.i = req.i
        BY <2>3, <4>1 DEF Step
      <4>3. req.title \in Titles /\ Current.shared
        BY <1>1, <2>3 DEF TypedOK, RequestOK, FinishShared
      <4>4. Current' = Current
        BY <2>5, <4>2 DEF Current
      <4> QED
        BY <2>3, <2>5, <4>1, <4>2, <4>3, <4>4, CurrentType DEF RequestOK
    <3> QED
      BY <2>1, <3>1, <3>2
  <2> QED
    BY <2>2, <2>4, <2>5, <2>6 DEF TypedOK, TypeOK, nand, Answer
<1>2. CASE FinishShared_Overwrite
  <2>1. faults' \in 0 .. MaxFaults
    BY <1>2, Faulty DEF FinishShared_Overwrite, TypedOK
  <2>2. DOMAIN shared1' \subseteq Nat /\ Range(shared1') \subseteq Data
    BY <1>2 DEF FinishShared_Overwrite, Restrict, Range, TypedOK, TypeOK
  <2> QED
    BY <1>2, <2>1, <2>2 DEF FinishShared_Overwrite, TypedOK, TypeOK, RequestOK, ram, Current
<1>3. CASE FinishShared_Move
  <2>1. req.op = "share" /\ req \in Step /\ App \in Data /\ Len(map) \in Nat
    BY <1>3, CurrentType DEF FinishShared_Move, TypedOK, TypeOK
  <2>2. faults' \in 0 .. MaxFaults /\ tmp' \in TmpFiles
    BY <1>3, <2>1, Faulty, DropType DEF FinishShared_Move, TypedOK
  <2>3. shared1' = With(shared1, Len(map), App)
    BY <1>3 DEF FinishShared_Move
  <2>4. DOMAIN shared1' \subseteq Nat /\ Range(shared1') \subseteq Data
    BY <2>1, <2>3 DEF With, Range, TypedOK, TypeOK
  <2>5. req' = [req EXCEPT !.op = "map"] /\ req' \in Step /\ reply' \in Answer
    BY <1>3, <2>1, Steps, Began DEF FinishShared_Move, Goto, Ops
  <2>6. req'.op = "map" /\ req'.title = req.title /\ req'.i = req.i
    BY <2>1, <2>5 DEF Step
  <2>7. UNCHANGED <<ticket, tmd, content, map, uid, cut, ram>>
    BY <1>3 DEF FinishShared_Move
  <2>8. Current' = Current
    BY <2>6, <2>7 DEF Current, ram
  <2>9. RequestOK'
    BY <2>1, <2>6, <2>7, <2>8, CurrentType DEF RequestOK, TypedOK, ram
  <2> QED
    BY <2>2, <2>4, <2>5, <2>7, <2>9 DEF TypedOK, TypeOK, ram, Answer
<1>4. CASE FinishShared_Missing
  <2>1. PICK e \in {ES_NFOUND, FS_FATAL} :
          \/ NextContent(e) /\ UNCHANGED pathFreed
          \/ Reply("AddTitleFinish", e) /\ pathFreed' = TRUE
    BY <1>4 DEF FinishShared_Missing
  <2>2. /\ req.op = "share" /\ faults' \in 0 .. MaxFaults /\ e \in Int
        /\ UNCHANGED <<nand, tmp, iTMD, SkipContent, CNTMap>>
    BY <1>4, Faulty, Codes DEF FinishShared_Missing, TypedOK
  <2>3. CASE NextContent(e) /\ UNCHANGED pathFreed
    BY <2>2, <2>3, LoopSteps DEF TypedOK, TypeOK, nand, Answer
  <2>4. CASE Reply("AddTitleFinish", e) /\ pathFreed' = TRUE
    <3>1. req' \in Step /\ req'.op = "idle" /\ reply' \in Answer
      BY <2>2, <2>4, Replied DEF Calls
    <3> QED
      BY <2>2, <2>4, <3>1, IdleOK DEF TypedOK, TypeOK, nand, Answer
  <2> QED
    BY <2>1, <2>3, <2>4
<1>5. CASE FinishShared_Lost
  <2>1. /\ req.op = "share" /\ faults' \in 0 .. MaxFaults /\ NextContent(ES_SUCCESS)
        /\ UNCHANGED <<nand, iTMD, SkipContent, pathFreed>> /\ CNTMap' = Dirty
    BY <1>5, Faulty DEF FinishShared_Lost, TypedOK
  <2>2. tmp' \in TmpFiles
    BY <1>5, <2>1, DropType DEF FinishShared_Lost
  <2> QED
    BY <2>1, <2>2, LoopSteps, Codes DEF TypedOK, TypeOK, nand, Answer
<1>6. CASE FinishShared_Map
  <2>1. /\ req.op = "map" /\ faults' \in 0 .. MaxFaults /\ NextContent(ES_SUCCESS)
        /\ CNTMap' = Dirty
        /\ UNCHANGED <<ticket, tmd, content, shared1, uid, cut, tmp, iTMD, SkipContent,
                       pathFreed>>
    BY <1>6, Faulty DEF FinishShared_Map, TypedOK
  <2>2. Current.hash \in Hashes /\ map \in Seq(Hashes)
    BY <2>1, CurrentType DEF TypedOK, TypeOK
  <2>3. map' = map \/ map' = Append(map, Current.hash)
    BY <1>6 DEF FinishShared_Map
  <2>4. map' \in Seq(Hashes)
    BY <2>2, <2>3
  <2> QED
    BY <2>1, <2>4, LoopSteps, Codes DEF TypedOK, TypeOK, Answer
<1> QED
  BY <1>1, <1>2, <1>3, <1>4, <1>5, <1>6

\* The files of every content of the import are gone from /tmp.
LEMMA CleanType ==
  ASSUME TypedOK, CleanTmp PROVE tmp' \in TmpFiles
<1> DEFINE raw == [c \in Ids |-> IF ContentOf(iTMD, c) # {} THEN None ELSE tmp.raw[c]]
           app == [c \in Ids |-> IF ContentOf(iTMD, c) # {} THEN None ELSE tmp.app[c]]
<1>1. tmp' = [tmp EXCEPT !.tmd = None, !.raw = raw, !.app = app]
  BY DEF CleanTmp
<1>2. raw \in [Ids -> {None} \cup Seq(Data)] /\ app \in [Ids -> Data \cup {None}]
  BY DEF TypedOK, TypeOK, TmpFiles
<1> HIDE DEF raw, app
<1>3. PICK x \in [Ids -> {None} \cup Seq(Data)], y \in [Ids -> Data \cup {None}] :
        tmp' = [tmp EXCEPT !.tmd = None, !.raw = x, !.app = y]
  BY <1>1, <1>2
<1>4. [tmp EXCEPT !.tmd = None, !.raw = x, !.app = y] \in TmpFiles
  BY DEF TypedOK, TypeOK, TmpFiles
<1> QED
  BY <1>3, <1>4

\* Private contents.
LEMMA PrivateType ==
  ASSUME TypedOK, FinishPrivate
  PROVE  TypedOK'
<1>1. /\ AtContent /\ req.op = "finish" /\ faults' \in 0 .. MaxFaults
      /\ UNCHANGED <<ticket, tmd, shared1, map, uid, cut, ram>>
  BY Faulty DEF FinishPrivate, AtContent, TypedOK
<1>2. tmp' \in TmpFiles
  BY <1>1, DropType DEF FinishPrivate, TypedOK, TypeOK
<1>3. req.title \in Titles /\ Current.id \in Ids /\ App \in Data \cup {None}
  BY <1>1, CurrentType DEF TypedOK, RequestOK
<1>4. \/ content' = content
      \/ content' = [content EXCEPT ![req.title][Current.id] = App]
      \/ content' = [content EXCEPT ![req.title][Current.id] = None]
  BY DEF FinishPrivate
<1>5. content' \in [Titles -> [Ids -> Data \cup {None}]]
  <2>1. CASE content' = content
    BY <2>1 DEF TypedOK, TypeOK
  <2>2. CASE content' = [content EXCEPT ![req.title][Current.id] = App]
    BY <1>3, <2>2 DEF TypedOK, TypeOK
  <2>3. CASE content' = [content EXCEPT ![req.title][Current.id] = None]
    BY <1>3, <2>3 DEF TypedOK, TypeOK
  <2> QED
    BY <1>4, <2>1, <2>2, <2>3
<1>6. NextContent(ES_SUCCESS) \/ Break(ES_NFOUND)
  BY DEF FinishPrivate
<1>7. req' \in Step /\ reply' \in Answer /\ RequestOK'
  BY <1>1, <1>6, LoopSteps, Codes DEF ram
<1> QED
  BY <1>1, <1>2, <1>5, <1>7 DEF TypedOK, TypeOK, ram, Answer

\* The end of an import.
LEMMA FinishType ==
  ASSUME TypedOK,
         \/ AddTitleFinish \/ FinishLoop \/ FinishTmd_Overwrite \/ FinishTmd_Move
         \/ FinishClose \/ AddTitleCancel
  PROVE  TypedOK'
<1>1. CASE AddTitleFinish
  <2>1. iTMD \in Tmds /\ iTMD.title \in Titles
    BY <1>1, Contents DEF AddTitleFinish, TypedOK, TypeOK
  <2> DEFINE q == [Idle EXCEPT !.op = "finish", !.title = iTMD.title, !.i = 1, !.r = ES_FATAL]
  <2>2. q \in Step
    BY <2>1, Steps, Codes
  <2>3. req' = q /\ req' \in Step /\ reply' \in Answer
    BY <1>1, <2>2, Began DEF AddTitleFinish
  <2>4. req'.op = "finish" /\ req'.title = iTMD.title /\ req'.i = 1
    BY <2>3 DEF Idle
  <2> QED
    BY <1>1, <2>1, <2>3, <2>4 DEF AddTitleFinish, TypedOK, TypeOK, RequestOK, nand, ram, Answer
<1>2. CASE FinishLoop
  BY <1>2, LoopSteps DEF FinishLoop, TypedOK, TypeOK, nand, ram, Answer
<1>3. CASE FinishTmd_Overwrite
  <2>1. faults' \in 0 .. MaxFaults
    BY <1>3, Faulty DEF FinishTmd_Overwrite, TypedOK
  <2> QED
    BY <1>3, <2>1 DEF FinishTmd_Overwrite, TypedOK, TypeOK, RequestOK, ram, Current
<1>4. CASE FinishTmd_Move
  <2>1. /\ faults' \in 0 .. MaxFaults /\ req.op = "tmd" /\ iTMD \in Tmds /\ req.title \in Titles
        /\ req \in Step
        /\ UNCHANGED <<ticket, content, shared1, map, uid, ram>>
    BY <1>4, Faulty DEF FinishTmd_Move, TypedOK, TypeOK, RequestOK
  <2>2. PICK r \in Int : Break(r)
    BY <1>4, Codes DEF FinishTmd_Move
  <2>3. req' = [req EXCEPT !.op = "close", !.r = r] /\ req' \in Step /\ reply' \in Answer
    BY <2>1, <2>2, Steps, Began DEF Break
  <2>4. req'.op = "close" /\ req'.title = req.title
    BY <2>1, <2>3 DEF Step
  <2>5. RequestOK'
    BY <2>1, <2>4 DEF RequestOK, ram
  <2>6. tmp' \in TmpFiles
    BY <1>4 DEF FinishTmd_Move, TypedOK, TypeOK, TmpFiles
  <2>7. tmd' \in [Titles -> Tmds \cup {None, Torn}] /\ cut' \subseteq Titles
    BY <1>4, <2>1 DEF FinishTmd_Move, TypedOK, TypeOK, TmpFiles
  <2> QED
    BY <2>1, <2>3, <2>5, <2>6, <2>7 DEF TypedOK, TypeOK, ram, Answer
<1>5. CASE FinishClose
  <2>1. req' \in Step /\ req'.op = "idle" /\ reply' \in Answer
    BY <1>5, Replied DEF FinishClose, Calls, TypedOK, TypeOK, Step
  <2>2. tmp' \in TmpFiles
    BY <1>5, CleanType DEF FinishClose
  <2> QED
    BY <1>5, <2>1, <2>2, IdleOK DEF FinishClose, TypedOK, TypeOK, nand, Answer
<1>6. CASE AddTitleCancel
  <2>1. req' \in Step /\ req'.op = "idle" /\ reply' \in Answer
    BY <1>6, Replied, Codes DEF AddTitleCancel, Calls
  <2>2. tmp' \in TmpFiles
    BY <1>6, CleanType DEF AddTitleCancel, TypedOK, TypeOK
  <2> QED
    BY <1>6, <2>1, <2>2, IdleOK DEF AddTitleCancel, TypedOK, TypeOK, nand, Answer
<1> QED
  BY <1>1, <1>2, <1>3, <1>4, <1>5, <1>6

\* Deletions, and the power.
LEMMA DeleteType ==
  ASSUME TypedOK,
         \/ \E t \in Titles : DeleteTitleContent(t)
         \/ DeleteFile \/ DeleteEnd \/ Restart
  PROVE  TypedOK'
<1>1. ASSUME NEW t \in Titles, DeleteTitleContent(t) PROVE TypedOK'
  <2>1. /\ req' = [Idle EXCEPT !.op = "delete", !.title = t]
        /\ req' \in Step /\ reply' \in Answer
    BY <1>1, Steps, Began DEF DeleteTitleContent, Ops
  <2>2. req'.op = "delete" /\ req'.title = t
    BY <2>1 DEF Idle
  <2> QED
    BY <1>1, <2>1, <2>2
    DEF DeleteTitleContent, TypedOK, TypeOK, RequestOK, nand, ram, Answer
<1>2. CASE DeleteFile
  <2>1. /\ faults' \in 0 .. MaxFaults /\ req.title \in Titles /\ req.op = "delete"
        /\ UNCHANGED <<ticket, shared1, map, uid, cut, tmp, ram, req, reply>>
    BY <1>2, Faulty DEF DeleteFile, TypedOK, RequestOK
  <2>2. \/ /\ \E c \in Ids : content' = [content EXCEPT ![req.title][c] = None]
           /\ tmd' = tmd
        \/ /\ tmd' = [tmd EXCEPT ![req.title] = None]
           /\ content' = content
    BY <1>2 DEF DeleteFile
  <2>3. ASSUME NEW c \in Ids, content' = [content EXCEPT ![req.title][c] = None]
        PROVE  content' \in [Titles -> [Ids -> Data \cup {None}]]
    BY <2>1, <2>3 DEF TypedOK, TypeOK
  <2>4. /\ content' \in [Titles -> [Ids -> Data \cup {None}]]
        /\ tmd' \in [Titles -> Tmds \cup {None, Torn}]
    BY <2>1, <2>2, <2>3 DEF TypedOK, TypeOK
  <2> QED
    BY <2>1, <2>4 DEF TypedOK, TypeOK, RequestOK, ram
<1>3. CASE DeleteEnd
  <2>1. /\ faults' \in 0 .. MaxFaults /\ req.title \in Titles
        /\ UNCHANGED <<ticket, tmd, content, shared1, map, uid, tmp, ram>>
    BY <1>3, Faulty DEF DeleteEnd, TypedOK, RequestOK
  <2>2. \E r \in {ES_SUCCESS, ES_NFOUND, FS_FATAL} : Reply("DeleteTitleContent", r)
    BY <1>3 DEF DeleteEnd
  <2>3. req' \in Step /\ req'.op = "idle" /\ reply' \in Answer
    BY <2>2, Replied, Codes DEF Calls
  <2>4. cut' \subseteq Titles
    BY <1>3, <2>1 DEF DeleteEnd, TypedOK, TypeOK
  <2> QED
    BY <2>1, <2>3, <2>4, IdleOK DEF TypedOK, TypeOK, ram, Answer
<1>4. CASE Restart
  <2>1. req' \in Step /\ req'.op = "idle" /\ reply' \in Answer
    <3>1. req' = Idle /\ reply' = [op |-> "none", ret |-> 0]
      BY <1>4 DEF Restart
    <3>2. Idle.op = "idle"
      BY DEF Idle
    <3>3. reply' \in Answer
      BY <3>1 DEF Answer, Calls
    <3> QED
      BY <3>1, <3>2, <3>3, Steps
  <2>2. cut' \subseteq Titles
    BY <1>4 DEF Restart, TypedOK, TypeOK, RequestOK
  <2> QED
    BY <1>4, <2>1, <2>2, TmpUpdates, IdleOK DEF Restart, TypedOK, TypeOK, Answer
<1> QED
  BY <1>1, <1>2, <1>3, <1>4

\* Every step keeps the types.
LEMMA StepTyped == TypedOK /\ [Next]_vars => TypedOK'
<1>1. ASSUME TypedOK, Next PROVE TypedOK'
  <2>1. CASE Request
    BY <1>1, <2>1, TicketType, UidType, DeleteType, TitleStartType, ContentType, FinishType
    DEF Request
  <2>2. CASE Work
    BY <1>1, <2>2, TicketType, UidType, SharedType, PrivateType, FinishType, DeleteType
    DEF Work
  <2> QED
    BY <1>1, <2>1, <2>2, DeleteType DEF Next
<1>2. ASSUME TypedOK, UNCHANGED vars PROVE TypedOK'
  BY <1>2 DEF vars, nand, ram, TypedOK, TypeOK, RequestOK, Current
<1> QED
  BY <1>1, <1>2

\* The files and variables of the title import have the types of the
\* structures of es/ES.c they stand for, whatever fails.
THEOREM TypeCorrect == Spec => []TypeOK
<1>1. TypedOK => TypeOK
  BY DEF TypedOK
<1> QED
  BY <1>1, InitTyped, StepTyped, PTL DEF Spec

-----------------------------------------------------------------------------
(***************************************************************************)
(* content.map and the files of /shared1.                                  *)
(***************************************************************************)

\* The operation of the next request.
LEMMA NextOp ==
  ASSUME TypedOK
  PROVE  /\ \A op, r : Reply(op, r) => req'.op = "idle"
         /\ \A op : Goto(op) => req'.op = op /\ req'.i = req.i /\ req'.title = req.title
         /\ \A r : NextContent(r) =>
              req'.op = "finish" /\ req'.i = req.i + 1 /\ req'.title = req.title
         /\ \A r : Break(r) => req'.op = "close"
         /\ \A r : GotUID(r) => req'.op = "idle"
<1>1. req \in Step
  BY DEF TypedOK, TypeOK
<1>2. \A op, r : Reply(op, r) => req'.op = "idle"
  BY DEF Reply, Idle
<1>3. ASSUME NEW op, Goto(op) PROVE req'.op = op /\ req'.i = req.i /\ req'.title = req.title
  BY <1>1, <1>3 DEF Goto, Go, Step
<1>4. ASSUME NEW r, NextContent(r)
      PROVE  req'.op = "finish" /\ req'.i = req.i + 1 /\ req'.title = req.title
  BY <1>1, <1>4 DEF NextContent, Go, Step
<1>5. ASSUME NEW r, Break(r) PROVE req'.op = "close"
  BY <1>1, <1>5 DEF Break, Go, Step
<1>6. \A r : GotUID(r) => req'.op = "idle"
  BY <1>2 DEF GotUID
<1> QED
  BY <1>2, <1>3, <1>4, <1>5, <1>6

\* The steps that do not work on a shared content.
Unshared ==
  \/ \E t \in Titles : AddTicket(t) \/ ES_SetUID(t) \/ DeleteTitleContent(t)
  \/ \E m \in Tmds : AddTitleStart(m)
  \/ \E c \in Ids : (\E d \in Data : AddContentData(c, d)) \/ AddContentFinish(c)
  \/ AddTitleFinish \/ AddTitleCancel
  \/ AddTicket_Overwrite \/ AddTicket_Move
  \/ GetUID_Create \/ GetUID_Default \/ GetUID
  \/ FinishPrivate \/ FinishLoop
  \/ FinishTmd_Overwrite \/ FinishTmd_Move \/ FinishClose
  \/ DeleteFile \/ DeleteEnd \/ Restart

\* They leave content.map and its files alone.
LEMMA UnsharedFrame ==
  ASSUME TypedOK, Unshared
  PROVE  /\ UNCHANGED <<map, shared1>> /\ CNTMap' \in {CNTMap, Dirty}
         /\ req'.op \notin {"share", "map"}
<1>1. ASSUME NEW t \in Titles, AddTicket(t) \/ ES_SetUID(t) \/ DeleteTitleContent(t)
      PROVE  /\ UNCHANGED <<map, shared1, CNTMap>> /\ req'.op \notin {"share", "map"}
  BY <1>1, NextOp DEF AddTicket, ES_SetUID, DeleteTitleContent, nand, ram, Go, Idle
<1>2. ASSUME NEW m \in Tmds, AddTitleStart(m)
      PROVE  /\ UNCHANGED <<map, shared1, CNTMap>> /\ req'.op \notin {"share", "map"}
  BY <1>2, NextOp DEF AddTitleStart, nand, Go, Idle
<1>3. ASSUME NEW c \in Ids, (\E d \in Data : AddContentData(c, d)) \/ AddContentFinish(c)
      PROVE  /\ UNCHANGED <<map, shared1, CNTMap>> /\ req'.op \notin {"share", "map"}
  BY <1>3, NextOp DEF AddContentData, AddContentFinish, Decrypt, nand, ram
<1>4. CASE AddTitleFinish \/ AddTitleCancel
  BY <1>4, NextOp DEF AddTitleFinish, AddTitleCancel, nand, ram, Go, Idle
<1>5. CASE AddTicket_Overwrite \/ AddTicket_Move
  BY <1>5, NextOp DEF AddTicket_Overwrite, AddTicket_Move, ram
<1>6. CASE GetUID_Create \/ GetUID_Default \/ GetUID
  BY <1>6, NextOp DEF GetUID_Create, GetUID_Default, GetUID, ram
<1>7. CASE FinishPrivate
  <2>1. NextContent(ES_SUCCESS) \/ Break(ES_NFOUND)
    BY <1>7 DEF FinishPrivate
  <2>2. UNCHANGED <<map, shared1, CNTMap>>
    BY <1>7 DEF FinishPrivate, ram
  <2> QED
    BY <2>1, <2>2, NextOp
<1>8. CASE FinishLoop \/ FinishClose
  BY <1>8, NextOp DEF FinishLoop, FinishClose, nand, ram
<1>9. CASE FinishTmd_Overwrite \/ FinishTmd_Move
  BY <1>9, NextOp DEF FinishTmd_Overwrite, FinishTmd_Move, ram
<1>10. CASE DeleteFile \/ DeleteEnd
  BY <1>10, NextOp DEF DeleteFile, DeleteEnd, ram
<1>11. CASE Restart
  BY <1>11 DEF Restart, Idle
<1> QED
  BY <1>1, <1>2, <1>3, <1>4, <1>5, <1>6, <1>7, <1>8, <1>9, <1>10, <1>11 DEF Unshared

\* The initial map is backed and has no sum twice.
LEMMA InitMapOK == Init => MapOK
<1>1. SUFFICES ASSUME Init PROVE MapOK
  OBVIOUS
<1>2. /\ map = InitMap /\ shared1 = [i \in 0 .. Len(InitMap) - 1 |-> InitMap[i + 1]]
      /\ CNTMap = Dirty /\ req.op = "idle"
  BY <1>1 DEF Init, Idle
<1>3. InitMap \in Seq(Hashes)
  BY ESAssumption
<1>4. MapBacked
  BY <1>2, <1>3 DEF MapBacked
<1>5. MapDistinct
  BY <1>2, ESAssumption DEF MapDistinct
<1> QED
  BY <1>2, <1>4, <1>5 DEF MapOK

\* What ES finds out about a hash is true of the file.
LEMMA CheckTrue ==
  ASSUME MapOK, NEW h, NEW r, ES_CheckSharedContent(h, r)
  PROVE  CNTMap' \in {Dirty, map} /\ (r = 0 => h \notin Range(map))
  BY DEF ES_CheckSharedContent, MapOK, ES_FATAL

\* content.map stays sound when a shared content gets its file and its entry.
LEMMA SharedMapOK ==
  ASSUME TypedOK, MapOK,
         \/ FinishShared \/ FinishShared_Overwrite \/ FinishShared_Move
         \/ FinishShared_Missing \/ FinishShared_Lost \/ FinishShared_Map
  PROVE  MapOK'
<1>0. map \in Seq(Hashes) /\ Len(map) \in Nat
  BY DEF TypedOK, TypeOK
<1>1. CASE FinishShared
  <2>1. PICK r \in Checks :
          /\ ES_CheckSharedContent(Current.hash, r)
          /\ \/ NextContent(req.r)
             \/ r = 0 /\ Goto("share")
    BY <1>1 DEF FinishShared
  <2>2. UNCHANGED <<map, shared1, iTMD>>
    BY <1>1 DEF FinishShared, nand
  <2>3. CNTMap' \in {Dirty, map} /\ (r = 0 => Current.hash \notin Range(map))
    BY <2>1, CheckTrue
  <2>4. CASE NextContent(req.r)
    BY <2>2, <2>3, <2>4, NextOp DEF MapOK, MapBacked, MapDistinct
  <2>5. CASE r = 0 /\ Goto("share")
    <3>1. req'.op = "share" /\ req'.i = req.i
      BY <2>5, NextOp
    <3>2. Current' = Current
      BY <2>2, <3>1 DEF Current
    <3> QED
      BY <2>2, <2>3, <2>5, <3>1, <3>2 DEF MapOK, MapBacked, MapDistinct
  <2> QED
    BY <2>1, <2>4, <2>5
<1>2. CASE FinishShared_Overwrite
  <2>1. /\ shared1' = Restrict(shared1, DOMAIN shared1 \ {Len(map)})
        /\ UNCHANGED <<map, ram, req>> /\ req.op = "share"
    BY <1>2 DEF FinishShared_Overwrite
  <2>2. \A i \in DOMAIN map : i - 1 \in DOMAIN shared1 /\ i - 1 # Len(map)
    BY <1>0 DEF MapOK, MapBacked
  <2>3. MapBacked'
    BY <2>1, <2>2 DEF MapBacked, Restrict
  <2> QED
    BY <2>1, <2>3 DEF MapOK, MapDistinct, Current, ram
<1>3. CASE FinishShared_Move
  <2>1. /\ shared1' = With(shared1, Len(map), App) /\ Goto("map")
        /\ UNCHANGED <<map, ram>> /\ req.op = "share"
    BY <1>3 DEF FinishShared_Move
  <2>2. DOMAIN shared1' = DOMAIN shared1 \cup {Len(map)}
    BY <2>1 DEF With
  <2>3. req'.op = "map" /\ req'.i = req.i
    BY <2>1, NextOp
  <2>4. Current' = Current
    BY <2>1, <2>3 DEF Current, ram
  <2> QED
    BY <2>1, <2>2, <2>3, <2>4 DEF MapOK, MapBacked, MapDistinct, ram
<1>4. CASE FinishShared_Missing
  <2>1. req'.op \in {"finish", "idle"}
    BY <1>4, NextOp DEF FinishShared_Missing
  <2> QED
    BY <1>4, <2>1 DEF FinishShared_Missing, MapOK, MapBacked, MapDistinct, nand
<1>5. CASE FinishShared_Lost
  <2>1. req'.op = "finish"
    BY <1>5, NextOp DEF FinishShared_Lost
  <2> QED
    BY <1>5, <2>1 DEF FinishShared_Lost, MapOK, MapBacked, MapDistinct, nand
<1>6. CASE FinishShared_Map
  <2>1. req.op = "map" /\ req'.op = "finish" /\ CNTMap' = Dirty /\ shared1' = shared1
    BY <1>6, NextOp DEF FinishShared_Map
  <2>2. CASE map' = map
    BY <2>1, <2>2 DEF MapOK, MapBacked, MapDistinct
  <2>3. CASE map' = Append(map, Current.hash)
    <3>1. /\ DOMAIN map' = 1 .. Len(map) + 1
          /\ \A i \in 1 .. Len(map) : map'[i] = map[i]
          /\ map'[Len(map) + 1] = Current.hash
          /\ DOMAIN map = 1 .. Len(map)
      BY <1>0, <2>3
    <3>2. \A i \in 1 .. Len(map) : map[i] # Current.hash
      BY <2>1, <3>1 DEF MapOK, Range
    <3>3. MapBacked'
      BY <1>0, <2>1, <3>1 DEF MapOK, MapBacked
    <3>4. MapDistinct'
      BY <1>0, <3>1, <3>2 DEF MapOK, MapDistinct
    <3> QED
      BY <2>1, <3>3, <3>4 DEF MapOK
  <2> QED
    BY <1>6, <2>2, <2>3 DEF FinishShared_Map
<1> QED
  BY <1>1, <1>2, <1>3, <1>4, <1>5, <1>6

\* Every step is one on a shared content, the start of a content, or another.
LEMMA StepKinds ==
  ASSUME Next
  PROVE  \/ Unshared
         \/ \E c \in Ids : AddContentStart(c)
         \/ FinishShared \/ FinishShared_Overwrite \/ FinishShared_Move
         \/ FinishShared_Missing \/ FinishShared_Lost \/ FinishShared_Map
  BY DEF Next, Request, Work, Unshared

\* Every step keeps content.map sound.
LEMMA StepMapOK == TypedOK /\ MapOK /\ [Next]_vars => MapOK'
<1>1. ASSUME TypedOK, MapOK, Unshared PROVE MapOK'
  <2>1. /\ UNCHANGED <<map, shared1>> /\ CNTMap' \in {CNTMap, Dirty}
        /\ req'.op \notin {"share", "map"}
    BY <1>1, UnsharedFrame
  <2> QED
    BY <1>1, <2>1 DEF MapOK, MapBacked, MapDistinct
<1>2. ASSUME TypedOK, MapOK, NEW c \in Ids, AddContentStart(c) PROVE MapOK'
  <2>1. req'.op = "idle" /\ UNCHANGED <<map, shared1>>
    BY <1>2, NextOp DEF AddContentStart, nand
  <2>2. CNTMap' \in {Dirty, map}
    BY <1>2, CheckTrue DEF AddContentStart, MapOK
  <2> QED
    BY <1>2, <2>1, <2>2 DEF MapOK, MapBacked, MapDistinct
<1>3. ASSUME MapOK, UNCHANGED vars PROVE MapOK'
  BY <1>3 DEF vars, nand, ram, MapOK, MapBacked, MapDistinct, Current
<1> QED
  BY <1>1, <1>2, <1>3, SharedMapOK, StepKinds

\* Every entry of content.map has its file, whenever the power goes off.
THEOREM EntriesBacked == Spec => []MapBacked
<1>1. TypedOK /\ MapOK => MapBacked
  BY DEF MapOK
<1> QED
  BY <1>1, InitTyped, InitMapOK, StepTyped, StepMapOK, PTL DEF Spec

\* No content is entered in content.map twice.
THEOREM EntriesDistinct == Spec => []MapDistinct
<1>1. TypedOK /\ MapOK => MapDistinct
  BY DEF MapOK
<1> QED
  BY <1>1, InitTyped, InitMapOK, StepTyped, StepMapOK, PTL DEF Spec

\* content.map names only files that are there, and no content twice.
THEOREM MapSound == Spec => []MapRight
<1> QED
  BY EntriesBacked, EntriesDistinct, PTL DEF MapRight

\* The file of an entry of content.map is never taken away or replaced.
THEOREM SharedKept == Spec => SharedStable
<1>1. ASSUME TypedOK, MapOK, [Next]_vars
      PROVE  [\A i \in DOMAIN map : /\ i - 1 \in DOMAIN shared1'
                                    /\ shared1'[i - 1] = shared1[i - 1]]_vars
  <2>0. map \in Seq(Hashes) /\ \A i \in DOMAIN map : i - 1 \in DOMAIN shared1 /\ i - 1 # Len(map)
    BY <1>1 DEF TypedOK, TypeOK, MapOK, MapBacked
  <2>1. CASE FinishShared_Overwrite
    BY <2>0, <2>1 DEF FinishShared_Overwrite, Restrict
  <2>2. CASE FinishShared_Move
    BY <2>0, <2>2 DEF FinishShared_Move, With
  <2>3. CASE shared1' = shared1
    BY <2>0, <2>3
  <2>4. FinishShared_Overwrite \/ FinishShared_Move \/ shared1' = shared1 \/ UNCHANGED vars
    <3>1. CASE Unshared
      BY <1>1, <3>1, UnsharedFrame
    <3>2. CASE (\E c \in Ids : AddContentStart(c)) \/ FinishShared \/ FinishShared_Missing
                 \/ FinishShared_Lost \/ FinishShared_Map
      BY <3>2 DEF AddContentStart, FinishShared, FinishShared_Missing, FinishShared_Lost,
                  FinishShared_Map, nand
    <3> QED
      BY <1>1, <3>1, <3>2, StepKinds
  <2> QED
    BY <2>1, <2>2, <2>3, <2>4
<1> QED
  BY <1>1, InitTyped, InitMapOK, StepTyped, StepMapOK, PTL DEF Spec, SharedStable

-----------------------------------------------------------------------------
(***************************************************************************)
(* User IDs, and the order of the end of an import.                        *)
(***************************************************************************)

\* uid.sys only grows at its end: every title keeps its ID.
THEOREM UidsKept == Spec => UidStable
<1>1. ASSUME TypedOK, [Next]_vars
      PROVE  [uid # None => /\ uid' # None
                            /\ \A i \in DOMAIN uid : i \in DOMAIN uid' /\ uid'[i] = uid[i]]_vars
  <2>1. SUFFICES ASSUME uid # None
                 PROVE  /\ uid' # None
                        /\ \A i \in DOMAIN uid : i \in DOMAIN uid' /\ uid'[i] = uid[i]
    OBVIOUS
  <2>2. uid \in Seq(Titles)
    BY <1>1, <2>1 DEF TypedOK, TypeOK
  <2>3. \A s \in Seq(Titles) : s # None
    BY ESAssumption
  <2>4. CASE uid' = uid
    BY <2>1, <2>4
  <2>5. CASE GetUID_Default
    <3>1. uid = <<>> /\ (uid' = uid \/ uid' = <<SysMenu>>)
      BY <1>1, <2>5 DEF GetUID_Default, TypedOK, RequestOK
    <3>2. <<>> \in Seq(Titles) /\ <<SysMenu>> \in Seq(Titles)
      BY ESAssumption
    <3>3. \A i \in DOMAIN uid : FALSE
      BY <3>1
    <3>4. uid' # None
      BY <2>3, <3>1, <3>2
    <3> QED
      BY <3>3, <3>4
  <2>6. CASE GetUID
    <3>1. req.title \in Titles /\ (uid' = uid \/ uid' = Append(uid, req.title))
      BY <1>1, <2>6 DEF GetUID, TypedOK, RequestOK
    <3>2. Append(uid, req.title) \in Seq(Titles)
      BY <2>2, <3>1
    <3>3. \A i \in DOMAIN uid : /\ i \in DOMAIN Append(uid, req.title)
                                /\ Append(uid, req.title)[i] = uid[i]
      BY <2>2
    <3> QED
      BY <2>1, <2>3, <3>1, <3>2, <3>3
  <2>7. uid' = uid \/ GetUID_Default \/ GetUID
    <3>1. CASE GetUID_Create
      BY <2>1, <3>1 DEF GetUID_Create
    <3>2. CASE Request
      BY <3>2 DEF Request, AddTicket, ES_SetUID, DeleteTitleContent, AddTitleStart,
         AddContentStart, AddContentData, AddContentFinish, AddTitleFinish, AddTitleCancel, nand
    <3>3. CASE Restart \/ UNCHANGED vars
      BY <3>3 DEF Restart, vars, nand
    <3>4. CASE AddTicket_Overwrite \/ AddTicket_Move
      BY <3>4 DEF AddTicket_Overwrite, AddTicket_Move
    <3>5. CASE FinishShared \/ FinishShared_Overwrite \/ FinishShared_Move
               \/ FinishShared_Missing \/ FinishShared_Lost \/ FinishShared_Map
      BY <3>5 DEF FinishShared, FinishShared_Overwrite, FinishShared_Move,
         FinishShared_Missing, FinishShared_Lost, FinishShared_Map, nand
    <3>6. CASE FinishPrivate \/ FinishLoop \/ FinishTmd_Overwrite \/ FinishTmd_Move
               \/ FinishClose
      BY <3>6 DEF FinishPrivate, FinishLoop, FinishTmd_Overwrite, FinishTmd_Move,
         FinishClose, nand
    <3>7. CASE DeleteFile \/ DeleteEnd
      BY <3>7 DEF DeleteFile, DeleteEnd
    <3> QED
      BY <1>1, <3>1, <3>2, <3>3, <3>4, <3>5, <3>6, <3>7 DEF Next, Work
  <2> QED
    BY <2>4, <2>5, <2>6, <2>7
<1> QED
  BY <1>1, InitTyped, StepTyped, PTL DEF Spec, UidStable

\* What titles share is never lost: the files of shared contents and the user IDs.
THEOREM SharedNeverLost == Spec => NothingLost
<1> QED
  BY SharedKept, UidsKept DEF NothingLost

\* Before an import ends there is nothing to place.
LEMMA CommitIdle ==
  req'.op \notin {"finish", "share", "map", "tmd"} => CommitOK'
  BY DEF CommitOK

\* Nothing disturbs the contents in place when contents and TMD stay.
LEMMA PlacedFrame ==
  ASSUME NEW n, Placed(n), UNCHANGED <<content, iTMD>>, req'.title = req.title
  PROVE  Placed(n)'
  BY DEF Placed

\* The step past a content that is in place or need not be.
LEMMA PlacedNext ==
  ASSUME TypedOK, AtContent \/ req.op \in {"share", "map"}, Placed(req.i),
         UNCHANGED <<content, iTMD>>,
         \/ Current.shared \/ Current.optional
         \/ content[req.title][Current.id] # None,
         req'.op = "finish", req'.i = req.i + 1, req'.title = req.title
  PROVE  CommitOK'
<1>1. req.i \in Nat /\ iTMD \in Tmds
  BY CurrentType
<1>2. \A j \in DOMAIN iTMD.contents : j \in Nat
  BY <1>1, Contents
<1>3. \A j \in DOMAIN iTMD.contents : j < req.i + 1 => j < req.i \/ j = req.i
  BY <1>1, <1>2
<1>4. Placed(req.i)'
  BY <1>3 DEF Placed, Current
<1> QED
  BY <1>4 DEF CommitOK

\* The loop keeps what it has placed.
LEMMA StepCommitOK == TypedOK /\ MapOK /\ CommitOK /\ [Next]_vars => CommitOK'
<1>0. SUFFICES ASSUME TypedOK, CommitOK, [Next]_vars PROVE CommitOK'
  OBVIOUS
<1>1. CASE FinishPrivate
  <2>1. AtContent /\ req.op = "finish" /\ iTMD' = iTMD
    BY <1>1 DEF FinishPrivate, AtContent, ram
  <2>2. /\ iTMD \in Tmds /\ req.i \in DOMAIN iTMD.contents /\ req.i \in Nat
        /\ Current.id \in Ids /\ req.title \in Titles /\ Placed(req.i)
    BY <1>0, <2>1, CurrentType DEF TypedOK, RequestOK, CommitOK
  <2>3. CASE Break(ES_NFOUND)
    BY <1>0, <2>3, NextOp, CommitIdle
  <2>4. CASE NextContent(ES_SUCCESS)
    <3>1. req'.op = "finish" /\ req'.i = req.i + 1 /\ req'.title = req.title
      BY <1>0, <2>4, NextOp
    <3>2. ~ Break(ES_NFOUND)
      BY <1>0, <3>1, NextOp
    <3>3. CASE content' = content /\ (Current.optional \/ content[req.title][Current.id] # None)
      BY <1>0, <2>1, <2>2, <3>1, <3>3, PlacedNext
    <3>4. ASSUME NEW d, content' = [content EXCEPT ![req.title][Current.id] = d],
                 Current.optional \/ d # None
          PROVE  CommitOK'
      <4>1. content \in [Titles -> [Ids -> Data \cup {None}]]
        BY <1>0 DEF TypedOK, TypeOK
      <4>2. \A j \in DOMAIN iTMD.contents :
              /\ j \in Nat /\ iTMD.contents[j].id \in Ids
              /\ iTMD.contents[j].id = Current.id => j = req.i
        BY <2>2, Contents, ESAssumption DEF Current
      <4>3. \A c \in Ids : content'[req.title][c]
                             = IF c = Current.id THEN d ELSE content[req.title][c]
        BY <2>2, <3>4, <4>1
      <4>4. ASSUME NEW j \in DOMAIN iTMD.contents, j < req.i + 1
            PROVE  \/ iTMD.contents[j].shared \/ iTMD.contents[j].optional
                   \/ content'[req.title][iTMD.contents[j].id] # None
        <5>1. CASE j = req.i
          BY <2>2, <3>4, <4>2, <4>3, <5>1 DEF Current
        <5>2. CASE j # req.i
          <6>1. j < req.i
            BY <2>2, <4>2, <4>4, <5>2
          <6> QED
            BY <2>2, <4>2, <4>3, <5>2, <6>1 DEF Placed
        <5> QED
          BY <5>1, <5>2
      <4>5. Placed(req.i)'
        BY <2>1, <3>1, <4>4 DEF Placed
      <4> QED
        BY <3>1, <4>5 DEF CommitOK
    <3>5. CASE content[req.title][Current.id] # None /\ UNCHANGED content
      BY <3>3, <3>5
    <3>6. CASE App # None /\ content' = [content EXCEPT ![req.title][Current.id] = App]
      BY <3>4, <3>6
    <3>7. CASE Current.optional /\ UNCHANGED content
      BY <3>3, <3>7
    <3>8. CASE Current.optional /\ content' = [content EXCEPT ![req.title][Current.id] = None]
      BY <3>4, <3>8
    <3> QED
      BY <1>1, <3>2, <3>5, <3>6, <3>7, <3>8 DEF FinishPrivate
  <2> QED
    BY <1>1, <2>3, <2>4 DEF FinishPrivate
<1>2. CASE \/ FinishShared \/ FinishShared_Overwrite \/ FinishShared_Move
           \/ FinishShared_Missing \/ FinishShared_Lost \/ FinishShared_Map
  <2>1. UNCHANGED <<content, iTMD>> /\ (AtContent \/ req.op \in {"share", "map"})
    BY <1>2 DEF FinishShared, FinishShared_Overwrite, FinishShared_Move,
       FinishShared_Missing, FinishShared_Lost, FinishShared_Map, nand, ram
  <2>2. Placed(req.i)
    BY <1>0, <2>1 DEF CommitOK, AtContent
  <2>3. Current.shared
    BY <1>0, <1>2 DEF FinishShared, FinishShared_Overwrite, FinishShared_Move,
       FinishShared_Missing, FinishShared_Lost, FinishShared_Map, TypedOK, RequestOK
  <2>4. \/ req'.op = "idle"
        \/ req'.op = "finish" /\ req'.i = req.i + 1 /\ req'.title = req.title
        \/ req'.op \in {"share", "map"} /\ req'.i = req.i /\ req'.title = req.title
    BY <1>0, <1>2, NextOp DEF FinishShared, FinishShared_Overwrite, FinishShared_Move,
       FinishShared_Missing, FinishShared_Lost, FinishShared_Map
  <2>5. CASE req'.op \in {"share", "map"} /\ req'.i = req.i /\ req'.title = req.title
    BY <2>1, <2>2, <2>5, PlacedFrame DEF CommitOK, Placed
  <2> QED
    BY <1>0, <2>1, <2>2, <2>3, <2>4, <2>5, CommitIdle, PlacedNext
<1>3. CASE FinishLoop
  <2>1. /\ req.op = "finish" /\ req.i > Len(iTMD.contents) /\ iTMD \in Tmds /\ Placed(req.i)
        /\ UNCHANGED <<content, iTMD>> /\ req.i \in Nat
    BY <1>0, <1>3 DEF FinishLoop, TypedOK, TypeOK, RequestOK, Step, CommitOK, nand, ram
  <2>2. req'.op \in {"tmd", "close"} /\ req'.title = req.title
    BY <1>0, <1>3, NextOp DEF FinishLoop
  <2>3. \A j \in DOMAIN iTMD.contents : j \in Nat /\ j <= Len(iTMD.contents)
    BY <2>1, Contents
  <2>4. \A j \in DOMAIN iTMD.contents : j < req.i
    BY <2>1, <2>3, Contents
  <2>5. Placed(Len(iTMD.contents) + 1)'
    BY <2>1, <2>2, <2>4 DEF Placed
  <2> QED
    BY <2>2, <2>5 DEF CommitOK
<1>4. CASE AddTitleFinish
  <2>1. req'.op = "finish" /\ req'.i = 1 /\ iTMD \in Tmds /\ iTMD' = iTMD
    BY <1>0, <1>4 DEF AddTitleFinish, Go, Idle, ram, TypedOK, TypeOK
  <2>2. \A j \in DOMAIN iTMD.contents : j \in Nat /\ j >= 1
    BY <2>1, Contents
  <2>3. Placed(1)'
    BY <2>1, <2>2 DEF Placed
  <2> QED
    BY <2>1, <2>3 DEF CommitOK
<1>5. CASE FinishTmd_Overwrite
  <2>1. req.op = "tmd" /\ UNCHANGED <<content, ram, req>>
    BY <1>5 DEF FinishTmd_Overwrite
  <2> QED
    BY <1>0, <2>1 DEF CommitOK, Placed, ram
<1>6. CASE UNCHANGED vars
  BY <1>0, <1>6 DEF CommitOK, Placed, vars, nand, ram
<1>7. ASSUME Next, ~ FinishPrivate, ~ FinishLoop, ~ AddTitleFinish, ~ FinishTmd_Overwrite,
             ~ FinishShared, ~ FinishShared_Overwrite, ~ FinishShared_Move,
             ~ FinishShared_Missing, ~ FinishShared_Lost, ~ FinishShared_Map
      PROVE  req'.op \notin {"finish", "share", "map", "tmd"}
  <2>1. ASSUME NEW t \in Titles, AddTicket(t) \/ ES_SetUID(t) \/ DeleteTitleContent(t)
        PROVE  req'.op \notin {"finish", "share", "map", "tmd"}
    BY <1>0, <2>1, NextOp DEF AddTicket, ES_SetUID, DeleteTitleContent, Go, Idle
  <2>2. ASSUME NEW m \in Tmds, AddTitleStart(m)
        PROVE  req'.op \notin {"finish", "share", "map", "tmd"}
    BY <1>0, <2>2, NextOp DEF AddTitleStart, Go, Idle
  <2>3. ASSUME NEW c \in Ids, \/ AddContentStart(c)
                              \/ \E d \in Data : AddContentData(c, d)
                              \/ AddContentFinish(c)
        PROVE  req'.op \notin {"finish", "share", "map", "tmd"}
    BY <1>0, <2>3, NextOp DEF AddContentStart, AddContentData, AddContentFinish, Decrypt
  <2>4. CASE AddTicket_Overwrite \/ AddTicket_Move
    BY <1>0, <2>4, NextOp DEF AddTicket_Overwrite, AddTicket_Move
  <2>5. CASE GetUID_Create \/ GetUID_Default \/ GetUID
    BY <1>0, <2>5, NextOp DEF GetUID_Create, GetUID_Default, GetUID
  <2>6. CASE FinishTmd_Move \/ FinishClose \/ AddTitleCancel
    BY <1>0, <2>6, NextOp DEF FinishTmd_Move, FinishClose, AddTitleCancel
  <2>7. CASE DeleteFile \/ DeleteEnd \/ Restart
    BY <1>0, <2>7, NextOp DEF DeleteFile, DeleteEnd, Restart, Idle
  <2> QED
    BY <1>7, <2>1, <2>2, <2>3, <2>4, <2>5, <2>6, <2>7 DEF Next, Request, Work
<1> QED
  BY <1>0, <1>1, <1>2, <1>3, <1>4, <1>5, <1>6, <1>7, CommitIdle

\* A TMD is only moved to its title while the mandatory private contents of
\* the import are in place, whatever calls came before and whatever failed.
THEOREM TmdMovedLast == Spec => CommitLast
<1>1. Init => CommitOK
  BY DEF Init, Idle, CommitOK
<1>2. ASSUME TypedOK, CommitOK, [Next]_vars
      PROVE  [\A t \in Titles : tmd'[t] \notin {None, tmd[t]} =>
                \A j \in DOMAIN iTMD.contents :
                  \/ iTMD.contents[j].shared \/ iTMD.contents[j].optional
                  \/ content[t][iTMD.contents[j].id] # None]_vars
  <2>1. tmd \in [Titles -> Tmds \cup {None, Torn}]
    BY <1>2 DEF TypedOK, TypeOK
  <2>2. CASE FinishTmd_Move
    <3>1. req.op = "tmd" /\ req.title \in Titles /\ iTMD \in Tmds
      BY <1>2, <2>2 DEF FinishTmd_Move, TypedOK, RequestOK
    <3>2. \A t \in Titles : tmd'[t] # tmd[t] => t = req.title
      BY <2>1, <2>2 DEF FinishTmd_Move
    <3>3. \A j \in DOMAIN iTMD.contents : j < Len(iTMD.contents) + 1
      BY <3>1, Contents
    <3> QED
      BY <1>2, <3>1, <3>2, <3>3 DEF CommitOK, Placed
  <2>3. CASE FinishTmd_Overwrite \/ DeleteFile
    <3>1. \A t \in Titles : tmd'[t] \in {None, tmd[t]}
      BY <2>1, <2>3 DEF FinishTmd_Overwrite, DeleteFile
    <3> QED
      BY <3>1
  <2>4. tmd' = tmd \/ FinishTmd_Move \/ FinishTmd_Overwrite \/ DeleteFile
    <3>1. CASE Request
      BY <3>1 DEF Request, AddTicket, ES_SetUID, DeleteTitleContent, AddTitleStart,
         AddContentStart, AddContentData, AddContentFinish, AddTitleFinish, AddTitleCancel, nand
    <3>2. CASE Restart \/ UNCHANGED vars
      BY <3>2 DEF Restart, vars, nand
    <3>3. CASE AddTicket_Overwrite \/ AddTicket_Move \/ GetUID_Create \/ GetUID_Default
               \/ GetUID \/ DeleteEnd
      BY <3>3 DEF AddTicket_Overwrite, AddTicket_Move, GetUID_Create, GetUID_Default,
         GetUID, DeleteEnd
    <3>4. CASE FinishShared \/ FinishShared_Overwrite \/ FinishShared_Move
               \/ FinishShared_Missing \/ FinishShared_Lost \/ FinishShared_Map
      BY <3>4 DEF FinishShared, FinishShared_Overwrite, FinishShared_Move,
         FinishShared_Missing, FinishShared_Lost, FinishShared_Map, nand
    <3>5. CASE FinishPrivate \/ FinishLoop \/ FinishClose
      BY <3>5 DEF FinishPrivate, FinishLoop, FinishClose, nand
    <3> QED
      BY <1>2, <3>1, <3>2, <3>3, <3>4, <3>5 DEF Next, Work
  <2>5. CASE tmd' = tmd
    BY <2>5
  <2> QED
    BY <2>2, <2>3, <2>4, <2>5
<1> QED
  BY <1>1, <1>2, InitTyped, InitMapOK, StepTyped, StepMapOK, StepCommitOK, PTL
  DEF Spec, CommitLast

=============================================================================
