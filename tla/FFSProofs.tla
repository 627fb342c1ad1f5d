------------------------------ MODULE FFSProofs ------------------------------
(***************************************************************************)
(* Theorems about FFS for any number of files, handles, clusters and       *)
(* directory entries, with every fault allowed, and, without faults, that  *)
(* FFS implements FileStore.                                               *)
(***************************************************************************)
EXTENDS FFSRefines, Counting, TLAPS

\* The initial state is well typed.
LEMMA InitTypeOK == Init => TypeOK
  BY FFSAssumption, SMT
  DEF Init, TypeOK, Clusters, EOC, BadClust, Slots, Fds, Entry, NoEntry, FIL,
      NoFile, Flags, Request, Idle, Loops, Reply, NoReply, Ops

USE FFSAssumption

\* Facts the provers do not find by themselves.
LEMMA Basics ==
  /\ <<>> \in Seq(Vals)
  /\ \A f \in Fds : f \in Int
  /\ 0 \in Fds
  /\ \A op \in {"none", "open", "close", "create", "read", "write", "seek", "delete",
                "move"} : op \in Ops
  BY DEF Fds, Ops, Loops

\* The end marks and the number of a cluster are values a field can hold.
LEMMA ClusterNumbers ==
  /\ \A c \in Clusters : c \in 0 .. BadClust
  /\ 0 \in 0 .. BadClust /\ BadClust \in 0 .. BadClust
  /\ EOC \notin Clusters /\ EOC # 0 /\ 0 \notin Clusters
  BY DEF Clusters, BadClust, EOC

\* A file object stays one when its fields are given values of their types.
LEMMA FileUpdates ==
  /\ \A h \in FIL : /\ h.flag \in SUBSET Flags /\ h.fptr \in Nat /\ h.fsize \in Nat
                    /\ h.org \in 0 .. BadClust /\ h.curr \in 0 .. BadClust
                    /\ h.ent \in 0 .. DirSize
  /\ \A h \in FIL, flag \in SUBSET Flags : [h EXCEPT !.flag = flag] \in FIL
  /\ \A h \in FIL, org \in 0 .. BadClust : [h EXCEPT !.org = org] \in FIL
  /\ \A h \in FIL, fptr \in Nat : [h EXCEPT !.fptr = fptr] \in FIL
  /\ \A h \in FIL, fptr \in Nat, curr \in 0 .. BadClust :
       /\ [h EXCEPT !.fptr = fptr, !.curr = curr] \in FIL
       /\ [h EXCEPT !.curr = curr, !.fptr = fptr] \in FIL
  /\ \A h \in FIL, curr \in 0 .. BadClust, org \in 0 .. BadClust :
       [h EXCEPT !.curr = curr, !.org = org] \in FIL
  /\ \A h \in FIL, fsize \in Nat, flag \in SUBSET Flags :
       [h EXCEPT !.fsize = fsize, !.flag = flag] \in FIL
  BY DEF FIL

\* The same for the request being worked on.
LEMMA RequestUpdates ==
  /\ \A r \in Request, left \in Nat : [r EXCEPT !.left = left] \in Request
  /\ \A r \in Request, left \in Nat, buf \in Seq(Vals) :
       [r EXCEPT !.left = left, !.buf = buf] \in Request
  /\ \A r \in Request, buf \in Seq(Vals) : [r EXCEPT !.buf = buf] \in Request
  /\ \A r \in Request, buf \in Seq(Vals), done \in Nat :
       [r EXCEPT !.buf = buf, !.done = done] \in Request
  /\ \A r \in Request, clst \in 0 .. BadClust : [r EXCEPT !.clst = clst] \in Request
  BY DEF Request

\* A new request with typed fields.
LEMMA NewRequest ==
  /\ \A op \in Loops, f \in Fds, left \in Nat :
       [Idle EXCEPT !.op = op, !.fd = f, !.left = left] \in Request
  /\ \A op \in Loops, f \in Fds, buf \in Seq(Vals) :
       [Idle EXCEPT !.op = op, !.fd = f, !.buf = buf] \in Request
  /\ \A op \in Loops, clst \in 0 .. BadClust,
         src \in Names \cup {NoName}, dst \in Names \cup {NoName} :
       [Idle EXCEPT !.op = op, !.clst = clst, !.src = src, !.dst = dst] \in Request
  BY Basics, ClusterNumbers DEF Idle, Request

\* An acknowledgement leaves the server idle.
LEMMA Answered ==
  ASSUME NEW op \in Ops, NEW ret \in Int, NEW buf \in Seq(Vals), Answer(op, ret, buf)
  PROVE  req' \in Request /\ reply' \in Reply
  BY Basics DEF Answer, Idle, Request, Reply, Loops, BadClust

\* Every error code is an integer.
LEMMA Errors ==
  FS_SUCCESS \in Int /\ FS_INVALID \in Int /\ FS_FATAL \in Int /\ FS_NO_ACCESS \in Int
  /\ FS_FILE_EXIST \in Int /\ FS_NO_ENTRY \in Int /\ FS_NO_HANDLE \in Int
  BY DEF FS_SUCCESS, FS_INVALID, FS_FATAL, FS_NO_ACCESS, FS_FILE_EXIST, FS_NO_ENTRY,
         FS_NO_HANDLE

\* A fault that is allowed is one of the three kinds.
LEMMA Failed ==
  ASSUME NEW fault, Fail(fault), TypeOK PROVE faults' \subseteq {"share", "io", "twin"}
  BY DEF Fail, TypeOK

\* Shared use adds at most the fault "share" to the history.
LEMMA Shared ==
  ASSUME NEW c, MayShare(c), TypeOK PROVE faults' \subseteq {"share", "io", "twin"}
  BY Failed DEF MayShare, TypeOK

\* A slot that f_open fills from an entry is well typed.
LEMMA OpenedType ==
  ASSUME TypeOK, NEW f \in Fds, NEW s \in Slots, NEW flag \in SUBSET Flags,
         NEW e \in Entry, Opened(f, s, flag, e)
  PROVE  fd_stack' \in [Fds -> FIL]
  BY DEF TypeOK, Opened, FIL, Entry, Slots, BadClust

\* FS_Open keeps the types, whichever of its outcomes it takes.
LEMMA OpenType ==
  ASSUME TypeOK, NEW n \in Names, NEW mode \in Modes, NEW nmh2 \in BOOLEAN,
         FS_Open(n, mode, nmh2)
  PROVE  TypeOK'
<1>0. mode \in SUBSET Flags /\ mode \cup {"WRITTEN"} \in SUBSET Flags
  BY DEF Flags
<1>1. CASE FS_Open_Found(n, mode)
  <2>1. PICK f \in Fds, s \in EntryOf(n) : /\ Opened(f, s, mode, dir[s])
                                           /\ Answer("open", f, <<>>)
    BY <1>1 DEF FS_Open_Found
  <2>2. s \in Slots /\ dir[s] \in Entry
    BY DEF EntryOf, TypeOK
  <2>3. fd_stack' \in [Fds -> FIL]
    BY <1>0, <2>1, <2>2, OpenedType
  <2>4. req' \in Request /\ reply' \in Reply
    BY <2>1, Basics, Answered
  <2>5. faults' \subseteq {"share", "io", "twin"}
    BY <1>1, Shared DEF FS_Open_Found
  <2> QED
    BY <1>1, <2>3, <2>4, <2>5 DEF FS_Open_Found, TypeOK
<1>2. CASE FS_Open_Missing(n, mode, nmh2)
  <2>1. PICK f \in Fds : FreeHandle(f) /\
       IF nmh2 /\ ~ DirFull
       THEN \E s \in Slots :
              /\ FreeEntry(s)
              /\ dir' = [dir EXCEPT ![s] = [NoEntry EXCEPT !.name = n]]
              /\ Opened(f, s, mode \cup {"WRITTEN"}, NoEntry)
              /\ Answer("open", f, <<>>)
       ELSE /\ Answer("open", FS_NO_ENTRY, <<>>)
            /\ UNCHANGED <<dir, fd_stack>>
    BY <1>2 DEF FS_Open_Missing
  <2>2. NoEntry \in Entry /\ [NoEntry EXCEPT !.name = n] \in Entry
    BY DEF NoEntry, Entry, BadClust
  <2>3. req' \in Request /\ reply' \in Reply
    BY <2>1, Basics, Answered, Errors
  <2>4. dir' \in [Slots -> Entry] /\ fd_stack' \in [Fds -> FIL]
    <3>1. CASE nmh2 /\ ~ DirFull
      BY <1>0, <2>1, <2>2, <3>1, OpenedType DEF TypeOK
    <3>2. CASE ~ (nmh2 /\ ~ DirFull)
      BY <2>1, <3>2 DEF TypeOK
    <3> QED BY <3>1, <3>2
  <2> QED
    BY <1>2, <2>3, <2>4 DEF FS_Open_Missing, TypeOK
<1>3. CASE FS_Open_NoHandle
  <2>1. req' \in Request /\ reply' \in Reply
    BY <1>3, Basics, Answered, Errors DEF FS_Open_NoHandle
  <2> QED
    BY <1>3, <2>1 DEF FS_Open_NoHandle, TypeOK
<1> QED
  BY <1>1, <1>2, <1>3 DEF FS_Open

\* FS_CreateFile keeps the types.
LEMMA CreateType == ASSUME TypeOK, NEW n \in Names, FS_CreateFile(n) PROVE TypeOK'
<1>1. req' \in Request /\ reply' \in Reply
  BY Basics, Answered, Errors DEF FS_CreateFile
<1>2. [NoEntry EXCEPT !.name = n] \in Entry
  BY DEF NoEntry, Entry, BadClust
<1>3. dir' \in [Slots -> Entry]
  BY <1>2 DEF FS_CreateFile, TypeOK
<1> QED
  BY <1>1, <1>3 DEF FS_CreateFile, TypeOK

\* FS_Close keeps the types: what f_sync writes back is an entry.
LEMMA CloseType == ASSUME TypeOK, NEW f \in Fds, FS_Close(f) PROVE TypeOK'
<1>1. req' \in Request /\ reply' \in Reply
  BY Basics, Answered, Errors DEF FS_Close
<1>2. fd_stack[f] \in FIL
  BY DEF TypeOK
<1>3. dir' \in [Slots -> Entry]
  <2>1. CASE f_sync(fd_stack[f])
    <3> DEFINE h == fd_stack[f]
    <3>1. h.org \in 0 .. BadClust /\ h.fsize \in Nat
      BY <1>2 DEF FIL
    <3>2. \A e \in Entry : [e EXCEPT !.clust = h.org, !.size = h.fsize] \in Entry
      BY <3>1 DEF Entry
    <3>3. CASE h.ent \in Slots
      <4>1. [dir[h.ent] EXCEPT !.clust = h.org, !.size = h.fsize] \in Entry
        BY <3>2, <3>3 DEF TypeOK
      <4> QED
        BY <2>1, <4>1 DEF f_sync, TypeOK
    <3>4. CASE h.ent \notin Slots
      BY <2>1, <3>4 DEF f_sync, TypeOK
    <3> QED
      BY <3>3, <3>4
  <2>2. CASE dir' = dir
    BY <2>2 DEF TypeOK
  <2> QED
    BY <2>1, <2>2 DEF FS_Close
<1>4. fd_stack' \in [Fds -> FIL]
  BY DEF FS_Close, TypeOK, NoFile, FIL, BadClust
<1>5. faults' \subseteq {"share", "io", "twin"}
  BY Failed DEF FS_Close, TypeOK
<1> QED
  BY <1>1, <1>3, <1>4, <1>5 DEF FS_Close, TypeOK

\* A request that is refused changes the acknowledgement only.
LEMMA RefusedType ==
  ASSUME TypeOK, NEW f \in Fds, NEW op \in Ops,
         \/ BadHandle(op, f)
         \/ \E access \in {"READ", "WRITE"} : Refuse(op, f, access)
         \/ op = "seek" /\ \E where \in Offsets, whence \in {"SEEK_SET", "SEEK_CUR", "SEEK_END"} :
               FS_Seek_Refused(f, where, whence)
         \/ DirError
  PROVE  TypeOK'
<1>1. req' \in Request /\ reply' \in Reply
  <2>1. CASE DirError
    <3>1. \A e \in DirErrors : e[1] \in Ops /\ e[2] \in Int
      BY Basics, Errors DEF DirErrors
    <3> QED
      BY <2>1, <3>1, Basics, Answered DEF DirError
  <2>2. CASE ~ DirError
    BY <2>2, Basics, Answered, Errors DEF BadHandle, Refuse, FS_Seek_Refused
  <2> QED BY <2>1, <2>2
<1>2. faults' \subseteq {"share", "io", "twin"}
  BY Failed DEF BadHandle, Refuse, FS_Seek_Refused, DirError, TypeOK
<1> QED
  BY <1>1, <1>2 DEF BadHandle, Refuse, FS_Seek_Refused, DirError, TypeOK

\* The request that is in a loop works on a slot of fd_stack.
LEMMA Working ==
  ASSUME TypeOK
  PROVE  /\ req \in Request /\ req.fd \in Fds /\ fd_stack[req.fd] \in FIL
         /\ req.left \in Nat /\ req.done \in Nat /\ req.buf \in Seq(Vals)
         /\ req.clst \in 0 .. BadClust
  BY DEF TypeOK, Request

\* A file object that was aborted or written.
LEMMA MarkedType ==
  /\ \A h \in FIL : Marked(h) \in FIL
  /\ \A h \in FIL, size \in Nat : Written(h, size) \in FIL
<1>1. "ERROR" \in Flags /\ "WRITTEN" \in Flags
  BY DEF Flags
<1>2. ASSUME NEW h \in FIL PROVE Marked(h) \in FIL
  <2>1. h.flag \cup {"ERROR"} \in SUBSET Flags
    BY <1>1, FileUpdates
  <2> QED BY <2>1, FileUpdates DEF Marked
<1>3. ASSUME NEW h \in FIL, NEW size \in Nat PROVE Written(h, size) \in FIL
  <2>1. PICK flag \in SUBSET Flags : flag = h.flag \cup {"WRITTEN"}
    BY <1>1, FileUpdates
  <2>2. Written(h, size) = [h EXCEPT !.fsize = size, !.flag = flag]
    BY <2>1 DEF Written
  <2>3. [h EXCEPT !.fsize = size, !.flag = flag] \in FIL
    BY DEF FIL
  <2> QED BY <2>2, <2>3
<1> QED
  BY <1>2, <1>3

\* Ending a request with the file object marked keeps the types.
LEMMA AbortType ==
  ASSUME TypeOK, NEW op \in Ops, NEW f \in Fds, Abort(op, f)
  PROVE  fd_stack' \in [Fds -> FIL] /\ req' \in Request /\ reply' \in Reply
<1>1. fd_stack' \in [Fds -> FIL]
  BY MarkedType DEF Abort, TypeOK
<1> QED
  BY <1>1, Basics, Answered, Errors DEF Abort

\* Going on to the next cluster keeps a file object well typed.
LEMMA OntoType ==
  ASSUME NEW h \in FIL, NEW c \in Clusters PROVE Onto(h, c) \in FIL
<1>1. h.fptr + 1 \in Nat
  BY DEF FIL
<1>2. [h EXCEPT !.curr = c, !.fptr = h.fptr + 1] \in FIL
  BY <1>1, ClusterNumbers, FileUpdates
<1> QED
  BY <1>2 DEF Onto

\* FS_Read and the rounds of its loop keep the types.
LEMMA ReadType ==
  ASSUME TypeOK,
         \/ \E f \in Fds, n \in Lengths : FS_Read(f, n)
         \/ f_read_step \/ f_read_error \/ f_read_end
  PROVE  TypeOK'
<1>1. ASSUME NEW f \in Fds, NEW n \in Lengths, FS_Read(f, n) PROVE TypeOK'
  <2>1. (fd_stack[f].fsize - fd_stack[f].fptr) % Word \in Nat /\ n \in Nat
    <3>1. fd_stack[f].fsize \in Nat /\ fd_stack[f].fptr \in Nat
      BY DEF TypeOK, FIL
    <3>2. Word \in Nat \ {0}
      OBVIOUS
    <3> QED BY <3>1, <3>2
  <2> DEFINE left == Smaller(n, (fd_stack[f].fsize - fd_stack[f].fptr) % Word)
  <2>2. req' \in Request
    <3>1. left \in Nat
      BY <2>1 DEF Smaller
    <3>2. req' = [Idle EXCEPT !.op = "read", !.fd = f, !.left = left]
      BY <1>1 DEF FS_Read, Start
    <3> QED
      BY <3>1, <3>2, NewRequest DEF Loops
  <2>3. reply' \in Reply
    BY <1>1, Basics DEF FS_Read, Start, NoReply, Reply
  <2> QED
    BY <1>1, <2>2, <2>3 DEF FS_Read, TypeOK
<1>2. CASE f_read_step
  <2> DEFINE c == ReadClust(fd_stack[req.fd])
  <2>1. CASE c \in Clusters
    <3>1. PICK v \in Vals :
            /\ IF v = data[c] THEN faults' = faults ELSE Fail("io")
            /\ fd_stack' = [fd_stack EXCEPT ![req.fd] = Onto(@, c)]
            /\ req' = [req EXCEPT !.left = @ - 1, !.buf = Append(@, v)]
            /\ reply' = reply
      BY <1>2, <2>1 DEF f_read_step
    <3>2. fd_stack' \in [Fds -> FIL]
      BY <2>1, <3>1, Working, OntoType DEF TypeOK
    <3>3. req.left - 1 \in Nat /\ Append(req.buf, v) \in Seq(Vals)
      <4>1. req.left - 1 \in Nat
        <5>1. req.left > 0
          BY <1>2 DEF f_read_step
        <5> QED BY <5>1, Working
      <4>2. Append(req.buf, v) \in Seq(Vals)
        BY Working
      <4> QED BY <4>1, <4>2
    <3>4. req' \in Request
      <4>1. PICK left \in Nat, buf \in Seq(Vals) :
              left = req.left - 1 /\ buf = Append(req.buf, v)
        BY <3>3
      <4>2. req' = [req EXCEPT !.left = left, !.buf = buf]
        BY <3>1, <4>1
      <4> QED BY <4>2, Working, RequestUpdates
    <3>5. faults' \subseteq {"share", "io", "twin"}
      BY <3>1, Failed DEF TypeOK
    <3> QED
      BY <1>2, <3>1, <3>2, <3>4, <3>5 DEF f_read_step, TypeOK
  <2>2. CASE c \notin Clusters
    BY <1>2, <2>2, Working, AbortType, Basics DEF f_read_step, TypeOK
  <2> QED BY <2>1, <2>2
<1>3. CASE f_read_error
  BY <1>3, Working, AbortType, Basics, Failed DEF f_read_error, TypeOK
<1>4. CASE f_read_end
  <2>1. req' \in Request /\ reply' \in Reply
    BY <1>4, Working, Basics, Answered DEF f_read_end
  <2> QED
    BY <1>4, <2>1 DEF f_read_end, TypeOK
<1> QED
  BY <1>1, <1>2, <1>3, <1>4

\* Chains only ever lead to clusters.
LEMMA Chain ==
  ASSUME TypeOK, NEW h \in FIL
  PROVE  /\ get_cluster(h.curr) \in 0 .. BadClust
         /\ ReadClust(h) \in 0 .. BadClust /\ WriteClust(h) \in 0 .. BadClust
  BY DEF TypeOK, FIL, get_cluster, ReadClust, WriteClust, Clusters, EOC, BadClust

\* create_chain puts only clusters and end marks into the table.
LEMMA CreateChainType ==
  ASSUME TypeOK, NEW h \in FIL, NEW n \in Clusters, create_chain(h, n)
  PROVE  fat' \in [Clusters -> {0, EOC} \cup Clusters]
  BY DEF create_chain, TypeOK

\* Writing one unit keeps the types.
LEMMA PutType ==
  ASSUME TypeOK, NEW n \in Clusters, req.buf # <<>>, Put(req.fd, n)
  PROVE  /\ data' \in [Clusters -> Vals] /\ fd_stack' \in [Fds -> FIL]
         /\ req' \in Request /\ reply' \in Reply
<1> DEFINE h == fd_stack[req.fd]
<1>1. Head(req.buf) \in Vals /\ Tail(req.buf) \in Seq(Vals) /\ req.done + 1 \in Nat
  BY Working
<1>2. [h EXCEPT !.org = FirstClust(h, n)] \in FIL
  <2>1. FirstClust(h, n) \in 0 .. BadClust
    BY Working, ClusterNumbers DEF FIL, FirstClust
  <2> QED BY <2>1, Working, FileUpdates
<1>3. Onto([h EXCEPT !.org = FirstClust(h, n)], n) \in FIL
  BY <1>2, OntoType
<1>4. req' \in Request
  <2>1. PICK buf \in Seq(Vals), done \in Nat :
          buf = Tail(req.buf) /\ done = req.done + 1
    BY <1>1
  <2>2. req' = [req EXCEPT !.buf = buf, !.done = done]
    BY <2>1 DEF Put
  <2> QED BY <2>2, Working, RequestUpdates
<1> QED
  BY <1>1, <1>3, <1>4 DEF Put, TypeOK

\* FS_Write and the rounds of its loop keep the types.
LEMMA WriteType ==
  ASSUME TypeOK,
         \/ \E f \in Fds, b \in Buffers : FS_Write(f, b)
         \/ f_write_step \/ f_write_error \/ f_write_end
  PROVE  TypeOK'
<1> DEFINE h == fd_stack[req.fd]
<1>1. ASSUME NEW f \in Fds, NEW b \in Buffers, FS_Write(f, b) PROVE TypeOK'
  <2>1. PICK w \in {<<>>, b} : req' = [Idle EXCEPT !.op = "write", !.fd = f, !.buf = w]
    BY <1>1 DEF FS_Write, Start
  <2>2. w \in Seq(Vals)
    BY Basics
  <2>3. req' \in Request
    BY <2>1, <2>2, NewRequest DEF Loops
  <2>4. reply' \in Reply
    BY <1>1, Basics DEF FS_Write, Start, NoReply, Reply
  <2> QED
    BY <1>1, <2>3, <2>4 DEF FS_Write, TypeOK
<1>2. CASE f_write_step
  <2>1. CASE \E n \in Clusters : create_chain(h, n) /\ Put(req.fd, n)
    BY <1>2, <2>1, Working, CreateChainType, PutType DEF f_write_step, TypeOK
  <2>2. CASE UNCHANGED <<fat, data, fd_stack, reply>> /\ req' = [req EXCEPT !.buf = <<>>]
    <3>1. req' \in Request
      BY <2>2, Basics, Working, RequestUpdates
    <3> QED
      BY <1>2, <2>2, <3>1 DEF f_write_step, TypeOK
  <2>3. CASE WriteClust(h) \in Clusters /\ Put(req.fd, WriteClust(h)) /\ fat' = fat
    BY <1>2, <2>3, PutType DEF f_write_step, TypeOK
  <2>4. CASE Abort("write", req.fd) /\ UNCHANGED <<fat, data>>
    BY <1>2, <2>4, Working, AbortType, Basics DEF f_write_step, TypeOK
  <2> QED
    BY <1>2, <2>1, <2>2, <2>3, <2>4 DEF f_write_step
<1>3. CASE f_write_error
  <2>1. faults' \subseteq {"share", "io", "twin"}
    BY <1>3, Failed DEF f_write_error
  <2>2. CASE Abort("write", req.fd) /\ fat' = fat
    BY <1>3, <2>1, <2>2, Working, AbortType, Basics DEF f_write_error, TypeOK
  <2>3. CASE ~ (Abort("write", req.fd) /\ fat' = fat)
    <3>1. h \in FIL /\ Marked(h) \in FIL
      BY Working, MarkedType
    <3>2. PICK n \in Clusters :
            \/ /\ fat[n] = 0
               /\ fat' = [fat EXCEPT ![n] = EOC]
               /\ fd_stack' = [fd_stack EXCEPT ![req.fd] =
                      [Marked(h) EXCEPT !.org = FirstClust(h, BadClust)]]
            \/ /\ create_chain(h, n)
               /\ fd_stack' = [fd_stack EXCEPT ![req.fd] =
                      [Marked(h) EXCEPT !.curr = n, !.org = FirstClust(h, n)]]
      BY <1>3, <2>3 DEF f_write_error
    <3>3. req' \in Request /\ reply' \in Reply
      BY <1>3, <2>3, Basics, Errors, Answered DEF f_write_error
    <3>4. fat' \in [Clusters -> {0, EOC} \cup Clusters]
      BY <3>1, <3>2, CreateChainType DEF TypeOK
    <3>5. /\ [Marked(h) EXCEPT !.org = FirstClust(h, BadClust)] \in FIL
          /\ [Marked(h) EXCEPT !.curr = n, !.org = FirstClust(h, n)] \in FIL
      <4>1. FirstClust(h, BadClust) \in 0 .. BadClust /\ FirstClust(h, n) \in 0 .. BadClust
        BY <3>1, ClusterNumbers DEF FIL, FirstClust
      <4>2. n \in 0 .. BadClust
        BY ClusterNumbers
      <4> QED BY <3>1, <4>1, <4>2, FileUpdates
    <3>6. fd_stack' \in [Fds -> FIL]
      BY <3>2, <3>5 DEF TypeOK
    <3> QED
      BY <1>3, <2>1, <3>3, <3>4, <3>6 DEF f_write_error, TypeOK
  <2> QED BY <2>2, <2>3
<1>4. CASE f_write_end
  <2>1. h \in FIL /\ h.flag \cup {"WRITTEN"} \in SUBSET Flags
    BY Working DEF FIL, Flags
  <2>2. Larger(h.fsize, h.fptr) \in Nat
    BY <2>1 DEF FIL, Larger
  <2>3. Written(h, Larger(h.fsize, h.fptr)) \in FIL
    BY <2>1, <2>2, MarkedType
  <2>4. fd_stack' \in [Fds -> FIL]
    BY <1>4, <2>3 DEF f_write_end, TypeOK
  <2>5. req' \in Request /\ reply' \in Reply
    <3>1. req.done \in Int
      BY Working
    <3>2. "write" \in Ops /\ <<>> \in Seq(Vals)
      BY Basics
    <3> QED
      BY <1>4, <3>1, <3>2, Answered DEF f_write_end
  <2> QED
    BY <1>4, <2>4, <2>5 DEF f_write_end, TypeOK
<1> QED
  BY <1>1, <1>2, <1>3, <1>4

\* The target of a seek is an unsigned number.
LEMMA SeekTarget ==
  ASSUME TypeOK, NEW f \in Fds, NEW where \in Offsets,
         NEW whence \in {"SEEK_SET", "SEEK_CUR", "SEEK_END"}
  PROVE  Target(fd_stack[f], where, whence) \in Nat
<1> DEFINE h == fd_stack[f]
<1>1. h.fptr \in Nat /\ h.fsize \in Nat
  BY FileUpdates DEF TypeOK
<1>2. where \in Int /\ where + h.fptr \in Int /\ where + h.fsize \in Int
  BY <1>1
<1>3. \E i \in Int : Target(h, where, whence) = i % Word
  <2>1. CASE whence = "SEEK_SET"
    BY <1>2, <2>1 DEF Target
  <2>2. CASE whence = "SEEK_CUR"
    BY <1>2, <2>2 DEF Target
  <2>3. CASE whence = "SEEK_END"
    BY <1>2, <2>3 DEF Target
  <2> QED BY <2>1, <2>2, <2>3
<1>4. Word \in Nat \ {0}
  OBVIOUS
<1> QED BY <1>3, <1>4

\* The position a seek starts from and what is left of it.
LEMMA SeekType ==
  ASSUME TypeOK,
         \/ \E f \in Fds, where \in Offsets, whence \in {"SEEK_SET", "SEEK_CUR", "SEEK_END"} :
              FS_Seek(f, where, whence)
         \/ f_lseek_step \/ f_lseek_end
  PROVE  TypeOK'
<1>1. ASSUME NEW f \in Fds, NEW where \in Offsets,
             NEW whence \in {"SEEK_SET", "SEEK_CUR", "SEEK_END"}, FS_Seek(f, where, whence)
      PROVE  TypeOK'
  <2> DEFINE h      == fd_stack[f]
             ofs    == Clip(h, Target(h, where, whence))
             onward == h.fptr > 0 /\ ofs >= h.fptr
             start  == IF onward THEN h.fptr - 1 ELSE 0
  <2>1. h \in FIL /\ h.fptr \in Nat /\ h.fsize \in Nat
    BY FileUpdates DEF TypeOK
  <2>2. Target(h, where, whence) \in Nat
    BY SeekTarget
  <2>3. ofs \in Nat
    BY <2>1, <2>2 DEF Clip, Smaller
  <2>4. start \in Nat /\ start <= ofs
    BY <2>1, <2>3
  <2>5. CASE ofs = 0
    <3>1. fd_stack' = [fd_stack EXCEPT ![f] = [h EXCEPT !.fptr = 0]]
      BY <1>1, <2>5 DEF FS_Seek
    <3>2. fd_stack' \in [Fds -> FIL]
      BY <2>1, <3>1, FileUpdates DEF TypeOK
    <3>3. req' \in Request /\ reply' \in Reply
      <4>1. Answer("seek", 0, <<>>)
        BY <1>1, <2>5 DEF FS_Seek
      <4>2. "seek" \in Ops /\ 0 \in Int /\ <<>> \in Seq(Vals)
        BY Basics
      <4> QED BY <4>1, <4>2, Answered
    <3> QED
      BY <1>1, <3>2, <3>3 DEF FS_Seek, TypeOK
  <2>6. CASE ofs # 0
    <3>0. PICK fptr \in Nat : fptr = start
      BY <2>4
    <3>1. PICK curr \in {h.curr, h.org} :
            fd_stack' = [fd_stack EXCEPT ![f] = [h EXCEPT !.fptr = fptr, !.curr = curr]]
      BY <1>1, <2>6, <3>0 DEF FS_Seek
    <3>2. curr \in 0 .. BadClust
      <4>1. h.curr \in 0 .. BadClust /\ h.org \in 0 .. BadClust
        BY <2>1 DEF FIL
      <4> QED BY <4>1
    <3>3. [h EXCEPT !.fptr = fptr, !.curr = curr] \in FIL
      BY <2>1, <3>2, FileUpdates
    <3>4. fd_stack' \in [Fds -> FIL]
      BY <3>1, <3>3 DEF TypeOK
    <3>5. PICK left \in Nat : left = ofs - start
      BY <2>3, <2>4
    <3>6. req' = [Idle EXCEPT !.op = "seek", !.fd = f, !.left = left] /\ reply' = NoReply
      BY <1>1, <2>6, <3>5 DEF FS_Seek, Start
    <3>7. req' \in Request
      BY <3>6, NewRequest DEF Loops
    <3>8. reply' \in Reply
      BY <3>6, Basics DEF NoReply, Reply
    <3> QED
      BY <1>1, <3>4, <3>7, <3>8 DEF FS_Seek, TypeOK
  <2> QED BY <2>5, <2>6
<1>2. CASE f_lseek_step
  <2> DEFINE c == get_cluster(fd_stack[req.fd].curr)
  <2>1. CASE c \in Clusters
    <3>1. fd_stack' \in [Fds -> FIL]
      BY <1>2, <2>1, Working, OntoType DEF f_lseek_step, TypeOK
    <3>2. PICK left \in Nat : left = req.left - 1
      <4>1. req.left > 1
        BY <1>2 DEF f_lseek_step
      <4> QED BY <4>1, Working
    <3>3. req' = [req EXCEPT !.left = left]
      BY <1>2, <2>1, <3>2 DEF f_lseek_step
    <3>4. req' \in Request
      BY <3>3, Working, RequestUpdates
    <3> QED
      BY <1>2, <2>1, <3>1, <3>4 DEF f_lseek_step, TypeOK
  <2>2. CASE c \notin Clusters
    BY <1>2, <2>2, Working, AbortType, Basics DEF f_lseek_step, TypeOK
  <2> QED BY <2>1, <2>2
<1>3. CASE f_lseek_end
  <2> DEFINE h == fd_stack[req.fd]
  <2>1. PICK fptr \in Nat : fptr = h.fptr + (IF h.curr # 0 THEN 1 ELSE 0)
    <3>1. h.fptr \in Nat
      BY Working, FileUpdates
    <3> QED BY <3>1
  <2>2. [h EXCEPT !.fptr = fptr] \in FIL
    BY Working, FileUpdates
  <2>3. fd_stack' = [fd_stack EXCEPT ![req.fd] = [h EXCEPT !.fptr = fptr]]
    BY <1>3, <2>1 DEF f_lseek_end
  <2>4. fd_stack' \in [Fds -> FIL]
    BY <2>2, <2>3 DEF TypeOK
  <2>5. req' \in Request /\ reply' \in Reply
    <3>1. Answer("seek", fptr, <<>>) /\ fptr \in Int
      BY <1>3, <2>1 DEF f_lseek_end
    <3> QED BY <3>1, Basics, Answered
  <2> QED
    BY <1>3, <2>4, <2>5 DEF f_lseek_end, TypeOK
<1> QED
  BY <1>1, <1>2, <1>3

\* Removing an entry starts the removal of its chain.
LEMMA UnlinkType ==
  ASSUME TypeOK, NEW s \in Slots, NEW op \in {"delete", "move"},
         NEW src \in Names \cup {NoName}, NEW dst \in Names \cup {NoName},
         Unlink(s, op, src, dst)
  PROVE  dir' \in [Slots -> Entry] /\ req' \in Request /\ reply' \in Reply
<1>1. dir[s].clust \in 0 .. BadClust /\ NoEntry \in Entry
  BY DEF TypeOK, Entry, NoEntry, BadClust
<1>2. dir' \in [Slots -> Entry]
  BY <1>1 DEF Unlink, TypeOK
<1>3. req' \in Request
  BY <1>1, NewRequest DEF Unlink, Start, Loops
<1>4. reply' \in Reply
  BY Basics DEF Unlink, Start, NoReply, Reply
<1> QED
  BY <1>2, <1>3, <1>4

\* A file is renamed or it is not.
LEMMA RenameType ==
  ASSUME TypeOK, NEW src \in Names \cup {NoName}, NEW dst \in Names \cup {NoName},
         Rename(src, dst)
  PROVE  dir' \in [Slots -> Entry] /\ req' \in Request /\ reply' \in Reply
<1>1. PICK s \in Slots :
        IF DirFull
        THEN Answer("move", FS_FATAL, <<>>) /\ dir' = dir
        ELSE \E t \in Slots :
               /\ dir' = [dir EXCEPT ![t] = [dir[s] EXCEPT !.name = dst], ![s] = NoEntry]
               /\ Answer("move", FS_SUCCESS, <<>>)
  BY DEF Rename, EntryOf
<1>2. req' \in Request /\ reply' \in Reply
  BY <1>1, Basics, Answered, Errors
<1>3. [dir[s] EXCEPT !.name = dst] \in Entry /\ NoEntry \in Entry
  <2>1. dir[s] \in Entry
    BY DEF TypeOK
  <2>2. [dir[s] EXCEPT !.name = dst] \in Entry
    BY <2>1 DEF Entry
  <2>3. NoEntry \in Entry
    BY DEF Entry, NoEntry, BadClust
  <2> QED BY <2>2, <2>3
<1>4. dir' \in [Slots -> Entry]
  BY <1>1, <1>3 DEF TypeOK
<1> QED
  BY <1>2, <1>4

\* A rename that failed has two entries, one or the old one.
LEMMA RenameErrorType ==
  ASSUME TypeOK, NEW src \in Names \cup {NoName}, NEW dst \in Names \cup {NoName},
         Rename_error(src, dst)
  PROVE  /\ dir' \in [Slots -> Entry] /\ req' \in Request /\ reply' \in Reply
         /\ faults' \subseteq {"share", "io", "twin"}
<1>1. req' \in Request /\ reply' \in Reply
  BY Basics, Answered, Errors DEF Rename_error
<1>2. faults' \subseteq {"share", "io", "twin"}
  BY DEF Rename_error, Fail, TypeOK
<1>3. NoEntry \in Entry
  BY DEF Entry, NoEntry, BadClust
<1>4. CASE dir' = dir
  BY <1>1, <1>2, <1>4 DEF TypeOK
<1>5. CASE dir' # dir
  <2>1. PICK s \in Slots, t \in Slots :
          \/ dir' = [dir EXCEPT ![t] = [dir[s] EXCEPT !.name = dst]]
          \/ dir' = [dir EXCEPT ![t] = [dir[s] EXCEPT !.name = dst], ![s] = NoEntry]
    BY <1>5 DEF Rename_error, EntryOf
  <2>2. PICK e : e = [dir[s] EXCEPT !.name = dst]
    OBVIOUS
  <2>3. dir[s] \in Entry
    BY DEF TypeOK
  <2>4. e \in Entry
    BY <2>2, <2>3 DEF Entry
  <2>5. dir' \in [Slots -> Entry]
    BY <1>3, <2>1, <2>2, <2>4 DEF TypeOK
  <2> QED
    BY <1>1, <1>2, <2>5
<1> QED
  BY <1>4, <1>5

\* FS_DeleteFile, FS_Move and remove_chain keep the types.
LEMMA RemoveType ==
  ASSUME TypeOK,
         \/ \E n \in Names : FS_DeleteFile(n)
         \/ \E src \in Names, dst \in Names : FS_Move(src, dst)
         \/ remove_chain_step \/ remove_chain_end \/ remove_chain_error
         \/ f_rename_again_error
  PROVE  TypeOK'
<1>1. ASSUME NEW n \in Names, FS_DeleteFile(n) PROVE TypeOK'
  <2>1. CASE Answer("delete", FS_NO_ENTRY, <<>>) /\ UNCHANGED <<dir, faults>>
    BY <1>1, <2>1, Basics, Answered, Errors DEF FS_DeleteFile, TypeOK
  <2>2. CASE \E s \in EntryOf(n) : /\ MayShare(Users(s) # {})
                                   /\ Unlink(s, "delete", NoName, NoName)
    <3>1. PICK s \in Slots : MayShare(Users(s) # {}) /\ Unlink(s, "delete", NoName, NoName)
      BY <2>2 DEF EntryOf
    <3> QED
      BY <1>1, <3>1, UnlinkType, Shared DEF FS_DeleteFile, TypeOK
  <2> QED
    BY <1>1, <2>1, <2>2 DEF FS_DeleteFile
<1>2. ASSUME NEW src \in Names, NEW dst \in Names, FS_Move(src, dst) PROVE TypeOK'
  <2>1. CASE Answer("move", FS_NO_ENTRY, <<>>) /\ UNCHANGED <<dir, faults>>
    BY <1>2, <2>1, Basics, Answered, Errors DEF FS_Move, TypeOK
  <2>2. CASE /\ MayShare(~ DirFull /\ \E s \in EntryOf(src) : Users(s) # {})
             /\ Rename(src, dst)
    BY <1>2, <2>2, RenameType, Shared DEF FS_Move, TypeOK
  <2>3. CASE /\ MayShare(\E s \in EntryOf(src) \cup EntryOf(dst) : Users(s) # {})
             /\ \E d \in EntryOf(dst) : Unlink(d, "move", src, dst)
    <3>1. PICK d \in Slots : Unlink(d, "move", src, dst)
      BY <2>3 DEF EntryOf
    <3>2. faults' \subseteq {"share", "io", "twin"}
      BY <2>3, Shared
    <3> QED
      BY <1>2, <3>1, <3>2, UnlinkType DEF FS_Move, TypeOK
  <2>4. CASE Rename_error(src, dst)
    BY <1>2, <2>4, RenameErrorType DEF FS_Move, TypeOK
  <2> QED
    BY <1>2, <2>1, <2>2, <2>3, <2>4 DEF FS_Move
<1>3. CASE remove_chain_step
  <2>1. fat[req.clst] \in 0 .. BadClust
    BY <1>3, ClusterNumbers DEF remove_chain_step, TypeOK, EOC, BadClust
  <2>2. PICK clst \in 0 .. BadClust : clst = fat[req.clst]
    BY <2>1
  <2>3. req' = [req EXCEPT !.clst = clst]
    BY <1>3, <2>2 DEF remove_chain_step
  <2>4. req' \in Request
    BY <2>3, Working, RequestUpdates
  <2> QED
    BY <1>3, <2>4 DEF remove_chain_step, TypeOK
<1>4. CASE remove_chain_end
  <2>1. CASE Answer("move", FS_FATAL, <<>>) /\ dir' = dir
    BY <1>4, <2>1, Basics, Answered, Errors DEF remove_chain_end, TypeOK
  <2>2. CASE Answer("delete", FS_SUCCESS, <<>>) /\ dir' = dir
    BY <1>4, <2>2, Basics, Answered, Errors DEF remove_chain_end, TypeOK
  <2>3. CASE Rename(req.src, req.dst)
    <3>1. req.src \in Names \cup {NoName} /\ req.dst \in Names \cup {NoName}
      BY Working DEF Request
    <3> QED
      BY <1>4, <2>3, <3>1, RenameType DEF remove_chain_end, TypeOK
  <2> QED
    BY <1>4, <2>1, <2>2, <2>3 DEF remove_chain_end
<1>5. CASE remove_chain_error
  <2>1. req' \in Request
    BY <1>5, Working, RequestUpdates, ClusterNumbers DEF remove_chain_error
  <2>2. faults' \subseteq {"share", "io", "twin"}
    BY <1>5, Failed DEF remove_chain_error
  <2> QED
    BY <1>5, <2>1, <2>2 DEF remove_chain_error, TypeOK
<1>6. CASE f_rename_again_error
  <2>1. req.src \in Names \cup {NoName} /\ req.dst \in Names \cup {NoName}
    BY Working DEF Request
  <2> QED
    BY <1>6, <2>1, RenameErrorType DEF f_rename_again_error, TypeOK
<1> QED
  BY <1>1, <1>2, <1>3, <1>4, <1>5, <1>6

\* Every step keeps the types.
LEMMA NextType == TypeOK /\ [Next]_vars => TypeOK'
<1> SUFFICES ASSUME TypeOK, [Next]_vars PROVE TypeOK'
  OBVIOUS
<1>1. CASE Receive
  <2>1. ASSUME NEW n \in Names, PathRequest(n) PROVE TypeOK'
    BY <2>1, OpenType, CreateType, RemoveType DEF PathRequest
  <2>2. ASSUME NEW f \in Fds, HandleRequest(f) PROVE TypeOK'
    BY <2>2, CloseType, ReadType, WriteType, SeekType, RefusedType, Basics DEF HandleRequest
  <2>3. CASE DirError
    BY <2>3, RefusedType, Basics
  <2> QED
    BY <1>1, <2>1, <2>2, <2>3 DEF Receive
<1>2. CASE Work
  BY <1>2, ReadType, WriteType, SeekType, RemoveType DEF Work
<1>3. CASE UNCHANGED vars
  BY <1>3 DEF vars, TypeOK
<1> QED
  BY <1>1, <1>2, <1>3 DEF Next

\* Every reachable state is well typed.
THEOREM TypeCorrect == Spec => []TypeOK
<1>1. Init => TypeOK
  BY InitTypeOK
<1>2. TypeOK /\ [Next]_vars => TypeOK'
  BY NextType
<1> QED
  BY <1>1, <1>2, PTL DEF Spec

-----------------------------------------------------------------------------
(***************************************************************************)
(* The allocation table has no cycle.  ChainsEnd is inductive given the    *)
(* types: a step writes the table at a cluster that was free, which then   *)
(* ends a chain, and perhaps at the end of the chain it is linked behind.  *)
(***************************************************************************)

\* A chain can be lengthened at its end by a cluster that was free.
LEMMA CreateChainEnds ==
  ASSUME TypeOK, ChainsEnd, NEW h \in FIL, NEW n \in Clusters, Grows(h), create_chain(h, n)
  PROVE  ChainsEnd'
<1>1. /\ fat \in [Clusters -> {0, EOC} \cup Clusters] /\ fat[n] = 0
      /\ fat' = IF h.fptr = 0 THEN [fat EXCEPT ![n] = EOC]
                 ELSE [[fat EXCEPT ![n] = EOC] EXCEPT ![h.curr] = n]
  BY DEF TypeOK, create_chain
<1>2. EOC # 0 /\ EOC # 1 /\ EOC \notin Clusters
  BY DEF EOC, Clusters
<1>3. h.fptr # 0 => h.curr \in Clusters /\ fat[h.curr] = EOC
  BY <1>2 DEF Grows, WriteClust, get_cluster
<1>4. SUFFICES ASSUME NEW S \in SUBSET Clusters, S # {} PROVE \E c \in S : fat'[c] \notin S
  BY DEF ChainsEnd
<1>5. fat'[n] = EOC
  BY <1>1, <1>2, <1>3
<1>6. CASE n \in S
  BY <1>2, <1>5, <1>6
<1>7. CASE n \notin S
  <2>1. PICK c \in S : fat[c] \notin S
    BY <1>4 DEF ChainsEnd
  <2>2. fat'[c] \in {fat[c], n}
    BY <1>1, <1>3, <1>7
  <2> QED BY <1>7, <2>1, <2>2
<1> QED BY <1>6, <1>7

\* Marking a cluster as free or as the end of a chain makes no cycle.
LEMMA CutChainEnds ==
  ASSUME TypeOK, ChainsEnd, NEW n \in Clusters, NEW e \in {0, EOC},
         fat' = [fat EXCEPT ![n] = e]
  PROVE  ChainsEnd'
<1>1. SUFFICES ASSUME NEW S \in SUBSET Clusters, S # {} PROVE \E c \in S : fat'[c] \notin S
  BY DEF ChainsEnd
<1>2. e \notin Clusters
  BY ClusterNumbers
<1>3. CASE n \in S
  BY <1>2, <1>3 DEF TypeOK
<1>4. CASE n \notin S
  <2>1. PICK c \in S : fat[c] \notin S
    BY <1>1 DEF ChainsEnd
  <2> QED BY <1>4, <2>1 DEF TypeOK
<1> QED BY <1>3, <1>4

\* The first step of a handler leaves the allocation table alone.
LEMMA ReceiveKeepsFat == ASSUME Receive PROVE fat' = fat
<1>1. \A n \in Names, mode \in Modes, nmh2 \in BOOLEAN : FS_Open(n, mode, nmh2) => fat' = fat
  BY DEF FS_Open, FS_Open_Found, FS_Open_Missing, FS_Open_NoHandle
<1>2. \A n \in Names : FS_CreateFile(n) \/ FS_DeleteFile(n) => fat' = fat
  BY DEF FS_CreateFile, FS_DeleteFile
<1>3. \A n \in Names, m \in Names : FS_Move(n, m) => fat' = fat
  BY DEF FS_Move
<1>4. DirError => fat' = fat
  BY DEF DirError
<1>5. \A f \in Fds, op \in {"read", "write", "seek", "close"} :
        FS_Close(f) \/ BadHandle(op, f) \/ Refuse("read", f, "READ")
          \/ Refuse("write", f, "WRITE") => fat' = fat
  BY DEF FS_Close, BadHandle, Refuse
<1>6. \A f \in Fds, n \in Lengths : FS_Read(f, n) => fat' = fat
  BY DEF FS_Read
<1>7. \A f \in Fds, b \in Buffers : FS_Write(f, b) => fat' = fat
  BY DEF FS_Write
<1>8. \A f \in Fds, where \in Offsets, whence \in {"SEEK_SET", "SEEK_CUR", "SEEK_END"} :
        FS_Seek_Refused(f, where, whence) \/ FS_Seek(f, where, whence) => fat' = fat
  BY DEF FS_Seek_Refused, FS_Seek
<1> QED
  <2>1. ASSUME NEW n \in Names, PathRequest(n) PROVE fat' = fat
    BY <1>1, <1>2, <1>3, <2>1 DEF PathRequest
  <2>2. ASSUME NEW f \in Fds, HandleRequest(f) PROVE fat' = fat
    BY <1>5, <1>6, <1>7, <1>8, <2>2 DEF HandleRequest
  <2> QED
    BY <1>4, <2>1, <2>2 DEF Receive

\* The steps that write the allocation table are f_write's and remove_chain's.
LEMMA NextChainsEnd == TypeOK /\ ChainsEnd /\ [Next]_vars => ChainsEnd'
<1> SUFFICES ASSUME TypeOK, ChainsEnd, [Next]_vars PROVE ChainsEnd'
  OBVIOUS
<1>1. ASSUME fat' = fat PROVE ChainsEnd'
  BY <1>1 DEF ChainsEnd
<1>2. fd_stack[req.fd] \in FIL
  BY Working
<1>3. CASE Receive
  BY <1>1, <1>3, ReceiveKeepsFat
<1>4. CASE f_write_step
  BY <1>1, <1>2, <1>4, CreateChainEnds DEF f_write_step
<1>5. CASE f_write_error
  BY <1>1, <1>2, <1>5, CreateChainEnds, CutChainEnds DEF f_write_error
<1>6. CASE remove_chain_step
  BY <1>6, CutChainEnds DEF remove_chain_step
<1>7. CASE f_read_step \/ f_read_error \/ f_read_end \/ f_write_end \/ f_lseek_step
           \/ f_lseek_end \/ remove_chain_end \/ remove_chain_error \/ f_rename_again_error
  BY <1>1, <1>7 DEF f_read_step, f_read_error, f_read_end, f_write_end, f_lseek_step,
     f_lseek_end, remove_chain_end, remove_chain_error, f_rename_again_error
<1>8. CASE UNCHANGED vars
  BY <1>1, <1>8 DEF vars
<1> QED
  BY <1>3, <1>4, <1>5, <1>6, <1>7, <1>8 DEF Next, Work

\* The allocation table never has a cycle, with every fault allowed.
THEOREM NoCycle == Spec => []ChainsEnd
<1>1. Init => ChainsEnd
  BY ClusterNumbers DEF Init, ChainsEnd
<1>2. TypeOK /\ ChainsEnd /\ [Next]_vars => ChainsEnd'
  BY NextChainsEnd
<1> QED
  BY <1>1, <1>2, TypeCorrect, PTL DEF Spec

-----------------------------------------------------------------------------
(***************************************************************************)
(* Positions.  PositionInFile is not inductive by itself: a read or a seek *)
(* in its loop moves the position, so what it has left has to fit between  *)
(* the position and the size; the seek adds its last unit after the loop.  *)
(***************************************************************************)
InFile(h) == "ERROR" \in h.flag \/ h.fptr <= h.fsize

PositionInv ==
  /\ PositionInFile
  /\ req.op \in {"read", "seek"} =>
       fd_stack[req.fd].fptr + req.left <= fd_stack[req.fd].fsize
  /\ req.op = "seek" => req.left >= 1

\* The file objects nobody is writing are within their sizes.
LEMMA Within ==
  ASSUME PositionInv, NEW g \in Fds, req.op # "write" \/ req.fd # g
  PROVE  InFile(fd_stack[g])
  BY DEF PositionInv, PositionInFile, InFile

\* One file object is replaced by one that is within its size.
LEMMA OneFile ==
  ASSUME TypeOK, PositionInv, NEW f \in Fds, req.op # "write" \/ req.fd = f,
         NEW h, InFile(h), fd_stack' = [fd_stack EXCEPT ![f] = h]
  PROVE  \A g \in Fds : InFile(fd_stack'[g])
  BY Within DEF TypeOK

\* The invariant after an acknowledgement.
LEMMA Acknowledged ==
  ASSUME req'.op = "idle", \A g \in Fds : InFile(fd_stack'[g])
  PROVE  PositionInv'
  BY DEF PositionInv, PositionInFile, InFile

\* The invariant after a step of a read or a seek.
LEMMA Underway ==
  ASSUME req'.op \in {"read", "seek"}, \A g \in Fds : InFile(fd_stack'[g]),
         fd_stack'[req'.fd].fptr + req'.left <= fd_stack'[req'.fd].fsize,
         req'.op = "seek" => req'.left >= 1
  PROVE  PositionInv'
  BY DEF PositionInv, PositionInFile, InFile

\* A file object that was marked is never used again.
LEMMA AbortPosition ==
  ASSUME TypeOK, PositionInv, NEW op, NEW f \in Fds, req.op # "write" \/ req.fd = f,
         Abort(op, f)
  PROVE  PositionInv'
<1>1. PICK h : h = Marked(fd_stack[f])
  OBVIOUS
<1>2. InFile(h)
  <2>1. fd_stack[f] \in FIL
    BY DEF TypeOK
  <2>2. "ERROR" \in h.flag
    BY <1>1, <2>1 DEF Marked, FIL
  <2> QED BY <2>2 DEF InFile
<1>3. \A g \in Fds : InFile(fd_stack'[g])
  BY <1>1, <1>2, OneFile DEF Abort
<1> QED
  BY <1>3, Acknowledged DEF Abort, Answer, Idle

\* f_read keeps positions within sizes: it stops where the size ends.
LEMMA ReadPosition ==
  ASSUME TypeOK, PositionInv, req.op = "idle", NEW f \in Fds, NEW n \in Lengths, FS_Read(f, n)
  PROVE  PositionInv'
<1> DEFINE h == fd_stack[f]
           remain == (h.fsize - h.fptr) % Word
<1>1. h.fptr \in Nat /\ h.fsize \in Nat /\ h.fptr <= h.fsize
  <2>1. h \in FIL /\ "ERROR" \notin h.flag
    BY DEF FS_Read, Ready, TypeOK
  <2> QED BY <2>1, Within, FileUpdates DEF InFile
<1>2. remain \in Nat /\ remain <= h.fsize - h.fptr
  <2>1. PICK m \in Nat : m = h.fsize - h.fptr
    BY <1>1
  <2>2. m % Word \in 0 .. Word - 1 /\ (m < Word => m % Word = m)
    OBVIOUS
  <2> QED BY <2>1, <2>2
<1>3. PICK left \in Nat : left = Smaller(n, remain)
  BY <1>2 DEF Smaller
<1>4. left <= h.fsize - h.fptr
  <2>1. PICK r \in Nat, m \in Nat : r = remain /\ m = h.fsize - h.fptr /\ r <= m
    BY <1>1, <1>2
  <2>2. left <= r
    BY <1>3, <2>1 DEF Smaller
  <2> QED BY <2>1, <2>2
<1>5. req' = [Idle EXCEPT !.op = "read", !.fd = f, !.left = left] /\ fd_stack' = fd_stack
  BY <1>3 DEF FS_Read, Start
<1>6. req'.op = "read" /\ req'.fd = f /\ req'.left = left
  BY <1>5 DEF Idle
<1>7. \A g \in Fds : InFile(fd_stack'[g])
  BY <1>5, Within
<1>8. fd_stack'[f].fptr + left <= fd_stack'[f].fsize
  BY <1>1, <1>4, <1>5
<1> QED
  BY <1>6, <1>7, <1>8, Underway

\* A seek starts at or before the place it goes to, which is in the file.
LEMMA SeekPosition ==
  ASSUME TypeOK, PositionInv, req.op = "idle", NEW f \in Fds, NEW where \in Offsets,
         NEW whence \in {"SEEK_SET", "SEEK_CUR", "SEEK_END"}, FS_Seek(f, where, whence)
  PROVE  PositionInv'
<1> DEFINE h      == fd_stack[f]
           ofs    == Clip(h, Target(h, where, whence))
           onward == h.fptr > 0 /\ ofs >= h.fptr
           start  == IF onward THEN h.fptr - 1 ELSE 0
<1>1. h \in FIL /\ h.fptr \in Nat /\ h.fsize \in Nat
  BY FileUpdates DEF TypeOK
<1>2. Target(h, where, whence) \in Nat
  BY SeekTarget
<1>3. ofs \in Nat /\ ofs <= h.fsize
  BY <1>1, <1>2 DEF Clip, Smaller
<1>4. CASE ofs = 0
  <2>1. PICK k : k = [h EXCEPT !.fptr = 0]
    OBVIOUS
  <2>2. InFile(k)
    BY <1>1, <2>1 DEF InFile, FIL
  <2>3. fd_stack' = [fd_stack EXCEPT ![f] = k] /\ req' = Idle
    BY <1>4, <2>1 DEF FS_Seek, Answer
  <2> QED
    BY <2>2, <2>3, OneFile, Acknowledged DEF Idle
<1>5. CASE ofs # 0
  <2>1. PICK fptr \in Nat, left \in Nat :
          fptr = start /\ left = ofs - start /\ left >= 1
    <3>1. start \in Nat /\ start < ofs
      BY <1>1, <1>3, <1>5
    <3> QED BY <1>3, <3>1
  <2>2. PICK curr \in {h.curr, h.org} :
          fd_stack' = [fd_stack EXCEPT ![f] = [h EXCEPT !.fptr = fptr, !.curr = curr]]
    BY <1>5, <2>1 DEF FS_Seek
  <2>3. PICK k : k = [h EXCEPT !.fptr = fptr, !.curr = curr]
    OBVIOUS
  <2>4. k.fptr = fptr /\ k.fsize = h.fsize
    BY <1>1, <2>3 DEF FIL
  <2>5. fptr + left <= h.fsize
    BY <1>1, <1>3, <2>1
  <2>6. InFile(k)
    BY <1>1, <2>4, <2>5 DEF InFile
  <2>7. \A g \in Fds : InFile(fd_stack'[g])
    <3>1. fd_stack' = [fd_stack EXCEPT ![f] = k] /\ req.op # "write"
      BY <2>2, <2>3
    <3> QED BY <2>6, <3>1, OneFile
  <2>8. req' = [Idle EXCEPT !.op = "seek", !.fd = f, !.left = left]
    BY <1>5, <2>1 DEF FS_Seek, Start
  <2>9. req'.op = "seek" /\ req'.fd = f /\ req'.left = left
    BY <2>8 DEF Idle
  <2>10. fd_stack'[f].fptr + left <= fd_stack'[f].fsize
    BY <2>2, <2>3, <2>4, <2>5 DEF TypeOK
  <2> QED
    BY <2>1, <2>7, <2>9, <2>10, Underway
<1> QED BY <1>4, <1>5

\* The handlers that do not enter a loop, or enter one that leaves the file
\* objects alone.
LEMMA ReceivePosition == ASSUME TypeOK, PositionInv, Receive PROVE PositionInv'
<1>0. req.op = "idle" /\ \A g \in Fds : InFile(fd_stack[g])
  BY Within DEF Receive
<1>1. ASSUME fd_stack' = fd_stack, req'.op \notin {"read", "seek"} PROVE PositionInv'
  BY <1>0, <1>1 DEF PositionInv, PositionInFile, InFile
<1>2. Idle.op = "idle"
  BY DEF Idle
<1>3. ASSUME NEW f \in Fds, NEW h, InFile(h), fd_stack' = [fd_stack EXCEPT ![f] = h], req' = Idle
      PROVE  PositionInv'
  BY <1>0, <1>2, <1>3, OneFile, Acknowledged
<1>4. ASSUME NEW n \in Names, PathRequest(n) PROVE PositionInv'
  <2>1. ASSUME NEW f \in Fds, NEW s, NEW flag, NEW e \in Entry, Opened(f, s, flag, e), req' = Idle
        PROVE  PositionInv'
    <3>1. PICK h : h = [fs |-> 1, ent |-> s, flag |-> flag, fptr |-> 0, fsize |-> e.size,
                        org |-> e.clust, curr |-> 0]
      OBVIOUS
    <3>2. InFile(h)
      BY <3>1 DEF InFile, Entry
    <3> QED BY <1>3, <2>1, <3>1, <3>2 DEF Opened
  <2>2. ASSUME NEW mode \in Modes, FS_Open_Found(n, mode) PROVE PositionInv'
    <3>1. PICK f \in Fds, s \in EntryOf(n) : Opened(f, s, mode, dir[s]) /\ req' = Idle
      BY <2>2 DEF FS_Open_Found, Answer
    <3>2. dir[s] \in Entry
      BY DEF EntryOf, TypeOK
    <3> QED BY <2>1, <3>1, <3>2
  <2>3. ASSUME NEW mode \in Modes, NEW nmh2 \in BOOLEAN, FS_Open_Missing(n, mode, nmh2)
        PROVE  PositionInv'
    <3>1. NoEntry \in Entry
      BY DEF NoEntry, Entry, BadClust
    <3>2. \/ fd_stack' = fd_stack /\ req' = Idle
          \/ \E f \in Fds, s \in Slots : Opened(f, s, mode \cup {"WRITTEN"}, NoEntry) /\ req' = Idle
      BY <2>3 DEF FS_Open_Missing, Answer
    <3> QED BY <1>1, <1>2, <2>1, <3>1, <3>2
  <2>4. CASE FS_Open_NoHandle
    BY <1>1, <1>2, <2>4 DEF FS_Open_NoHandle, Answer
  <2>5. CASE FS_CreateFile(n)
    BY <1>1, <1>2, <2>5 DEF FS_CreateFile, Answer
  <2>6. ASSUME NEW s, NEW op \in {"delete", "move"}, NEW src, NEW dst, Unlink(s, op, src, dst)
        PROVE  req'.op \notin {"read", "seek"}
    BY <2>6 DEF Unlink, Start, Idle
  <2>7. CASE FS_DeleteFile(n)
    BY <1>1, <1>2, <2>6, <2>7 DEF FS_DeleteFile, Answer
  <2>8. ASSUME NEW m \in Names, FS_Move(n, m) PROVE PositionInv'
    <3>1. fd_stack' = fd_stack
      BY <2>8 DEF FS_Move
    <3>2. req' = Idle \/ \E d \in EntryOf(m) : Unlink(d, "move", n, m)
      BY <2>8 DEF FS_Move, Rename, Rename_error, Answer
    <3> QED BY <1>1, <1>2, <2>6, <3>1, <3>2
  <2> QED
    BY <1>4, <2>2, <2>3, <2>4, <2>5, <2>7, <2>8 DEF PathRequest, FS_Open
<1>5. ASSUME NEW f \in Fds, HandleRequest(f) PROVE PositionInv'
  <2>1. CASE FS_Close(f)
    <3>1. InFile(NoFile)
      BY DEF InFile, NoFile
    <3> QED BY <1>3, <2>1, <3>1 DEF FS_Close, Answer
  <2>2. CASE \E op \in {"read", "write", "seek", "close"} : BadHandle(op, f)
    BY <1>1, <1>2, <2>2 DEF BadHandle, Answer
  <2>3. CASE Refuse("read", f, "READ") \/ Refuse("write", f, "WRITE")
    BY <1>1, <1>2, <2>3 DEF Refuse, Answer
  <2>4. ASSUME NEW n \in Lengths, FS_Read(f, n) PROVE PositionInv'
    BY <1>0, <2>4, ReadPosition
  <2>5. ASSUME NEW b \in Buffers, FS_Write(f, b) PROVE PositionInv'
    <3>1. PICK w : req' = [Idle EXCEPT !.op = "write", !.fd = f, !.buf = w]
      BY <2>5 DEF FS_Write, Start
    <3>2. req'.op = "write" /\ fd_stack' = fd_stack
      BY <2>5, <3>1 DEF Idle, FS_Write
    <3> QED BY <1>1, <3>2
  <2>6. ASSUME NEW where \in Offsets, NEW whence \in {"SEEK_SET", "SEEK_CUR", "SEEK_END"},
               FS_Seek_Refused(f, where, whence)
        PROVE  PositionInv'
    BY <1>1, <1>2, <2>6 DEF FS_Seek_Refused, Answer
  <2>7. ASSUME NEW where \in Offsets, NEW whence \in {"SEEK_SET", "SEEK_CUR", "SEEK_END"},
               FS_Seek(f, where, whence)
        PROVE  PositionInv'
    BY <1>0, <2>7, SeekPosition
  <2> QED
    BY <1>5, <2>1, <2>2, <2>3, <2>4, <2>5, <2>6, <2>7 DEF HandleRequest
<1>6. CASE DirError
  BY <1>1, <1>2, <1>6 DEF DirError, Answer
<1> QED
  BY <1>4, <1>5, <1>6 DEF Receive

\* The loops: what is left of a read or a seek shrinks as the position grows.
LEMMA WorkPosition == ASSUME TypeOK, PositionInv, Work PROVE PositionInv'
<1> DEFINE f == req.fd
           h == fd_stack[req.fd]
<1>0. /\ f \in Fds /\ h \in FIL /\ h.fptr \in Nat /\ h.fsize \in Nat
      /\ req \in Request /\ req.left \in Nat
  BY Working, FileUpdates
<1>1. ASSUME NEW c \in Clusters PROVE Onto(h, c).fptr = h.fptr + 1 /\ Onto(h, c).fsize = h.fsize
  BY <1>0 DEF Onto, FIL
<1>2. ASSUME req.op # "write", fd_stack' = fd_stack, req'.op \notin {"read", "seek"}
      PROVE  PositionInv'
  BY <1>2, Within DEF PositionInv, PositionInFile, InFile
<1>3. Idle.op = "idle"
  BY DEF Idle
\* A round of f_read or f_lseek.
<1>4. ASSUME NEW c \in Clusters, req.op \in {"read", "seek"}, req.left >= 1,
             req.op = "seek" => req.left > 1,
             fd_stack' = [fd_stack EXCEPT ![f] = Onto(h, c)],
             req'.op = req.op, req'.fd = f, req'.left = req.left - 1
      PROVE  PositionInv'
  <2>1. PICK k : k = Onto(h, c)
    OBVIOUS
  <2>2. k.fptr = h.fptr + 1 /\ k.fsize = h.fsize
    BY <1>1, <2>1
  <2>3. h.fptr + req.left <= h.fsize
    BY <1>4 DEF PositionInv
  <2>4. InFile(k)
    BY <1>0, <1>4, <2>2, <2>3 DEF InFile
  <2>5. \A g \in Fds : InFile(fd_stack'[g])
    <3>1. fd_stack' = [fd_stack EXCEPT ![f] = k] /\ req.op # "write"
      BY <1>4, <2>1
    <3> QED BY <1>0, <2>4, <3>1, OneFile
  <2>6. fd_stack'[f] = k
    BY <1>0, <1>4, <2>1 DEF TypeOK
  <2>7. k.fptr + (req.left - 1) <= k.fsize
    BY <1>0, <2>2, <2>3
  <2>8. req.op = "seek" => req.left - 1 >= 1
    BY <1>0, <1>4
  <2> QED
    BY <1>4, <2>5, <2>6, <2>7, <2>8, Underway
<1>5. CASE f_read_step
  <2>1. CASE ReadClust(h) \in Clusters
    <3>1. PICK v \in Vals :
            /\ fd_stack' = [fd_stack EXCEPT ![f] = Onto(h, ReadClust(h))]
            /\ req' = [req EXCEPT !.left = req.left - 1, !.buf = Append(req.buf, v)]
      BY <1>5, <2>1 DEF f_read_step
    <3>2. req'.op = req.op /\ req'.fd = f /\ req'.left = req.left - 1
      BY <1>0, <3>1 DEF Request
    <3>3. req.op = "read" /\ req.left >= 1
      <4>1. req.op = "read" /\ req.left > 0
        BY <1>5 DEF f_read_step
      <4> QED BY <1>0, <4>1
    <3> QED
      BY <1>4, <2>1, <3>1, <3>2, <3>3
  <2>2. CASE ReadClust(h) \notin Clusters
    BY <1>0, <1>5, <2>2, AbortPosition DEF f_read_step
  <2> QED BY <2>1, <2>2
<1>6. CASE f_read_error
  BY <1>0, <1>6, AbortPosition DEF f_read_error
<1>7. CASE f_read_end
  BY <1>2, <1>3, <1>7 DEF f_read_end, Answer
<1>8. CASE f_write_step
  <2>1. CASE \E n : Put(f, n)
    <3>1. PICK n : Put(f, n)
      BY <2>1
    <3>2. req' = [req EXCEPT !.buf = Tail(req.buf), !.done = req.done + 1] /\ req.op = "write"
      BY <1>8, <3>1 DEF Put, f_write_step
    <3>3. req'.op = "write" /\ req'.fd = f
      BY <1>0, <3>2 DEF Request
    <3>4. PICK k : fd_stack' = [fd_stack EXCEPT ![f] = k]
      BY <3>1 DEF Put
    <3>5. \A g \in Fds : g # f => fd_stack'[g] = fd_stack[g]
      BY <3>4 DEF TypeOK
    <3>6. \A g \in Fds : g # f => InFile(fd_stack[g])
      BY Within
    <3> QED
      BY <3>3, <3>5, <3>6 DEF PositionInv, PositionInFile, InFile
  <2>2. CASE fd_stack' = fd_stack /\ req' = [req EXCEPT !.buf = <<>>]
    <3>1. req'.op = req.op /\ req'.fd = f /\ req.op = "write"
      BY <1>0, <1>8, <2>2 DEF Request, f_write_step
    <3> QED
      BY <2>2, <3>1 DEF PositionInv, PositionInFile
  <2>3. CASE Abort("write", f)
    BY <1>0, <2>3, AbortPosition
  <2> QED
    BY <1>8, <2>1, <2>2, <2>3 DEF f_write_step
<1>9. CASE f_write_error
  <2>1. CASE Abort("write", f)
    BY <1>0, <2>1, AbortPosition
  <2>2. CASE ~ Abort("write", f)
    <3>0. PICK n \in Clusters : \E c : fd_stack' \in
            {[fd_stack EXCEPT ![f] = [Marked(h) EXCEPT !.org = c]],
             [fd_stack EXCEPT ![f] = [Marked(h) EXCEPT !.curr = n, !.org = c]]}
      BY <1>9, <2>2 DEF f_write_error
    <3>1. PICK c : fd_stack' \in
            {[fd_stack EXCEPT ![f] = [Marked(h) EXCEPT !.org = c]],
             [fd_stack EXCEPT ![f] = [Marked(h) EXCEPT !.curr = n, !.org = c]]}
      BY <3>0
    <3>2. PICK k \in {[Marked(h) EXCEPT !.org = c], [Marked(h) EXCEPT !.curr = n, !.org = c]} :
            fd_stack' = [fd_stack EXCEPT ![f] = k]
      BY <3>1
    <3>3. Marked(h) \in FIL /\ "ERROR" \in Marked(h).flag
      BY <1>0, MarkedType DEF Marked, FIL
    <3>4. k.flag = Marked(h).flag
      <4>1. \A m \in FIL : /\ [m EXCEPT !.org = c].flag = m.flag
                           /\ [m EXCEPT !.curr = n, !.org = c].flag = m.flag
        BY DEF FIL
      <4> QED BY <3>2, <3>3, <4>1
    <3>5. InFile(k)
      BY <3>3, <3>4 DEF InFile
    <3>6. req' = Idle
      BY <1>9, <2>2 DEF f_write_error, Answer
    <3> QED
      BY <1>0, <1>3, <3>2, <3>5, <3>6, OneFile, Acknowledged
  <2> QED BY <2>1, <2>2
<1>10. CASE f_write_end
  <2>1. PICK size \in Nat : size = Larger(h.fsize, h.fptr)
    BY <1>0 DEF Larger
  <2>2. size >= h.fptr
    BY <1>0, <2>1 DEF Larger
  <2>3. PICK k : k = Written(h, size)
    OBVIOUS
  <2>4. k.fptr = h.fptr /\ k.fsize = size
    BY <1>0, <2>3 DEF Written, FIL
  <2>5. InFile(k)
    BY <1>0, <2>2, <2>4 DEF InFile
  <2>6. fd_stack' = [fd_stack EXCEPT ![f] = k] /\ req' = Idle
    BY <1>10, <2>1, <2>3 DEF f_write_end, Answer
  <2> QED
    BY <1>0, <1>3, <2>5, <2>6, OneFile, Acknowledged
<1>11. CASE f_lseek_step
  <2> DEFINE c == get_cluster(h.curr)
  <2>1. CASE c \in Clusters
    <3>1. /\ fd_stack' = [fd_stack EXCEPT ![f] = Onto(h, c)]
          /\ req' = [req EXCEPT !.left = req.left - 1]
      BY <1>11, <2>1 DEF f_lseek_step
    <3>2. req'.op = req.op /\ req'.fd = f /\ req'.left = req.left - 1
      BY <1>0, <3>1 DEF Request
    <3>3. req.op = "seek" /\ req.left > 1
      BY <1>11 DEF f_lseek_step
    <3>4. req.left >= 1
      BY <1>0, <3>3
    <3> QED
      BY <1>4, <2>1, <3>1, <3>2, <3>3, <3>4
  <2>2. CASE c \notin Clusters
    BY <1>0, <1>11, <2>2, AbortPosition DEF f_lseek_step
  <2> QED BY <2>1, <2>2
<1>12. CASE f_lseek_end
  <2>1. PICK fptr \in Nat : fptr = h.fptr + (IF h.curr # 0 THEN 1 ELSE 0)
    BY <1>0
  <2>2. fptr <= h.fsize
    <3>1. h.fptr + req.left <= h.fsize /\ req.left >= 1
      BY <1>12 DEF PositionInv, f_lseek_end
    <3> QED BY <1>0, <2>1, <3>1
  <2>3. PICK k : k = [h EXCEPT !.fptr = fptr]
    OBVIOUS
  <2>4. InFile(k)
    BY <1>0, <2>2, <2>3 DEF InFile, FIL
  <2>5. fd_stack' = [fd_stack EXCEPT ![f] = k] /\ req' = Idle
    BY <1>12, <2>1, <2>3 DEF f_lseek_end, Answer
  <2> QED
    BY <1>0, <1>3, <2>4, <2>5, OneFile, Acknowledged
<1>13. CASE remove_chain_step \/ remove_chain_error
  <2>1. PICK c : req' = [req EXCEPT !.clst = c] /\ fd_stack' = fd_stack /\ Freeing
    BY <1>13 DEF remove_chain_step, remove_chain_error
  <2>2. req'.op = req.op /\ req.op \in {"delete", "move"}
    BY <1>0, <2>1 DEF Request, Freeing
  <2> QED BY <1>2, <2>1, <2>2
<1>14. CASE remove_chain_end \/ f_rename_again_error
  <2>1. req' = Idle /\ fd_stack' = fd_stack /\ Freeing
    BY <1>14 DEF remove_chain_end, f_rename_again_error, Rename, Rename_error, Answer, Freeing
  <2> QED BY <1>2, <1>3, <2>1 DEF Freeing
<1> QED
  BY <1>5, <1>6, <1>7, <1>8, <1>9, <1>10, <1>11, <1>12, <1>13, <1>14 DEF Work

\* A position never leaves its file, with every fault allowed: fsize - fptr
\* does not wrap in f_read, and f_lseek ends within the file.
THEOREM PositionSafe == Spec => []PositionInFile
<1>1. Init => PositionInv
  <2> SUFFICES ASSUME Init PROVE PositionInv
    OBVIOUS
  <2>1. \A g \in Fds : fd_stack[g] = NoFile
    BY DEF Init
  <2>2. NoFile.fptr = 0 /\ NoFile.fsize = 0 /\ Idle.op = "idle"
    BY DEF NoFile, Idle
  <2> QED
    BY <2>1, <2>2 DEF Init, PositionInv, PositionInFile
<1>2. TypeOK /\ PositionInv /\ [Next]_vars => PositionInv'
  <2> SUFFICES ASSUME TypeOK, PositionInv, [Next]_vars PROVE PositionInv'
    OBVIOUS
  <2>1. CASE Next
    BY <2>1, ReceivePosition, WorkPosition DEF Next
  <2>2. CASE UNCHANGED vars
    BY <2>2 DEF vars, PositionInv, PositionInFile
  <2> QED BY <2>1, <2>2
<1>3. PositionInv => PositionInFile
  BY DEF PositionInv
<1> QED
  BY <1>1, <1>2, <1>3, TypeCorrect, PTL DEF Spec

-----------------------------------------------------------------------------
(***************************************************************************)
(* The volume is sound: VolumeSound of FFS for any number of names,        *)
(* handles, clusters and entries, and with transfers that fail anywhere.   *)
(*                                                                         *)
(* VolumeSound speaks of the references to a cluster.  Most steps leave    *)
(* them as they are; f_write adds one reference, to a cluster that had     *)
(* none; and f_unlink, f_rename, f_sync and remove_chain replace one       *)
(* reference by another.  What makes the last kind safe is stated by       *)
(* VolumeInv: whose entry is whose.                                        *)
(***************************************************************************)

HIDE FFSAssumption

\* The first cluster of open file f is not the one its entry names.
Fresh(f) == fd_stack[f].org # dir[fd_stack[f].ent].clust

\* Entries that are not in use name no cluster.
FreeEntries == \A s \in Slots : dir[s].name = NoName => dir[s].clust = 0

\* An open file has its entry, which names its first cluster unless a writer has
\* just been given that cluster.
HandlesFit ==
  \A f \in Fds : fd_stack[f].fs = 1 =>
    /\ fd_stack[f].ent \in Slots /\ dir[fd_stack[f].ent].name # NoName
    /\ Fresh(f) => dir[fd_stack[f].ent].clust = 0 /\ "WRITE" \in fd_stack[f].flag

\* A writer has its file for itself.
WritersAlone ==
  \A f, g \in Fds :
    /\ fd_stack[f].fs = 1 /\ fd_stack[g].fs = 1 /\ f # g
    /\ fd_stack[f].ent = fd_stack[g].ent
    => "WRITE" \notin fd_stack[f].flag

\* What f_write and f_rename work on.
RequestFits ==
  /\ req.op = "write" => fd_stack[req.fd].fs = 1 /\ "WRITE" \in fd_stack[req.fd].flag
  /\ req.op = "move" => /\ req.src \in Names /\ req.dst \in Names
                        /\ \A s \in EntryOf(req.src) : Users(s) = {}

\* The first cluster of a file gets into its entry: the file is marked, or f_write
\* will mark it, which goes on at the end of the chain.
FreshMarked ==
  \A f \in Fds : fd_stack[f].fs = 1 /\ Fresh(f) =>
    \/ "WRITTEN" \in fd_stack[f].flag
    \/ /\ req.op = "write" /\ req.fd = f /\ fd_stack[f].fptr > 0
       /\ fd_stack[f].curr \in Clusters /\ fat[fd_stack[f].curr] = EOC

\* Each cluster has at most one reference, and none when it is free.
Referred ==
  \A c \in Clusters : /\ \A x, y \in Refs(c) : x = y
                      /\ Refs(c) # {} => fat[c] # 0

\* Each cluster in use has a reference.
Reached == \A c \in Clusters : fat[c] # 0 => Refs(c) # {}

VolumeInv ==
  /\ OneOwner(faults) =>
       Referred /\ FreeEntries /\ HandlesFit /\ WritersAlone /\ RequestFits
  /\ faults = {} => Reached /\ FreshMarked

-----------------------------------------------------------------------------
(***************************************************************************)
(* References.                                                             *)
(***************************************************************************)

FdRef(f, c) == /\ fd_stack[f].fs = 1
               /\ fd_stack[f].org = c
               /\ dir[fd_stack[f].ent].clust # c
ReqRef(c) == Freeing /\ req.clst = c

Token == ({"fat"} \X Clusters) \cup ({"dir"} \X Slots) \cup ({"fd"} \X Fds)
         \cup {<<"req", 0>>}

\* The members of Refs, one kind after the other.
LEMMA RefsOf ==
  ASSUME NEW c
  PROVE  /\ Refs(c) \subseteq Token
         /\ \A p \in Clusters : <<"fat", p>> \in Refs(c) <=> fat[p] = c
         /\ \A s \in Slots : <<"dir", s>> \in Refs(c) <=> dir[s].clust = c
         /\ \A f \in Fds : <<"fd", f>> \in Refs(c) <=> FdRef(f, c)
         /\ <<"req", 0>> \in Refs(c) <=> ReqRef(c)
  BY DEF Refs, FdRef, ReqRef, Token

\* The same for the next state.
LEMMA RefsNext ==
  ASSUME NEW c
  PROVE  /\ Refs(c)' \subseteq Token
         /\ \A p \in Clusters : <<"fat", p>> \in Refs(c)' <=> fat'[p] = c
         /\ \A s \in Slots : <<"dir", s>> \in Refs(c)' <=> dir'[s].clust = c
         /\ \A f \in Fds : <<"fd", f>> \in Refs(c)' <=> FdRef(f, c)'
         /\ <<"req", 0>> \in Refs(c)' <=> ReqRef(c)'
  BY DEF Refs, FdRef, ReqRef, Token

\* A token is of one kind.
LEMMA Tokens ==
  /\ \A x \in Token : \/ \E p \in Clusters : x = <<"fat", p>>
                      \/ \E s \in Slots : x = <<"dir", s>>
                      \/ \E f \in Fds : x = <<"fd", f>>
                      \/ x = <<"req", 0>>
  /\ \A p, s : <<"fat", p>> # <<"dir", s>> /\ <<"fat", p>> # <<"fd", s>>
  /\ \A s, f : <<"dir", s>> # <<"fd", f>>
  /\ \A p : /\ <<"fat", p>> # <<"req", 0>> /\ <<"dir", p>> # <<"req", 0>>
            /\ <<"fd", p>> # <<"req", 0>>
  /\ \A p, q : /\ <<"fat", p>> = <<"fat", q>> => p = q
               /\ <<"dir", p>> = <<"dir", q>> => p = q
               /\ <<"fd", p>> = <<"fd", q>> => p = q
  BY DEF Token

\* A step that adds no reference to c.
LEMMA FewerRefs ==
  ASSUME NEW c,
         \A p \in Clusters : fat'[p] = c => fat[p] = c,
         \A s \in Slots : dir'[s].clust = c => dir[s].clust = c,
         \A f \in Fds : FdRef(f, c)' => FdRef(f, c),
         ReqRef(c)' => ReqRef(c)
  PROVE  Refs(c)' \subseteq Refs(c)
  BY RefsOf, RefsNext, Tokens

\* A step that takes no reference from c.
LEMMA MoreRefs ==
  ASSUME NEW c,
         \A p \in Clusters : fat[p] = c => fat'[p] = c,
         \A s \in Slots : dir[s].clust = c => dir'[s].clust = c,
         \A f \in Fds : FdRef(f, c) => FdRef(f, c)',
         ReqRef(c) => ReqRef(c)'
  PROVE  Refs(c) \subseteq Refs(c)'
  BY RefsOf, RefsNext, Tokens

\* A step that keeps the table and adds no reference.
LEMMA ReferredKept ==
  ASSUME Referred, fat' = fat, \A c \in Clusters : Refs(c)' \subseteq Refs(c)
  PROVE  Referred'
  BY DEF Referred

\* A step that keeps the table and takes no reference.
LEMMA ReachedKept ==
  ASSUME Reached, fat' = fat, \A c \in Clusters : Refs(c) \subseteq Refs(c)'
  PROVE  Reached'
  BY DEF Reached

\* A step that keeps the table and replaces references one for one.
LEMMA ReferredMoved ==
  ASSUME Referred, fat' = fat,
         \A c \in Clusters : \/ Refs(c)' = Refs(c)
                            \/ \E a, b : Refs(c) = {a} /\ Refs(c)' = {b}
  PROVE  Referred' /\ (Reached => Reached')
<1>1. \A c \in Clusters : /\ \A x, y \in Refs(c)' : x = y
                         /\ Refs(c)' # {} <=> Refs(c) # {}
  BY DEF Referred
<1> QED
  BY <1>1 DEF Referred, Reached

\* What matters here of open file f is kept.
SameFile(f) ==
  LET h == fd_stack[f]
      k == fd_stack'[f]
  IN  /\ k.fs = h.fs /\ k.ent = h.ent /\ k.org = h.org
      /\ "WRITE" \in k.flag <=> "WRITE" \in h.flag
      /\ "WRITTEN" \in h.flag => "WRITTEN" \in k.flag

\* Outside f_write a marked file stays marked.
LEMMA FreshKept ==
  ASSUME FreshMarked, dir' = dir, \A f \in Fds : SameFile(f), req.op # "write"
  PROVE  FreshMarked'
  BY DEF FreshMarked, Fresh, SameFile

\* What the files are does not depend on positions, sizes and marks.
LEMMA FilesKept ==
  ASSUME FreeEntries, HandlesFit, WritersAlone, dir' = dir, \A f \in Fds : SameFile(f)
  PROVE  FreeEntries' /\ HandlesFit' /\ WritersAlone'
<1>1. FreeEntries'
  BY DEF FreeEntries
<1>2. HandlesFit'
  BY DEF HandlesFit, SameFile, Fresh
<1>3. WritersAlone'
  BY DEF WritersAlone, SameFile
<1> QED
  BY <1>1, <1>2, <1>3

\* A step that keeps table, entries and what the handles refer to, and ends the
\* removal of a chain if there was one.
LEMMA Quiet ==
  ASSUME VolumeInv, faults \subseteq faults', fat' = fat, dir' = dir,
         \A f \in Fds : SameFile(f),
         req'.op \notin {"delete", "move"},
         faults' = {} => FreshMarked',
         faults' = {} => \A c \in Clusters : ~ ReqRef(c),
         OneOwner(faults) /\ req'.op = "write" =>
            /\ req'.fd \in Fds /\ fd_stack[req'.fd].fs = 1
            /\ "WRITE" \in fd_stack[req'.fd].flag
  PROVE  VolumeInv'
<1>0. \A c : ~ ReqRef(c)'
  BY DEF ReqRef, Freeing
<1>1. \A f \in Fds, c \in Clusters : FdRef(f, c)' <=> FdRef(f, c)
  BY DEF FdRef, SameFile
<1>2. \A c \in Clusters : Refs(c)' \subseteq Refs(c)
  BY <1>0, <1>1, FewerRefs
<1>3. ASSUME OneOwner(faults')
      PROVE  (Referred /\ FreeEntries /\ HandlesFit /\ WritersAlone /\ RequestFits)'
  <2>1. OneOwner(faults)
    BY <1>3 DEF OneOwner
  <2>2. RequestFits'
    BY <2>1 DEF RequestFits, SameFile
  <2> QED
    BY <1>2, <2>1, <2>2, ReferredKept, FilesKept DEF VolumeInv
<1>4. ASSUME faults' = {} PROVE Reached' /\ FreshMarked'
  <2>1. faults = {}
    BY <1>4
  <2>2. \A c \in Clusters : Refs(c) \subseteq Refs(c)'
    BY <1>1, <1>4, MoreRefs
  <2> QED
    BY <1>4, <2>1, <2>2, ReachedKept DEF VolumeInv
<1> QED
  BY <1>3, <1>4 DEF VolumeInv

\* The removal of a chain ends where there is no cluster.
LEMMA NoRemoval ==
  ASSUME req.op \notin {"delete", "move"} PROVE \A c \in Clusters : ~ ReqRef(c)
  BY DEF ReqRef, Freeing

\* The initial state.
LEMMA InitVolume == Init => VolumeInv
<1> SUFFICES ASSUME Init PROVE VolumeInv
  OBVIOUS
<1>1. \A c \in Clusters : Refs(c) = {}
  <2> TAKE c \in Clusters
  <2>1. c # 0
    BY ClusterNumbers
  <2>2. /\ \A p \in Clusters : <<"fat", p>> \notin Refs(c)
        /\ \A s \in Slots : <<"dir", s>> \notin Refs(c)
        /\ \A f \in Fds : <<"fd", f>> \notin Refs(c)
        /\ <<"req", 0>> \notin Refs(c)
    BY <2>1, RefsOf DEF Init, NoEntry, NoFile, Idle, FdRef, ReqRef, Freeing
  <2> QED
    BY <2>2, RefsOf, Tokens
<1>2. \A f \in Fds : fd_stack[f].fs = 0
  BY DEF Init, NoFile
<1>3. Referred /\ Reached
  BY <1>1 DEF Referred, Reached, Init
<1>4. FreeEntries
  BY DEF FreeEntries, Init, NoEntry
<1>5. RequestFits
  BY DEF RequestFits, Init, Idle
<1> QED
  BY <1>2, <1>3, <1>4, <1>5 DEF VolumeInv, HandlesFit, WritersAlone, FreshMarked

-----------------------------------------------------------------------------
(***************************************************************************)
(* Opening, creating and closing.                                          *)
(***************************************************************************)

\* A handle is filled from an entry: by a reader among readers, or alone.
LEMMA OpenVolume ==
  ASSUME TypeOK, VolumeInv, req.op = "idle", NEW f \in Fds, NEW s \in Slots,
         FreeHandle(f), dir[s].name # NoName,
         NEW mode, Opened(f, s, mode, dir[s]), mode \in SUBSET Flags,
         faults \subseteq faults', fat' = fat, dir' = dir, req' = Idle,
         OneOwner(faults') =>
            \A g \in Users(s) : "WRITE" \notin mode \cup fd_stack[g].flag
  PROVE  VolumeInv'
<1>1. /\ fd_stack'[f].fs = 1 /\ fd_stack'[f].ent = s /\ fd_stack'[f].flag = mode
      /\ fd_stack'[f].org = dir[s].clust
  BY DEF TypeOK, Opened
<1>2. \A g \in Fds \ {f} : fd_stack'[g] = fd_stack[g]
  BY DEF TypeOK, Opened
<1>3. fd_stack[f].fs = 0 /\ req'.op = "idle"
  BY DEF FreeHandle, Idle
<1>4. \A g \in Fds, c \in Clusters : FdRef(g, c)' <=> FdRef(g, c)
  BY <1>1, <1>2, <1>3 DEF FdRef
<1>5. \A c \in Clusters : Refs(c)' = Refs(c)
  <2>1. \A c : ~ ReqRef(c) /\ ~ ReqRef(c)'
    BY <1>3 DEF ReqRef, Freeing
  <2> TAKE c \in Clusters
  <2>2. Refs(c)' \subseteq Refs(c)
    BY <1>4, <2>1, FewerRefs
  <2>3. Refs(c) \subseteq Refs(c)'
    BY <1>4, <2>1, MoreRefs
  <2> QED
    BY <2>2, <2>3
<1>6. ASSUME OneOwner(faults')
      PROVE  (Referred /\ FreeEntries /\ HandlesFit /\ WritersAlone /\ RequestFits)'
  <2>1. OneOwner(faults)
    BY <1>6 DEF OneOwner
  <2>2. Referred' /\ FreeEntries'
    BY <2>1, <1>5, ReferredKept DEF VolumeInv, FreeEntries
  <2>3. HandlesFit'
    BY <1>1, <1>2, <2>1 DEF VolumeInv, HandlesFit, Fresh
  <2>4. WritersAlone'
    BY <1>1, <1>2, <1>6, <2>1 DEF VolumeInv, WritersAlone, Users
  <2>5. RequestFits'
    BY <1>3 DEF RequestFits
  <2> QED
    BY <2>2, <2>3, <2>4, <2>5
<1>7. ASSUME faults' = {} PROVE Reached' /\ FreshMarked'
  <2>1. faults = {}
    BY <1>7
  <2>2. FreshMarked'
    BY <1>1, <1>2, <1>3, <2>1 DEF VolumeInv, FreshMarked, Fresh
  <2> QED
    BY <1>5, <2>1, <2>2, ReachedKept DEF VolumeInv
<1> QED
  BY <1>6, <1>7 DEF VolumeInv

\* A new entry names no cluster, and no handle has it.
LEMMA EntryVolume ==
  ASSUME TypeOK, VolumeInv, req.op = "idle", NEW s \in Slots, dir[s].name = NoName,
         NEW n \in Names, dir' = [dir EXCEPT ![s] = [NoEntry EXCEPT !.name = n]],
         fd_stack' = fd_stack, faults' = faults, fat' = fat, req' = Idle
  PROVE  VolumeInv'
<1>1. dir'[s].name = n /\ dir'[s].clust = 0 /\ n # NoName /\ req'.op = "idle"
  BY FFSAssumption DEF TypeOK, NoEntry, Idle
<1>2. \A t \in Slots \ {s} : dir'[t] = dir[t]
  BY DEF TypeOK
<1>3. ASSUME OneOwner(faults)
      PROVE  \A g \in Fds : fd_stack[g].fs = 1 =>
               /\ fd_stack[g].ent \in Slots \ {s}
               /\ dir'[fd_stack[g].ent] = dir[fd_stack[g].ent]
  BY <1>2, <1>3 DEF VolumeInv, HandlesFit
<1>4. ASSUME OneOwner(faults), NEW c \in Clusters PROVE Refs(c)' = Refs(c)
  <2>1. dir[s].clust # c /\ dir'[s].clust # c
    BY <1>1, <1>4, ClusterNumbers DEF VolumeInv, FreeEntries
  <2>2. \A t \in Slots : dir'[t].clust = c <=> dir[t].clust = c
    BY <1>2, <2>1
  <2>3. \A g \in Fds : FdRef(g, c)' <=> FdRef(g, c)
    BY <1>3, <1>4 DEF FdRef
  <2>4. ~ ReqRef(c) /\ ~ ReqRef(c)'
    BY <1>1 DEF ReqRef, Freeing
  <2>5. Refs(c)' \subseteq Refs(c)
    BY <2>2, <2>3, <2>4, FewerRefs
  <2>6. Refs(c) \subseteq Refs(c)'
    BY <2>2, <2>3, <2>4, MoreRefs
  <2> QED
    BY <2>5, <2>6
<1>5. ASSUME OneOwner(faults)
      PROVE  (Referred /\ FreeEntries /\ HandlesFit /\ WritersAlone /\ RequestFits)'
  <2>1. Referred'
    BY <1>4, <1>5, ReferredKept DEF VolumeInv
  <2>2. FreeEntries'
    BY <1>1, <1>2, <1>5 DEF VolumeInv, FreeEntries
  <2>3. HandlesFit'
    BY <1>3, <1>5 DEF VolumeInv, HandlesFit, Fresh
  <2>4. WritersAlone'
    BY <1>5 DEF VolumeInv, WritersAlone
  <2>5. RequestFits'
    BY <1>1 DEF RequestFits
  <2> QED
    BY <2>1, <2>2, <2>3, <2>4, <2>5
<1>6. ASSUME faults = {} PROVE Reached' /\ FreshMarked'
  <2>1. FreshMarked'
    BY <1>1, <1>3, <1>6 DEF VolumeInv, FreshMarked, Fresh, OneOwner
  <2> QED
    BY <1>4, <1>6, <2>1, ReachedKept DEF VolumeInv, OneOwner
<1> QED
  BY <1>5, <1>6 DEF VolumeInv

\* A slot is given back without its entry being written: nothing refers to the first
\* cluster any more, which was lost unless the entry names it.
LEMMA DropVolume ==
  ASSUME TypeOK, VolumeInv, NEW f \in Fds, req.op = "idle", req' = Idle,
         fd_stack' = [fd_stack EXCEPT ![f] = NoFile], fat' = fat, dir' = dir,
         faults \subseteq faults',
         faults' = {} => ~ (fd_stack[f].fs = 1 /\ Fresh(f))
  PROVE  VolumeInv'
<1>1. fd_stack'[f].fs = 0 /\ req'.op = "idle"
  BY DEF TypeOK, NoFile, Idle
<1>2. \A g \in Fds \ {f} : fd_stack'[g] = fd_stack[g]
  BY DEF TypeOK
<1>3. \A c : ~ ReqRef(c) /\ ~ ReqRef(c)'
  BY <1>1 DEF ReqRef, Freeing
<1>4. \A g \in Fds, c \in Clusters : FdRef(g, c)' => FdRef(g, c)
  BY <1>1, <1>2 DEF FdRef
<1>5. \A c \in Clusters : Refs(c)' \subseteq Refs(c)
  BY <1>3, <1>4, FewerRefs
<1>6. ASSUME OneOwner(faults')
      PROVE  (Referred /\ FreeEntries /\ HandlesFit /\ WritersAlone /\ RequestFits)'
  <2>1. OneOwner(faults)
    BY <1>6 DEF OneOwner
  <2>2. Referred' /\ FreeEntries'
    BY <1>5, <2>1, ReferredKept DEF VolumeInv, FreeEntries
  <2>3. HandlesFit'
    BY <1>1, <1>2, <2>1 DEF VolumeInv, HandlesFit, Fresh
  <2>4. WritersAlone'
    BY <1>1, <1>2, <2>1 DEF VolumeInv, WritersAlone
  <2>5. RequestFits'
    BY <1>1 DEF RequestFits
  <2> QED
    BY <2>2, <2>3, <2>4, <2>5
<1>7. ASSUME faults' = {} PROVE Reached' /\ FreshMarked'
  <2>1. faults = {}
    BY <1>7
  <2>2. FreshMarked'
    BY <1>1, <1>2, <2>1 DEF VolumeInv, FreshMarked, Fresh
  <2>3. \A g \in Fds, c \in Clusters : FdRef(g, c) => FdRef(g, c)'
    BY <1>2, <1>7 DEF FdRef, Fresh
  <2>4. \A c \in Clusters : Refs(c) \subseteq Refs(c)'
    BY <1>3, <2>3, MoreRefs
  <2> QED
    BY <2>1, <2>2, <2>4, ReachedKept DEF VolumeInv
<1> QED
  BY <1>6, <1>7 DEF VolumeInv

\* f_sync: the entry is told the first cluster, which only this handle referred to.
LEMMA SyncVolume ==
  ASSUME TypeOK, VolumeInv, NEW f \in Fds, req.op = "idle", req' = Idle,
         fd_stack[f].fs = 1, dir[fd_stack[f].ent].name # NoName,
         dir' = [dir EXCEPT ![fd_stack[f].ent] =
                   [@ EXCEPT !.clust = fd_stack[f].org, !.size = fd_stack[f].fsize]],
         fd_stack' = [fd_stack EXCEPT ![f] = NoFile], fat' = fat, faults \subseteq faults'
  PROVE  VolumeInv'
<1> DEFINE e == fd_stack[f].ent
           o == fd_stack[f].org
<1> SUFFICES ASSUME OneOwner(faults)
             PROVE  VolumeInv'
  BY DEF VolumeInv, OneOwner
<1>0. Referred /\ FreeEntries /\ HandlesFit /\ WritersAlone
  BY DEF VolumeInv
<1>1. fd_stack'[f].fs = 0 /\ req'.op = "idle"
  BY DEF TypeOK, NoFile, Idle
<1>2. \A g \in Fds \ {f} : fd_stack'[g] = fd_stack[g]
  BY DEF TypeOK
<1>3. e \in Slots /\ dir'[e].clust = o /\ dir'[e].name = dir[e].name
  BY <1>0 DEF HandlesFit, TypeOK, Entry
<1>4. \A s \in Slots \ {e} : dir'[s] = dir[s]
  BY DEF TypeOK
<1>5. \A c : ~ ReqRef(c) /\ ~ ReqRef(c)'
  BY <1>1 DEF ReqRef, Freeing
\* A handle on the same file is there only when the entry knows the cluster.
<1>6. \A g \in Fds \ {f} : fd_stack[g].fs = 1 =>
        /\ fd_stack[g].ent \in Slots
        /\ dir'[fd_stack[g].ent].clust = dir[fd_stack[g].ent].clust
        /\ dir'[fd_stack[g].ent].name = dir[fd_stack[g].ent].name
  BY <1>0, <1>3, <1>4 DEF HandlesFit, WritersAlone, Fresh
<1>7. \A c \in Clusters : \A g \in Fds \ {f} : FdRef(g, c)' <=> FdRef(g, c)
  BY <1>2, <1>6 DEF FdRef
<1>8. ASSUME NEW c \in Clusters, dir[e].clust = o \/ c # o
      PROVE  Refs(c)' = Refs(c)
  <2>1. dir[e].clust # c \/ dir[e].clust = o
    BY <1>0, <1>8, ClusterNumbers DEF HandlesFit, Fresh
  <2>2. \A s \in Slots : dir'[s].clust = c <=> dir[s].clust = c
    BY <1>3, <1>4, <1>8, <2>1
  <2>3. ~ FdRef(f, c) /\ ~ FdRef(f, c)'
    BY <1>1, <1>8 DEF FdRef
  <2>4. Refs(c)' \subseteq Refs(c)
    BY <1>5, <1>7, <2>2, <2>3, FewerRefs
  <2>5. Refs(c) \subseteq Refs(c)'
    BY <1>5, <1>7, <2>2, <2>3, MoreRefs
  <2> QED
    BY <2>4, <2>5
<1>9. ASSUME NEW c \in Clusters, dir[e].clust # o, c = o
      PROVE  Refs(c) = {<<"fd", f>>} /\ Refs(c)' = {<<"dir", e>>}
  <2>1. <<"fd", f>> \in Refs(c) /\ <<"dir", e>> \in Refs(c)'
    BY <1>3, <1>9, RefsOf, RefsNext DEF FdRef
  <2>2. Refs(c) = {<<"fd", f>>}
    BY <1>0, <2>1 DEF Referred
  <2>3. /\ \A p \in Clusters : <<"fat", p>> \notin Refs(c)'
        /\ \A g \in Fds : <<"fd", g>> \notin Refs(c)'
        /\ <<"req", 0>> \notin Refs(c)'
    BY <1>1, <1>5, <1>7, <2>2, RefsOf, RefsNext DEF FdRef
  <2>4. \A s \in Slots \ {e} : <<"dir", s>> \notin Refs(c)'
    <3> SUFFICES ASSUME NEW s \in Slots \ {e}, <<"dir", s>> \in Refs(c)'
                 PROVE  FALSE
      OBVIOUS
    <3>1. dir[s].clust = c
      BY <1>4, RefsNext
    <3>2. <<"dir", s>> \in Refs(c)
      BY <3>1, RefsOf
    <3> QED
      BY <2>2, <3>2, Tokens
  <2> QED
    BY <2>1, <2>2, <2>3, <2>4, RefsNext, Tokens
<1>10. Referred' /\ (Reached => Reached')
  <2>1. \A c \in Clusters : \/ Refs(c)' = Refs(c)
                           \/ \E a, b : Refs(c) = {a} /\ Refs(c)' = {b}
    BY <1>8, <1>9
  <2> QED
    BY <1>0, <2>1, ReferredMoved
<1>11. FreeEntries' /\ RequestFits'
  BY <1>0, <1>1, <1>3, <1>4 DEF FreeEntries, RequestFits
<1>12. HandlesFit' /\ WritersAlone'
  BY <1>0, <1>1, <1>2, <1>6 DEF HandlesFit, WritersAlone, Fresh
<1>13. ASSUME faults = {} PROVE Reached' /\ FreshMarked'
  <2>1. Reached /\ FreshMarked
    BY <1>13 DEF VolumeInv
  <2>2. Reached'
    BY <1>10, <2>1
  <2>3. FreshMarked'
    BY <1>1, <1>2, <1>6, <2>1 DEF FreshMarked, Fresh
  <2> QED
    BY <2>2, <2>3
<1> QED
  BY <1>10, <1>11, <1>12, <1>13 DEF VolumeInv

-----------------------------------------------------------------------------
(***************************************************************************)
(* Deleting and renaming.                                                  *)
(***************************************************************************)

\* f_unlink: what the entry referred to, the removal of the chain refers to.
LEMMA UnlinkVolume ==
  ASSUME TypeOK, VolumeInv, req.op = "idle", NEW s \in Slots, NEW src, NEW dst,
         NEW op \in {"delete", "move"}, op = "move" => src \in Names /\ dst \in Names,
         Unlink(s, op, src, dst), fat' = fat, fd_stack' = fd_stack,
         faults \subseteq faults',
         OneOwner(faults') => Users(s) = {},
         OneOwner(faults') /\ op = "move" => \A t \in EntryOf(src) : Users(t) = {}
  PROVE  VolumeInv'
<1> DEFINE d == dir[s].clust
<1>0. \A f \in Fds : SameFile(f)
  BY DEF SameFile
<1>1. req'.op = op /\ req'.clst = d /\ req'.src = src /\ req'.dst = dst
  BY DEF Unlink, Start, Idle
<1>2. dir'[s].name = NoName /\ dir'[s].clust = 0 /\ \A t \in Slots \ {s} : dir'[t] = dir[t]
  BY DEF Unlink, TypeOK, NoEntry
<1>3. \A c : ~ ReqRef(c) /\ (ReqRef(c)' <=> c = d)
  BY <1>1 DEF ReqRef, Freeing
<1> SUFFICES ASSUME OneOwner(faults')
             PROVE  VolumeInv'
  BY DEF VolumeInv, OneOwner
<1>4. OneOwner(faults) /\ Referred /\ FreeEntries /\ HandlesFit /\ WritersAlone
  BY DEF VolumeInv, OneOwner
<1>5. \A g \in Fds : fd_stack[g].fs = 1 =>
        fd_stack[g].ent \in Slots \ {s} /\ dir'[fd_stack[g].ent] = dir[fd_stack[g].ent]
  BY <1>2, <1>4 DEF HandlesFit, Users
<1>6. \A c \in Clusters, g \in Fds : FdRef(g, c)' <=> FdRef(g, c)
  BY <1>5 DEF FdRef
<1>7. ASSUME NEW c \in Clusters, c # d PROVE Refs(c)' = Refs(c)
  <2>1. \A t \in Slots : dir'[t].clust = c <=> dir[t].clust = c
    BY <1>2, <1>7, ClusterNumbers
  <2>2. Refs(c)' \subseteq Refs(c)
    BY <1>3, <1>6, <1>7, <2>1, FewerRefs
  <2>3. Refs(c) \subseteq Refs(c)'
    BY <1>3, <1>6, <1>7, <2>1, MoreRefs
  <2> QED
    BY <2>2, <2>3
<1>8. ASSUME NEW c \in Clusters, c = d
      PROVE  Refs(c) = {<<"dir", s>>} /\ Refs(c)' = {<<"req", 0>>}
  <2>1. <<"dir", s>> \in Refs(c) /\ <<"req", 0>> \in Refs(c)'
    BY <1>3, <1>8, RefsOf, RefsNext
  <2>2. Refs(c) = {<<"dir", s>>}
    BY <1>4, <2>1 DEF Referred
  <2>3. /\ \A p \in Clusters : <<"fat", p>> \notin Refs(c)'
        /\ \A g \in Fds : <<"fd", g>> \notin Refs(c)'
    BY <1>6, <2>2, RefsOf, RefsNext
  <2>4. \A t \in Slots : <<"dir", t>> \notin Refs(c)'
    <3> SUFFICES ASSUME NEW t \in Slots, <<"dir", t>> \in Refs(c)'
                 PROVE  FALSE
      OBVIOUS
    <3>1. dir'[t].clust = c
      BY RefsNext
    <3>2. t # s /\ dir[t].clust = c
      BY <1>2, <3>1, ClusterNumbers
    <3>3. <<"dir", t>> \in Refs(c)
      BY <3>2, RefsOf
    <3> QED
      BY <2>2, <3>2, <3>3, Tokens
  <2> QED
    BY <2>1, <2>2, <2>3, <2>4, RefsNext, Tokens
<1>9. Referred' /\ (Reached => Reached')
  <2>1. \A c \in Clusters : \/ Refs(c)' = Refs(c)
                           \/ \E a, b : Refs(c) = {a} /\ Refs(c)' = {b}
    BY <1>7, <1>8
  <2> QED
    BY <1>4, <2>1, ReferredMoved
<1>10. FreeEntries'
  BY <1>2, <1>4 DEF FreeEntries
<1>11. HandlesFit' /\ WritersAlone'
  BY <1>4, <1>5 DEF HandlesFit, WritersAlone, Fresh
<1>12. RequestFits'
  <2>1. ASSUME op = "move" PROVE \A t \in EntryOf(src)' : Users(t)' = {}
    <3>1. src \in Names /\ src # NoName
      BY <2>1, FFSAssumption
    <3>2. EntryOf(src)' \subseteq EntryOf(src)
      BY <1>2, <3>1 DEF EntryOf
    <3>3. \A t : Users(t)' = Users(t)
      BY DEF Users
    <3> QED
      BY <2>1, <3>2, <3>3
  <2> QED
    BY <1>1, <2>1 DEF RequestFits
<1>13. ASSUME faults' = {} PROVE Reached' /\ FreshMarked'
  <2>1. Reached /\ FreshMarked
    BY <1>13 DEF VolumeInv
  <2>2. Reached'
    BY <1>9, <2>1
  <2>3. FreshMarked'
    BY <1>5, <2>1 DEF FreshMarked, Fresh
  <2> QED
    BY <2>2, <2>3
<1> QED
  BY <1>9, <1>10, <1>11, <1>12, <1>13 DEF VolumeInv

\* remove_chain: the cluster that only the removal referred to is freed, and the
\* removal refers to the next one.
LEMMA RemoveVolume == ASSUME TypeOK, VolumeInv, remove_chain_step PROVE VolumeInv'
<1>a. PICK a : a = req.clst
  OBVIOUS
<1>b. PICK b : b = fat[a]
  OBVIOUS
<1>0. \A f \in Fds : SameFile(f)
  BY DEF SameFile, remove_chain_step
<1>1. a \in Clusters /\ b # 0 /\ fat'[a] = 0 /\ \A p \in Clusters \ {a} : fat'[p] = fat[p]
  BY <1>a, <1>b DEF remove_chain_step, TypeOK
<1>2. req'.op = req.op /\ req'.clst = b /\ req'.src = req.src /\ req'.dst = req.dst
  BY <1>a, <1>b DEF remove_chain_step, TypeOK, Request
<1>3. \A c : (ReqRef(c) <=> c = a) /\ (ReqRef(c)' <=> c = b)
  BY <1>a, <1>2 DEF ReqRef, Freeing, remove_chain_step
<1>4. dir' = dir /\ faults' = faults /\ fd_stack' = fd_stack
  BY DEF remove_chain_step
<1> SUFFICES ASSUME OneOwner(faults)
             PROVE  VolumeInv'
  BY <1>4 DEF VolumeInv, OneOwner
<1>5. Referred /\ FreeEntries /\ HandlesFit /\ WritersAlone /\ RequestFits
  BY DEF VolumeInv
<1>6. \A g \in Fds, c \in Clusters : FdRef(g, c)' <=> FdRef(g, c)
  BY <1>4 DEF FdRef
<1>7. Refs(a) = {<<"req", 0>>}
  BY <1>1, <1>3, <1>5, RefsOf DEF Referred
<1>8. a # b
  BY <1>b, <1>1, <1>7, RefsOf, Tokens
<1>9. ASSUME NEW c \in Clusters, c # a, c # b PROVE Refs(c)' = Refs(c)
  <2>1. \A p \in Clusters : fat'[p] = c <=> fat[p] = c
    BY <1>b, <1>1, <1>9, ClusterNumbers
  <2>2. Refs(c)' \subseteq Refs(c)
    BY <1>3, <1>4, <1>6, <1>9, <2>1, FewerRefs
  <2>3. Refs(c) \subseteq Refs(c)'
    BY <1>3, <1>4, <1>6, <1>9, <2>1, MoreRefs
  <2> QED
    BY <2>2, <2>3
<1>10. Refs(a)' = {}
  <2>1. /\ \A p \in Clusters : <<"fat", p>> \notin Refs(a)'
        /\ \A s \in Slots : <<"dir", s>> \notin Refs(a)'
        /\ \A g \in Fds : <<"fd", g>> \notin Refs(a)'
    BY <1>1, <1>4, <1>6, <1>7, RefsOf, RefsNext, Tokens, ClusterNumbers
  <2> QED
    BY <1>3, <1>8, <2>1, RefsNext, Tokens
<1>11. ASSUME b \in Clusters PROVE Refs(b) = {<<"fat", a>>} /\ Refs(b)' = {<<"req", 0>>}
  <2>1. <<"fat", a>> \in Refs(b) /\ <<"req", 0>> \in Refs(b)'
    BY <1>b, <1>1, <1>3, <1>11, RefsOf, RefsNext
  <2>2. Refs(b) = {<<"fat", a>>}
    BY <1>5, <1>11, <2>1 DEF Referred
  <2>3. /\ \A p \in Clusters : <<"fat", p>> \notin Refs(b)'
        /\ \A s \in Slots : <<"dir", s>> \notin Refs(b)'
        /\ \A g \in Fds : <<"fd", g>> \notin Refs(b)'
    BY <1>1, <1>4, <1>6, <1>11, <2>2, RefsOf, RefsNext, Tokens, ClusterNumbers
  <2> QED
    BY <2>1, <2>2, <2>3, RefsNext, Tokens
<1>12. Referred'
  <2>1. ASSUME NEW c \in Clusters
        PROVE  (\A x, y \in Refs(c)' : x = y) /\ (Refs(c)' # {} => fat'[c] # 0)
    <3>1. CASE c = a
      BY <3>1, <1>10
    <3>2. CASE c = b /\ c # a
      BY <3>2, <1>1, <1>5, <1>11, <2>1 DEF Referred
    <3>3. CASE c # a /\ c # b
      BY <3>3, <1>1, <1>5, <1>9, <2>1 DEF Referred
    <3> QED
      BY <3>1, <3>2, <3>3
  <2> QED
    BY <2>1 DEF Referred
<1>13. FreeEntries' /\ HandlesFit' /\ WritersAlone'
  BY <1>0, <1>4, <1>5, FilesKept
<1>14. RequestFits'
  BY <1>2, <1>4, <1>5 DEF RequestFits, EntryOf, Users, Freeing, remove_chain_step
<1>15. ASSUME faults = {} PROVE Reached' /\ FreshMarked'
  <2>1. Reached /\ FreshMarked /\ req.op # "write"
    BY <1>15 DEF VolumeInv, Freeing, remove_chain_step
  <2>2. Reached'
    <3>1. ASSUME NEW c \in Clusters, fat'[c] # 0 PROVE Refs(c)' # {}
      BY <1>1, <1>9, <1>11, <2>1, <3>1 DEF Reached
    <3> QED
      BY <3>1 DEF Reached
  <2> QED
    BY <1>0, <1>4, <2>1, <2>2, FreshKept
<1> QED
  BY <1>12, <1>13, <1>14, <1>15, <1>4 DEF VolumeInv

\* A failed transfer ends the removal early: the rest of the chain is lost.
LEMMA RemoveErrorVolume == ASSUME TypeOK, VolumeInv, remove_chain_error PROVE VolumeInv'
<1>0. \A f \in Fds : SameFile(f)
  BY DEF SameFile, remove_chain_error
<1>1. /\ fat' = fat /\ dir' = dir /\ fd_stack' = fd_stack /\ "io" \in faults'
      /\ req'.op = req.op /\ req'.clst = 0 /\ req'.src = req.src /\ req'.dst = req.dst
      /\ faults \subseteq faults'
  BY DEF remove_chain_error, Fail, TypeOK, Request
<1>2. \A c \in Clusters : ~ ReqRef(c)'
  BY <1>1, ClusterNumbers DEF ReqRef
<1>3. \A g \in Fds, c \in Clusters : FdRef(g, c)' <=> FdRef(g, c)
  BY <1>1 DEF FdRef
<1>4. \A c \in Clusters : Refs(c)' \subseteq Refs(c)
  BY <1>1, <1>2, <1>3, FewerRefs
<1>5. ASSUME OneOwner(faults')
      PROVE  (Referred /\ FreeEntries /\ HandlesFit /\ WritersAlone /\ RequestFits)'
  <2>1. Referred /\ FreeEntries /\ HandlesFit /\ WritersAlone /\ RequestFits
    BY <1>1, <1>5 DEF VolumeInv, OneOwner
  <2>2. Referred'
    BY <1>1, <1>4, <2>1, ReferredKept
  <2>3. RequestFits'
    BY <1>1, <2>1 DEF RequestFits, EntryOf, Users, Freeing, remove_chain_error
  <2> QED
    BY <1>0, <1>1, <2>1, <2>2, <2>3, FilesKept
<1> QED
  BY <1>1, <1>5 DEF VolumeInv

\* f_rename: another entry takes the place of the old one.
LEMMA RenameVolume ==
  ASSUME TypeOK, VolumeInv, NEW s \in Slots, NEW t \in Slots, NEW dst \in Names,
         dir[s].name # NoName, dir[t].name = NoName, req.op # "write",
         dir' = [dir EXCEPT ![t] = [dir[s] EXCEPT !.name = dst], ![s] = NoEntry],
         fd_stack' = fd_stack, fat' = fat, faults \subseteq faults', req' = Idle,
         OneOwner(faults') => Users(s) = {} /\ \A c \in Clusters : ~ ReqRef(c)
  PROVE  VolumeInv'
<1> SUFFICES ASSUME OneOwner(faults')
             PROVE  VolumeInv'
  BY DEF VolumeInv, OneOwner
<1>0. OneOwner(faults) /\ Referred /\ FreeEntries /\ HandlesFit /\ WritersAlone
  BY DEF VolumeInv, OneOwner
<1>1. s # t /\ dst # NoName /\ dir[t].clust = 0
  BY <1>0, FFSAssumption DEF FreeEntries
<1>2. /\ dir'[t].clust = dir[s].clust /\ dir'[t].name = dst
      /\ dir'[s].clust = 0 /\ dir'[s].name = NoName
  BY <1>1 DEF TypeOK, Entry, NoEntry
<1>3. \A u \in Slots \ {s, t} : dir'[u] = dir[u]
  BY DEF TypeOK
<1>4. \A g \in Fds : fd_stack[g].fs = 1 =>
        fd_stack[g].ent \in Slots \ {s, t} /\ dir'[fd_stack[g].ent] = dir[fd_stack[g].ent]
  BY <1>0, <1>3 DEF HandlesFit, Users
<1>5. \A c \in Clusters, g \in Fds : FdRef(g, c)' <=> FdRef(g, c)
  BY <1>4 DEF FdRef
<1>6. req'.op = "idle" /\ \A c \in Clusters : ~ ReqRef(c) /\ ~ ReqRef(c)'
  BY DEF Idle, ReqRef, Freeing
<1>7. ASSUME NEW c \in Clusters, c # dir[s].clust PROVE Refs(c)' = Refs(c)
  <2>1. \A u \in Slots : dir'[u].clust = c <=> dir[u].clust = c
    BY <1>1, <1>2, <1>3, <1>7, ClusterNumbers
  <2>2. Refs(c)' \subseteq Refs(c)
    BY <1>5, <1>6, <2>1, FewerRefs
  <2>3. Refs(c) \subseteq Refs(c)'
    BY <1>5, <1>6, <2>1, MoreRefs
  <2> QED
    BY <2>2, <2>3
<1>8. ASSUME NEW c \in Clusters, c = dir[s].clust
      PROVE  Refs(c) = {<<"dir", s>>} /\ Refs(c)' = {<<"dir", t>>}
  <2>1. <<"dir", s>> \in Refs(c) /\ <<"dir", t>> \in Refs(c)'
    BY <1>2, <1>8, RefsOf, RefsNext
  <2>2. Refs(c) = {<<"dir", s>>}
    BY <1>0, <2>1 DEF Referred
  <2>3. /\ \A p \in Clusters : <<"fat", p>> \notin Refs(c)'
        /\ \A g \in Fds : <<"fd", g>> \notin Refs(c)'
        /\ <<"req", 0>> \notin Refs(c)'
    BY <1>5, <1>6, <2>2, RefsOf, RefsNext, Tokens
  <2>4. \A u \in Slots \ {t} : <<"dir", u>> \notin Refs(c)'
    <3> SUFFICES ASSUME NEW u \in Slots \ {t}, <<"dir", u>> \in Refs(c)'
                 PROVE  FALSE
      OBVIOUS
    <3>1. dir'[u].clust = c
      BY RefsNext
    <3>2. u # s /\ dir[u].clust = c
      BY <1>2, <1>3, <3>1, ClusterNumbers
    <3>3. <<"dir", u>> \in Refs(c)
      BY <3>2, RefsOf
    <3> QED
      BY <2>2, <3>2, <3>3, Tokens
  <2> QED
    BY <2>1, <2>2, <2>3, <2>4, RefsNext, Tokens
<1>9. Referred' /\ (Reached => Reached')
  <2>1. \A c \in Clusters : \/ Refs(c)' = Refs(c)
                           \/ \E a, b : Refs(c) = {a} /\ Refs(c)' = {b}
    BY <1>7, <1>8
  <2> QED
    BY <1>0, <2>1, ReferredMoved
<1>10. FreeEntries' /\ RequestFits'
  BY <1>0, <1>1, <1>2, <1>3, <1>6 DEF FreeEntries, RequestFits
<1>11. HandlesFit'
  BY <1>0, <1>4 DEF HandlesFit, Fresh
<1>12. WritersAlone'
  BY <1>0 DEF WritersAlone
<1>13. ASSUME faults' = {} PROVE Reached' /\ FreshMarked'
  <2>1. Reached /\ FreshMarked
    BY <1>13 DEF VolumeInv
  <2>2. FreshMarked'
    BY <1>4, <2>1 DEF FreshMarked, Fresh
  <2> QED
    BY <1>9, <2>1, <2>2
<1> QED
  BY <1>9, <1>10, <1>11, <1>12, <1>13 DEF VolumeInv

-----------------------------------------------------------------------------
(***************************************************************************)
(* Writing.                                                                *)
(***************************************************************************)

\* create_chain: the new cluster gets its one reference, from the cluster before it
\* or from the handle.
LEMMA GrowRefs ==
  ASSUME TypeOK, Referred, HandlesFit, ~ Freeing, ~ Freeing',
         NEW f \in Fds, fd_stack[f].fs = 1, NEW n \in Clusters,
         Grows(fd_stack[f]), create_chain(fd_stack[f], n), dir' = dir,
         NEW k, fd_stack' = [fd_stack EXCEPT ![f] = k], k.fs = 1,
         k.ent = fd_stack[f].ent, k.org = FirstClust(fd_stack[f], n)
  PROVE  /\ fat'[n] = EOC
         /\ \A c \in Clusters \ {n} : Refs(c)' = Refs(c) /\ (fat'[c] # 0 <=> fat[c] # 0)
         /\ \E b : Refs(n)' = {b}
         /\ k.org # fd_stack[f].org => dir[fd_stack[f].ent].clust = 0
<1> DEFINE h == fd_stack[f]
<1>1. /\ fat \in [Clusters -> {0, EOC} \cup Clusters] /\ h \in FIL /\ h.fptr \in Nat
      /\ EOC # 0 /\ EOC # 1 /\ EOC \notin Clusters /\ 0 \notin Clusters
  BY ClusterNumbers, FFSAssumption DEF TypeOK, FIL, EOC, Clusters
<1>2. fat[n] = 0 /\ Refs(n) = {}
  BY DEF create_chain, Referred
<1>3. fd_stack'[f] = k /\ \A g \in Fds \ {f} : fd_stack'[g] = fd_stack[g]
  BY DEF TypeOK
<1>4. \A c \in Clusters, g \in Fds \ {f} : FdRef(g, c)' <=> FdRef(g, c)
  BY <1>3 DEF FdRef
<1>5. \A c : ~ ReqRef(c) /\ ~ ReqRef(c)'
  BY DEF ReqRef
<1>6. /\ \A p \in Clusters : fat[p] # n
      /\ \A s \in Slots : dir[s].clust # n
      /\ \A g \in Fds : ~ FdRef(g, n)
  BY <1>2, RefsOf
<1>7. CASE h.fptr = 0
  <2>1. h.org = 0 /\ k.org = n
    BY <1>7 DEF Grows, WriteClust, FirstClust
  <2>2. dir[h.ent].clust = 0
    BY <2>1 DEF HandlesFit, Fresh
  <2>3. fat' = [fat EXCEPT ![n] = EOC]
    BY <1>7 DEF create_chain
  <2>4. fat'[n] = EOC /\ \A p \in Clusters \ {n} : fat'[p] = fat[p]
    BY <1>1, <2>3
  <2>5. ASSUME NEW c \in Clusters \ {n} PROVE Refs(c)' = Refs(c)
    <3>1. ~ FdRef(f, c) /\ ~ FdRef(f, c)'
      BY <1>1, <1>3, <2>1 DEF FdRef
    <3>2. \A p \in Clusters : fat'[p] = c <=> fat[p] = c
      BY <1>1, <1>2, <2>4
    <3>3. Refs(c)' \subseteq Refs(c)
      BY <1>4, <1>5, <3>1, <3>2, FewerRefs
    <3>4. Refs(c) \subseteq Refs(c)'
      BY <1>4, <1>5, <3>1, <3>2, MoreRefs
    <3> QED
      BY <3>3, <3>4
  <2>6. Refs(n)' = {<<"fd", f>>}
    <3>1. <<"fd", f>> \in Refs(n)'
      BY <1>1, <1>3, <2>1, <2>2, RefsNext DEF FdRef
    <3>2. /\ \A p \in Clusters : <<"fat", p>> \notin Refs(n)'
          /\ \A s \in Slots : <<"dir", s>> \notin Refs(n)'
          /\ <<"req", 0>> \notin Refs(n)'
          /\ \A g \in Fds \ {f} : <<"fd", g>> \notin Refs(n)'
      BY <1>1, <1>4, <1>5, <1>6, <2>4, RefsNext
    <3> QED
      BY <3>1, <3>2, RefsNext, Tokens
  <2> QED
    BY <2>2, <2>4, <2>5, <2>6
<1>8. CASE h.fptr # 0
  <2>1. PICK p : p = h.curr
    OBVIOUS
  <2>2. p \in Clusters /\ fat[p] = EOC /\ p # n /\ k.org = h.org
    BY <1>1, <1>2, <1>8, <2>1 DEF Grows, WriteClust, get_cluster, FirstClust
  <2>3. fat' = [[fat EXCEPT ![n] = EOC] EXCEPT ![p] = n]
    BY <1>8, <2>1 DEF create_chain
  <2>4. /\ fat'[n] = EOC /\ fat'[p] = n /\ n # 0
        /\ \A q \in Clusters \ {n, p} : fat'[q] = fat[q]
    BY <1>1, <2>2, <2>3
  <2>5. \A c \in Clusters, g \in Fds : FdRef(g, c)' <=> FdRef(g, c)
    BY <1>3, <1>4, <2>2 DEF FdRef
  <2>6. ASSUME NEW c \in Clusters \ {n} PROVE Refs(c)' = Refs(c)
    <3>1. \A q \in Clusters : fat'[q] = c <=> fat[q] = c
      BY <1>1, <1>2, <2>2, <2>4
    <3>2. Refs(c)' \subseteq Refs(c)
      BY <1>5, <2>5, <3>1, FewerRefs
    <3>3. Refs(c) \subseteq Refs(c)'
      BY <1>5, <2>5, <3>1, MoreRefs
    <3> QED
      BY <3>2, <3>3
  <2>7. Refs(n)' = {<<"fat", p>>}
    <3>1. <<"fat", p>> \in Refs(n)'
      BY <2>2, <2>4, RefsNext
    <3>2. /\ \A q \in Clusters \ {p} : <<"fat", q>> \notin Refs(n)'
          /\ \A s \in Slots : <<"dir", s>> \notin Refs(n)'
          /\ <<"req", 0>> \notin Refs(n)'
          /\ \A g \in Fds : <<"fd", g>> \notin Refs(n)'
      BY <1>1, <1>5, <1>6, <2>4, <2>5, RefsNext
    <3> QED
      BY <3>1, <3>2, RefsNext, Tokens
  <2> QED
    BY <1>1, <2>2, <2>4, <2>6, <2>7
<1> QED
  BY <1>7, <1>8

\* f_write took a new cluster, and went on with it or gave up.
LEMMA GrowVolume ==
  ASSUME TypeOK, VolumeInv, req.op = "write", NEW f \in Fds, f = req.fd,
         NEW n \in Clusters, Grows(fd_stack[f]), create_chain(fd_stack[f], n), dir' = dir,
         NEW k, fd_stack' = [fd_stack EXCEPT ![f] = k], k.fs = fd_stack[f].fs,
         k.ent = fd_stack[f].ent, k.org = FirstClust(fd_stack[f], n),
         fd_stack[f].flag \subseteq k.flag, faults \subseteq faults',
         req'.op \in {"write", "idle"}, req'.fd = f \/ req'.op = "idle",
         faults' = {} => req'.op = "write" /\ k.curr = n /\ k.fptr > 0
  PROVE  VolumeInv'
<1>1. fd_stack'[f] = k /\ \A g \in Fds \ {f} : fd_stack'[g] = fd_stack[g]
  BY DEF TypeOK
<1> SUFFICES ASSUME OneOwner(faults')
             PROVE  VolumeInv'
  BY DEF VolumeInv, OneOwner
<1>2. Referred /\ FreeEntries /\ HandlesFit /\ WritersAlone /\ RequestFits
  BY DEF VolumeInv, OneOwner
<1>3. fd_stack[f].fs = 1 /\ "WRITE" \in fd_stack[f].flag
  BY <1>2 DEF RequestFits
<1>4. /\ fat'[n] = EOC
      /\ \A c \in Clusters \ {n} : Refs(c)' = Refs(c) /\ (fat'[c] # 0 <=> fat[c] # 0)
      /\ \E b : Refs(n)' = {b}
      /\ k.org # fd_stack[f].org => dir[fd_stack[f].ent].clust = 0
  <2>1. ~ Freeing /\ ~ Freeing'
    BY DEF Freeing
  <2>2. k.fs = 1 /\ k.ent = fd_stack[f].ent
    BY <1>3
  <2> QED
    BY ONLY TypeOK, f \in Fds, n \in Clusters, <1>2, <1>3, <2>1, <2>2, GrowRefs, dir' = dir,
       Grows(fd_stack[f]), create_chain(fd_stack[f], n),
       fd_stack' = [fd_stack EXCEPT ![f] = k], k.org = FirstClust(fd_stack[f], n)
<1>5. EOC # 0
  BY ClusterNumbers
<1>6. Referred'
  BY <1>2, <1>4, <1>5 DEF Referred
<1>7. HandlesFit'
  BY <1>1, <1>2, <1>3, <1>4 DEF HandlesFit, Fresh
<1>8. WritersAlone'
  BY <1>1, <1>2, <1>3 DEF WritersAlone
<1>9. FreeEntries' /\ RequestFits'
  BY <1>1, <1>2, <1>3 DEF FreeEntries, RequestFits
<1>10. ASSUME faults' = {} PROVE Reached' /\ FreshMarked'
  <2>1. Reached /\ FreshMarked
    BY <1>10 DEF VolumeInv
  <2>2. Reached'
    BY <1>4, <2>1 DEF Reached
  <2>3. FreshMarked'
    BY <1>1, <1>4, <1>10, <2>1 DEF FreshMarked, Fresh
  <2> QED
    BY <2>2, <2>3
<1> QED
  BY <1>6, <1>7, <1>8, <1>9, <1>10 DEF VolumeInv

\* create_chain failed after it marked the new cluster: nothing refers to that one.
LEMMA OrphanVolume ==
  ASSUME TypeOK, VolumeInv, req.op = "write", NEW f \in Fds, f = req.fd,
         NEW n \in Clusters, Grows(fd_stack[f]), fat[n] = 0, dir' = dir,
         fat' = [fat EXCEPT ![n] = EOC], req' = Idle,
         NEW k, fd_stack' = [fd_stack EXCEPT ![f] = k], k.fs = fd_stack[f].fs,
         k.ent = fd_stack[f].ent, k.org = FirstClust(fd_stack[f], BadClust),
         fd_stack[f].flag \subseteq k.flag, faults \subseteq faults', "io" \in faults'
  PROVE  VolumeInv'
<1>1. fd_stack'[f] = k /\ \A g \in Fds \ {f} : fd_stack'[g] = fd_stack[g]
  BY DEF TypeOK
<1> SUFFICES ASSUME OneOwner(faults')
             PROVE  VolumeInv'
  BY DEF VolumeInv
<1>2. Referred /\ FreeEntries /\ HandlesFit /\ WritersAlone /\ RequestFits
  BY DEF VolumeInv, OneOwner
<1>3. fd_stack[f].fs = 1 /\ "WRITE" \in fd_stack[f].flag
  BY <1>2 DEF RequestFits
<1>4. /\ fat'[n] = EOC /\ EOC \notin Clusters /\ EOC # 0 /\ BadClust \notin Clusters
      /\ \A p \in Clusters \ {n} : fat'[p] = fat[p]
  <2>1. EOC \notin Clusters /\ EOC # 0 /\ BadClust \notin Clusters
    BY FFSAssumption DEF EOC, BadClust, Clusters
  <2> QED
    BY <2>1 DEF TypeOK
<1>5. \/ k.org = fd_stack[f].org
      \/ k.org = BadClust /\ fd_stack[f].org = 0
  BY DEF FirstClust, Grows, WriteClust
<1>6. req'.op = "idle" /\ \A c \in Clusters : ~ ReqRef(c)'
  BY DEF Idle, ReqRef, Freeing
<1>7. \A c \in Clusters, g \in Fds : FdRef(g, c)' => FdRef(g, c)
  BY <1>1, <1>4, <1>5 DEF FdRef
<1>8. \A c \in Clusters : Refs(c)' \subseteq Refs(c)
  BY <1>4, <1>6, <1>7, FewerRefs
<1>9. Referred'
  BY <1>2, <1>4, <1>8 DEF Referred
<1>10. dir[fd_stack[f].ent].clust = 0 \/ k.org = fd_stack[f].org
  BY <1>2, <1>3, <1>5 DEF HandlesFit, Fresh
<1>11. HandlesFit'
  BY <1>1, <1>2, <1>3, <1>10 DEF HandlesFit, Fresh
<1>12. WritersAlone'
  BY <1>1, <1>2, <1>3 DEF WritersAlone
<1>13. FreeEntries' /\ RequestFits'
  BY <1>2, <1>6 DEF FreeEntries, RequestFits
<1> QED
  BY <1>9, <1>11, <1>12, <1>13 DEF VolumeInv

\* A writer that did not mark its file yet goes on at the end of its chain.
LEMMA FreshGrows ==
  ASSUME TypeOK, FreshMarked, req.op = "write", req.fd \in Fds, ~ Grows(fd_stack[req.fd])
  PROVE  \A f \in Fds : fd_stack[f].fs = 1 /\ Fresh(f) => "WRITTEN" \in fd_stack[f].flag
  BY DEF FreshMarked, Grows, WriteClust, get_cluster, TypeOK, FIL

\* f_write.
LEMMA WriteVolume ==
  ASSUME TypeOK, VolumeInv, f_write_step \/ f_write_error \/ f_write_end
  PROVE  VolumeInv'
<1> DEFINE f == req.fd
           h == fd_stack[f]
           c == WriteClust(h)
<1>1. f \in Fds /\ h \in FIL /\ req.op = "write" /\ dir' = dir /\ req \in Request
  BY DEF f_write_step, f_write_error, f_write_end, TypeOK, Request
<1>2. OneOwner(faults) => h.fs = 1 /\ "WRITE" \in h.flag
  BY <1>1 DEF VolumeInv, RequestFits
<1>3. \A x \in Clusters : ~ ReqRef(x)
  BY <1>1, NoRemoval
<1>4. CASE f_write_step /\ Grows(h)
  <2>1. CASE \E n \in Clusters : create_chain(h, n) /\ Put(f, n)
    <3>1. PICK n \in Clusters : create_chain(h, n) /\ Put(f, n)
      BY <2>1
    <3> DEFINE k == Onto([h EXCEPT !.org = FirstClust(h, n)], n)
    <3>2. fd_stack' = [fd_stack EXCEPT ![f] = k]
      BY <3>1 DEF Put
    <3>3. /\ k.fs = h.fs /\ k.ent = h.ent /\ k.org = FirstClust(h, n) /\ k.flag = h.flag
          /\ k.curr = n /\ k.fptr > 0
      BY <1>1 DEF FIL, Onto
    <3>4. req'.op = "write" /\ req'.fd = f
      BY <1>1, <3>1 DEF Put, Request
    <3>5. faults' = faults
      BY <1>4 DEF f_write_step
    <3> HIDE DEF k
    <3> QED
      BY <1>1, <1>4, <3>1, <3>2, <3>3, <3>4, <3>5, GrowVolume
  <2>2. CASE /\ req' = [req EXCEPT !.buf = <<>>]
             /\ UNCHANGED <<fat, data, fd_stack, reply>>
    <3>1. \A g \in Fds : SameFile(g)
      BY <2>2 DEF SameFile
    <3>2. req'.op = "write" /\ req'.fd = f
      BY <1>1, <2>2 DEF Request
    <3>3. faults' = {} => FreshMarked'
      BY <1>1, <1>4, <2>2, <3>2 DEF VolumeInv, FreshMarked, Fresh, f_write_step
    <3>4. faults' = faults /\ fat' = fat
      BY <1>4, <2>2 DEF f_write_step
    <3> QED
      BY <1>1, <1>2, <1>3, <3>1, <3>2, <3>3, <3>4, Quiet
  <2> QED
    BY <1>4, <2>1, <2>2 DEF f_write_step
<1>5. CASE f_write_step /\ ~ Grows(h)
  <2>1. faults = {} => \A g \in Fds : fd_stack[g].fs = 1 /\ Fresh(g) => "WRITTEN" \in fd_stack[g].flag
    BY <1>1, <1>5, FreshGrows DEF VolumeInv
  <2>2. fat' = fat /\ faults' = faults
    BY <1>5 DEF f_write_step
  <2>3. CASE Put(f, c)
    <3>1. FirstClust(h, c) = h.org
      BY DEF FirstClust, WriteClust
    <3>2. /\ fd_stack'[f] = Onto([h EXCEPT !.org = h.org], c)
          /\ \A g \in Fds \ {f} : fd_stack'[g] = fd_stack[g]
      BY <1>1, <2>3, <3>1 DEF Put, TypeOK
    <3>3. \A g \in Fds : SameFile(g)
      <4>1. [h EXCEPT !.org = h.org] = h
        BY <1>1 DEF FIL
      <4>2. fd_stack'[f] = [h EXCEPT !.curr = c, !.fptr = h.fptr + 1]
        BY <3>2, <4>1 DEF Onto
      <4>3. /\ fd_stack'[f].fs = h.fs /\ fd_stack'[f].ent = h.ent
            /\ fd_stack'[f].org = h.org /\ fd_stack'[f].flag = h.flag
        BY <1>1, <4>2 DEF FIL
      <4> QED
        BY <3>2, <4>3 DEF SameFile
    <3>4. req'.op = "write" /\ req'.fd = f
      BY <1>1, <2>3 DEF Put, Request
    <3>5. faults' = {} => FreshMarked'
      BY <1>1, <2>1, <2>2, <3>3 DEF FreshMarked, Fresh, SameFile
    <3> QED
      BY <1>1, <1>2, <1>3, <2>2, <3>3, <3>4, <3>5, Quiet
  <2>4. CASE Abort("write", f)
    <3>1. \A g \in Fds : SameFile(g)
      BY <1>1, <2>4 DEF SameFile, Abort, Marked, FIL, TypeOK
    <3>2. req'.op = "idle"
      BY <2>4 DEF Abort, Answer, Idle
    <3>3. faults' = {} => FreshMarked'
      BY <1>1, <2>1, <2>2, <3>1 DEF FreshMarked, Fresh, SameFile
    <3> QED
      BY <1>1, <1>3, <2>2, <3>1, <3>2, <3>3, Quiet
  <2> QED
    BY <1>5, <2>3, <2>4 DEF f_write_step
<1>6. CASE f_write_error
  <2>1. "io" \in faults' /\ faults \subseteq faults' /\ faults' # {}
    BY <1>6 DEF f_write_error, Fail
  <2>2. CASE Abort("write", f) /\ fat' = fat
    <3>1. \A g \in Fds : SameFile(g)
      BY <1>1, <2>2 DEF SameFile, Abort, Marked, FIL, TypeOK
    <3>2. req'.op = "idle"
      BY <2>2 DEF Abort, Answer, Idle
    <3> QED
      BY <1>1, <1>3, <2>1, <2>2, <3>1, <3>2, Quiet
  <2>3. ASSUME NEW n \in Clusters, Grows(h), fat[n] = 0, fat' = [fat EXCEPT ![n] = EOC],
               fd_stack' = [fd_stack EXCEPT ![f] =
                             [Marked(h) EXCEPT !.org = FirstClust(h, BadClust)]],
               req' = Idle
        PROVE  VolumeInv'
    <3> DEFINE k == [Marked(h) EXCEPT !.org = FirstClust(h, BadClust)]
    <3>1. /\ k.fs = h.fs /\ k.ent = h.ent /\ k.org = FirstClust(h, BadClust)
          /\ h.flag \subseteq k.flag
      BY <1>1 DEF Marked, FIL
    <3>2. fd_stack' = [fd_stack EXCEPT ![f] = k]
      BY <2>3
    <3> HIDE DEF k
    <3> QED
      BY <1>1, <2>1, <2>3, <3>1, <3>2, OrphanVolume
  <2>4. ASSUME NEW n \in Clusters, Grows(h), create_chain(h, n),
               fd_stack' = [fd_stack EXCEPT ![f] =
                             [Marked(h) EXCEPT !.curr = n, !.org = FirstClust(h, n)]],
               req' = Idle
        PROVE  VolumeInv'
    <3> DEFINE k == [Marked(h) EXCEPT !.curr = n, !.org = FirstClust(h, n)]
    <3>1. /\ k.fs = h.fs /\ k.ent = h.ent /\ k.org = FirstClust(h, n)
          /\ h.flag \subseteq k.flag
      BY <1>1 DEF Marked, FIL
    <3>2. fd_stack' = [fd_stack EXCEPT ![f] = k]
      BY <2>4
    <3>3. req'.op = "idle"
      BY <2>4 DEF Idle
    <3> HIDE DEF k
    <3> QED
      BY <1>1, <2>1, <2>4, <3>1, <3>2, <3>3, GrowVolume
  <2> QED
    BY <1>6, <2>2, <2>3, <2>4 DEF f_write_error, Answer
<1>7. CASE f_write_end
  <2>1. fat' = fat /\ faults' = faults /\ req' = Idle
    BY <1>7 DEF f_write_end, Answer
  <2>2. /\ "WRITTEN" \in fd_stack'[f].flag
        /\ fd_stack'[f].fs = h.fs /\ fd_stack'[f].ent = h.ent /\ fd_stack'[f].org = h.org
        /\ "WRITE" \in fd_stack'[f].flag <=> "WRITE" \in h.flag
        /\ \A g \in Fds \ {f} : fd_stack'[g] = fd_stack[g]
    BY <1>1, <1>7 DEF f_write_end, Written, FIL, TypeOK
  <2>3. \A g \in Fds : SameFile(g)
    BY <2>2 DEF SameFile
  <2>4. faults' = {} => FreshMarked'
    BY <1>1, <2>1, <2>2 DEF VolumeInv, FreshMarked, Fresh
  <2>5. req'.op = "idle"
    BY <2>1 DEF Idle
  <2> QED
    BY <1>1, <1>3, <2>1, <2>3, <2>4, <2>5, Quiet
<1> QED
  BY <1>4, <1>5, <1>6, <1>7

\* A missing file is created and opened.
LEMMA CreatedVolume ==
  ASSUME TypeOK, VolumeInv, req.op = "idle", NEW f \in Fds, NEW s \in Slots,
         FreeHandle(f), dir[s].name = NoName, NEW n \in Names,
         NEW flag, Opened(f, s, flag, NoEntry), faults' = faults,
         dir' = [dir EXCEPT ![s] = [NoEntry EXCEPT !.name = n]], fat' = fat, req' = Idle
  PROVE  VolumeInv'
<1>1. dir'[s].name = n /\ dir'[s].clust = 0 /\ n # NoName /\ req'.op = "idle"
  BY FFSAssumption DEF TypeOK, NoEntry, Idle
<1>2. \A t \in Slots \ {s} : dir'[t] = dir[t]
  BY DEF TypeOK
<1>3. /\ fd_stack'[f].fs = 1 /\ fd_stack'[f].ent = s /\ fd_stack'[f].org = 0
      /\ \A g \in Fds \ {f} : fd_stack'[g] = fd_stack[g]
      /\ fd_stack[f].fs = 0
  BY DEF TypeOK, Opened, NoEntry, FreeHandle
<1>4. ASSUME OneOwner(faults)
      PROVE  \A g \in Fds : fd_stack[g].fs = 1 =>
               /\ g # f /\ fd_stack[g].ent \in Slots \ {s}
               /\ dir'[fd_stack[g].ent] = dir[fd_stack[g].ent]
  BY <1>2, <1>3, <1>4 DEF VolumeInv, HandlesFit
<1>5. ASSUME OneOwner(faults), NEW c \in Clusters PROVE Refs(c)' = Refs(c)
  <2>1. dir[s].clust # c /\ dir'[s].clust # c
    BY <1>1, <1>5, ClusterNumbers DEF VolumeInv, FreeEntries
  <2>2. \A t \in Slots : dir'[t].clust = c <=> dir[t].clust = c
    BY <1>2, <2>1
  <2>3. ~ FdRef(f, c) /\ ~ FdRef(f, c)'
    BY <1>3, <1>5, ClusterNumbers DEF FdRef
  <2>4. \A g \in Fds : FdRef(g, c)' <=> FdRef(g, c)
    BY <1>3, <1>4, <1>5, <2>3 DEF FdRef
  <2>5. ~ ReqRef(c) /\ ~ ReqRef(c)'
    BY <1>1 DEF ReqRef, Freeing
  <2>6. Refs(c)' \subseteq Refs(c)
    BY <2>2, <2>4, <2>5, FewerRefs
  <2>7. Refs(c) \subseteq Refs(c)'
    BY <2>2, <2>4, <2>5, MoreRefs
  <2> QED
    BY <2>6, <2>7
<1>6. ASSUME OneOwner(faults)
      PROVE  (Referred /\ FreeEntries /\ HandlesFit /\ WritersAlone /\ RequestFits)'
  <2>1. Referred'
    BY <1>5, <1>6, ReferredKept DEF VolumeInv
  <2>2. FreeEntries'
    BY <1>1, <1>2, <1>6 DEF VolumeInv, FreeEntries
  <2>3. HandlesFit'
    BY <1>1, <1>3, <1>4, <1>6 DEF VolumeInv, HandlesFit, Fresh
  <2>4. WritersAlone'
    BY <1>3, <1>4, <1>6 DEF VolumeInv, WritersAlone
  <2>5. RequestFits'
    BY <1>1 DEF RequestFits
  <2> QED
    BY <2>1, <2>2, <2>3, <2>4, <2>5
<1>7. ASSUME faults = {} PROVE Reached' /\ FreshMarked'
  <2>1. FreshMarked'
    BY <1>1, <1>3, <1>4, <1>7 DEF VolumeInv, FreshMarked, Fresh, OneOwner
  <2> QED
    BY <1>5, <1>7, <2>1, ReachedKept DEF VolumeInv, OneOwner
<1> QED
  BY <1>6, <1>7 DEF VolumeInv

-----------------------------------------------------------------------------
(***************************************************************************)
(* Every step.                                                             *)
(***************************************************************************)

\* A handler that changes nothing the references depend on and is done, or starts
\* to read or to seek.
LEMMA Untouched ==
  ASSUME VolumeInv, fat' = fat, dir' = dir, faults \subseteq faults',
         \A f \in Fds : SameFile(f), req.op \notin {"write", "delete", "move"},
         req'.op \in {"idle", "read", "seek"}
  PROVE  VolumeInv'
<1>1. \A c \in Clusters : ~ ReqRef(c)
  BY NoRemoval
<1>2. faults' = {} => FreshMarked'
  BY FreshKept DEF VolumeInv
<1> QED
  BY <1>1, <1>2, Quiet

\* The same when the handles are kept as they are.
LEMMA NothingDone ==
  ASSUME VolumeInv, fat' = fat, dir' = dir, fd_stack' = fd_stack, faults \subseteq faults',
         req.op = "idle", req' = Idle
  PROVE  VolumeInv'
  BY Untouched DEF SameFile, Idle

\* What a test for shared use adds to the history.
LEMMA Sharing ==
  ASSUME NEW c \in BOOLEAN, MayShare(c)
  PROVE  faults \subseteq faults' /\ (OneOwner(faults') => ~ c)
  BY DEF MayShare, Fail, OneOwner

\* FS_Open.
LEMMA FSOpenVolume ==
  ASSUME TypeOK, VolumeInv, req.op = "idle", NEW n \in Names, NEW mode \in Modes,
         NEW nmh2, FS_Open(n, mode, nmh2)
  PROVE  VolumeInv'
<1>0. /\ mode \in SUBSET Flags /\ mode \cup {"WRITTEN"} \in SUBSET Flags
      /\ n # NoName
  BY FFSAssumption DEF Flags
<1>1. CASE FS_Open_Found(n, mode)
  <2>1. PICK f \in Fds, s \in EntryOf(n) :
          /\ FreeHandle(f)
          /\ MayShare(\E g \in Users(s) : "WRITE" \in mode \cup fd_stack[g].flag)
          /\ Opened(f, s, mode, dir[s]) /\ req' = Idle
          /\ UNCHANGED <<fat, data, dir>>
    BY <1>1 DEF FS_Open_Found, Answer
  <2>2. s \in Slots /\ dir[s].name # NoName
    BY <1>0 DEF EntryOf
  <2>3. PICK c \in BOOLEAN : c = \E g \in Users(s) : "WRITE" \in mode \cup fd_stack[g].flag
    OBVIOUS
  <2>4. faults \subseteq faults' /\ (OneOwner(faults') => ~ c)
    BY <2>1, <2>3, Sharing
  <2>5. OneOwner(faults') =>
          \A g \in Users(s) : "WRITE" \notin mode \cup fd_stack[g].flag
    BY <2>3, <2>4
  <2> QED
    BY <1>0, <2>1, <2>2, <2>4, <2>5, OpenVolume
<1>2. CASE FS_Open_Missing(n, mode, nmh2)
  <2>1. CASE UNCHANGED <<dir, fd_stack>>
    BY <1>2, <2>1, NothingDone DEF FS_Open_Missing, Answer
  <2>2. ASSUME NEW f \in Fds, NEW s \in Slots, FreeHandle(f), FreeEntry(s),
               dir' = [dir EXCEPT ![s] = [NoEntry EXCEPT !.name = n]],
               Opened(f, s, mode \cup {"WRITTEN"}, NoEntry), req' = Idle,
               UNCHANGED <<fat, data, faults>>
        PROVE  VolumeInv'
    <3>1. dir[s].name = NoName /\ faults' = faults /\ fat' = fat
      BY <2>2 DEF FreeEntry
    <3> QED
      BY <2>2, <3>1, CreatedVolume
  <2> QED
    BY <1>2, <2>1, <2>2 DEF FS_Open_Missing, Answer
<1>3. CASE FS_Open_NoHandle
  BY <1>3, NothingDone DEF FS_Open_NoHandle, Answer
<1> QED
  BY <1>1, <1>2, <1>3 DEF FS_Open

\* FS_CreateFile.
LEMMA FSCreateVolume ==
  ASSUME TypeOK, VolumeInv, req.op = "idle", NEW n \in Names, FS_CreateFile(n)
  PROVE  VolumeInv'
<1>1. CASE dir' = dir
  BY <1>1, NothingDone DEF FS_CreateFile, Answer
<1>2. CASE \E s \in Slots : FreeEntry(s) /\ dir' = [dir EXCEPT ![s] = [NoEntry EXCEPT !.name = n]]
  BY <1>2, EntryVolume DEF FS_CreateFile, Answer, FreeEntry
<1> QED
  BY <1>1, <1>2 DEF FS_CreateFile

\* FS_Close.
LEMMA FSCloseVolume ==
  ASSUME TypeOK, VolumeInv, req.op = "idle", NEW f \in Fds, FS_Close(f)
  PROVE  VolumeInv'
<1> DEFINE h == fd_stack[f]
<1>1. /\ h.fs = 1 /\ fd_stack' = [fd_stack EXCEPT ![f] = NoFile] /\ fat' = fat
      /\ req' = Idle /\ faults \subseteq faults'
  BY DEF FS_Close, Answer, Fail
<1>2. CASE "WRITTEN" \in h.flag /\ dir[h.ent].name # NoName /\ f_sync(h)
  BY <1>1, <1>2, SyncVolume DEF f_sync
<1>3. CASE ~ ("WRITTEN" \in h.flag /\ dir[h.ent].name # NoName) /\ f_sync(h) /\ faults' = faults
  <2>1. dir' = dir
    BY <1>3 DEF f_sync
  <2>2. faults' = {} => ~ (h.fs = 1 /\ Fresh(f))
    BY <1>1, <1>3 DEF VolumeInv, FreshMarked, HandlesFit, OneOwner
  <2> QED
    BY <1>1, <2>1, <2>2, DropVolume
<1>4. CASE dir' = dir /\ Fail("io")
  <2>1. faults' # {}
    BY <1>4 DEF Fail
  <2> QED
    BY <1>1, <1>4, <2>1, DropVolume
<1>5. CASE "WRITTEN" \in h.flag /\ f_sync(h) /\ Fail("io")
  <2>1. dir[h.ent].name = NoName => dir' = dir
    BY <1>5 DEF f_sync
  <2> QED
    BY <1>2, <1>4, <1>5, <2>1
<1> QED
  BY <1>2, <1>3, <1>4, <1>5 DEF FS_Close

\* A slot whose cluster position is changed refers to what it did before.
LEMMA Positions ==
  ASSUME TypeOK, NEW f \in Fds, NEW k, fd_stack' = [fd_stack EXCEPT ![f] = k],
         k.fs = fd_stack[f].fs, k.ent = fd_stack[f].ent, k.org = fd_stack[f].org,
         k.flag = fd_stack[f].flag \/ k.flag = fd_stack[f].flag \cup {"ERROR"}
  PROVE  \A g \in Fds : SameFile(g)
<1>1. fd_stack'[f] = k /\ \A g \in Fds \ {f} : fd_stack'[g] = fd_stack[g]
  BY DEF TypeOK
<1> QED
  BY <1>1 DEF SameFile

\* The same for the updates of f_read and f_lseek.
LEMMA Moved ==
  ASSUME TypeOK, NEW f \in Fds, NEW c, NEW p,
         \/ fd_stack' = fd_stack
         \/ fd_stack' = [fd_stack EXCEPT ![f] = Marked(@)]
         \/ fd_stack' = [fd_stack EXCEPT ![f] = Onto(@, c)]
         \/ fd_stack' = [fd_stack EXCEPT ![f] = [@ EXCEPT !.fptr = p]]
         \/ fd_stack' = [fd_stack EXCEPT ![f] = [@ EXCEPT !.fptr = p, !.curr = c]]
  PROVE  \A g \in Fds : SameFile(g)
<1> DEFINE h == fd_stack[f]
<1>0. h \in FIL
  BY DEF TypeOK
<1>1. CASE fd_stack' = fd_stack
  BY <1>1 DEF SameFile
<1>2. CASE fd_stack' = [fd_stack EXCEPT ![f] = Marked(@)]
  <2> DEFINE k == Marked(h)
  <2>1. k.fs = h.fs /\ k.ent = h.ent /\ k.org = h.org /\ k.flag = h.flag \cup {"ERROR"}
    BY <1>0 DEF FIL, Marked
  <2>2. fd_stack' = [fd_stack EXCEPT ![f] = k]
    BY <1>2
  <2> HIDE DEF k
  <2> QED
    BY <2>1, <2>2, Positions
<1>3. CASE fd_stack' = [fd_stack EXCEPT ![f] = Onto(@, c)]
  <2> DEFINE k == Onto(h, c)
  <2>1. k.fs = h.fs /\ k.ent = h.ent /\ k.org = h.org /\ k.flag = h.flag
    BY <1>0 DEF FIL, Onto
  <2>2. fd_stack' = [fd_stack EXCEPT ![f] = k]
    BY <1>3
  <2> HIDE DEF k
  <2> QED
    BY <2>1, <2>2, Positions
<1>4. CASE fd_stack' = [fd_stack EXCEPT ![f] = [@ EXCEPT !.fptr = p]]
  <2> DEFINE k == [h EXCEPT !.fptr = p]
  <2>1. k.fs = h.fs /\ k.ent = h.ent /\ k.org = h.org /\ k.flag = h.flag
    BY <1>0 DEF FIL
  <2>2. fd_stack' = [fd_stack EXCEPT ![f] = k]
    BY <1>4
  <2> HIDE DEF k
  <2> QED
    BY <2>1, <2>2, Positions
<1>5. CASE fd_stack' = [fd_stack EXCEPT ![f] = [@ EXCEPT !.fptr = p, !.curr = c]]
  <2> DEFINE k == [h EXCEPT !.fptr = p, !.curr = c]
  <2>1. k.fs = h.fs /\ k.ent = h.ent /\ k.org = h.org /\ k.flag = h.flag
    BY <1>0 DEF FIL
  <2>2. fd_stack' = [fd_stack EXCEPT ![f] = k]
    BY <1>5
  <2> HIDE DEF k
  <2> QED
    BY <2>1, <2>2, Positions
<1> QED
  BY <1>1, <1>2, <1>3, <1>4, <1>5

\* FS_Read, FS_Write and FS_Seek up to their loops.
LEMMA StartVolume ==
  ASSUME TypeOK, VolumeInv, req.op = "idle", NEW f \in Fds,
         \/ \E n \in Lengths : FS_Read(f, n)
         \/ \E b \in Buffers : FS_Write(f, b)
         \/ \E where \in Offsets, whence \in {"SEEK_SET", "SEEK_CUR", "SEEK_END"} :
              FS_Seek(f, where, whence)
  PROVE  VolumeInv'
<1>1. CASE \E n \in Lengths : FS_Read(f, n)
  <2>1. req'.op = "read" /\ \A g \in Fds : SameFile(g)
    BY <1>1 DEF FS_Read, Start, Idle, SameFile
  <2> QED
    BY <1>1, <2>1, Untouched DEF FS_Read
<1>2. CASE \E b \in Buffers : FS_Write(f, b)
  <2>1. /\ req'.op = "write" /\ req'.fd = f /\ \A g \in Fds : SameFile(g)
        /\ fd_stack[f].fs = 1 /\ "WRITE" \in fd_stack[f].flag
        /\ fat' = fat /\ dir' = dir /\ faults' = faults
    BY <1>2 DEF FS_Write, Ready, Start, Idle, SameFile
  <2>2. faults' = {} => FreshMarked'
    BY <2>1, FreshKept DEF VolumeInv
  <2> QED
    BY <2>1, <2>2, NoRemoval, Quiet
<1>3. ASSUME NEW where \in Offsets, NEW whence \in {"SEEK_SET", "SEEK_CUR", "SEEK_END"},
             FS_Seek(f, where, whence)
      PROVE  VolumeInv'
  <2> DEFINE h == fd_stack[f]
             ofs == Clip(h, Target(h, where, whence))
             onward == h.fptr > 0 /\ ofs >= h.fptr
             start == IF onward THEN h.fptr - 1 ELSE 0
             curr == IF onward THEN h.curr ELSE h.org
  <2>1. \/ ofs = 0 /\ fd_stack' = [fd_stack EXCEPT ![f] = [@ EXCEPT !.fptr = 0]] /\ req' = Idle
        \/ /\ fd_stack' = [fd_stack EXCEPT ![f] = [@ EXCEPT !.fptr = start, !.curr = curr]]
           /\ req' = [Idle EXCEPT !.op = "seek", !.fd = f, !.left = ofs - start]
    BY <1>3, Zenon DEF FS_Seek, Answer, Start
  <2> HIDE DEF start, curr, ofs
  <2>2. \A g \in Fds : SameFile(g)
    BY <2>1, Moved
  <2>3. req'.op = "idle" \/ req'.op = "seek"
    <3>1. PICK l : req' = Idle \/ req' = [Idle EXCEPT !.op = "seek", !.fd = f, !.left = l]
      BY <2>1, Zenon
    <3>2. CASE req' = Idle
      BY <3>2 DEF Idle
    <3>3. CASE req' = [Idle EXCEPT !.op = "seek", !.fd = f, !.left = l]
      BY <3>3 DEF Idle
    <3> QED
      BY <3>1, <3>2, <3>3
  <2>4. fat' = fat /\ dir' = dir /\ faults' = faults
    BY <1>3 DEF FS_Seek
  <2> QED
    BY <2>2, <2>3, <2>4, Untouched
<1> QED
  BY <1>1, <1>2, <1>3

\* f_read and f_lseek.
LEMMA LoopVolume ==
  ASSUME TypeOK, VolumeInv,
         f_read_step \/ f_read_error \/ f_read_end \/ f_lseek_step \/ f_lseek_end
  PROVE  VolumeInv'
<1>1. req.fd \in Fds /\ req.op \in {"read", "seek"} /\ req \in Request
  BY DEF f_read_step, f_read_error, f_read_end, f_lseek_step, f_lseek_end, TypeOK, Request
<1>2. fat' = fat /\ dir' = dir /\ faults \subseteq faults'
  BY DEF f_read_step, f_read_error, f_read_end, f_lseek_step, f_lseek_end, Fail
<1>3. PICK f \in Fds : f = req.fd
  BY <1>1
<1>4. \A g \in Fds : SameFile(g)
  <2>1. PICK c, p : \/ fd_stack' = fd_stack
                    \/ fd_stack' = [fd_stack EXCEPT ![f] = Marked(@)]
                    \/ fd_stack' = [fd_stack EXCEPT ![f] = Onto(@, c)]
                    \/ fd_stack' = [fd_stack EXCEPT ![f] = [@ EXCEPT !.fptr = p]]
    BY <1>3, Zenon DEF f_read_step, f_read_error, f_read_end, f_lseek_step, f_lseek_end, Abort
  <2> QED
    BY <2>1, Moved
<1>5. req'.op \in {"idle", "read", "seek"}
  <2>1. \/ req' = Idle
        \/ \E left, buf : req' = [req EXCEPT !.left = left, !.buf = buf]
        \/ \E left : req' = [req EXCEPT !.left = left]
    BY Zenon DEF f_read_step, f_read_error, f_read_end, f_lseek_step, f_lseek_end, Abort,
                 Answer
  <2>2. req'.op = "idle" \/ req'.op = req.op
    <3>1. CASE req' = Idle
      BY <3>1 DEF Idle
    <3>2. ASSUME NEW left, NEW buf, req' = [req EXCEPT !.left = left, !.buf = buf]
          PROVE  req'.op = req.op
      BY <1>1, <3>2 DEF Request
    <3>3. ASSUME NEW left, req' = [req EXCEPT !.left = left]
          PROVE  req'.op = req.op
      BY <1>1, <3>3 DEF Request
    <3> QED
      BY <2>1, <3>1, <3>2, <3>3
  <2> QED
    BY <1>1, <2>2
<1> QED
  BY <1>1, <1>2, <1>4, <1>5, Untouched

\* FS_DeleteFile.
LEMMA FSDeleteVolume ==
  ASSUME TypeOK, VolumeInv, req.op = "idle", NEW n \in Names, FS_DeleteFile(n)
  PROVE  VolumeInv'
<1>1. CASE dir' = dir /\ faults' = faults /\ req' = Idle
  BY <1>1, NothingDone DEF FS_DeleteFile
<1>2. ASSUME NEW s \in EntryOf(n), MayShare(Users(s) # {}), Unlink(s, "delete", NoName, NoName)
      PROVE  VolumeInv'
  <2>1. s \in Slots
    BY DEF EntryOf
  <2>2. PICK c \in BOOLEAN : c = (Users(s) # {})
    OBVIOUS
  <2>3. faults \subseteq faults' /\ (OneOwner(faults') => Users(s) = {})
    BY <1>2, <2>2, Sharing
  <2>4. fat' = fat /\ fd_stack' = fd_stack
    BY DEF FS_DeleteFile
  <2> QED
    BY <1>2, <2>1, <2>3, <2>4, UnlinkVolume
<1> QED
  BY <1>1, <1>2 DEF FS_DeleteFile, Answer

\* f_rename after its tests.
LEMMA RenamedVolume ==
  ASSUME TypeOK, VolumeInv, NEW src, NEW dst \in Names, src # NoName,
         Rename(src, dst), req.op # "write",
         fd_stack' = fd_stack, fat' = fat, faults \subseteq faults',
         OneOwner(faults') => \A c \in Clusters : ~ ReqRef(c),
         OneOwner(faults') /\ ~ DirFull => \A s \in EntryOf(src) : Users(s) = {}
  PROVE  VolumeInv'
<1>1. PICK s \in EntryOf(src) :
        IF DirFull
        THEN req' = Idle /\ dir' = dir
        ELSE \E t \in Slots :
               /\ FreeEntry(t) /\ req' = Idle
               /\ dir' = [dir EXCEPT ![t] = [dir[s] EXCEPT !.name = dst], ![s] = NoEntry]
  BY DEF Rename, Answer
<1>2. s \in Slots /\ dir[s].name # NoName
  BY DEF EntryOf
<1>3. CASE DirFull
  <2>1. req'.op = "idle" /\ \A g \in Fds : SameFile(g)
    BY <1>1, <1>3 DEF Idle, SameFile
  <2>2. faults' = {} => FreshMarked'
    BY <1>1, <1>3, <2>1, FreshKept DEF VolumeInv
  <2> QED
    BY <1>1, <1>3, <2>1, <2>2, Quiet DEF OneOwner
<1>4. CASE ~ DirFull
  <2>1. PICK t \in Slots :
          /\ FreeEntry(t) /\ req' = Idle
          /\ dir' = [dir EXCEPT ![t] = [dir[s] EXCEPT !.name = dst], ![s] = NoEntry]
    BY <1>1, <1>4
  <2>2. dir[t].name = NoName
    BY <2>1 DEF FreeEntry
  <2> QED
    BY <1>2, <1>4, <2>1, <2>2, RenameVolume
<1> QED
  BY <1>3, <1>4

\* f_rename with a failing transfer.
LEMMA RenameErrorVolume ==
  ASSUME TypeOK, VolumeInv, NEW src, NEW dst \in Names, src # NoName,
         Rename_error(src, dst), req.op # "write",
         fd_stack' = fd_stack, fat' = fat,
         OneOwner(faults) => \A c \in Clusters : ~ ReqRef(c)
  PROVE  VolumeInv'
<1>1. req' = Idle /\ faults \subseteq faults' /\ "io" \in faults'
  BY DEF Rename_error, Answer, Fail
<1>2. CASE ~ OneOwner(faults')
  BY <1>1, <1>2 DEF VolumeInv
<1>3. CASE OneOwner(faults')
  <2>1. \A c \in Clusters : ~ ReqRef(c)
    BY <1>1, <1>3 DEF OneOwner
  <2>2. CASE dir' = dir
    <3>1. req'.op = "idle" /\ \A g \in Fds : SameFile(g)
      BY <1>1, <2>2 DEF Idle, SameFile
    <3> QED
      BY <1>1, <2>1, <2>2, <3>1, Quiet
  <2>3. CASE dir' # dir
    <3>1. PICK s \in EntryOf(src), t \in Slots :
            /\ FreeEntry(t) /\ Users(s) = {}
            /\ dir' = [dir EXCEPT ![t] = [dir[s] EXCEPT !.name = dst], ![s] = NoEntry]
      BY <1>3, <2>3 DEF Rename_error, OneOwner
    <3>2. s \in Slots /\ dir[s].name # NoName /\ dir[t].name = NoName
      BY <3>1 DEF EntryOf, FreeEntry
    <3> QED
      BY <1>1, <2>1, <3>1, <3>2, RenameVolume
  <2> QED
    BY <2>2, <2>3
<1> QED
  BY <1>2, <1>3

\* FS_Move.
LEMMA FSMoveVolume ==
  ASSUME TypeOK, VolumeInv, req.op = "idle", NEW src \in Names, NEW dst \in Names,
         FS_Move(src, dst)
  PROVE  VolumeInv'
<1>0. src # NoName /\ fat' = fat /\ fd_stack' = fd_stack
  BY FFSAssumption DEF FS_Move
<1>1. CASE dir' = dir /\ faults' = faults /\ req' = Idle
  BY <1>0, <1>1, NothingDone
<1>2. CASE MayShare(~ DirFull /\ \E s \in EntryOf(src) : Users(s) # {}) /\ Rename(src, dst)
  <2>1. PICK c \in BOOLEAN : c = (~ DirFull /\ \E s \in EntryOf(src) : Users(s) # {})
    OBVIOUS
  <2>2. faults \subseteq faults' /\ (OneOwner(faults') => ~ c)
    BY <1>2, <2>1, Sharing
  <2>3. OneOwner(faults') /\ ~ DirFull => \A s \in EntryOf(src) : Users(s) = {}
    BY <2>1, <2>2
  <2> QED
    BY <1>0, <1>2, <2>2, <2>3, NoRemoval, RenamedVolume
<1>3. ASSUME MayShare(\E s \in EntryOf(src) \cup EntryOf(dst) : Users(s) # {}),
             NEW d \in EntryOf(dst), Unlink(d, "move", src, dst)
      PROVE  VolumeInv'
  <2>1. PICK c \in BOOLEAN : c = \E s \in EntryOf(src) \cup EntryOf(dst) : Users(s) # {}
    OBVIOUS
  <2>2. faults \subseteq faults' /\ (OneOwner(faults') => ~ c)
    BY <1>3, <2>1, Sharing
  <2>3. OneOwner(faults') =>
          Users(d) = {} /\ \A s \in EntryOf(src) : Users(s) = {}
    BY <2>1, <2>2
  <2>4. d \in Slots
    BY DEF EntryOf
  <2> QED
    BY <1>0, <1>3, <2>2, <2>3, <2>4, UnlinkVolume
<1>4. CASE Rename_error(src, dst)
  BY <1>0, <1>4, NoRemoval, RenameErrorVolume
<1> QED
  BY <1>1, <1>2, <1>3, <1>4 DEF FS_Move, Answer

\* The end of f_unlink, and what FS_Move does then.
LEMMA RemoveEndVolume == ASSUME TypeOK, VolumeInv, remove_chain_end PROVE VolumeInv'
<1>0. /\ fat' = fat /\ fd_stack' = fd_stack /\ faults' = faults /\ Freeing
      /\ req.clst \in Clusters => fat[req.clst] = 0
      /\ req.op # "write"
  BY DEF remove_chain_end, Freeing
\* The removal refers to no cluster in use.
<1>1. OneOwner(faults) => \A c \in Clusters : ~ ReqRef(c)
  BY <1>0, RefsOf DEF VolumeInv, Referred, ReqRef
<1>2. CASE dir' = dir /\ req' = Idle
  <2>1. req'.op = "idle" /\ \A g \in Fds : SameFile(g)
    BY <1>0, <1>2 DEF Idle, SameFile
  <2>2. faults' = {} => FreshMarked'
    BY <1>0, <1>2, <2>1, FreshKept DEF VolumeInv
  <2>3. faults' = {} => OneOwner(faults)
    BY <1>0 DEF OneOwner
  <2> QED
    BY <1>0, <1>1, <1>2, <2>1, <2>2, <2>3, Quiet
<1>3. CASE req.op = "move" /\ Exists(req.src) /\ Rename(req.src, req.dst)
  <2>1. PICK src, dst : src = req.src /\ dst = req.dst
    OBVIOUS
  <2>2. ASSUME OneOwner(faults)
        PROVE  src \in Names /\ dst \in Names /\ \A s \in EntryOf(src) : Users(s) = {}
    BY <1>3, <2>1, <2>2 DEF VolumeInv, RequestFits
  <2>3. CASE ~ OneOwner(faults)
    BY <1>0, <2>3 DEF VolumeInv, OneOwner
  <2>4. CASE OneOwner(faults)
    <3>1. src # NoName
      BY <2>2, <2>4, FFSAssumption
    <3>2. Rename(src, dst)
      BY <1>3, <2>1
    <3> QED
      BY <1>0, <1>1, <2>2, <2>4, <3>1, <3>2, RenamedVolume
  <2> QED
    BY <2>3, <2>4
<1> QED
  BY <1>2, <1>3 DEF remove_chain_end, Answer

\* The second f_rename of FS_Move with a failing transfer.
LEMMA AgainErrorVolume == ASSUME TypeOK, VolumeInv, f_rename_again_error PROVE VolumeInv'
<1>0. /\ fat' = fat /\ fd_stack' = fd_stack /\ Freeing /\ req.op = "move"
      /\ req.clst \in Clusters => fat[req.clst] = 0
      /\ faults \subseteq faults' /\ "io" \in faults'
  BY DEF f_rename_again_error, Rename_error, Fail, Freeing
<1>1. OneOwner(faults) => \A c \in Clusters : ~ ReqRef(c)
  BY <1>0, RefsOf DEF VolumeInv, Referred, ReqRef
<1>2. PICK src, dst : src = req.src /\ dst = req.dst
  OBVIOUS
<1>3. Rename_error(src, dst)
  BY <1>2 DEF f_rename_again_error
<1>4. CASE ~ OneOwner(faults)
  BY <1>0, <1>4 DEF VolumeInv, OneOwner
<1>5. CASE OneOwner(faults)
  <2>1. src \in Names /\ dst \in Names /\ src # NoName
    BY <1>0, <1>2, <1>5, FFSAssumption DEF VolumeInv, RequestFits
  <2> QED
    BY <1>0, <1>1, <1>3, <2>1, RenameErrorVolume
<1> QED
  BY <1>4, <1>5

\* A new message.
LEMMA ReceiveVolume == ASSUME TypeOK, VolumeInv, Receive PROVE VolumeInv'
<1>0. req.op = "idle"
  BY DEF Receive
<1>1. ASSUME NEW n \in Names, PathRequest(n) PROVE VolumeInv'
  BY <1>0, <1>1, FSOpenVolume, FSCreateVolume, FSDeleteVolume, FSMoveVolume DEF PathRequest
<1>2. ASSUME NEW f \in Fds, HandleRequest(f) PROVE VolumeInv'
  <2>1. CASE FS_Close(f)
    BY <1>0, <2>1, FSCloseVolume
  <2>2. CASE \/ \E op \in {"read", "write", "seek", "close"} : BadHandle(op, f)
             \/ Refuse("read", f, "READ")
             \/ Refuse("write", f, "WRITE")
             \/ \E where \in Offsets, whence \in {"SEEK_SET", "SEEK_CUR", "SEEK_END"} :
                  FS_Seek_Refused(f, where, whence)
    BY <1>0, <2>2, NothingDone DEF BadHandle, Refuse, FS_Seek_Refused, Answer
  <2> QED
    BY <1>0, <1>2, <2>1, <2>2, StartVolume DEF HandleRequest
<1>3. CASE DirError
  BY <1>0, <1>3, NothingDone DEF DirError, Answer, Fail
<1> QED
  BY <1>1, <1>2, <1>3 DEF Receive

\* Every step keeps what the proof knows of the volume.
LEMMA NextVolume == TypeOK /\ VolumeInv /\ [Next]_vars => VolumeInv'
<1> SUFFICES ASSUME TypeOK, VolumeInv, [Next]_vars PROVE VolumeInv'
  OBVIOUS
<1>1. CASE Receive
  BY <1>1, ReceiveVolume
<1>2. CASE Work
  BY <1>2, LoopVolume, WriteVolume, RemoveVolume, RemoveEndVolume, RemoveErrorVolume,
     AgainErrorVolume
  DEF Work
<1>3. CASE UNCHANGED vars
  BY <1>3 DEF vars, VolumeInv, Referred, Reached, FreeEntries, HandlesFit, WritersAlone,
              RequestFits, FreshMarked, Fresh, Refs, Freeing, EntryOf, Users
<1> QED
  BY <1>1, <1>2, <1>3 DEF Next

\* The volume is sound: unless clients share a file that one of them writes, deletes
\* or renames, or a transfer failed between the two halves of a rename (which leaves
\* two entries for one chain), no two chains meet and none runs into a free cluster,
\* whatever other transfers of f_write, f_sync, remove_chain and f_rename fail; and
\* as long as none failed, no cluster is lost.
THEOREM VolumeSafe == Spec => []VolumeSound
<1>1. VolumeInv => VolumeSound
  BY DEF VolumeInv, Referred, Reached, VolumeSound, NoCrossLink, NoDanglingChain,
         NoLostCluster
<1> QED
  BY <1>1, InitTypeOK, InitVolume, NextType, NextVolume, PTL DEF Spec

-----------------------------------------------------------------------------
(***************************************************************************)
(* The refinement: StoreSpec of FFSRefines for any number of names,        *)
(* handles, clusters and entries.  What the allocation table says of a     *)
(* file is a path, the sequence of its clusters; the inductive invariant   *)
(* is that there are paths, one for every entry and one for remove_chain,  *)
(* that are chains, do not meet, and are what the entries, the file        *)
(* objects and the request say of them.  A proof of a step gives the       *)
(* paths of the next state.                                                *)
(***************************************************************************)

\* The cluster a path starts with, as org_clust has it.
First(q) == IF q = <<>> THEN 0 ELSE q[1]

\* The values along a path.
Values(q) == [i \in 1 .. Len(q) |-> data[q[i]]]

\* A path is a whole chain of the table.
Linked(q) ==
  \A i \in 1 .. Len(q) : fat[q[i]] = IF i < Len(q) THEN q[i + 1] ELSE EOC

\* The walk of Contents finds the path.
LEMMA ContentsRight ==
  ASSUME NEW q \in Seq(Clusters), Linked(q)
  PROVE  Contents(First(q), Len(q)) = Values(q)
<1> DEFINE n == Len(q)
           c == First(q)
           f == CHOOSE f : f = [i \in 1 .. n |-> IF i = 1 THEN c ELSE get_cluster(f[i - 1])]
<1>1. n \in Nat /\ \A i \in 1 .. n : q[i] \in Clusters
  OBVIOUS
<1>2. \A i \in 1 .. n : q[i] = IF i = 1 THEN c ELSE get_cluster(q[i - 1])
  <2> SUFFICES ASSUME NEW i \in 1 .. n
               PROVE  q[i] = IF i = 1 THEN c ELSE get_cluster(q[i - 1])
    OBVIOUS
  <2>1. CASE i = 1
    BY <2>1 DEF First
  <2>2. CASE i # 1
    <3>1. i - 1 \in 1 .. n /\ i - 1 < n /\ (i - 1) + 1 = i
      BY <1>1, <2>2
    <3>2. fat[q[i - 1]] = q[i]
      BY <3>1 DEF Linked
    <3> QED
      BY <1>1, <2>2, <3>1, <3>2 DEF get_cluster
  <2> QED
    BY <2>1, <2>2
<1>3. q = [i \in 1 .. n |-> IF i = 1 THEN c ELSE get_cluster(q[i - 1])]
  BY <1>2
<1>4. f = [i \in 1 .. n |-> IF i = 1 THEN c ELSE get_cluster(f[i - 1])]
  BY <1>3
<1>5. Contents(c, n) = [i \in 1 .. n |-> IF f[i] \in Clusters THEN data[f[i]] ELSE NoName]
  BY DEF Contents
<1> DEFINE S == {i \in Nat : i \in 1 .. n => f[i] = q[i]}
<1> HIDE DEF f, n, c
<1>6. \A i \in 1 .. n : f[i] = IF i = 1 THEN c ELSE get_cluster(f[i - 1])
  BY <1>4
<1>7. 0 \in S
  BY <1>1
<1>8. ASSUME NEW i \in Nat, i \in S PROVE i + 1 \in S
  <2> SUFFICES ASSUME i + 1 \in 1 .. n PROVE f[i + 1] = q[i + 1]
    OBVIOUS
  <2>1. PICK k \in 1 .. n : k = i + 1
    OBVIOUS
  <2>2. CASE k = 1
    BY <1>2, <1>6, <2>1, <2>2
  <2>3. CASE k # 1
    <3>1. k - 1 = i /\ i \in 1 .. n
      BY <1>1, <2>1, <2>3
    <3>2. f[i] = q[i]
      BY <1>8, <3>1
    <3>3. f[k] = get_cluster(f[i]) /\ q[k] = get_cluster(q[i])
      BY <1>2, <1>6, <2>3, <3>1
    <3> QED
      BY <2>1, <3>2, <3>3
  <2> QED
    BY <2>2, <2>3
<1>9. \A i \in 1 .. n : f[i] = q[i]
  <2>1. \A i \in Nat : i \in S
    <3> HIDE DEF S
    <3> QED
      BY <1>7, <1>8, NatInduct
  <2> QED
    BY <1>1, <2>1
<1>10. \A i \in 1 .. n : (IF f[i] \in Clusters THEN data[f[i]] ELSE NoName) = data[q[i]]
  BY <1>1, <1>9
<1> QED
  BY <1>5, <1>10 DEF n, c, Values

\* Path s > 0 is the clusters of the file of entry s, in order.
Paths == [0 .. DirSize -> Seq(Clusters)]
Opens(f) == fd_stack[f].fs = 1
Writes(f) == Opens(f) /\ "WRITE" \in fd_stack[f].flag
SeeksNow(f) == req.op = "seek" /\ req.fd = f

\* How many clusters a file object knows of.
Span(h) == Larger(h.fptr, h.fsize)

\* No cluster is on two paths or twice on one, and each path is a chain.
Distinct(p) ==
  \A s, t \in 0 .. DirSize : \A i \in 1 .. Len(p[s]), j \in 1 .. Len(p[t]) :
    p[s][i] = p[t][j] => s = t /\ i = j
Chained(p) == Distinct(p) /\ \A s \in 0 .. DirSize : Linked(p[s])

\* The path an entry, or an open file, tells of.
OfEntry(q, e) == First(q) = e.clust /\ Len(q) = e.size
OfFile(q, h) == First(q) = h.org /\ Len(q) = Span(h)

\* The current cluster is the one before the position, but in f_lseek, which adds

\* the last unit at its end.
PlacedAt(q, h, seeks) ==
  IF seeks THEN h.curr = q[h.fptr + 1] ELSE h.fptr > 0 => h.curr = q[h.fptr]

\* The entry tells of the path, unless a writer has the file: then its object does.
EntriesOf(p) ==
  \A s \in Slots : (\A f \in Fds : Writes(f) => fd_stack[f].ent # s) => OfEntry(p[s], dir[s])
HandlesOf(p) ==
  \A f \in Fds : Opens(f) =>
    /\ OfFile(p[fd_stack[f].ent], fd_stack[f])
    /\ PlacedAt(p[fd_stack[f].ent], fd_stack[f], SeeksNow(f))

\* Path 0 is what remove_chain has left to free.
RemovalOf(p) ==
  IF Freeing
  THEN IF p[0] = <<>> THEN req.clst \notin Clusters ELSE req.clst = p[0][1]
  ELSE p[0] = <<>>

\* The inductive invariant, for the paths p.
PathsInv(p) == Chained(p) /\ EntriesOf(p) /\ HandlesOf(p) /\ RemovalOf(p)

\* No two files have one name, and FS_Move waits for the target to be gone.
NamesOnce ==
  /\ \A s, t \in UsedSlots : dir[s].name = dir[t].name => s = t
  /\ req.op = "move" => ~ Exists(req.dst)

\* A file that is not marked is as its entry says.
Saved ==
  \A f \in Fds :
    Opens(f) /\ "WRITTEN" \notin fd_stack[f].flag /\ ~ (req.op = "write" /\ req.fd = f) =>
      /\ fd_stack[f].org = dir[fd_stack[f].ent].clust
      /\ fd_stack[f].fsize = dir[fd_stack[f].ent].size

\* No transfer fails, nothing is shared, and a request is of an open file.
Calm ==
  /\ Faults = {} /\ faults = {}
  /\ \A f \in Fds : "ERROR" \notin fd_stack[f].flag
  /\ req.op # "idle" => reply.buf = <<>>
  /\ req.op \in {"read", "write", "seek"} => Opens(req.fd)

Plain == Calm /\ NamesOnce /\ Saved
Sound == TypeOK /\ VolumeInv /\ PositionInv

\* What the file store sees of the paths.
FilesAre(p) ==
  /\ absFiles = [n \in DOMAIN absFiles |-> absFiles[n]]
  /\ DOMAIN absFiles = {dir[s].name : s \in UsedSlots}
  /\ \A s \in UsedSlots : absFiles[dir[s].name] = Values(p[s])

\* The files of the file store are what the paths hold.
LEMMA FilesRight ==
  \A p \in Paths : Sound /\ Plain /\ PathsInv(p) => FilesAre(p)
<1> SUFFICES ASSUME NEW p \in Paths, Sound, Plain, PathsInv(p) PROVE FilesAre(p)
  OBVIOUS
<1>1. /\ absFiles = [n \in DOMAIN absFiles |-> absFiles[n]]
      /\ DOMAIN absFiles = {dir[s].name : s \in UsedSlots}
  BY DEF absFiles
<1>2. ASSUME NEW s \in UsedSlots PROVE absFiles[dir[s].name] = Values(p[s])
  <2>0. s \in Slots /\ s \in 0 .. DirSize /\ p[s] \in Seq(Clusters) /\ Linked(p[s])
    BY DEF UsedSlots, Slots, PathsInv, Chained, Paths
  <2>1. s = CHOOSE t \in UsedSlots : dir[t].name = dir[s].name
    BY DEF Plain, NamesOnce
  <2>2. absFiles[dir[s].name] = FileOf(s)
    BY <2>1 DEF absFiles
  <2>3. CASE Writers(s) # {}
    <3>1. PICK f \in Writers(s) : f = CHOOSE g \in Writers(s) : TRUE
      BY <2>3
    <3>2. f \in Fds /\ Opens(f) /\ fd_stack[f].ent = s
      BY DEF Writers, Users, Opens
    <3>3. OfFile(p[s], fd_stack[f])
      BY <3>2 DEF PathsInv, HandlesOf
    <3>4. FileOf(s) = Contents(fd_stack[f].org,
                        IF fd_stack[f].fptr > fd_stack[f].fsize
                        THEN fd_stack[f].fptr ELSE fd_stack[f].fsize)
      BY <2>3, <3>1 DEF FileOf
    <3>5. FileOf(s) = Contents(First(p[s]), Len(p[s]))
      BY <3>3, <3>4 DEF OfFile, Span, Larger
    <3> QED
      BY <2>0, <2>2, <3>5, ContentsRight
  <2>4. CASE Writers(s) = {}
    <3>1. \A f \in Fds : Writes(f) => fd_stack[f].ent # s
      BY <2>4 DEF Writers, Users, Writes, Opens
    <3>2. OfEntry(p[s], dir[s])
      BY <2>0, <3>1 DEF PathsInv, EntriesOf
    <3>3. FileOf(s) = Contents(First(p[s]), Len(p[s]))
      BY <2>4, <3>2 DEF FileOf, OfEntry
    <3> QED
      BY <2>0, <2>2, <3>3, ContentsRight
  <2> QED
    BY <2>3, <2>4
<1> QED
  BY <1>1, <1>2 DEF FilesAre

\* The same after a step.
LEMMA FilesNext ==
  \A p \in Paths : Sound' /\ Plain' /\ PathsInv(p)' => FilesAre(p)'
<1>1. (\A p \in Paths : Sound /\ Plain /\ PathsInv(p) => FilesAre(p))'
  BY FilesRight, PTL
<1> QED
  BY <1>1
-----------------------------------------------------------------------------
(***************************************************************************)
(* What a step does to the file store.                                     *)
(***************************************************************************)

\* What the proof of a step starts from.
Known == Sound /\ Plain

\* The parts of it that the proofs use.
LEMMA AllKnown ==
  ASSUME Known
  PROVE  /\ TypeOK /\ FreeEntries /\ HandlesFit /\ WritersAlone /\ RequestFits
         /\ PositionInv /\ NamesOnce /\ Saved /\ Calm
  BY DEF Known, Sound, Plain, VolumeInv, Calm, OneOwner

\* Without faults nothing fails and what would be shared use does not happen.
LEMMA NoFault ==
  ASSUME Calm
  PROVE  /\ \A x : ~ Fail(x)
         /\ \A c \in BOOLEAN : MayShare(c) => ~ c /\ faults' = {}
  BY DEF Calm, Fail, MayShare

\* Two functions are the same when they agree.
LEMMA Agree ==
  ASSUME NEW F, NEW G, F = [x \in DOMAIN F |-> F[x]], G = [x \in DOMAIN G |-> G[x]],
         DOMAIN F = DOMAIN G, \A x \in DOMAIN F : F[x] = G[x]
  PROVE  F = G
  OBVIOUS

\* Names and contents stay.
LEMMA SameFiles ==
  ASSUME NEW p \in Paths, FilesAre(p), NEW r \in Paths, FilesAre(r)',
         \A s \in Slots : dir'[s].name = dir[s].name,
         \A s \in UsedSlots : Values(r[s])' = Values(p[s])
  PROVE  absFiles' = absFiles
<1>1. UsedSlots' = UsedSlots
  BY DEF UsedSlots
<1>2. DOMAIN absFiles = {dir[s].name : s \in UsedSlots}
  BY DEF FilesAre
<1>3. DOMAIN absFiles' = {dir'[s].name : s \in UsedSlots}
  BY <1>1 DEF FilesAre
<1>4. \A s \in UsedSlots : dir'[s].name = dir[s].name
  BY DEF UsedSlots
<1>5. DOMAIN absFiles' = DOMAIN absFiles
  BY <1>2, <1>3, <1>4
<1>6. ASSUME NEW n \in DOMAIN absFiles PROVE absFiles'[n] = absFiles[n]
  <2>1. PICK s \in UsedSlots : n = dir[s].name
    BY <1>2
  <2>2. absFiles[n] = Values(p[s])
    BY <2>1 DEF FilesAre
  <2>3. absFiles'[n] = Values(r[s])'
    BY <1>1, <1>4, <2>1 DEF FilesAre
  <2> QED
    BY <2>2, <2>3
<1>7. /\ absFiles = [n \in DOMAIN absFiles |-> absFiles[n]]
      /\ absFiles' = [n \in DOMAIN absFiles' |-> absFiles'[n]]
  BY DEF FilesAre
<1>8. PICK F, G : F = absFiles /\ G = absFiles'
  OBVIOUS
<1> QED
  BY <1>5, <1>6, <1>7, <1>8, Agree

\* The same when nothing of the paths moves.
LEMMA FilesStay ==
  ASSUME Known, Known', NEW p \in Paths, PathsInv(p), PathsInv(p)',
         \A s \in Slots : dir'[s].name = dir[s].name, data' = data
  PROVE  absFiles' = absFiles
<1>1. FilesAre(p) /\ FilesAre(p)'
  BY FilesRight, FilesNext DEF Known
<1>2. \A s \in UsedSlots : Values(p[s])' = Values(p[s])
  BY DEF Values
<1> QED
  BY <1>1, <1>2, SameFiles

\* What the file store sees of the handles.
HandlesAre ==
  /\ absHandle = [f \in DOMAIN absHandle |-> absHandle[f]]
  /\ DOMAIN absHandle = {f \in Fds : Opens(f)}
  /\ \A f \in Fds : Opens(f) =>
       absHandle[f] = [name |-> dir[fd_stack[f].ent].name, pos |-> Position(f)]

\* They are that by definition, before a step
LEMMA HandlesRight == HandlesAre
  BY DEF HandlesAre, absHandle, Opens

\* and after it.
LEMMA HandlesNext == HandlesAre'
  BY DEF HandlesAre, absHandle, Opens

\* The handles and their positions stay.
LEMMA SameHandles ==
  ASSUME \A f \in Fds : /\ Opens(f)' <=> Opens(f)
                        /\ Opens(f) => /\ dir'[fd_stack'[f].ent].name = dir[fd_stack[f].ent].name
                                       /\ Position(f)' = Position(f)
  PROVE  absHandle' = absHandle
<1>1. DOMAIN absHandle' = DOMAIN absHandle
  BY HandlesRight, HandlesNext DEF HandlesAre
<1>2. ASSUME NEW f \in DOMAIN absHandle PROVE absHandle'[f] = absHandle[f]
  <2>1. f \in Fds /\ Opens(f) /\ Opens(f)'
    BY HandlesRight DEF HandlesAre
  <2> QED
    BY <2>1, HandlesRight, HandlesNext DEF HandlesAre
<1>3. PICK F, G : F = absHandle /\ G = absHandle'
  OBVIOUS
<1>4. F = [x \in DOMAIN F |-> F[x]] /\ G = [x \in DOMAIN G |-> G[x]]
  BY <1>3, HandlesRight, HandlesNext DEF HandlesAre
<1> QED
  BY <1>1, <1>2, <1>3, <1>4, Agree

\* One handle moves.
LEMMA HandleMoves ==
  ASSUME NEW f \in Fds, Opens(f), NEW pos, Position(f)' = pos,
         \A g \in Fds : /\ Opens(g)' <=> Opens(g)
                        /\ Opens(g) => dir'[fd_stack'[g].ent].name = dir[fd_stack[g].ent].name
                        /\ Opens(g) /\ g # f => Position(g)' = Position(g)
  PROVE  absHandle' = [absHandle EXCEPT ![f].pos = pos]
<1>1. DOMAIN absHandle' = DOMAIN absHandle
  BY HandlesRight, HandlesNext DEF HandlesAre
<1>0. f \in DOMAIN absHandle
  BY HandlesRight DEF HandlesAre
<1>2. ASSUME NEW g \in DOMAIN absHandle, g # f PROVE absHandle'[g] = absHandle[g]
  <2>1. g \in Fds /\ Opens(g) /\ Opens(g)'
    BY HandlesRight DEF HandlesAre
  <2> QED
    BY <1>2, <2>1, HandlesRight, HandlesNext DEF HandlesAre
<1>3. absHandle'[f] = [absHandle[f] EXCEPT !.pos = pos]
  <2>1. absHandle'[f] = [name |-> dir'[fd_stack'[f].ent].name, pos |-> pos]
    BY HandlesNext DEF HandlesAre
  <2>2. absHandle[f] = [name |-> dir[fd_stack[f].ent].name, pos |-> Position(f)]
    BY HandlesRight DEF HandlesAre
  <2> QED
    BY <2>1, <2>2
<1>4. PICK F, G : F = absHandle /\ G = absHandle'
  OBVIOUS
<1>5. F = [x \in DOMAIN F |-> F[x]] /\ G = [x \in DOMAIN G |-> G[x]]
  BY <1>4, HandlesRight, HandlesNext DEF HandlesAre
<1>6. PICK H : H = [F EXCEPT ![f].pos = pos]
  OBVIOUS
<1>7. /\ H = [x \in DOMAIN H |-> H[x]] /\ DOMAIN H = DOMAIN F
      /\ \A g \in DOMAIN F : H[g] = IF g = f THEN [F[f] EXCEPT !.pos = pos] ELSE F[g]
  BY <1>6
<1>8. \A g \in DOMAIN G : G[g] = H[g]
  BY <1>0, <1>1, <1>2, <1>3, <1>4, <1>7
<1>9. G = H
  BY <1>1, <1>4, <1>5, <1>7, <1>8, Agree
<1> QED
  BY <1>4, <1>6, <1>9

\* What is proved of each action.
Refined ==
  /\ Plain'
  /\ \E r \in Paths : PathsInv(r)'
  /\ [Store!Next]_(Store!vars)

\* One file object moves along its path.
LEMMA HandleStep ==
  ASSUME Known, NEW p \in Paths, PathsInv(p), NEW f \in Fds, Opens(f), NEW k,
         fat' = fat, dir' = dir, fd_stack' = [fd_stack EXCEPT ![f] = k],
         k.fs = 1, k.ent = fd_stack[f].ent, k.org = fd_stack[f].org,
         "WRITE" \in k.flag <=> "WRITE" \in fd_stack[f].flag,
         Span(k) = Span(fd_stack[f]), PlacedAt(p[k.ent], k, SeeksNow(f)'),
         \A g \in Fds \ {f} : ~ SeeksNow(g) /\ ~ SeeksNow(g)',
         ~ Freeing, ~ Freeing'
  PROVE  PathsInv(p)'
<1>1. fd_stack'[f] = k /\ \A g \in Fds \ {f} : fd_stack'[g] = fd_stack[g]
  BY AllKnown DEF TypeOK
<1>2. Chained(p)'
  BY DEF PathsInv, Chained, Distinct, Linked
<1>3. \A g \in Fds : /\ Opens(g)' <=> Opens(g)
                     /\ Writes(g)' <=> Writes(g)
                     /\ fd_stack'[g].ent = fd_stack[g].ent
  BY <1>1 DEF Opens, Writes
<1>4. EntriesOf(p)'
  BY <1>3 DEF PathsInv, EntriesOf
<1>5. HandlesOf(p)'
  <2> SUFFICES ASSUME NEW g \in Fds, Opens(g)
               PROVE  /\ OfFile(p[fd_stack'[g].ent], fd_stack'[g])
                      /\ PlacedAt(p[fd_stack'[g].ent], fd_stack'[g], SeeksNow(g)')
    BY <1>3 DEF HandlesOf
  <2>1. /\ OfFile(p[fd_stack[g].ent], fd_stack[g])
        /\ PlacedAt(p[fd_stack[g].ent], fd_stack[g], SeeksNow(g))
    BY DEF PathsInv, HandlesOf
  <2>2. CASE g = f
    BY <1>1, <2>1, <2>2 DEF OfFile
  <2>3. CASE g # f
    <3>1. SeeksNow(g) <=> SeeksNow(g)'
      BY <2>3
    <3> QED
      BY <1>1, <2>1, <2>3, <3>1 DEF PlacedAt
  <2> QED
    BY <2>2, <2>3
<1>6. RemovalOf(p)'
  BY DEF PathsInv, RemovalOf
<1> QED
  BY <1>2, <1>4, <1>5, <1>6 DEF PathsInv

\* Files and handles stay while a request is received, goes on or ends.
LEMMA PathsStay ==
  ASSUME Known, NEW p \in Paths, PathsInv(p), fat' = fat, dir' = dir, fd_stack' = fd_stack,
         \A g \in Fds : ~ SeeksNow(g) /\ ~ SeeksNow(g)', p[0] = <<>>, ~ Freeing'
  PROVE  PathsInv(p)'
<1>1. Chained(p)'
  BY DEF PathsInv, Chained, Distinct, Linked
<1>2. EntriesOf(p)'
  BY DEF PathsInv, EntriesOf, Writes, Opens
<1>3. HandlesOf(p)'
  BY DEF PathsInv, HandlesOf, Opens, PlacedAt
<1>4. RemovalOf(p)'
  BY DEF RemovalOf
<1> QED
  BY <1>1, <1>2, <1>3, <1>4 DEF PathsInv

\* A step the file store does not see, but for what was read.
LEMMA Unseen ==
  ASSUME Known, Sound', Plain', NEW p \in Paths, PathsInv(p), PathsInv(p)',
         \A s \in Slots : dir'[s].name = dir[s].name, data' = data,
         \A f \in Fds : /\ Opens(f)' <=> Opens(f)
                        /\ Opens(f) => /\ fd_stack'[f].ent = fd_stack[f].ent
                                       /\ Position(f)' = Position(f),
         absGot' = absGot \/ absGot' = <<>>
  PROVE  Refined
<1>1. absFiles' = absFiles
  BY FilesStay DEF Known
<1>2. \A f \in Fds : Opens(f) => fd_stack[f].ent \in Slots
  BY AllKnown DEF HandlesFit, Opens
<1>3. absHandle' = absHandle
  BY <1>2, SameHandles
<1>4. [Store!Next]_(Store!vars)
  BY <1>1, <1>3 DEF Store!Next, Store!Change, Store!vars
<1> QED
  BY <1>4 DEF Refined

\* A request that is refused, or ends without having moved anything.
LEMMA StillStep ==
  ASSUME Known, Sound', NEW p \in Paths, PathsInv(p), p[0] = <<>>,
         UNCHANGED <<fat, data, dir, fd_stack, faults>>,
         req.op \notin {"write", "seek"}, req' = Idle,
         absGot' = absGot \/ absGot' = <<>>
  PROVE  Refined
<1>1. req'.op = "idle" /\ ~ Freeing' /\ \A g \in Fds : ~ SeeksNow(g) /\ ~ SeeksNow(g)'
  BY DEF Idle, Freeing, SeeksNow
<1>2. PathsInv(p)'
  BY <1>1, PathsStay
<1>3. Plain'
  <2>1. Calm'
    BY <1>1, AllKnown DEF Calm
  <2>2. NamesOnce'
    BY <1>1, AllKnown DEF NamesOnce, UsedSlots
  <2>3. Saved'
    BY <1>1, AllKnown DEF Saved, Opens
  <2> QED
    BY <2>1, <2>2, <2>3 DEF Plain
<1>4. \A f \in Fds : Position(f)' = Position(f) /\ (Opens(f)' <=> Opens(f))
  BY <1>1 DEF Position, Opens
<1> QED
  BY <1>2, <1>3, <1>4, Unseen

\* An entry is added for an empty file.
LEMMA FilesGrow ==
  ASSUME NEW p \in Paths, FilesAre(p), FilesAre(p)', data' = data,
         NEW s \in Slots, dir[s].name = NoName, p[s] = <<>>,
         NEW n, n # NoName, ~ Exists(n), dir'[s].name = n,
         \A t \in Slots \ {s} : dir'[t].name = dir[t].name
  PROVE  n \notin DOMAIN absFiles /\ absFiles' = Store!With(absFiles, n, <<>>)
<1>1. s \notin UsedSlots /\ s \in UsedSlots' /\ UsedSlots' = UsedSlots \cup {s}
  BY DEF UsedSlots
<1>2. \A t \in UsedSlots : t # s /\ dir'[t].name = dir[t].name /\ dir[t].name # n
  BY <1>1 DEF UsedSlots, Exists, EntryOf
<1>3. DOMAIN absFiles = {dir[t].name : t \in UsedSlots}
  BY DEF FilesAre
<1>4. DOMAIN absFiles' = {dir'[t].name : t \in UsedSlots'}
  BY DEF FilesAre
<1>5. n \notin DOMAIN absFiles /\ DOMAIN absFiles' = DOMAIN absFiles \cup {n}
  BY <1>1, <1>2, <1>3, <1>4
<1>6. absFiles'[n] = <<>>
  <2>1. absFiles'[n] = Values(p[s])'
    BY <1>1 DEF FilesAre
  <2>2. Values(p[s])' = <<>>
    BY DEF Values
  <2> QED
    BY <2>1, <2>2
<1>7. ASSUME NEW m \in DOMAIN absFiles PROVE absFiles'[m] = absFiles[m]
  <2>1. PICK t \in UsedSlots : m = dir[t].name
    BY <1>3
  <2>2. absFiles[m] = Values(p[t])
    BY <2>1 DEF FilesAre
  <2>3. absFiles'[m] = Values(p[t])'
    BY <1>1, <1>2, <2>1 DEF FilesAre
  <2>4. Values(p[t])' = Values(p[t])
    BY DEF Values
  <2> QED
    BY <2>2, <2>3, <2>4
<1>8. PICK F, G, H : F = absFiles' /\ G = absFiles /\ H = Store!With(G, n, <<>>)
  OBVIOUS
<1>9. /\ H = [x \in DOMAIN H |-> H[x]] /\ DOMAIN H = DOMAIN G \cup {n}
      /\ \A x \in DOMAIN H : H[x] = IF x = n THEN <<>> ELSE G[x]
  BY <1>8 DEF Store!With
<1>10. F = [x \in DOMAIN F |-> F[x]]
  BY <1>8 DEF FilesAre
<1>11. DOMAIN F = DOMAIN H /\ \A x \in DOMAIN F : F[x] = H[x]
  BY <1>5, <1>6, <1>7, <1>8, <1>9
<1>12. F = H
  BY <1>9, <1>10, <1>11, Agree
<1> QED
  BY <1>5, <1>8, <1>12

\* A handle is opened.
LEMMA HandlesGrow ==
  ASSUME NEW f \in Fds, ~ Opens(f), Opens(f)', NEW n, dir'[fd_stack'[f].ent].name = n,
         Position(f)' = 0,
         \A g \in Fds \ {f} :
            /\ Opens(g)' <=> Opens(g)
            /\ Opens(g) => /\ dir'[fd_stack'[g].ent].name = dir[fd_stack[g].ent].name
                           /\ Position(g)' = Position(g)
  PROVE  /\ f \notin DOMAIN absHandle
         /\ absHandle' = Store!With(absHandle, f, [name |-> n, pos |-> 0])
<1>1. f \notin DOMAIN absHandle /\ DOMAIN absHandle' = DOMAIN absHandle \cup {f}
  BY HandlesRight, HandlesNext DEF HandlesAre
<1>2. absHandle'[f] = [name |-> n, pos |-> 0]
  BY HandlesNext DEF HandlesAre
<1>3. ASSUME NEW g \in DOMAIN absHandle PROVE absHandle'[g] = absHandle[g]
  <2>1. g \in Fds \ {f} /\ Opens(g) /\ Opens(g)'
    BY HandlesRight DEF HandlesAre
  <2> QED
    BY <2>1, HandlesRight, HandlesNext DEF HandlesAre
<1>4. PICK F, G, H : /\ F = absHandle' /\ G = absHandle
                     /\ H = Store!With(G, f, [name |-> n, pos |-> 0])
  OBVIOUS
<1>5. /\ H = [x \in DOMAIN H |-> H[x]] /\ DOMAIN H = DOMAIN G \cup {f}
      /\ \A x \in DOMAIN H : H[x] = IF x = f THEN [name |-> n, pos |-> 0] ELSE G[x]
  BY <1>4 DEF Store!With
<1>6. F = [x \in DOMAIN F |-> F[x]]
  BY <1>4, HandlesNext DEF HandlesAre
<1>7. DOMAIN F = DOMAIN H /\ \A x \in DOMAIN F : F[x] = H[x]
  BY <1>1, <1>2, <1>3, <1>4, <1>5
<1>8. F = H
  BY <1>5, <1>6, <1>7, Agree
<1> QED
  BY <1>1, <1>4, <1>8

\* A handle is closed.
LEMMA HandlesShrink ==
  ASSUME NEW f \in Fds, Opens(f), ~ Opens(f)',
         \A g \in Fds \ {f} :
            /\ Opens(g)' <=> Opens(g)
            /\ Opens(g) => /\ dir'[fd_stack'[g].ent].name = dir[fd_stack[g].ent].name
                           /\ Position(g)' = Position(g)
  PROVE  f \in DOMAIN absHandle /\ absHandle' = Store!Without(absHandle, f)
<1>1. f \in DOMAIN absHandle /\ DOMAIN absHandle' = DOMAIN absHandle \ {f}
  BY HandlesRight, HandlesNext DEF HandlesAre
<1>2. ASSUME NEW g \in DOMAIN absHandle' PROVE absHandle'[g] = absHandle[g]
  <2>1. g \in Fds \ {f} /\ Opens(g) /\ Opens(g)'
    BY HandlesNext DEF HandlesAre
  <2> QED
    BY <2>1, HandlesRight, HandlesNext DEF HandlesAre
<1>3. PICK F, G, H : F = absHandle' /\ G = absHandle /\ H = Store!Without(G, f)
  OBVIOUS
<1>4. /\ H = [x \in DOMAIN H |-> H[x]] /\ DOMAIN H = DOMAIN G \ {f}
      /\ \A x \in DOMAIN H : H[x] = G[x]
  BY <1>3 DEF Store!Without, Store!Restrict
<1>5. F = [x \in DOMAIN F |-> F[x]]
  BY <1>3, HandlesNext DEF HandlesAre
<1>6. DOMAIN F = DOMAIN H /\ \A x \in DOMAIN F : F[x] = H[x]
  BY <1>1, <1>2, <1>3, <1>4
<1>7. F = H
  BY <1>4, <1>5, <1>6, Agree
<1> QED
  BY <1>1, <1>3, <1>7

\* An entry is removed.
LEMMA FilesShrink ==
  ASSUME Known, NEW p \in Paths, FilesAre(p), NEW r \in Paths, FilesAre(r)', data' = data,
         NEW s \in UsedSlots, dir'[s].name = NoName,
         \A t \in Slots \ {s} : dir'[t].name = dir[t].name /\ r[t] = p[t]
  PROVE  /\ dir[s].name \in DOMAIN absFiles
         /\ absFiles' = Store!Without(absFiles, dir[s].name)
<1> DEFINE n == dir[s].name
<1>1. UsedSlots' = UsedSlots \ {s} /\ s \in Slots
  BY DEF UsedSlots
<1>2. \A t \in UsedSlots \ {s} : dir'[t].name = dir[t].name /\ dir[t].name # n
  BY AllKnown DEF UsedSlots, NamesOnce
<1>3. DOMAIN absFiles = {dir[t].name : t \in UsedSlots}
  BY DEF FilesAre
<1>4. DOMAIN absFiles' = {dir'[t].name : t \in UsedSlots'}
  BY DEF FilesAre
<1>5. n \in DOMAIN absFiles /\ DOMAIN absFiles' = DOMAIN absFiles \ {n}
  BY <1>1, <1>2, <1>3, <1>4
<1>6. ASSUME NEW m \in DOMAIN absFiles' PROVE absFiles'[m] = absFiles[m]
  <2>1. PICK t \in UsedSlots \ {s} : m = dir'[t].name
    BY <1>1, <1>4
  <2>2. t \in Slots \ {s} /\ m = dir[t].name
    BY <1>2, <2>1 DEF UsedSlots
  <2>3. absFiles[m] = Values(p[t])
    BY <2>1, <2>2 DEF FilesAre
  <2>4. absFiles'[m] = Values(r[t])'
    BY <1>1, <2>1 DEF FilesAre
  <2>5. Values(r[t])' = Values(p[t])
    BY <2>2 DEF Values
  <2> QED
    BY <2>3, <2>4, <2>5
<1>7. PICK F, G, H : F = absFiles' /\ G = absFiles /\ H = Store!Without(G, n)
  OBVIOUS
<1>8. /\ H = [x \in DOMAIN H |-> H[x]] /\ DOMAIN H = DOMAIN G \ {n}
      /\ \A x \in DOMAIN H : H[x] = G[x]
  BY <1>7 DEF Store!Without, Store!Restrict
<1>9. F = [x \in DOMAIN F |-> F[x]]
  BY <1>7 DEF FilesAre
<1>10. DOMAIN F = DOMAIN H /\ \A x \in DOMAIN F : F[x] = H[x]
  BY <1>5, <1>6, <1>7, <1>8
<1>11. F = H
  BY <1>8, <1>9, <1>10, Agree
<1> QED
  BY <1>5, <1>7, <1>11

\* The file of entry s takes the name m and the entry t; r are the paths then.
Renaming(p, r, s, t, m) ==
  /\ p \in Paths /\ FilesAre(p) /\ r \in Paths /\ data' = data
  /\ s \in UsedSlots /\ dir'[s].name = NoName
  /\ t \in Slots /\ dir[t].name = NoName /\ m # NoName /\ ~ Exists(m)
  /\ dir'[t].name = m /\ r[t] = p[s]
  /\ \A u \in Slots \ {s, t} : dir'[u].name = dir[u].name /\ r[u] = p[u]

\* That is what Rename of FileStore does.
LEMMA FilesRenamed ==
  ASSUME Known, NEW p, NEW r, NEW s, NEW t, NEW m, Renaming(p, r, s, t, m), FilesAre(r)'
  PROVE  /\ dir[s].name \in DOMAIN absFiles /\ m \notin DOMAIN absFiles
         /\ absFiles' = Store!With(Store!Without(absFiles, dir[s].name), m,
                                   absFiles[dir[s].name])
<1> USE DEF Renaming
<1> DEFINE n == dir[s].name
<1>1. /\ UsedSlots' = (UsedSlots \ {s}) \cup {t} /\ s \in Slots /\ t \notin UsedSlots /\ s # t
      /\ t \in UsedSlots'
  BY DEF UsedSlots
<1>2. \A u \in UsedSlots \ {s} : /\ u # t /\ dir'[u].name = dir[u].name /\ dir[u].name # n
                                 /\ dir[u].name # m
  BY <1>1, AllKnown DEF UsedSlots, NamesOnce, Exists, EntryOf
<1>3. DOMAIN absFiles = {dir[u].name : u \in UsedSlots}
  BY DEF FilesAre
<1>4. DOMAIN absFiles' = {dir'[u].name : u \in UsedSlots'}
  BY DEF FilesAre
<1>5. n # m
  BY <1>1 DEF Exists, EntryOf
<1>6. /\ n \in DOMAIN absFiles /\ m \notin DOMAIN absFiles
      /\ DOMAIN absFiles' = (DOMAIN absFiles \ {n}) \cup {m}
  BY <1>1, <1>2, <1>3, <1>4, <1>5
<1>7. absFiles'[m] = absFiles[n]
  <2>1. absFiles'[m] = Values(r[t])'
    BY <1>1 DEF FilesAre
  <2>2. absFiles[n] = Values(p[s])
    BY DEF FilesAre
  <2>3. Values(r[t])' = Values(p[s])
    BY DEF Values
  <2> QED
    BY <2>1, <2>2, <2>3
<1>8. ASSUME NEW x \in DOMAIN absFiles \ {n} PROVE absFiles'[x] = absFiles[x]
  <2>1. PICK u \in UsedSlots \ {s} : x = dir[u].name
    BY <1>3
  <2>2. u \in Slots \ {s, t} /\ x = dir'[u].name /\ u \in UsedSlots'
    BY <1>1, <1>2, <2>1 DEF UsedSlots
  <2>3. absFiles[x] = Values(p[u])
    BY <2>1 DEF FilesAre
  <2>4. absFiles'[x] = Values(r[u])'
    BY <2>2 DEF FilesAre
  <2>5. Values(r[u])' = Values(p[u])
    BY <2>2 DEF Values
  <2> QED
    BY <2>3, <2>4, <2>5
<1>9. PICK F, G, K, H : /\ F = absFiles' /\ G = absFiles /\ K = Store!Without(G, n)
                        /\ H = Store!With(K, m, G[n])
  OBVIOUS
<1>10. DOMAIN K = DOMAIN G \ {n} /\ \A x \in DOMAIN K : K[x] = G[x]
  BY <1>9 DEF Store!Without, Store!Restrict
<1>11. /\ H = [x \in DOMAIN H |-> H[x]] /\ DOMAIN H = DOMAIN K \cup {m}
       /\ \A x \in DOMAIN H : H[x] = IF x = m THEN G[n] ELSE K[x]
  BY <1>9 DEF Store!With
<1>12. F = [x \in DOMAIN F |-> F[x]]
  BY <1>9 DEF FilesAre
<1>13. DOMAIN F = DOMAIN H /\ \A x \in DOMAIN F : F[x] = H[x]
  BY <1>6, <1>7, <1>8, <1>9, <1>10, <1>11
<1>14. F = H
  BY <1>11, <1>12, <1>13, Agree
<1> QED
  BY <1>6, <1>9, <1>14
-----------------------------------------------------------------------------
(***************************************************************************)
(* Each action.                                                            *)
(***************************************************************************)

\* The first cluster of a path is one, and 0 stands for none.
LEMMA FirstRight ==
  ASSUME NEW q \in Seq(Clusters)
  PROVE  /\ First(q) = 0 <=> q = <<>>
         /\ q # <<>> => First(q) = q[1] /\ q[1] \in Clusters /\ Len(q) > 0
<1>1. q # <<>> => Len(q) > 0 /\ q[1] \in Clusters
  <2> SUFFICES ASSUME q # <<>> PROVE Len(q) > 0 /\ q[1] \in Clusters
    OBVIOUS
  <2>1. Len(q) \in Nat /\ Len(q) # 0
    OBVIOUS
  <2> QED
    BY <2>1
<1>2. 0 \notin Clusters
  BY DEF Clusters
<1>3. q # <<>> => First(q) = q[1]
  BY DEF First
<1>4. q = <<>> => First(q) = 0
  BY DEF First
<1> QED
  BY <1>1, <1>2, <1>3, <1>4

\* An entry that is not in use has no clusters and no handle.
LEMMA Unused ==
  ASSUME Known, NEW p \in Paths, PathsInv(p), NEW s \in Slots, dir[s].name = NoName
  PROVE  p[s] = <<>> /\ \A g \in Fds : Opens(g) => fd_stack[g].ent # s
<1>1. \A g \in Fds : Opens(g) => fd_stack[g].ent # s
  BY AllKnown DEF HandlesFit, Opens
<1>2. OfEntry(p[s], dir[s])
  BY <1>1 DEF PathsInv, EntriesOf, Writes
<1>3. dir[s].clust = 0
  BY AllKnown DEF FreeEntries
<1>4. p[s] \in Seq(Clusters)
  BY DEF Paths, Slots
<1> QED
  BY <1>1, <1>2, <1>3, <1>4, FirstRight DEF OfEntry

\* A slot of fd_stack is filled or emptied.
LEMMA OpenStep ==
  ASSUME Known, NEW p \in Paths, PathsInv(p), req.op = "idle", req' = Idle, fat' = fat,
         NEW f \in Fds, NEW k, fd_stack' = [fd_stack EXCEPT ![f] = k],
         k.fs = 1 => OfFile(p[k.ent], k) /\ k.fptr = 0,
         \A t \in Slots :
           (\A g \in Fds \ {f} : Writes(g) => fd_stack[g].ent # t) => OfEntry(p[t], dir'[t])
  PROVE  PathsInv(p)'
<1>1. fd_stack'[f] = k /\ \A g \in Fds \ {f} : fd_stack'[g] = fd_stack[g]
  BY AllKnown DEF TypeOK
<1>2. Chained(p)'
  BY DEF PathsInv, Chained, Distinct, Linked
<1>3. req'.op = "idle" /\ ~ Freeing /\ ~ Freeing' /\ \A g : ~ SeeksNow(g) /\ ~ SeeksNow(g)'
  BY DEF Idle, Freeing, SeeksNow
<1>4. \A g \in Fds \ {f} : Writes(g) => Writes(g)' /\ fd_stack'[g].ent = fd_stack[g].ent
  BY <1>1 DEF Writes, Opens
<1>5. EntriesOf(p)'
  BY <1>4 DEF EntriesOf
<1>6. HandlesOf(p)'
  BY <1>1, <1>3 DEF PathsInv, HandlesOf, Opens, PlacedAt
<1>7. RemovalOf(p)'
  BY <1>3 DEF PathsInv, RemovalOf
<1> QED
  BY <1>2, <1>5, <1>6, <1>7 DEF PathsInv

\* f_open of a file there is.
LEMMA RefFound ==
  ASSUME Known, Sound', NEW p \in Paths, PathsInv(p), req.op = "idle",
         NEW n \in Names, NEW mode \in Modes, FS_Open_Found(n, mode)
  PROVE  Refined
<1>1. PICK f \in Fds, s \in EntryOf(n) :
        /\ FreeHandle(f)
        /\ MayShare(\E g \in Users(s) : "WRITE" \in mode \cup fd_stack[g].flag)
        /\ Opened(f, s, mode, dir[s])
        /\ Answer("open", f, <<>>)
        /\ UNCHANGED <<fat, data, dir>>
  BY DEF FS_Open_Found
<1>2. s \in Slots /\ dir[s].name = n /\ n # NoName /\ s \in UsedSlots
  BY FFSAssumption DEF EntryOf, UsedSlots
<1>3. /\ \A g \in Users(s) : "WRITE" \notin mode \cup fd_stack[g].flag
      /\ faults' = {}
  <2>1. PICK c \in BOOLEAN : c = \E g \in Users(s) : "WRITE" \in mode \cup fd_stack[g].flag
    OBVIOUS
  <2> QED
    BY <1>1, <2>1, AllKnown, NoFault
<1>4. PICK k : k = [fs |-> 1, ent |-> s, flag |-> mode, fptr |-> 0, fsize |-> dir[s].size,
                    org |-> dir[s].clust, curr |-> 0]
  OBVIOUS
<1>5. fd_stack' = [fd_stack EXCEPT ![f] = k]
  BY <1>1, <1>4 DEF Opened
<1>6. /\ k.fs = 1 /\ k.ent = s /\ k.flag = mode /\ k.fptr = 0 /\ k.fsize = dir[s].size
      /\ k.org = dir[s].clust
  BY <1>4
<1>7. fd_stack'[f] = k /\ \A g \in Fds \ {f} : fd_stack'[g] = fd_stack[g]
  BY <1>5, AllKnown DEF TypeOK
<1>8. req' = Idle /\ req'.op = "idle" /\ reply'.buf = <<>> /\ ~ Opens(f) /\ Opens(f)'
      /\ UNCHANGED <<fat, data, dir>>
  BY <1>1, <1>6, <1>7 DEF Answer, Idle, FreeHandle, Opens
<1>9. OfFile(p[s], k)
  <2>1. \A g \in Fds : Writes(g) => fd_stack[g].ent # s
    BY <1>3 DEF Writes, Opens, Users
  <2>2. OfEntry(p[s], dir[s])
    BY <1>2, <2>1 DEF PathsInv, EntriesOf
  <2>3. dir[s].size \in Nat
    BY <1>2, AllKnown DEF TypeOK, Entry
  <2> QED
    BY <1>6, <2>2, <2>3 DEF OfEntry, OfFile, Span, Larger
<1>10. PathsInv(p)'
  <2>1. \A t \in Slots :
           (\A g \in Fds \ {f} : Writes(g) => fd_stack[g].ent # t) => OfEntry(p[t], dir'[t])
    BY <1>8 DEF PathsInv, EntriesOf, Writes
  <2> QED
    BY <1>5, <1>6, <1>8, <1>9, <2>1, OpenStep
<1>11. Plain'
  <2>1. "ERROR" \notin mode
    BY FFSAssumption
  <2>2. Calm'
    BY <1>3, <1>6, <1>7, <1>8, <2>1, AllKnown DEF Calm
  <2>3. NamesOnce'
    BY <1>8, AllKnown DEF NamesOnce, UsedSlots
  <2>4. Saved'
    BY <1>6, <1>7, <1>8, AllKnown DEF Saved, Opens
  <2> QED
    BY <2>2, <2>3, <2>4 DEF Plain
<1>12. absFiles' = absFiles /\ n \in DOMAIN absFiles
  <2>1. FilesAre(p)
    BY FilesRight DEF Known
  <2>2. n \in DOMAIN absFiles
    BY <1>2, <2>1 DEF FilesAre
  <2> QED
    BY <1>8, <1>10, <1>11, <2>2, FilesStay DEF Known
<1>13. f \notin DOMAIN absHandle /\ absHandle' = Store!With(absHandle, f, [name |-> n, pos |-> 0])
  <2>1. dir'[fd_stack'[f].ent].name = n
    BY <1>2, <1>6, <1>7, <1>8
  <2>2. Position(f)' = 0
    BY <1>6, <1>7, <1>8 DEF Position
  <2>3. \A g \in Fds \ {f} :
            /\ Opens(g)' <=> Opens(g)
            /\ Opens(g) => /\ dir'[fd_stack'[g].ent].name = dir[fd_stack[g].ent].name
                           /\ Position(g)' = Position(g)
    BY <1>7, <1>8 DEF Opens, Position
  <2> QED
    BY <1>8, <2>1, <2>2, <2>3, HandlesGrow
<1>14. absGot' = <<>>
  BY <1>8 DEF absGot
<1>15. [Store!Next]_(Store!vars)
  <2>1. Store!Open(f, n)
    BY <1>12, <1>13 DEF Store!Open
  <2> QED
    BY <1>14, <2>1 DEF Store!Next, Store!Change
<1> QED
  BY <1>10, <1>11, <1>15 DEF Refined

\* A new entry.
LEMMA EntryGrows ==
  ASSUME Known, NEW p \in Paths, PathsInv(p), NEW s \in Slots, FreeEntry(s), NEW n \in Names,
         dir' = [dir EXCEPT ![s] = [NoEntry EXCEPT !.name = n]]
  PROVE  /\ n # NoName /\ dir[s].name = NoName /\ p[s] = <<>>
         /\ dir'[s].name = n /\ dir'[s].clust = 0 /\ dir'[s].size = 0
         /\ \A t \in Slots \ {s} : dir'[t] = dir[t]
         /\ \A g \in Fds : Opens(g) => fd_stack[g].ent \in Slots \ {s}
         /\ OfEntry(p[s], dir'[s])
         /\ \A t \in Slots : dir'[t].name # NoName <=> (t = s \/ dir[t].name # NoName)
<1>1. n # NoName /\ dir[s].name = NoName
  BY FFSAssumption DEF FreeEntry
<1>2. p[s] = <<>> /\ \A g \in Fds : Opens(g) => fd_stack[g].ent # s
  BY <1>1, Unused
<1>3. /\ dir'[s].name = n /\ dir'[s].clust = 0 /\ dir'[s].size = 0
      /\ \A t \in Slots \ {s} : dir'[t] = dir[t]
  BY AllKnown DEF TypeOK, NoEntry
<1>4. \A g \in Fds : Opens(g) => fd_stack[g].ent \in Slots
  BY AllKnown DEF HandlesFit, Opens
<1>5. OfEntry(p[s], dir'[s])
  BY <1>2, <1>3 DEF OfEntry, First
<1> QED
  BY <1>1, <1>2, <1>3, <1>4, <1>5

\* f_open of a file there is not, which is made for one game.
LEMMA RefOpenNew ==
  ASSUME Known, Sound', NEW p \in Paths, PathsInv(p), req.op = "idle",
         NEW n \in Names, NEW mode \in Modes, ~ Exists(n), NEW f \in Fds, FreeHandle(f),
         NEW s \in Slots, FreeEntry(s),
         dir' = [dir EXCEPT ![s] = [NoEntry EXCEPT !.name = n]],
         Opened(f, s, mode \cup {"WRITTEN"}, NoEntry), Answer("open", f, <<>>),
         UNCHANGED <<fat, data, faults>>
  PROVE  Refined
<1>1. /\ n # NoName /\ dir[s].name = NoName /\ p[s] = <<>>
      /\ dir'[s].name = n /\ dir'[s].clust = 0 /\ dir'[s].size = 0
      /\ \A t \in Slots \ {s} : dir'[t] = dir[t]
      /\ \A g \in Fds : Opens(g) => fd_stack[g].ent \in Slots \ {s}
      /\ OfEntry(p[s], dir'[s])
      /\ \A t \in Slots : dir'[t].name # NoName <=> (t = s \/ dir[t].name # NoName)
  BY EntryGrows
<1>2. PICK k : k = [fs |-> 1, ent |-> s, flag |-> mode \cup {"WRITTEN"}, fptr |-> 0, fsize |-> 0,
                    org |-> 0, curr |-> 0]
  OBVIOUS
<1>3. fd_stack' = [fd_stack EXCEPT ![f] = k]
  BY <1>2 DEF Opened, NoEntry
<1>4. /\ k.fs = 1 /\ k.ent = s /\ k.flag = mode \cup {"WRITTEN"} /\ k.fptr = 0 /\ k.fsize = 0
      /\ k.org = 0
  BY <1>2
<1>5. fd_stack'[f] = k /\ \A g \in Fds \ {f} : fd_stack'[g] = fd_stack[g]
  BY <1>3, AllKnown DEF TypeOK
<1>6. req' = Idle /\ req'.op = "idle" /\ reply'.buf = <<>> /\ ~ Opens(f) /\ Opens(f)'
  BY <1>4, <1>5 DEF Answer, Idle, FreeHandle, Opens
<1>7. OfFile(p[s], k)
  BY <1>1, <1>4 DEF OfFile, Span, Larger, First
<1>8. PathsInv(p)'
  <2>1. \A t \in Slots :
           (\A g \in Fds \ {f} : Writes(g) => fd_stack[g].ent # t) => OfEntry(p[t], dir'[t])
    BY <1>1, <1>6 DEF PathsInv, EntriesOf, Writes
  <2> QED
    BY <1>3, <1>4, <1>6, <1>7, <2>1, OpenStep
<1>9. Plain'
  <2>1. "ERROR" \notin mode
    BY FFSAssumption
  <2>2. Calm'
    BY <1>4, <1>5, <1>6, <2>1, AllKnown DEF Calm
  <2>3. NamesOnce'
    BY <1>1, <1>6, AllKnown DEF NamesOnce, UsedSlots, Exists, EntryOf
  <2>4. Saved'
    BY <1>1, <1>4, <1>5, <1>6, AllKnown DEF Saved, Opens
  <2> QED
    BY <2>2, <2>3, <2>4 DEF Plain
<1>10. n \notin DOMAIN absFiles /\ absFiles' = Store!With(absFiles, n, <<>>)
  <2>1. FilesAre(p) /\ FilesAre(p)'
    BY <1>8, <1>9, FilesRight, FilesNext DEF Known
  <2> QED
    BY <1>1, <2>1, FilesGrow
<1>11. f \notin DOMAIN absHandle /\ absHandle' = Store!With(absHandle, f, [name |-> n, pos |-> 0])
  <2>1. dir'[fd_stack'[f].ent].name = n
    BY <1>1, <1>4, <1>5
  <2>2. Position(f)' = 0
    BY <1>4, <1>5, <1>6 DEF Position
  <2>3. \A g \in Fds \ {f} :
            /\ Opens(g)' <=> Opens(g)
            /\ Opens(g) => /\ dir'[fd_stack'[g].ent].name = dir[fd_stack[g].ent].name
                           /\ Position(g)' = Position(g)
    BY <1>1, <1>5, <1>6 DEF Opens, Position
  <2> QED
    BY <1>6, <2>1, <2>2, <2>3, HandlesGrow
<1>12. absGot' = <<>>
  BY <1>6 DEF absGot
<1>13. [Store!Next]_(Store!vars)
  <2>1. Store!OpenNew(f, n)
    BY <1>10, <1>11 DEF Store!OpenNew
  <2> QED
    BY <1>12, <2>1 DEF Store!Next, Store!Change
<1> QED
  BY <1>8, <1>9, <1>13 DEF Refined

\* FS_CreateFile of a file there is not.
LEMMA RefCreate ==
  ASSUME Known, Sound', NEW p \in Paths, PathsInv(p), req.op = "idle",
         NEW n \in Names, ~ Exists(n), NEW s \in Slots, FreeEntry(s),
         dir' = [dir EXCEPT ![s] = [NoEntry EXCEPT !.name = n]],
         Answer("create", FS_SUCCESS, <<>>), UNCHANGED <<fat, data, fd_stack, faults>>
  PROVE  Refined
<1>1. /\ n # NoName /\ dir[s].name = NoName /\ p[s] = <<>>
      /\ dir'[s].name = n /\ dir'[s].clust = 0 /\ dir'[s].size = 0
      /\ \A t \in Slots \ {s} : dir'[t] = dir[t]
      /\ \A g \in Fds : Opens(g) => fd_stack[g].ent \in Slots \ {s}
      /\ OfEntry(p[s], dir'[s])
      /\ \A t \in Slots : dir'[t].name # NoName <=> (t = s \/ dir[t].name # NoName)
  BY EntryGrows
<1>2. /\ req' = Idle /\ req'.op = "idle" /\ reply'.buf = <<>> /\ ~ Freeing /\ ~ Freeing'
      /\ \A g : ~ SeeksNow(g) /\ ~ SeeksNow(g)'
  BY DEF Answer, Idle, Freeing, SeeksNow
<1>3. PathsInv(p)'
  <2>1. Chained(p)'
    BY DEF PathsInv, Chained, Distinct, Linked
  <2>2. EntriesOf(p)'
    BY <1>1 DEF PathsInv, EntriesOf, Writes, Opens
  <2>3. HandlesOf(p)'
    BY <1>2 DEF PathsInv, HandlesOf, Opens, PlacedAt
  <2>4. RemovalOf(p)'
    BY <1>2 DEF PathsInv, RemovalOf
  <2> QED
    BY <2>1, <2>2, <2>3, <2>4 DEF PathsInv
<1>4. Plain'
  <2>1. Calm'
    BY <1>2, AllKnown DEF Calm
  <2>2. NamesOnce'
    BY <1>1, <1>2, AllKnown DEF NamesOnce, UsedSlots, Exists, EntryOf
  <2>3. Saved'
    BY <1>1, <1>2, AllKnown DEF Saved, Opens
  <2> QED
    BY <2>1, <2>2, <2>3 DEF Plain
<1>5. n \notin DOMAIN absFiles /\ absFiles' = Store!With(absFiles, n, <<>>)
  <2>1. FilesAre(p) /\ FilesAre(p)'
    BY <1>3, <1>4, FilesRight, FilesNext DEF Known
  <2> QED
    BY <1>1, <2>1, FilesGrow
<1>6. absHandle' = absHandle
  <2>1. \A g \in Fds : /\ Opens(g)' <=> Opens(g)
                       /\ Opens(g) => /\ dir'[fd_stack'[g].ent].name = dir[fd_stack[g].ent].name
                                      /\ Position(g)' = Position(g)
    BY <1>1, <1>2 DEF Opens, Position
  <2> QED
    BY <2>1, SameHandles
<1>7. absGot' = <<>>
  BY <1>2 DEF absGot, Answer
<1>8. [Store!Next]_(Store!vars)
  <2>1. Store!Create(n)
    BY <1>5, <1>6 DEF Store!Create
  <2> QED
    BY <1>7, <2>1 DEF Store!Next, Store!Change
<1> QED
  BY <1>3, <1>4, <1>8 DEF Refined

\* FS_Close.
LEMMA RefClose ==
  ASSUME Known, Sound', NEW p \in Paths, PathsInv(p), req.op = "idle",
         NEW f \in Fds, FS_Close(f)
  PROVE  Refined
<1> DEFINE h == fd_stack[f]
<1>1. /\ h.fs = 1 /\ f_sync(h) /\ Answer("close", FS_SUCCESS, <<>>) /\ faults' = {}
      /\ fd_stack' = [fd_stack EXCEPT ![f] = NoFile] /\ fat' = fat /\ data' = data
  BY AllKnown, NoFault DEF FS_Close, Calm
<1>2. PICK e \in Slots : e = h.ent
  BY <1>1, AllKnown DEF HandlesFit
<1>3. dir[e].name # NoName /\ Opens(f) /\ h \in FIL /\ h.fptr \in Nat /\ h.fsize \in Nat
  BY <1>1, <1>2, AllKnown DEF HandlesFit, Opens, TypeOK, FIL
<1>4. OfFile(p[e], h)
  BY <1>2, <1>3 DEF PathsInv, HandlesOf
<1>5. \A g \in Fds : Opens(g) => fd_stack[g].fptr <= fd_stack[g].fsize
  BY AllKnown DEF PositionInv, PositionInFile, Calm
<1>6. /\ dir'[e].clust = h.org /\ dir'[e].size = h.fsize /\ dir'[e].name = dir[e].name
      /\ \A t \in Slots \ {e} : dir'[t] = dir[t]
  <2>1. CASE "WRITTEN" \in h.flag
    <3>1. dir' = [dir EXCEPT ![e] = [@ EXCEPT !.clust = h.org, !.size = h.fsize]]
      BY <1>1, <1>2, <1>3, <2>1 DEF f_sync
    <3>2. dir[e] \in Entry /\ dir \in [Slots -> Entry]
      BY AllKnown DEF TypeOK
    <3> QED
      BY <3>1, <3>2 DEF Entry
  <2>2. CASE "WRITTEN" \notin h.flag
    <3>1. dir' = dir
      BY <1>1, <2>2 DEF f_sync
    <3>2. h.org = dir[e].clust /\ h.fsize = dir[e].size
      BY <1>2, <1>3, <2>2, AllKnown DEF Saved
    <3> QED
      BY <3>1, <3>2
  <2> QED
    BY <2>1, <2>2
<1>7. fd_stack'[f] = NoFile /\ \A g \in Fds \ {f} : fd_stack'[g] = fd_stack[g]
  BY <1>1, AllKnown DEF TypeOK
<1>8. /\ NoFile.fs = 0 /\ NoFile.flag = {} /\ req' = Idle /\ req'.op = "idle"
      /\ reply'.buf = <<>> /\ ~ Opens(f)'
  BY <1>1, <1>7 DEF NoFile, Answer, Idle, Opens
<1>9. PathsInv(p)'
  <2>1. OfEntry(p[e], dir'[e])
    <3>1. Span(h) = h.fsize
      BY <1>3, <1>5 DEF Span, Larger
    <3> HIDE DEF h
    <3> QED
      BY <1>4, <1>6, <3>1 DEF OfEntry, OfFile
  <2>2. \A t \in Slots :
           (\A g \in Fds \ {f} : Writes(g) => fd_stack[g].ent # t) => OfEntry(p[t], dir'[t])
    BY <1>2, <1>6, <2>1 DEF PathsInv, EntriesOf
  <2>3. PICK k : k = NoFile
    OBVIOUS
  <2>4. k.fs # 1 /\ fd_stack' = [fd_stack EXCEPT ![f] = k] /\ fat' = fat /\ req' = Idle
    BY <1>1, <1>8, <2>3
  <2> QED
    BY <2>2, <2>4, OpenStep
<1>10. Plain'
  <2>1. Calm'
    BY <1>1, <1>7, <1>8, AllKnown DEF Calm
  <2>2. NamesOnce'
    BY <1>6, <1>8, AllKnown DEF NamesOnce, UsedSlots
  <2>3. Saved'
    <3> SUFFICES ASSUME NEW g \in Fds, Opens(g)', "WRITTEN" \notin fd_stack'[g].flag
                 PROVE  /\ fd_stack'[g].org = dir'[fd_stack'[g].ent].clust
                        /\ fd_stack'[g].fsize = dir'[fd_stack'[g].ent].size
      BY DEF Saved
    <3>1. g # f /\ fd_stack'[g] = fd_stack[g] /\ Opens(g)
      BY <1>7, <1>8 DEF Opens
    <3>2. fd_stack[g].ent \in Slots
      BY <3>1, AllKnown DEF HandlesFit, Opens
    <3>3. CASE fd_stack[g].ent = e
      <4>1. OfFile(p[e], fd_stack[g])
        BY <3>1, <3>3 DEF PathsInv, HandlesOf
      <4>2. fd_stack[g].fptr \in Nat /\ fd_stack[g].fsize \in Nat
        BY AllKnown DEF TypeOK, FIL
      <4> QED
        BY <1>3, <1>4, <1>5, <1>6, <3>1, <3>3, <4>1, <4>2 DEF OfFile, Span, Larger
    <3>4. CASE fd_stack[g].ent # e
      BY <1>6, <3>1, <3>2, <3>4, AllKnown DEF Saved
    <3> QED
      BY <3>3, <3>4
  <2> QED
    BY <2>1, <2>2, <2>3 DEF Plain
<1>11. absFiles' = absFiles
  BY <1>1, <1>6, <1>9, <1>10, FilesStay DEF Known
<1>12. f \in DOMAIN absHandle /\ absHandle' = Store!Without(absHandle, f)
  <2>1. \A g \in Fds : Opens(g) => fd_stack[g].ent \in Slots
    BY AllKnown DEF HandlesFit, Opens
  <2>2. \A g \in Fds \ {f} :
            /\ Opens(g)' <=> Opens(g)
            /\ Opens(g) => /\ dir'[fd_stack'[g].ent].name = dir[fd_stack[g].ent].name
                           /\ Position(g)' = Position(g)
    BY <1>6, <1>7, <1>8, <2>1 DEF Opens, Position
  <2> QED
    BY <1>3, <1>8, <2>2, HandlesShrink
<1>13. absGot' = <<>>
  BY <1>8 DEF absGot
<1>14. [Store!Next]_(Store!vars)
  <2>1. Store!Close(f)
    BY <1>11, <1>12 DEF Store!Close
  <2> QED
    BY <1>13, <2>1 DEF Store!Next, Store!Change
<1> QED
  BY <1>9, <1>10, <1>14 DEF Refined

\* A request that is answered without having changed anything.
LEMMA RefStill ==
  ASSUME Known, Sound', NEW p \in Paths, PathsInv(p), req.op = "idle",
         NEW op, NEW ret, Answer(op, ret, <<>>),
         UNCHANGED <<fat, data, dir, fd_stack, faults>>
  PROVE  Refined
<1>1. p[0] = <<>>
  BY DEF PathsInv, RemovalOf, Freeing
<1>2. req' = Idle /\ absGot' = <<>>
  BY DEF Answer, absGot, Idle
<1> QED
  BY <1>1, <1>2, StillStep

\* FS_Open.
LEMMA RefOpen ==
  ASSUME Known, Sound', NEW p \in Paths, PathsInv(p), req.op = "idle",
         NEW n \in Names, NEW mode \in Modes, NEW nmh2 \in BOOLEAN, FS_Open(n, mode, nmh2)
  PROVE  Refined
<1>1. CASE FS_Open_Found(n, mode)
  BY <1>1, RefFound
<1>2. CASE FS_Open_Missing(n, mode, nmh2)
  <2>1. /\ ~ Exists(n) /\ UNCHANGED <<fat, data, faults>>
        /\ \E f \in Fds : FreeHandle(f) /\
             \/ \E s \in Slots :
                   /\ FreeEntry(s)
                   /\ dir' = [dir EXCEPT ![s] = [NoEntry EXCEPT !.name = n]]
                   /\ Opened(f, s, mode \cup {"WRITTEN"}, NoEntry)
                   /\ Answer("open", f, <<>>)
             \/ Answer("open", FS_NO_ENTRY, <<>>) /\ UNCHANGED <<dir, fd_stack>>
    BY <1>2 DEF FS_Open_Missing
  <2>2. CASE Answer("open", FS_NO_ENTRY, <<>>) /\ UNCHANGED <<dir, fd_stack>>
    BY <2>1, <2>2, RefStill
  <2>3. CASE ~ (Answer("open", FS_NO_ENTRY, <<>>) /\ UNCHANGED <<dir, fd_stack>>)
    <3>1. PICK f \in Fds, s \in Slots :
             /\ FreeHandle(f) /\ FreeEntry(s)
             /\ dir' = [dir EXCEPT ![s] = [NoEntry EXCEPT !.name = n]]
             /\ Opened(f, s, mode \cup {"WRITTEN"}, NoEntry)
             /\ Answer("open", f, <<>>)
      BY <2>1, <2>3
    <3> QED
      BY <2>1, <3>1, RefOpenNew
  <2> QED
    BY <2>2, <2>3
<1>3. CASE FS_Open_NoHandle
  <2>1. Answer("open", FS_NO_HANDLE, <<>>) /\ UNCHANGED <<fat, data, dir, fd_stack, faults>>
    BY <1>3 DEF FS_Open_NoHandle
  <2> QED
    BY <2>1, RefStill
<1> QED
  BY <1>1, <1>2, <1>3 DEF FS_Open

\* FS_CreateFile.
LEMMA RefCreateFile ==
  ASSUME Known, Sound', NEW p \in Paths, PathsInv(p), req.op = "idle",
         NEW n \in Names, FS_CreateFile(n)
  PROVE  Refined
<1>1. UNCHANGED <<fat, data, fd_stack, faults>>
  BY DEF FS_CreateFile
<1>2. CASE Exists(n)
  <2>1. Answer("create", FS_FILE_EXIST, <<>>) /\ dir' = dir
    BY <1>2 DEF FS_CreateFile
  <2> QED
    BY <1>1, <2>1, RefStill
<1>3. CASE ~ Exists(n) /\ DirFull
  <2>1. Answer("create", FS_FATAL, <<>>) /\ dir' = dir
    BY <1>3 DEF FS_CreateFile
  <2> QED
    BY <1>1, <2>1, RefStill
<1>4. CASE ~ Exists(n) /\ ~ DirFull
  <2>1. PICK s \in Slots : /\ FreeEntry(s)
                           /\ dir' = [dir EXCEPT ![s] = [NoEntry EXCEPT !.name = n]]
                           /\ Answer("create", FS_SUCCESS, <<>>)
    BY <1>4 DEF FS_CreateFile
  <2> QED
    BY <1>1, <1>4, <2>1, RefCreate
<1> QED
  BY <1>2, <1>3, <1>4

\* Requests that are refused.
LEMMA RefRefused ==
  ASSUME Known, Sound', NEW p \in Paths, PathsInv(p), req.op = "idle", NEW f \in Fds,
         \/ \E op \in {"read", "write", "seek", "close"} : BadHandle(op, f)
         \/ Refuse("read", f, "READ")
         \/ Refuse("write", f, "WRITE")
         \/ \E where \in Offsets, whence \in {"SEEK_SET", "SEEK_CUR", "SEEK_END"} :
              FS_Seek_Refused(f, where, whence)
  PROVE  Refined
<1>1. PICK op \in {"read", "write", "seek", "close"},
           ret \in {FS_INVALID, FS_FATAL, FS_NO_ACCESS} : Answer(op, ret, <<>>)
  BY DEF BadHandle, Refuse, FS_Seek_Refused
<1>2. UNCHANGED <<fat, data, dir, fd_stack, faults>>
  BY DEF BadHandle, Refuse, FS_Seek_Refused
<1> QED
  BY <1>1, <1>2, RefStill

\* The loop of a read or a write is entered.
LEMMA RefStart ==
  ASSUME Known, Sound', NEW p \in Paths, PathsInv(p), req.op = "idle", NEW f \in Fds, Opens(f),
         NEW r, Start(r), r.op \in {"read", "write"}, r.fd = f, r.op = "read" => r.buf = <<>>,
         UNCHANGED <<fat, data, dir, fd_stack, faults>>
  PROVE  Refined
<1>1. p[0] = <<>> /\ \A g \in Fds : ~ SeeksNow(g)
  BY DEF PathsInv, RemovalOf, Freeing, SeeksNow
<1>2. req' = r /\ reply'.buf = <<>> /\ ~ Freeing' /\ \A g \in Fds : ~ SeeksNow(g)'
  BY DEF Start, NoReply, Freeing, SeeksNow
<1>3. PathsInv(p)'
  BY <1>1, <1>2, PathsStay
<1>4. Plain'
  <2>1. Calm'
    BY <1>2, AllKnown DEF Calm, Opens
  <2>2. NamesOnce'
    BY <1>2, AllKnown DEF NamesOnce, UsedSlots
  <2>3. Saved'
    BY <1>2, AllKnown DEF Saved, Opens
  <2> QED
    BY <2>1, <2>2, <2>3 DEF Plain
<1>5. \A g \in Fds : Position(g)' = Position(g) /\ (Opens(g)' <=> Opens(g))
  BY <1>2 DEF Position, Opens
<1>6. absGot' = <<>>
  BY <1>2 DEF absGot
<1> QED
  BY <1>3, <1>4, <1>5, <1>6, Unseen

\* FS_Read and FS_Write.
LEMMA RefTransfer ==
  ASSUME Known, Sound', NEW p \in Paths, PathsInv(p), req.op = "idle", NEW f \in Fds,
         (\E n \in Lengths : FS_Read(f, n)) \/ (\E b \in Buffers : FS_Write(f, b))
  PROVE  Refined
<1>1. Opens(f) /\ UNCHANGED <<fat, data, dir, fd_stack, faults>>
  BY DEF FS_Read, FS_Write, Ready, Opens
<1>2. PICK r : Start(r) /\ r.op \in {"read", "write"} /\ r.fd = f /\ (r.op = "read" => r.buf = <<>>)
  <2>1. CASE \E n \in Lengths : FS_Read(f, n)
    <3>1. PICK left : Start([Idle EXCEPT !.op = "read", !.fd = f, !.left = left])
      BY <2>1 DEF FS_Read
    <3>2. PICK r : r = [Idle EXCEPT !.op = "read", !.fd = f, !.left = left]
      OBVIOUS
    <3>3. r.op = "read" /\ r.fd = f /\ r.buf = <<>>
      BY <3>2 DEF Idle
    <3> QED
      BY <3>1, <3>2, <3>3
  <2>2. CASE \E b \in Buffers : FS_Write(f, b)
    <3>1. PICK buf : Start([Idle EXCEPT !.op = "write", !.fd = f, !.buf = buf])
      BY <2>2 DEF FS_Write
    <3>2. PICK r : r = [Idle EXCEPT !.op = "write", !.fd = f, !.buf = buf]
      OBVIOUS
    <3>3. r.op = "write" /\ r.fd = f
      BY <3>2 DEF Idle
    <3> QED
      BY <3>1, <3>2, <3>3
  <2> QED
    BY <2>1, <2>2
<1> QED
  BY <1>1, <1>2, RefStart

\* What the file store sees of an open file.
LEMMA Seen ==
  ASSUME Known, NEW p \in Paths, PathsInv(p), NEW f \in Fds, Opens(f)
  PROVE  /\ f \in DOMAIN absHandle
         /\ absHandle[f].name = dir[fd_stack[f].ent].name
         /\ absHandle[f].pos = Position(f)
         /\ absHandle[f].name \in DOMAIN absFiles
         /\ absFiles[absHandle[f].name] = Values(p[fd_stack[f].ent])
<1>1. /\ f \in DOMAIN absHandle
      /\ absHandle[f] = [name |-> dir[fd_stack[f].ent].name, pos |-> Position(f)]
  BY HandlesRight DEF HandlesAre
<1>2. absHandle[f].name = dir[fd_stack[f].ent].name /\ absHandle[f].pos = Position(f)
  BY <1>1
<1>3. PICK s : s = fd_stack[f].ent
  OBVIOUS
<1>4. s \in UsedSlots
  BY <1>3, AllKnown DEF HandlesFit, Opens, UsedSlots
<1>5. FilesAre(p)
  BY FilesRight DEF Known
<1> QED
  BY <1>1, <1>2, <1>3, <1>4, <1>5 DEF FilesAre

\* An open file and its path.
LEMMA OpenPath ==
  ASSUME Known, NEW p \in Paths, PathsInv(p), NEW f \in Fds, Opens(f)
  PROVE  /\ fd_stack[f] \in FIL /\ fd_stack[f].fptr \in Nat /\ fd_stack[f].fsize \in Nat
         /\ fd_stack[f].ent \in UsedSlots /\ fd_stack[f].ent \in 1 .. DirSize
         /\ p[fd_stack[f].ent] \in Seq(Clusters)
         /\ First(p[fd_stack[f].ent]) = fd_stack[f].org
         /\ Len(p[fd_stack[f].ent]) = Larger(fd_stack[f].fptr, fd_stack[f].fsize)
         /\ PlacedAt(p[fd_stack[f].ent], fd_stack[f], SeeksNow(f))
         /\ Linked(p[fd_stack[f].ent])
<1>1. fd_stack[f] \in FIL
  BY AllKnown DEF TypeOK
<1>2. fd_stack[f].fptr \in Nat /\ fd_stack[f].fsize \in Nat
  BY <1>1 DEF FIL
<1>3. PICK s : s = fd_stack[f].ent
  OBVIOUS
<1>4. s \in UsedSlots /\ s \in 1 .. DirSize /\ s \in 0 .. DirSize
  BY <1>3, AllKnown, FFSAssumption DEF HandlesFit, Opens, UsedSlots, Slots
<1>5. p[s] \in Seq(Clusters) /\ Linked(p[s])
  BY <1>4 DEF Paths, PathsInv, Chained
<1>6. OfFile(p[s], fd_stack[f]) /\ PlacedAt(p[s], fd_stack[f], SeeksNow(f))
  BY <1>3 DEF PathsInv, HandlesOf
<1> QED
  BY <1>1, <1>2, <1>3, <1>4, <1>5, <1>6 DEF OfFile, Span

\* Where the next unit goes: along the path, or behind its end.
LEMMA NextUnit ==
  ASSUME Known, NEW p \in Paths, PathsInv(p), NEW f \in Fds, Opens(f), ~ SeeksNow(f),
         NEW h, h = fd_stack[f], NEW q, q = p[h.ent]
  PROVE  /\ h.fptr < Len(q) => /\ ReadClust(h) = q[h.fptr + 1] /\ q[h.fptr + 1] \in Clusters
                               /\ WriteClust(h) = q[h.fptr + 1] /\ ~ Grows(h)
         /\ h.fptr = Len(q) => /\ Grows(h)
                               /\ h.fptr > 0 => h.curr = q[h.fptr] /\ h.curr \in Clusters
<1>1. /\ h.fptr \in Nat /\ q \in Seq(Clusters) /\ First(q) = h.org /\ Linked(q)
      /\ h.fptr > 0 => h.curr = q[h.fptr]
  BY OpenPath DEF PlacedAt
<1>2. Len(q) \in Nat /\ \A i \in 1 .. Len(q) : q[i] \in Clusters
  BY <1>1
<1>3. \A i \in Clusters : i # 0 /\ i # EOC
  BY FFSAssumption DEF Clusters, EOC
<1>4. CASE h.fptr = 0
  <2>1. Len(q) > 0 => q # <<>>
    OBVIOUS
  <2>2. h.fptr < Len(q) => h.org = q[1] /\ q[1] \in Clusters
    BY <1>1, <1>4, <2>1, FirstRight
  <2>3. h.fptr = Len(q) => h.org = 0
    BY <1>1, <1>4, FirstRight
  <2> QED
    BY <1>3, <1>4, <2>2, <2>3 DEF ReadClust, WriteClust, Grows
<1>5. CASE h.fptr > 0
  <2>1. h.fptr <= Len(q) => /\ h.fptr \in 1 .. Len(q) /\ h.curr = q[h.fptr] /\ h.curr \in Clusters
                            /\ get_cluster(h.curr) = fat[q[h.fptr]]
    BY <1>1, <1>2, <1>5 DEF get_cluster
  <2>2. h.fptr < Len(q) => /\ get_cluster(h.curr) = q[h.fptr + 1] /\ q[h.fptr + 1] \in Clusters
    BY <1>1, <1>2, <1>5, <2>1 DEF Linked
  <2>3. h.fptr = Len(q) => get_cluster(h.curr) = EOC
    BY <1>1, <1>5, <2>1 DEF Linked
  <2> QED
    BY <1>1, <1>2, <1>3, <1>5, <2>1, <2>2, <2>3 DEF ReadClust, WriteClust, Grows
<1> QED
  BY <1>1, <1>4, <1>5

\* A unit is read.
LEMMA RefReadStep ==
  ASSUME Known, Sound', NEW p \in Paths, PathsInv(p), f_read_step
  PROVE  Refined
<1>1. req.op = "read" /\ req.left > 0 /\ UNCHANGED <<fat, data, dir>>
  BY DEF f_read_step
<1>2. PICK f \in Fds : f = req.fd /\ Opens(f) /\ reply.buf = <<>> /\ req \in Request
  BY <1>1, AllKnown DEF Calm, TypeOK, Request
<1>h. PICK h : h = fd_stack[f]
  OBVIOUS
<1>q. PICK q : q = p[h.ent]
  OBVIOUS
<1>3. /\ h \in FIL /\ h.fptr \in Nat /\ h.fsize \in Nat /\ h.fptr + req.left <= h.fsize
      /\ req.left \in Nat
  BY <1>1, <1>2, <1>h, OpenPath, AllKnown DEF PositionInv, Request
<1>4. Len(q) = h.fsize /\ h.fptr < Len(q) /\ Linked(q)
  <2>1. Len(q) = Larger(h.fptr, h.fsize) /\ Linked(q)
    BY <1>2, <1>h, <1>q, OpenPath
  <2>2. PICK m \in Nat, n \in Nat, l \in Nat : m = h.fptr /\ n = h.fsize /\ l = req.left
    BY <1>3
  <2>3. m + l <= n /\ l > 0
    BY <1>1, <1>3, <2>2
  <2>4. m < n /\ Larger(m, n) = n
    BY <2>3 DEF Larger
  <2> QED
    BY <2>1, <2>2, <2>4
<1>5. PICK c : c = q[h.fptr + 1]
  OBVIOUS
<1>6. \A g \in Fds : ~ SeeksNow(g)
  BY <1>1 DEF SeeksNow
<1>7. ReadClust(h) = c /\ c \in Clusters
  BY <1>2, <1>4, <1>5, <1>6, <1>h, <1>q, NextUnit
<1>8. PICK k : k = [h EXCEPT !.curr = c, !.fptr = h.fptr + 1]
  OBVIOUS
<1>9. PICK v \in Vals : /\ v = data[c] /\ faults' = faults
                        /\ fd_stack' = [fd_stack EXCEPT ![f] = k]
                        /\ req' = [req EXCEPT !.left = req.left - 1, !.buf = Append(req.buf, v)]
                        /\ reply' = reply
  BY <1>2, <1>7, <1>8, <1>h, AllKnown, NoFault DEF f_read_step, Onto
<1>10. /\ k.fs = 1 /\ k.ent = h.ent /\ k.org = h.org /\ k.flag = h.flag /\ k.fsize = h.fsize
       /\ k.fptr = h.fptr + 1 /\ k.curr = c
  BY <1>2, <1>3, <1>8, <1>h DEF FIL, Opens
<1>11. /\ req'.op = "read" /\ req'.fd = f /\ req'.buf = Append(req.buf, v)
       /\ ~ Freeing /\ ~ Freeing' /\ \A g \in Fds : ~ SeeksNow(g)'
  BY <1>1, <1>2, <1>9 DEF Request, Freeing, SeeksNow
<1>12. fd_stack'[f] = k /\ \A g \in Fds \ {f} : fd_stack'[g] = fd_stack[g]
  BY <1>9, AllKnown DEF TypeOK
<1>13. PathsInv(p)'
  <2>1. Span(k) = Span(h)
    BY <1>3, <1>4, <1>10 DEF Span, Larger
  <2>2. PlacedAt(p[k.ent], k, SeeksNow(f)')
    BY <1>2, <1>5, <1>10, <1>11, <1>q DEF PlacedAt
  <2>3. /\ k.ent = fd_stack[f].ent /\ k.org = fd_stack[f].org /\ Span(k) = Span(fd_stack[f])
        /\ "WRITE" \in k.flag <=> "WRITE" \in fd_stack[f].flag
    BY <1>10, <1>h, <2>1
  <2>4. \A g \in Fds \ {f} : ~ SeeksNow(g) /\ ~ SeeksNow(g)'
    BY <1>6, <1>11
  <2> QED
    BY <1>1, <1>2, <1>9, <1>10, <1>11, <2>2, <2>3, <2>4, HandleStep
<1>14. Plain'
  <2>1. \A g \in Fds : /\ fd_stack'[g].flag = fd_stack[g].flag /\ fd_stack'[g].fs = fd_stack[g].fs
                       /\ fd_stack'[g].org = fd_stack[g].org /\ fd_stack'[g].ent = fd_stack[g].ent
                       /\ fd_stack'[g].fsize = fd_stack[g].fsize
    BY <1>2, <1>10, <1>12, <1>h DEF Opens
  <2>2. Calm'
    BY <1>2, <1>9, <1>11, <2>1, AllKnown DEF Calm, Opens
  <2>3. NamesOnce'
    BY <1>1, <1>11, AllKnown DEF NamesOnce, UsedSlots
  <2>4. Saved'
    BY <1>1, <1>11, <2>1, AllKnown DEF Saved, Opens
  <2> QED
    BY <2>2, <2>3, <2>4 DEF Plain
<1>15. absFiles' = absFiles
  BY <1>1, <1>13, <1>14, FilesStay DEF Known
<1>16. Position(f) = h.fptr /\ Position(f)' = h.fptr + 1
  BY <1>1, <1>2, <1>3, <1>10, <1>11, <1>12, <1>h DEF Position
<1>17. absHandle' = [absHandle EXCEPT ![f].pos = h.fptr + 1]
  <2>1. \A g \in Fds : /\ Opens(g)' <=> Opens(g)
                       /\ Opens(g) => dir'[fd_stack'[g].ent].name = dir[fd_stack[g].ent].name
                       /\ Opens(g) /\ g # f => Position(g)' = Position(g)
    BY <1>1, <1>2, <1>10, <1>11, <1>12, <1>h DEF Opens, Position
  <2>2. PICK pos : pos = h.fptr + 1
    OBVIOUS
  <2> QED
    BY <1>2, <1>16, <2>1, <2>2, HandleMoves
<1>18. /\ f \in DOMAIN absHandle /\ absHandle[f].pos = h.fptr
       /\ absFiles[absHandle[f].name] = Values(q)
  BY <1>2, <1>16, <1>h, <1>q, Seen
<1>19. absGot' = Append(absGot, v)
  BY <1>1, <1>11 DEF absGot
<1>20. Len(Values(q)) = Len(q) /\ Values(q)[h.fptr + 1] = v
  <2>1. Len(q) \in Nat /\ h.fptr + 1 \in 1 .. Len(q)
    BY <1>3, <1>4
  <2>2. Values(q)[h.fptr + 1] = data[q[h.fptr + 1]]
    BY <2>1 DEF Values
  <2>3. Len(Values(q)) = Len(q)
    BY <2>1 DEF Values
  <2> QED
    BY <1>5, <1>9, <2>2, <2>3
<1>21. [Store!Next]_(Store!vars)
  <2>1. Store!Get(f)
    BY <1>4, <1>15, <1>17, <1>18, <1>19, <1>20 DEF Store!Get
  <2> QED
    BY <1>2, <2>1 DEF Store!Next
<1> QED
  BY <1>13, <1>14, <1>21 DEF Refined

\* The answer to a read.
LEMMA RefReadEnd ==
  ASSUME Known, Sound', NEW p \in Paths, PathsInv(p), f_read_end
  PROVE  Refined
<1>1. /\ req.op = "read" /\ Answer("read", Len(req.buf), req.buf)
      /\ UNCHANGED <<fat, data, dir, fd_stack, faults>>
  BY DEF f_read_end
<1>2. p[0] = <<>>
  BY <1>1 DEF PathsInv, RemovalOf, Freeing
<1>3. req' = Idle /\ absGot' = absGot
  BY <1>1 DEF Answer, absGot, Idle
<1> QED
  BY <1>1, <1>2, <1>3, StillStep

\* A step of a seek: one position moves within its file.
LEMMA MoveStep ==
  ASSUME Known, Sound', NEW p \in Paths, PathsInv(p), NEW f \in Fds, Opens(f),
         NEW h, h = fd_stack[f], NEW k,
         UNCHANGED <<fat, data, dir, faults>>, fd_stack' = [fd_stack EXCEPT ![f] = k],
         k.fs = 1, k.ent = h.ent, k.org = h.org, k.flag = h.flag, k.fsize = h.fsize,
         k.fptr \in Nat, k.fptr <= h.fsize, h.fptr <= h.fsize,
         PlacedAt(p[k.ent], k, SeeksNow(f)'),
         req.op \in {"idle", "seek"}, req.op = "seek" => req.fd = f,
         req'.op \in {"idle", "seek"}, req'.op = "seek" => req'.fd = f, reply'.buf = <<>>,
         NEW pos \in Nat, Position(f)' = pos, pos <= h.fsize
  PROVE  Refined
<1>1. /\ h.fptr \in Nat /\ h.fsize \in Nat /\ Len(p[h.ent]) = h.fsize
      /\ p[h.ent] \in Seq(Clusters)
  BY OpenPath DEF Larger
<1>2. /\ ~ Freeing /\ ~ Freeing'
      /\ \A g \in Fds \ {f} : ~ SeeksNow(g) /\ ~ SeeksNow(g)'
  BY DEF Freeing, SeeksNow
<1>3. fd_stack'[f] = k /\ \A g \in Fds \ {f} : fd_stack'[g] = fd_stack[g]
  BY AllKnown DEF TypeOK
<1>4. PathsInv(p)'
  <2>1. Span(k) = Span(h)
    BY <1>1 DEF Span, Larger
  <2>2. /\ k.ent = fd_stack[f].ent /\ k.org = fd_stack[f].org /\ Span(k) = Span(fd_stack[f])
        /\ "WRITE" \in k.flag <=> "WRITE" \in fd_stack[f].flag
    BY <2>1
  <2> QED
    BY <1>2, <2>2, HandleStep
<1>5. \A g \in Fds : /\ fd_stack'[g].flag = fd_stack[g].flag /\ fd_stack'[g].fs = fd_stack[g].fs
                     /\ fd_stack'[g].org = fd_stack[g].org /\ fd_stack'[g].ent = fd_stack[g].ent
                     /\ fd_stack'[g].fsize = fd_stack[g].fsize
  BY <1>3 DEF Opens
<1>6. Plain'
  <2>1. Calm'
    BY <1>3, <1>5, AllKnown DEF Calm, Opens
  <2>2. NamesOnce'
    BY AllKnown DEF NamesOnce, UsedSlots
  <2>3. Saved'
    BY <1>5, AllKnown DEF Saved, Opens
  <2> QED
    BY <2>1, <2>2, <2>3 DEF Plain
<1>7. absFiles' = absFiles
  BY <1>4, <1>6, FilesStay DEF Known
<1>8. absHandle' = [absHandle EXCEPT ![f].pos = pos]
  <2>1. \A g \in Fds : /\ Opens(g)' <=> Opens(g)
                       /\ Opens(g) => dir'[fd_stack'[g].ent].name = dir[fd_stack[g].ent].name
                       /\ Opens(g) /\ g # f => Position(g)' = Position(g)
    BY <1>2, <1>3, <1>5 DEF Opens, Position, SeeksNow
  <2> QED
    BY <2>1, HandleMoves
<1>9. f \in DOMAIN absHandle /\ absFiles[absHandle[f].name] = Values(p[h.ent])
  BY Seen
<1>10. Len(Values(p[h.ent])) = h.fsize
  BY <1>1 DEF Values
<1>11. absGot' = <<>>
  BY DEF absGot
<1>12. [Store!Next]_(Store!vars)
  <2>1. pos \in 0 .. Len(absFiles[absHandle[f].name])
    BY <1>1, <1>9, <1>10
  <2>2. Store!Seek(f)
    BY <1>7, <1>8, <1>9, <2>1 DEF Store!Seek
  <2> QED
    BY <1>11, <2>2 DEF Store!Next, Store!Change
<1> QED
  BY <1>4, <1>6, <1>12 DEF Refined

\* FS_Seek.
LEMMA RefSeek ==
  ASSUME Known, Sound', NEW p \in Paths, PathsInv(p), req.op = "idle", NEW f \in Fds,
         NEW where \in Offsets, NEW whence \in {"SEEK_SET", "SEEK_CUR", "SEEK_END"},
         FS_Seek(f, where, whence)
  PROVE  Refined
<1>1. PICK h : h = fd_stack[f]
  OBVIOUS
<1>2. PICK q : q = p[h.ent]
  OBVIOUS
<1>3. Opens(f) /\ UNCHANGED <<fat, data, dir, faults>> /\ "ERROR" \notin h.flag
  BY <1>1 DEF FS_Seek, Opens
<1>4. /\ h \in FIL /\ h.fptr \in Nat /\ h.fsize \in Nat /\ q \in Seq(Clusters) /\ h.fs = 1
      /\ First(q) = h.org
  BY <1>1, <1>2, <1>3, OpenPath DEF Opens
<1>5. h.fptr <= h.fsize
  BY <1>1, <1>3, AllKnown DEF PositionInv, PositionInFile
<1>6. Len(q) = h.fsize /\ (h.fptr > 0 => h.curr = q[h.fptr])
  BY <1>1, <1>2, <1>3, <1>4, <1>5, OpenPath DEF Larger, PlacedAt, SeeksNow
<1>7. PICK ofs \in Nat : ofs = Clip(h, Target(h, where, whence)) /\ ofs <= h.fsize
  <2>1. Target(h, where, whence) \in Nat
    BY <1>1, AllKnown, SeekTarget
  <2> QED
    BY <1>4, <2>1 DEF Clip, Smaller
<1>8. CASE ofs = 0
  <2>1. PICK k : k = [h EXCEPT !.fptr = 0]
    OBVIOUS
  <2>2. fd_stack' = [fd_stack EXCEPT ![f] = k] /\ Answer("seek", 0, <<>>)
    BY <1>1, <1>7, <1>8, <2>1 DEF FS_Seek
  <2>3. /\ k.fs = 1 /\ k.ent = h.ent /\ k.org = h.org /\ k.flag = h.flag /\ k.fsize = h.fsize
        /\ k.fptr = 0
    BY <1>4, <2>1 DEF FIL
  <2>4. req'.op = "idle" /\ reply'.buf = <<>> /\ ~ SeeksNow(f)'
    BY <2>2 DEF Answer, Idle, SeeksNow
  <2>5. PlacedAt(p[k.ent], k, SeeksNow(f)')
    BY <2>3, <2>4 DEF PlacedAt
  <2>6. PICK pos \in Nat : pos = 0 /\ pos <= h.fsize
    BY <1>4
  <2>7. Position(f)' = pos /\ k.fptr \in Nat /\ k.fptr <= h.fsize
    BY <2>2, <2>3, <2>4, <2>6, AllKnown DEF Position, TypeOK
  <2> QED
    BY <1>1, <1>3, <1>4, <1>5, <2>2, <2>3, <2>4, <2>5, <2>6, <2>7, MoveStep
<1>9. CASE ofs # 0
  <2>1. PICK onward \in BOOLEAN : onward = (h.fptr > 0 /\ ofs >= h.fptr)
    OBVIOUS
  <2>2. PICK start \in Nat : start = (IF onward THEN h.fptr - 1 ELSE 0) /\ start < ofs
    <3>1. CASE onward
      <4>1. h.fptr \in Nat /\ h.fptr > 0 /\ ofs >= h.fptr
        BY <1>4, <2>1, <3>1
      <4>2. h.fptr - 1 \in Nat /\ h.fptr - 1 < ofs
        BY <4>1
      <4> QED
        BY <3>1, <4>2
    <3>2. CASE ~ onward
      BY <1>7, <1>9, <3>2
    <3> QED
      BY <3>1, <3>2
  <2>3. PICK curr : curr = IF onward THEN h.curr ELSE h.org
    OBVIOUS
  <2>4. PICK k : k = [h EXCEPT !.fptr = start, !.curr = curr]
    OBVIOUS
  <2>5. PICK left \in Nat : left = ofs - start /\ start + left = ofs
    BY <1>7, <2>2
  <2>6. /\ fd_stack' = [fd_stack EXCEPT ![f] = k]
        /\ Start([Idle EXCEPT !.op = "seek", !.fd = f, !.left = left])
    BY <1>1, <1>7, <1>9, <2>1, <2>2, <2>3, <2>4, <2>5 DEF FS_Seek
  <2>7. /\ k.fs = 1 /\ k.ent = h.ent /\ k.org = h.org /\ k.flag = h.flag /\ k.fsize = h.fsize
        /\ k.fptr = start /\ k.curr = curr
    BY <1>4, <2>4 DEF FIL
  <2>8. req'.op = "seek" /\ req'.fd = f /\ req'.left = left /\ reply'.buf = <<>> /\ SeeksNow(f)'
    BY <2>6 DEF Start, Idle, NoReply, SeeksNow
  <2>9. curr = q[start + 1]
    <3>1. CASE onward
      BY <1>4, <1>6, <2>1, <2>2, <2>3, <3>1
    <3>2. CASE ~ onward
      <4>1. q # <<>>
        BY <1>4, <1>6, <1>7, <1>9
      <4> QED
        BY <1>4, <2>2, <2>3, <3>2, <4>1, FirstRight
    <3> QED
      BY <3>1, <3>2
  <2>10. PlacedAt(p[k.ent], k, SeeksNow(f)')
    BY <1>2, <2>7, <2>8, <2>9 DEF PlacedAt
  <2>11. Position(f)' = ofs
    BY <2>5, <2>6, <2>7, <2>8, AllKnown DEF Position, TypeOK
  <2>12. k.fptr \in Nat /\ k.fptr <= h.fsize
    BY <1>4, <1>7, <2>2, <2>7
  <2> QED
    BY <1>1, <1>3, <1>4, <1>5, <1>7, <2>6, <2>7, <2>8, <2>10, <2>11, <2>12, MoveStep
<1> QED
  BY <1>8, <1>9

\* The file object a seek works on, and the cluster it has come to.
SeekAt(p, f, h, q) ==
  /\ f = req.fd /\ Opens(f) /\ h = fd_stack[f] /\ q = p[h.ent]
  /\ h.fs = 1 /\ h.fptr \in Nat /\ h.fsize \in Nat /\ req \in Request
  /\ req.left \in Nat /\ req.left >= 1 /\ h.fptr + req.left <= h.fsize
  /\ Len(q) = h.fsize /\ Linked(q)
  /\ h.curr = q[h.fptr + 1] /\ h.curr \in Clusters /\ reply.buf = <<>>

\* A file object is there while f_lseek works.
LEMMA Seeking ==
  ASSUME Known, NEW p \in Paths, PathsInv(p), req.op = "seek"
  PROVE  \E f \in Fds, h \in FIL, q \in Seq(Clusters) : SeekAt(p, f, h, q)
<1>1. PICK f \in Fds : f = req.fd /\ Opens(f) /\ reply.buf = <<>> /\ req \in Request
  BY AllKnown DEF Calm, TypeOK, Request
<1>2. PICK h : h = fd_stack[f]
  OBVIOUS
<1>3. PICK q : q = p[h.ent]
  OBVIOUS
<1>4. /\ h \in FIL /\ h.fptr \in Nat /\ h.fsize \in Nat /\ q \in Seq(Clusters) /\ Linked(q)
      /\ Len(q) = Larger(h.fptr, h.fsize) /\ PlacedAt(q, h, SeeksNow(f)) /\ h.fs = 1
  BY <1>1, <1>2, <1>3, OpenPath DEF Opens
<1>5. req.left \in Nat /\ req.left >= 1 /\ h.fptr + req.left <= h.fsize
  BY <1>1, <1>2, AllKnown DEF PositionInv, Request
<1>6. Len(q) = h.fsize /\ h.fptr + 1 \in 1 .. Len(q)
  BY <1>4, <1>5, SMTT(30) DEF Larger
<1>7. h.curr = q[h.fptr + 1] /\ h.curr \in Clusters
  BY <1>1, <1>4, <1>6 DEF PlacedAt, SeeksNow
<1> QED
  BY <1>1, <1>2, <1>3, <1>4, <1>5, <1>6, <1>7 DEF SeekAt

\* A round of f_lseek.
LEMMA RefSeekStep ==
  ASSUME Known, Sound', NEW p \in Paths, PathsInv(p), f_lseek_step
  PROVE  Refined
<1>1. req.op = "seek" /\ req.left > 1 /\ UNCHANGED <<fat, data, dir, faults>>
  BY DEF f_lseek_step
<1>2. PICK f \in Fds, h \in FIL, q \in Seq(Clusters) : SeekAt(p, f, h, q)
  BY <1>1, Seeking
<1>0. /\ f = req.fd /\ Opens(f) /\ h = fd_stack[f] /\ q = p[h.ent]
      /\ h.fs = 1 /\ h.fptr \in Nat /\ h.fsize \in Nat /\ req \in Request
      /\ req.left \in Nat /\ req.left >= 1 /\ h.fptr + req.left <= h.fsize
      /\ Len(q) = h.fsize /\ Linked(q)
      /\ h.curr = q[h.fptr + 1] /\ h.curr \in Clusters /\ reply.buf = <<>>
  BY <1>2 DEF SeekAt
<1>3. PICK c : c = q[h.fptr + 2]
  OBVIOUS
<1>4. get_cluster(h.curr) = c /\ c \in Clusters
  <2>1. h.fptr + 1 \in 1 .. Len(q) /\ h.fptr + 1 < Len(q) /\ h.fptr + 2 \in 1 .. Len(q)
        /\ (h.fptr + 1) + 1 = h.fptr + 2
    <3>1. /\ h.fptr \in Nat /\ req.left \in Nat /\ req.left > 1 /\ h.fptr + req.left <= Len(q)
          /\ Len(q) \in Nat
      BY <1>0, <1>1
    <3>2. PICK m \in Nat, n \in Nat, l \in Nat : m = h.fptr /\ n = req.left /\ l = Len(q)
      BY <3>1
    <3>3. m + 1 \in 1 .. l /\ m + 1 < l /\ m + 2 \in 1 .. l /\ (m + 1) + 1 = m + 2
      BY <3>1, <3>2
    <3> QED
      BY <3>2, <3>3
  <2>2. fat[q[h.fptr + 1]] = q[h.fptr + 2] /\ q[h.fptr + 2] \in Clusters
    <3>1. fat[q[h.fptr + 1]] = q[(h.fptr + 1) + 1]
      BY <1>0, <2>1 DEF Linked
    <3> QED
      BY <2>1, <3>1
  <2> QED
    BY <1>0, <1>3, <2>2 DEF get_cluster
<1>5. PICK k : k = [h EXCEPT !.curr = c, !.fptr = h.fptr + 1]
  OBVIOUS
<1>6. /\ fd_stack' = [fd_stack EXCEPT ![f] = k] /\ reply' = reply
      /\ req' = [req EXCEPT !.left = req.left - 1]
  BY <1>0, <1>4, <1>5 DEF f_lseek_step, Onto
<1>7. /\ k.fs = 1 /\ k.ent = h.ent /\ k.org = h.org /\ k.flag = h.flag /\ k.fsize = h.fsize
      /\ k.fptr = h.fptr + 1 /\ k.curr = c
  BY <1>0, <1>5 DEF FIL
<1>8. req'.op = "seek" /\ req'.fd = f /\ req'.left = req.left - 1 /\ SeeksNow(f)'
  BY <1>1, <1>0, <1>6 DEF Request, SeeksNow
<1>9. PlacedAt(p[k.ent], k, SeeksNow(f)')
  <2>1. (h.fptr + 1) + 1 = h.fptr + 2
    BY <1>0
  <2> QED
    BY <1>0, <1>3, <1>7, <1>8, <2>1 DEF PlacedAt
<1>10. PICK pos \in Nat : /\ pos = h.fptr + req.left /\ pos <= h.fsize
                          /\ (h.fptr + 1) + (req.left - 1) = pos
  <2>1. /\ h.fptr \in Nat /\ req.left \in Nat /\ h.fptr + req.left <= h.fsize
    BY <1>0
  <2>2. PICK m \in Nat, n \in Nat : m = h.fptr /\ n = req.left
    BY <2>1
  <2>3. (m + 1) + (n - 1) = m + n /\ m + n \in Nat
    OBVIOUS
  <2> QED
    BY <2>1, <2>2, <2>3
<1>11. Position(f)' = pos
  BY <1>6, <1>7, <1>8, <1>10, AllKnown DEF Position, TypeOK
<1>12. k.fptr \in Nat /\ k.fptr <= h.fsize /\ h.fptr <= h.fsize
  <2>1. /\ h.fptr \in Nat /\ req.left \in Nat /\ h.fsize \in Nat /\ req.left >= 1
        /\ h.fptr + req.left <= h.fsize
    BY <1>0
  <2>2. PICK m \in Nat, n \in Nat, l \in Nat : m = h.fptr /\ n = h.fsize /\ l = req.left
    BY <2>1
  <2>3. m + 1 \in Nat /\ m + 1 <= n /\ m <= n
    BY <2>1, <2>2
  <2> QED
    BY <1>7, <2>2, <2>3
<1> QED
  BY <1>1, <1>0, <1>6, <1>7, <1>8, <1>9, <1>10, <1>11, <1>12, MoveStep

\* The end of f_lseek.
LEMMA RefSeekEnd ==
  ASSUME Known, Sound', NEW p \in Paths, PathsInv(p), f_lseek_end
  PROVE  Refined
<1>1. req.op = "seek" /\ UNCHANGED <<fat, data, dir, faults>>
  BY DEF f_lseek_end
<1>2. PICK f \in Fds, h \in FIL, q \in Seq(Clusters) : SeekAt(p, f, h, q)
  BY <1>1, Seeking
<1>0. /\ f = req.fd /\ Opens(f) /\ h = fd_stack[f] /\ q = p[h.ent]
      /\ h.fs = 1 /\ h.fptr \in Nat /\ h.fsize \in Nat /\ req \in Request
      /\ req.left \in Nat /\ req.left >= 1 /\ h.fptr + req.left <= h.fsize
      /\ Len(q) = h.fsize /\ Linked(q)
      /\ h.curr = q[h.fptr + 1] /\ h.curr \in Clusters /\ reply.buf = <<>>
  BY <1>2 DEF SeekAt
<1>3. h.curr # 0
  BY <1>0 DEF Clusters
<1>4. PICK pos \in Nat : pos = h.fptr + 1 /\ pos <= h.fsize /\ h.fptr <= h.fsize /\ pos > 0
  BY <1>0
<1>5. PICK k : k = [h EXCEPT !.fptr = pos]
  OBVIOUS
<1>6. fd_stack' = [fd_stack EXCEPT ![f] = k] /\ Answer("seek", pos, <<>>)
  BY <1>0, <1>3, <1>4, <1>5 DEF f_lseek_end
<1>7. /\ k.fs = 1 /\ k.ent = h.ent /\ k.org = h.org /\ k.flag = h.flag /\ k.fsize = h.fsize
      /\ k.fptr = pos /\ k.curr = h.curr
  BY <1>0, <1>5 DEF FIL
<1>8. req'.op = "idle" /\ reply'.buf = <<>> /\ ~ SeeksNow(f)'
  BY <1>6 DEF Answer, Idle, SeeksNow
<1>9. PlacedAt(p[k.ent], k, SeeksNow(f)')
  BY <1>0, <1>4, <1>7, <1>8 DEF PlacedAt
<1>10. Position(f)' = pos
  BY <1>4, <1>6, <1>7, <1>8, AllKnown DEF Position, TypeOK
<1>11. k.fptr \in Nat /\ k.fptr <= h.fsize /\ h.fptr <= h.fsize /\ pos <= h.fsize
  BY <1>4, <1>7
<1>12. /\ Opens(f) /\ h = fd_stack[f] /\ f = req.fd
       /\ req.op \in {"idle", "seek"} /\ req'.op \in {"idle", "seek"} /\ req'.op # "seek"
  BY <1>0, <1>1, <1>8
<1>13. fd_stack' = [fd_stack EXCEPT ![f] = k]
  BY <1>6
<1> QED
  BY <1>1, <1>7, <1>8, <1>9, <1>10, <1>11, <1>12, <1>13, MoveStep

\* One file gets other contents.
LEMMA FilesChange ==
  ASSUME Known, NEW p \in Paths, FilesAre(p), NEW r \in Paths, FilesAre(r)', dir' = dir,
         NEW e \in UsedSlots, NEW w, Values(r[e])' = w,
         \A s \in Slots \ {e} : Values(r[s])' = Values(p[s])
  PROVE  absFiles' = [absFiles EXCEPT ![dir[e].name] = w]
<1>1. PICK n : n = dir[e].name
  OBVIOUS
<1>2. UsedSlots' = UsedSlots
  BY DEF UsedSlots
<1>3. DOMAIN absFiles = {dir[s].name : s \in UsedSlots}
  BY DEF FilesAre
<1>4. DOMAIN absFiles' = DOMAIN absFiles
  BY <1>2, <1>3 DEF FilesAre
<1>5. n \in DOMAIN absFiles /\ absFiles'[n] = w
  <2>1. absFiles'[dir'[e].name] = Values(r[e])'
    BY <1>2 DEF FilesAre
  <2> QED
    BY <1>1, <1>3, <2>1
<1>6. ASSUME NEW m \in DOMAIN absFiles, m # n PROVE absFiles'[m] = absFiles[m]
  <2>1. PICK s \in UsedSlots : m = dir[s].name
    BY <1>3
  <2>2. s \in Slots \ {e}
    BY <1>1, <1>6, <2>1 DEF UsedSlots
  <2>3. absFiles'[m] = Values(r[s])' /\ absFiles[m] = Values(p[s])
    BY <1>2, <2>1 DEF FilesAre
  <2> QED
    BY <2>2, <2>3
<1>7. PICK F, G, H : F = absFiles' /\ G = absFiles /\ H = [G EXCEPT ![n] = w]
  OBVIOUS
<1>8. /\ F = [x \in DOMAIN F |-> F[x]] /\ G = [x \in DOMAIN G |-> G[x]]
  BY <1>7 DEF FilesAre
<1>9. /\ H = [x \in DOMAIN H |-> H[x]] /\ DOMAIN H = DOMAIN G
      /\ \A x \in DOMAIN G : H[x] = IF x = n THEN w ELSE G[x]
  BY <1>7, <1>8
<1>10. \A x \in DOMAIN F : F[x] = H[x]
  BY <1>4, <1>5, <1>6, <1>7, <1>9
<1>11. F = H
  BY <1>4, <1>7, <1>8, <1>9, <1>10, Agree
<1> QED
  BY <1>1, <1>7, <1>11

\* The file object f_write works on.
WriteAt(p, f, h, q) ==
  /\ f = req.fd /\ Opens(f) /\ h = fd_stack[f] /\ q = p[h.ent]
  /\ h.fs = 1 /\ h.fptr \in Nat /\ h.fsize \in Nat /\ req \in Request
  /\ Len(q) = Larger(h.fptr, h.fsize) /\ First(q) = h.org /\ Linked(q)
  /\ h.ent \in UsedSlots /\ h.ent \in 1 .. DirSize /\ "WRITE" \in h.flag
  /\ h.fptr > 0 => h.curr = q[h.fptr]
  /\ \A g \in Fds \ {f} : Opens(g) => fd_stack[g].ent # h.ent
  /\ reply.buf = <<>> /\ p[0] = <<>>
  /\ ~ Freeing /\ \A g \in Fds : ~ SeeksNow(g)

\* A file object is there while f_write works.
LEMMA Writing ==
  ASSUME Known, NEW p \in Paths, PathsInv(p), req.op = "write"
  PROVE  \E f \in Fds, h \in FIL, q \in Seq(Clusters) : WriteAt(p, f, h, q)
<1>1. PICK f \in Fds : f = req.fd /\ Opens(f) /\ reply.buf = <<>> /\ req \in Request
  BY AllKnown DEF Calm, TypeOK, Request
<1>2. PICK h : h = fd_stack[f]
  OBVIOUS
<1>3. PICK q : q = p[h.ent]
  OBVIOUS
<1>4. ~ Freeing /\ \A g \in Fds : ~ SeeksNow(g)
  BY DEF Freeing, SeeksNow
<1>5. p[0] = <<>>
  BY <1>4 DEF PathsInv, RemovalOf
<1>6. /\ h \in FIL /\ h.fptr \in Nat /\ h.fsize \in Nat /\ q \in Seq(Clusters) /\ Linked(q)
      /\ Len(q) = Larger(h.fptr, h.fsize) /\ First(q) = h.org
      /\ h.ent \in UsedSlots /\ h.ent \in 1 .. DirSize /\ h.fs = 1
      /\ h.fptr > 0 => h.curr = q[h.fptr]
  BY <1>1, <1>2, <1>3, <1>4, OpenPath DEF Opens, PlacedAt
<1>7. "WRITE" \in h.flag
  BY <1>1, <1>2, AllKnown DEF RequestFits
<1>8. \A g \in Fds \ {f} : Opens(g) => fd_stack[g].ent # h.ent
  BY <1>1, <1>2, <1>7, AllKnown DEF WritersAlone, Opens
<1> QED
  BY <1>1, <1>2, <1>3, <1>4, <1>5, <1>6, <1>7, <1>8 DEF WriteAt

\* The end of f_write: the size is brought up to the position.
LEMMA RefWriteEnd ==
  ASSUME Known, Sound', NEW p \in Paths, PathsInv(p), f_write_end
  PROVE  Refined
<1>1. req.op = "write" /\ UNCHANGED <<fat, data, dir, faults>>
  BY DEF f_write_end
<1>2. PICK f \in Fds, h \in FIL, q \in Seq(Clusters) : WriteAt(p, f, h, q)
  BY <1>1, Writing
<1>3. /\ f = req.fd /\ Opens(f) /\ h = fd_stack[f] /\ q = p[h.ent] /\ h.fs = 1
      /\ h.fptr \in Nat /\ h.fsize \in Nat /\ (h.fptr > 0 => h.curr = q[h.fptr])
      /\ ~ Freeing /\ \A g \in Fds : ~ SeeksNow(g)
  BY <1>2 DEF WriteAt
<1>4. PICK k : k = Written(h, Larger(h.fsize, h.fptr))
  OBVIOUS
<1>5. fd_stack' = [fd_stack EXCEPT ![f] = k] /\ Answer("write", req.done, <<>>)
  BY <1>3, <1>4 DEF f_write_end
<1>6. /\ k.fs = 1 /\ k.ent = h.ent /\ k.org = h.org /\ k.flag = h.flag \cup {"WRITTEN"}
      /\ k.fsize = Larger(h.fsize, h.fptr) /\ k.fptr = h.fptr /\ k.curr = h.curr
  BY <1>3, <1>4 DEF FIL, Written
<1>7. /\ req'.op = "idle" /\ reply'.buf = <<>> /\ ~ Freeing'
      /\ \A g \in Fds : ~ SeeksNow(g)'
  BY <1>5 DEF Answer, Idle, Freeing, SeeksNow
<1>8. fd_stack'[f] = k /\ \A g \in Fds \ {f} : fd_stack'[g] = fd_stack[g]
  BY <1>5, AllKnown DEF TypeOK
<1>9. PathsInv(p)'
  <2>1. Span(k) = Span(h)
    BY <1>3, <1>6 DEF Span, Larger
  <2>2. PlacedAt(p[k.ent], k, SeeksNow(f)')
    BY <1>3, <1>6, <1>7 DEF PlacedAt
  <2>3. /\ k.ent = fd_stack[f].ent /\ k.org = fd_stack[f].org /\ Span(k) = Span(fd_stack[f])
        /\ "WRITE" \in k.flag <=> "WRITE" \in fd_stack[f].flag
    BY <1>3, <1>6, <2>1
  <2> QED
    BY <1>1, <1>3, <1>5, <1>6, <1>7, <2>2, <2>3, HandleStep
<1>10. Plain'
  <2>1. Calm'
    BY <1>1, <1>3, <1>6, <1>7, <1>8, AllKnown DEF Calm
  <2>2. NamesOnce'
    BY <1>1, <1>7, AllKnown DEF NamesOnce, UsedSlots
  <2>3. Saved'
    BY <1>1, <1>3, <1>6, <1>7, <1>8, AllKnown DEF Saved, Opens
  <2> QED
    BY <2>1, <2>2, <2>3 DEF Plain
<1>11. \A g \in Fds : /\ Opens(g)' <=> Opens(g)
                      /\ Opens(g) => /\ fd_stack'[g].ent = fd_stack[g].ent
                                     /\ Position(g)' = Position(g)
  BY <1>1, <1>3, <1>6, <1>7, <1>8 DEF Opens, Position
<1>12. absGot' = <<>>
  BY <1>7 DEF absGot
<1> QED
  BY <1>1, <1>9, <1>10, <1>11, <1>12, Unseen

\* f_write finds no free cluster.
LEMMA RefWriteFull ==
  ASSUME Known, Sound', NEW p \in Paths, PathsInv(p), req.op = "write",
         req' = [req EXCEPT !.buf = <<>>],
         UNCHANGED <<fat, data, dir, fd_stack, reply, faults>>
  PROVE  Refined
<1>1. p[0] = <<>> /\ req \in Request /\ \A g \in Fds : ~ SeeksNow(g)
  BY AllKnown DEF PathsInv, RemovalOf, Freeing, TypeOK, SeeksNow
<1>2. /\ req'.op = "write" /\ req'.fd = req.fd /\ ~ Freeing'
      /\ \A g \in Fds : ~ SeeksNow(g)'
  BY <1>1 DEF Request, Freeing, SeeksNow
<1>3. PathsInv(p)'
  BY <1>1, <1>2, PathsStay
<1>4. Plain'
  <2>1. Calm'
    BY <1>2, AllKnown DEF Calm, Opens
  <2>2. NamesOnce'
    BY <1>2, AllKnown DEF NamesOnce, UsedSlots
  <2>3. Saved'
    BY <1>2, AllKnown DEF Saved, Opens
  <2> QED
    BY <2>1, <2>2, <2>3 DEF Plain
<1>5. \A g \in Fds : Position(g)' = Position(g) /\ (Opens(g)' <=> Opens(g))
  BY <1>2 DEF Position, Opens
<1>6. absGot' = absGot
  BY <1>2 DEF absGot
<1> QED
  BY <1>3, <1>4, <1>5, <1>6, Unseen

\* What a unit written does to the file object.
PutAt(f, h, c, k) ==
  /\ fd_stack' = [fd_stack EXCEPT ![f] = k]
  /\ k.fs = 1 /\ k.ent = h.ent /\ k.flag = h.flag /\ k.fsize = h.fsize
  /\ k.org = FirstClust(h, c) /\ k.fptr = h.fptr + 1 /\ k.curr = c
  /\ fd_stack'[f] = k /\ \A g \in Fds \ {f} : fd_stack'[g] = fd_stack[g]
  /\ req'.op = "write" /\ req'.fd = f /\ reply' = reply
  /\ ~ Freeing' /\ \A g \in Fds : ~ SeeksNow(g)'
  /\ data' = [data EXCEPT ![c] = Head(req.buf)] /\ Head(req.buf) \in Vals

\* Put does that.
LEMMA Putting ==
  ASSUME Known, NEW p \in Paths, NEW f \in Fds, NEW h \in FIL, NEW q \in Seq(Clusters),
         WriteAt(p, f, h, q), req.op = "write", req.buf # <<>>, NEW c, Put(f, c)
  PROVE  \E k : PutAt(f, h, c, k)
<1>1. f = req.fd /\ h = fd_stack[f] /\ req \in Request /\ h.fs = 1
  BY DEF WriteAt
<1>2. PICK k : k = Onto([h EXCEPT !.org = FirstClust(h, c)], c)
  OBVIOUS
<1>3. /\ k.fs = 1 /\ k.ent = h.ent /\ k.flag = h.flag /\ k.fsize = h.fsize
      /\ k.org = FirstClust(h, c) /\ k.fptr = h.fptr + 1 /\ k.curr = c
  <2>1. PICK b : b = [h EXCEPT !.org = FirstClust(h, c)]
    OBVIOUS
  <2>2. /\ b.fs = 1 /\ b.ent = h.ent /\ b.flag = h.flag /\ b.fsize = h.fsize
        /\ b.org = FirstClust(h, c) /\ b.fptr = h.fptr
        /\ b = [fs |-> b.fs, ent |-> b.ent, flag |-> b.flag, fptr |-> b.fptr,
                fsize |-> b.fsize, org |-> b.org, curr |-> b.curr]
    BY <1>1, <2>1 DEF FIL
  <2>3. k = [b EXCEPT !.curr = c, !.fptr = b.fptr + 1]
    BY <1>2, <2>1 DEF Onto
  <2> QED
    BY <2>2, <2>3
<1>4. /\ fd_stack' = [fd_stack EXCEPT ![f] = k] /\ reply' = reply
      /\ req' = [req EXCEPT !.buf = Tail(req.buf), !.done = req.done + 1]
      /\ data' = [data EXCEPT ![c] = Head(req.buf)]
  BY <1>1, <1>2 DEF Put
<1>5. fd_stack'[f] = k /\ \A g \in Fds \ {f} : fd_stack'[g] = fd_stack[g]
  BY <1>4, AllKnown DEF TypeOK
<1>6. req'.op = "write" /\ req'.fd = f
  BY <1>1, <1>4 DEF Request
<1>7. Head(req.buf) \in Vals
  BY <1>1 DEF Request
<1>8. ~ Freeing' /\ \A g \in Fds : ~ SeeksNow(g)'
  BY <1>6 DEF Freeing, SeeksNow
<1> QED
  BY <1>3, <1>4, <1>5, <1>6, <1>7, <1>8 DEF PutAt

\* A unit is written where the file store puts it.
LEMMA PutStep ==
  ASSUME Known, Sound', NEW p \in Paths, PathsInv(p), NEW r \in Paths, PathsInv(r)',
         NEW f \in Fds, NEW h \in FIL, NEW q \in Seq(Clusters), WriteAt(p, f, h, q),
         req.op = "write", NEW c, NEW k, PutAt(f, h, c, k), dir' = dir, faults' = faults,
         NEW v \in Vals,
         Values(r[h.ent])' = [i \in 1 .. (IF h.fptr < Len(q) THEN Len(q) ELSE Len(q) + 1) |->
                                IF i = h.fptr + 1 THEN v ELSE Values(q)[i]],
         \A s \in Slots \ {h.ent} : Values(r[s])' = Values(p[s])
  PROVE  Refined
<1>1. /\ f = req.fd /\ Opens(f) /\ h = fd_stack[f] /\ q = p[h.ent] /\ h.fs = 1
      /\ h.ent \in UsedSlots /\ h.fptr \in Nat /\ "WRITE" \in h.flag
      /\ \A g \in Fds \ {f} : Opens(g) => fd_stack[g].ent # h.ent
      /\ reply.buf = <<>>
  BY DEF WriteAt
<1>2. /\ k.fs = 1 /\ k.ent = h.ent /\ k.flag = h.flag /\ k.fptr = h.fptr + 1
      /\ fd_stack'[f] = k /\ \A g \in Fds \ {f} : fd_stack'[g] = fd_stack[g]
      /\ req'.op = "write" /\ req'.fd = f /\ reply' = reply
  BY DEF PutAt
<1>3. Plain'
  <2>1. Calm'
    BY <1>1, <1>2, AllKnown DEF Calm, Opens
  <2>2. NamesOnce'
    BY <1>2, AllKnown DEF NamesOnce, UsedSlots
  <2>3. Saved'
    BY <1>1, <1>2, AllKnown DEF Saved, Opens
  <2> QED
    BY <2>1, <2>2, <2>3 DEF Plain
<1>4. PICK n : n = dir[h.ent].name
  OBVIOUS
<1>5. PICK w : w = [i \in 1 .. (IF h.fptr < Len(q) THEN Len(q) ELSE Len(q) + 1) |->
                      IF i = h.fptr + 1 THEN v ELSE Values(q)[i]]
  OBVIOUS
<1>6. absFiles' = [absFiles EXCEPT ![n] = w]
  <2>1. FilesAre(p) /\ FilesAre(r)'
    BY <1>3, FilesRight, FilesNext DEF Known
  <2>2. PICK e \in UsedSlots : e = h.ent
    BY <1>1
  <2>3. Values(r[e])' = w /\ \A s \in Slots \ {e} : Values(r[s])' = Values(p[s])
    BY <1>5, <2>2
  <2> QED
    BY <1>4, <2>1, <2>2, <2>3, FilesChange
<1>7. Position(f) = h.fptr /\ Position(f)' = h.fptr + 1
  BY <1>1, <1>2 DEF Position
<1>8. absHandle' = [absHandle EXCEPT ![f].pos = h.fptr + 1]
  <2>1. \A g \in Fds : /\ Opens(g)' <=> Opens(g)
                       /\ Opens(g) => dir'[fd_stack'[g].ent].name = dir[fd_stack[g].ent].name
                       /\ Opens(g) /\ g # f => Position(g)' = Position(g)
    BY <1>1, <1>2, SMTT(30) DEF Opens, Position
  <2>2. PICK pos : pos = h.fptr + 1
    OBVIOUS
  <2> QED
    BY <1>1, <1>7, <2>1, <2>2, HandleMoves
<1>9. /\ f \in DOMAIN absHandle /\ absHandle[f].pos = h.fptr /\ absHandle[f].name = n
      /\ absFiles[n] = Values(q)
  BY <1>1, <1>4, <1>7, Seen
<1>10. Len(Values(q)) = Len(q)
  BY DEF Values
<1>11. absGot' = <<>>
  BY <1>1, <1>2 DEF absGot
<1>12. [Store!Next]_(Store!vars)
  <2>1. Store!Put(f, v)
    BY <1>5, <1>6, <1>8, <1>9, <1>10 DEF Store!Put
  <2> QED
    BY <1>11, <2>1 DEF Store!Next, Store!Change
<1> QED
  BY <1>3, <1>12 DEF Refined

\* f_write replaces a unit of the file.
LEMMA RefOverwrite ==
  ASSUME Known, Sound', NEW p \in Paths, PathsInv(p), NEW f \in Fds, NEW h \in FIL,
         NEW q \in Seq(Clusters), WriteAt(p, f, h, q), req.op = "write", req.buf # <<>>,
         h.fptr < Len(q), Put(f, WriteClust(h)), UNCHANGED <<fat, dir, faults>>
  PROVE  Refined
<1>1. /\ f = req.fd /\ Opens(f) /\ h = fd_stack[f] /\ q = p[h.ent] /\ h.fs = 1
      /\ h.ent \in 1 .. DirSize /\ h.fptr \in Nat /\ h.fsize \in Nat
      /\ Len(q) = Larger(h.fptr, h.fsize) /\ First(q) = h.org
      /\ ~ Freeing /\ \A g \in Fds : ~ SeeksNow(g)
  BY DEF WriteAt
<1>2. PICK c : c = q[h.fptr + 1]
  OBVIOUS
<1>3. c \in Clusters /\ WriteClust(h) = c
  BY <1>1, <1>2, NextUnit
<1>4. PICK k : PutAt(f, h, c, k)
  BY <1>3, Putting
<1>5. PICK v \in Vals : v = Head(req.buf)
  BY <1>4 DEF PutAt
<1>6. /\ fd_stack' = [fd_stack EXCEPT ![f] = k] /\ k.fs = 1 /\ k.ent = h.ent /\ k.flag = h.flag
      /\ k.fsize = h.fsize /\ k.org = FirstClust(h, c) /\ k.fptr = h.fptr + 1 /\ k.curr = c
      /\ ~ Freeing' /\ \A g \in Fds : ~ SeeksNow(g)'
      /\ data' = [data EXCEPT ![c] = v]
  BY <1>4, <1>5 DEF PutAt
<1>7. k.org = h.org
  BY <1>1, <1>3, <1>6 DEF FirstClust, WriteClust
<1>8. PathsInv(p)'
  <2>1. Span(k) = Span(h)
    <3>1. PICK m \in Nat, n \in Nat : m = h.fptr /\ n = h.fsize
      BY <1>1
    <3>2. m < Larger(m, n)
      BY <1>1, <3>1
    <3>3. Larger(m + 1, n) = Larger(m, n)
      BY <3>2 DEF Larger
    <3>4. k.fptr = h.fptr + 1 /\ k.fsize = h.fsize
      BY <1>6
    <3>5. k.fptr = m + 1 /\ k.fsize = n
      BY <3>1, <3>4
    <3> QED
      BY <3>1, <3>3, <3>5 DEF Span
  <2>2. PlacedAt(p[k.ent], k, SeeksNow(f)')
    <3>1. p[k.ent] = q /\ k.curr = q[k.fptr]
      <4>1. k.ent = h.ent /\ p[h.ent] = q
        BY <1>1, <1>6
      <4>2. k.fptr = h.fptr + 1 /\ k.curr = c /\ c = q[h.fptr + 1]
        BY <1>2, <1>6
      <4>3. p[k.ent] = q
        BY ONLY <4>1, Zenon
      <4>4. k.curr = q[k.fptr]
        BY ONLY <4>2, Zenon
      <4> QED
        BY ONLY <4>3, <4>4, Zenon
    <3>2. ~ SeeksNow(f)'
      BY <1>6
    <3>3. k.curr = p[k.ent][k.fptr]
      BY <3>1
    <3> QED
      BY <3>2, <3>3, SMTT(30) DEF PlacedAt
  <2>3. /\ k.ent = fd_stack[f].ent /\ k.org = fd_stack[f].org /\ Span(k) = Span(fd_stack[f])
        /\ "WRITE" \in k.flag <=> "WRITE" \in fd_stack[f].flag
    BY <1>1, <1>6, <1>7, <2>1
  <2> QED
    BY <1>1, <1>6, <2>2, <2>3, HandleStep
<1>9. \A x \in Clusters : data'[x] = IF x = c THEN v ELSE data[x]
  BY <1>6, AllKnown DEF TypeOK
<1>10. /\ Len(q) \in Nat /\ h.fptr + 1 \in 1 .. Len(q) /\ h.ent \in 0 .. DirSize
       /\ \A i \in 1 .. Len(q) : q[i] \in Clusters
  BY <1>1
<1>11. ASSUME NEW s \in 0 .. DirSize, NEW i \in 1 .. Len(p[s])
       PROVE  p[s][i] \in Clusters /\ (p[s][i] = c => s = h.ent /\ i = h.fptr + 1)
  <2>1. p[s] \in Seq(Clusters)
    BY DEF Paths
  <2>2. p[s][i] \in Clusters
    BY <2>1
  <2>3. p[s][i] = c => s = h.ent /\ i = h.fptr + 1
    <3>1. Distinct(p)
      BY DEF PathsInv, Chained
    <3>2. PICK e \in 0 .. DirSize, m \in 1 .. Len(q) : e = h.ent /\ m = h.fptr + 1
      BY <1>10
    <3>3. p[e][m] = c /\ m \in 1 .. Len(p[e])
      BY <1>1, <1>2, <3>2
    <3>4. p[s][i] = p[e][m] => s = e /\ i = m
      BY <3>1, <3>3 DEF Distinct
    <3> QED
      BY <3>2, <3>3, <3>4
  <2> QED
    BY <2>2, <2>3
<1>12. \A s \in Slots \ {h.ent} : Values(p[s])' = Values(p[s])
  <2> SUFFICES ASSUME NEW s \in Slots \ {h.ent} PROVE Values(p[s])' = Values(p[s])
    OBVIOUS
  <2>1. s \in 0 .. DirSize
    BY DEF Slots
  <2>2. \A i \in 1 .. Len(p[s]) : data'[p[s][i]] = data[p[s][i]]
    BY <1>9, <1>11, <2>1
  <2> QED
    BY <2>2 DEF Values
<1>13. Values(p[h.ent])' = [i \in 1 .. (IF h.fptr < Len(q) THEN Len(q) ELSE Len(q) + 1) |->
                              IF i = h.fptr + 1 THEN v ELSE Values(q)[i]]
  <2>1. Values(p[h.ent])' = [i \in 1 .. Len(q) |-> data'[q[i]]]
    BY <1>1 DEF Values
  <2>2. ASSUME NEW i \in 1 .. Len(q)
        PROVE  data'[q[i]] = IF i = h.fptr + 1 THEN v ELSE Values(q)[i]
    <3>1. Values(q)[i] = data[q[i]]
      BY DEF Values
    <3>2. q[i] \in Clusters /\ (q[i] = c => i = h.fptr + 1)
      BY <1>1, <1>10, <1>11
    <3> QED
      BY <1>2, <1>9, <3>1, <3>2
  <2> QED
    BY <2>1, <2>2
<1> QED
  BY <1>4, <1>8, <1>12, <1>13, PutStep

\* The path of a file gets a cluster that was free.
LEMMA PathGrows ==
  ASSUME Known, NEW p \in Paths, PathsInv(p), NEW e \in 1 .. DirSize, NEW q \in Seq(Clusters),
         q = p[e], NEW n \in Clusters, fat[n] = 0, NEW prev,
         q # <<>> => prev = q[Len(q)],
         fat' = (IF q = <<>> THEN [fat EXCEPT ![n] = EOC]
                 ELSE [[fat EXCEPT ![n] = EOC] EXCEPT ![prev] = n]),
         NEW r, r = [p EXCEPT ![e] = Append(q, n)]
  PROVE  r \in Paths /\ Chained(r)'
<1>1. /\ e \in 0 .. DirSize /\ Len(q) \in Nat
      /\ \A s \in 0 .. DirSize : p[s] \in Seq(Clusters) /\ Len(p[s]) \in Nat
      /\ \A s \in 0 .. DirSize : \A i \in 1 .. Len(p[s]) : p[s][i] \in Clusters
  BY SMTT(30) DEF Paths
<1>2. PICK b : b = Append(q, n)
  OBVIOUS
<1>3. /\ b \in Seq(Clusters) /\ Len(b) = Len(q) + 1 /\ b[Len(q) + 1] = n
      /\ \A i \in 1 .. Len(q) : b[i] = q[i]
  BY <1>2
<1>4. r[e] = b /\ \A s \in 0 .. DirSize : s # e => r[s] = p[s]
  BY <1>1, <1>2 DEF Paths
<1>5. r \in Paths
  BY <1>1, <1>2, <1>3 DEF Paths
<1>6. n # 0 /\ EOC # 0 /\ n # EOC
  BY FFSAssumption DEF Clusters, EOC
<1>7. \A s \in 0 .. DirSize : \A i \in 1 .. Len(p[s]) : p[s][i] # n
  <2> SUFFICES ASSUME NEW s \in 0 .. DirSize, NEW i \in 1 .. Len(p[s]) PROVE fat[p[s][i]] # 0
    OBVIOUS
  <2>1. fat[p[s][i]] = IF i < Len(p[s]) THEN p[s][i + 1] ELSE EOC
    BY DEF PathsInv, Chained, Linked
  <2>2. i < Len(p[s]) => i + 1 \in 1 .. Len(p[s])
    BY <1>1
  <2>3. i < Len(p[s]) => p[s][i + 1] # 0
    BY <1>1, <2>2 DEF Clusters
  <2> QED
    BY <1>6, <2>1, <2>3
<1>8. Distinct(r)
  <2> SUFFICES ASSUME NEW s \in 0 .. DirSize, NEW t \in 0 .. DirSize,
                      NEW i \in 1 .. Len(r[s]), NEW j \in 1 .. Len(r[t]), r[s][i] = r[t][j]
               PROVE  s = t /\ i = j
    BY DEF Distinct
  <2>1. \/ i \in 1 .. Len(p[s]) /\ r[s][i] = p[s][i]
        \/ s = e /\ i = Len(q) + 1 /\ r[s][i] = n
    BY <1>1, <1>3, <1>4
  <2>2. \/ j \in 1 .. Len(p[t]) /\ r[t][j] = p[t][j]
        \/ t = e /\ j = Len(q) + 1 /\ r[t][j] = n
    BY <1>1, <1>3, <1>4
  <2> QED
    BY <1>7, <2>1, <2>2 DEF PathsInv, Chained, Distinct
<1>9. fat'[n] = EOC /\ (q # <<>> => fat'[prev] = n)
      /\ \A x \in Clusters : x # n /\ (q = <<>> \/ x # prev) => fat'[x] = fat[x]
  <2>1. q # <<>> => prev \in Clusters /\ prev # n
    <3>1. q # <<>> => Len(q) \in 1 .. Len(q)
      OBVIOUS
    <3> QED
      BY <1>1, <1>7, <3>1
  <2> QED
    BY <2>1, AllKnown DEF TypeOK
<1>10. \A s \in 0 .. DirSize : Linked(r[s])'
  <2> SUFFICES ASSUME NEW s \in 0 .. DirSize, NEW i \in 1 .. Len(r[s])
               PROVE  fat'[r[s][i]] = IF i < Len(r[s]) THEN r[s][i + 1] ELSE EOC
    BY DEF Linked
  <2>1. CASE s # e
    <3>1. r[s] = p[s] /\ i \in 1 .. Len(p[s])
      BY <1>4, <2>1
    <3>2. fat[p[s][i]] = IF i < Len(p[s]) THEN p[s][i + 1] ELSE EOC
      BY <3>1 DEF PathsInv, Chained, Linked
    <3>3. p[s][i] # n /\ p[s][i] \in Clusters
      BY <1>1, <1>7, <3>1
    <3>4. q # <<>> => p[s][i] # prev
      <4>1. q # <<>> => Len(q) \in 1 .. Len(p[e])
        OBVIOUS
      <4> QED
        BY <1>1, <2>1, <3>1, <4>1, SMTT(30) DEF PathsInv, Chained, Distinct
    <3>5. fat'[p[s][i]] = fat[p[s][i]]
      BY <1>9, <3>3, <3>4
    <3> QED
      BY <3>1, <3>2, <3>5
  <2>2. CASE s = e /\ i = Len(q) + 1
    BY <1>1, <1>3, <1>4, <1>9, <2>2
  <2>3. CASE s = e /\ i = Len(q) /\ i # Len(q) + 1
    <3>1. q # <<>> /\ i \in 1 .. Len(q) /\ i < Len(b)
      BY <1>1, <1>3, <1>4, <2>3
    <3> QED
      BY <1>3, <1>4, <1>9, <2>3, <3>1
  <2>4. CASE s = e /\ i < Len(q)
    <3>1. i \in 1 .. Len(q) /\ i + 1 \in 1 .. Len(q) /\ i < Len(b) /\ q # <<>>
          /\ Len(q) \in 1 .. Len(q)
      BY <1>1, <1>3, <1>4, <2>4
    <3>2. fat[q[i]] = q[i + 1]
      BY <1>1, <2>4, <3>1 DEF PathsInv, Chained, Linked
    <3>3. q[i] # n /\ q[i] \in Clusters /\ q[i] # prev
      BY <1>1, <1>7, <2>4, <3>1 DEF PathsInv, Chained, Distinct
    <3> QED
      <4>1. fat'[q[i]] = q[i + 1]
        BY <1>9, <3>2, <3>3
      <4>2. b[i] = q[i] /\ b[i + 1] = q[i + 1]
        BY <1>3, <3>1
      <4> QED
        BY <1>4, <2>4, <3>1, <4>1, <4>2
  <2>5. i <= Len(q) + 1 \/ s # e
    BY <1>1, <1>3, <1>4
  <2> QED
    BY <1>1, <2>1, <2>2, <2>3, <2>4, <2>5
<1> QED
  BY <1>5, <1>8, <1>10 DEF Chained, Distinct

\* f_write appends a unit to the file.
LEMMA RefGrow ==
  ASSUME Known, Sound', NEW p \in Paths, PathsInv(p), NEW f \in Fds, NEW h \in FIL,
         NEW q \in Seq(Clusters), WriteAt(p, f, h, q), req.op = "write", req.buf # <<>>,
         h.fptr = Len(q), NEW n \in Clusters, create_chain(h, n), Put(f, n),
         UNCHANGED <<dir, faults>>
  PROVE  Refined
<1>1. /\ f = req.fd /\ Opens(f) /\ h = fd_stack[f] /\ q = p[h.ent] /\ h.fs = 1
      /\ h.ent \in 1 .. DirSize /\ h.fptr \in Nat /\ h.fsize \in Nat /\ h.ent \in UsedSlots
      /\ Len(q) = Larger(h.fptr, h.fsize) /\ First(q) = h.org /\ "WRITE" \in h.flag
      /\ h.fptr > 0 => h.curr = q[h.fptr]
      /\ \A g \in Fds \ {f} : Opens(g) => fd_stack[g].ent # h.ent
      /\ p[0] = <<>> /\ ~ Freeing /\ \A g \in Fds : ~ SeeksNow(g)
  BY DEF WriteAt
<1>2. PICK k : PutAt(f, h, n, k)
  BY Putting
<1>3. PICK v \in Vals : v = Head(req.buf)
  BY <1>2 DEF PutAt
<1>4. /\ fd_stack' = [fd_stack EXCEPT ![f] = k] /\ k.fs = 1 /\ k.ent = h.ent /\ k.flag = h.flag
      /\ k.fsize = h.fsize /\ k.org = FirstClust(h, n) /\ k.fptr = h.fptr + 1 /\ k.curr = n
      /\ fd_stack'[f] = k /\ \A g \in Fds \ {f} : fd_stack'[g] = fd_stack[g]
      /\ ~ Freeing' /\ \A g \in Fds : ~ SeeksNow(g)'
      /\ data' = [data EXCEPT ![n] = v]
  BY <1>2, <1>3 DEF PutAt
<1>5. q = <<>> <=> h.fptr = 0
  <2>1. q = <<>> <=> Len(q) = 0
    OBVIOUS
  <2> QED
    BY <2>1
<1>6. PICK e \in 1 .. DirSize : e = h.ent
  BY <1>1
<1>7. PICK r : r = [p EXCEPT ![e] = Append(q, n)]
  OBVIOUS
<1>8. PICK prev : prev = h.curr
  OBVIOUS
<1>9. r \in Paths /\ Chained(r)' /\ fat[n] = 0
  <2>1. q # <<>> => prev = q[Len(q)]
    BY <1>1, <1>5, <1>8
  <2>2. fat' = (IF q = <<>> THEN [fat EXCEPT ![n] = EOC]
                ELSE [[fat EXCEPT ![n] = EOC] EXCEPT ![prev] = n])
    BY <1>5, <1>8 DEF create_chain
  <2>3. fat[n] = 0
    BY DEF create_chain
  <2> QED
    BY <1>1, <1>6, <1>7, <2>1, <2>2, <2>3, PathGrows
<1>10. PICK b : b = Append(q, n)
  OBVIOUS
<1>11. /\ Len(q) \in Nat /\ Len(b) = Len(q) + 1 /\ b[Len(q) + 1] = n
       /\ \A i \in 1 .. Len(q) : b[i] = q[i]
  BY <1>10
<1>12. /\ r[e] = b /\ \A s \in 0 .. DirSize : s # e => r[s] = p[s]
       /\ e \in 0 .. DirSize /\ e \in Slots /\ e # 0
  BY <1>7, <1>10 DEF Paths, Slots
<1>13. EntriesOf(r)'
  <2> SUFFICES ASSUME NEW s \in Slots, \A g \in Fds : Writes(g)' => fd_stack'[g].ent # s
               PROVE  OfEntry(r[s], dir[s])
    BY DEF EntriesOf
  <2>1. Writes(f)' /\ fd_stack'[f].ent = e
    BY <1>1, <1>4, <1>6 DEF Writes, Opens
  <2>2. s # e /\ r[s] = p[s]
    BY <1>12, <2>1 DEF Slots
  <2>3. \A g \in Fds : Writes(g) => fd_stack[g].ent # s
    BY <1>1, <1>4, <1>6, <2>2 DEF Writes, Opens
  <2> QED
    BY <2>2, <2>3 DEF PathsInv, EntriesOf
<1>14. HandlesOf(r)'
  <2> SUFFICES ASSUME NEW g \in Fds, Opens(g)'
               PROVE  /\ OfFile(r[fd_stack'[g].ent], fd_stack'[g])
                      /\ PlacedAt(r[fd_stack'[g].ent], fd_stack'[g], SeeksNow(g)')
    BY DEF HandlesOf
  <2>1. CASE g = f
    <3>1. First(b) = k.org
      <4>1. CASE q = <<>>
        BY <1>4, <1>5, <1>10, <1>11, <4>1 DEF FirstClust, First
      <4>2. CASE q # <<>>
        <5>1. b # <<>> /\ b[1] = q[1]
          BY <1>11, <4>2
        <5> QED
          BY <1>1, <1>4, <1>5, <4>2, <5>1, SMTT(30) DEF FirstClust, First
      <4> QED
        BY <4>1, <4>2
    <3>2. Len(b) = Span(k)
      BY <1>1, <1>4, <1>11 DEF Span, Larger
    <3>3. PlacedAt(b, k, SeeksNow(g)')
      BY <1>4, <1>11 DEF PlacedAt
    <3> QED
      BY <1>4, <1>6, <1>12, <2>1, <3>1, <3>2, <3>3 DEF OfFile
  <2>2. CASE g # f
    <3>1. fd_stack'[g] = fd_stack[g] /\ Opens(g) /\ ~ SeeksNow(g) /\ ~ SeeksNow(g)'
      BY <1>1, <1>4, <2>2 DEF Opens
    <3>2. fd_stack[g].ent \in Slots /\ fd_stack[g].ent # e
      BY <1>1, <1>6, <2>2, <3>1, AllKnown DEF HandlesFit, Opens
    <3>3. r[fd_stack[g].ent] = p[fd_stack[g].ent]
      BY <1>12, <3>2 DEF Slots
    <3> QED
      BY <3>1, <3>3 DEF PathsInv, HandlesOf, PlacedAt
  <2> QED
    BY <2>1, <2>2
<1>15. PathsInv(r)'
  <2>1. r[0] = <<>>
    BY <1>1, <1>12, FFSAssumption
  <2>2. RemovalOf(r)'
    BY <1>4, <2>1 DEF RemovalOf
  <2> QED
    BY <1>9, <1>13, <1>14, <2>2 DEF PathsInv
<1>16. ASSUME NEW s \in 0 .. DirSize, NEW i \in 1 .. Len(p[s])
       PROVE  data'[p[s][i]] = data[p[s][i]]
  <2>1. p[s] \in Seq(Clusters) /\ Linked(p[s])
    BY DEF Paths, PathsInv, Chained
  <2>2. p[s][i] \in Clusters /\ (i < Len(p[s]) => p[s][i + 1] \in Clusters)
    BY <2>1
  <2>3. fat[p[s][i]] # 0
    <3>1. EOC # 0 /\ \A x \in Clusters : x # 0
      BY FFSAssumption DEF Clusters, EOC
    <3>2. fat[p[s][i]] = IF i < Len(p[s]) THEN p[s][i + 1] ELSE EOC
      BY <2>1 DEF Linked
    <3> QED
      BY <2>2, <3>1, <3>2
  <2> QED
    BY <1>4, <1>9, <2>2, <2>3, AllKnown DEF TypeOK
<1>17. \A s \in Slots \ {h.ent} : Values(r[s])' = Values(p[s])
  <2> SUFFICES ASSUME NEW s \in Slots \ {h.ent} PROVE Values(r[s])' = Values(p[s])
    OBVIOUS
  <2>1. s \in 0 .. DirSize /\ r[s] = p[s]
    BY <1>6, <1>12 DEF Slots
  <2> QED
    BY <1>16, <2>1 DEF Values
<1>18. Values(r[h.ent])' = [i \in 1 .. (IF h.fptr < Len(q) THEN Len(q) ELSE Len(q) + 1) |->
                              IF i = h.fptr + 1 THEN v ELSE Values(q)[i]]
  <2>1. Values(r[h.ent])' = [i \in 1 .. Len(q) + 1 |-> data'[b[i]]]
    BY <1>6, <1>11, <1>12 DEF Values
  <2>2. ASSUME NEW i \in 1 .. Len(q) + 1
        PROVE  data'[b[i]] = IF i = h.fptr + 1 THEN v ELSE Values(q)[i]
    <3>1. CASE i = Len(q) + 1
      BY <1>4, <1>11, <3>1, AllKnown DEF TypeOK
    <3>2. CASE i # Len(q) + 1
      <4>1. i \in 1 .. Len(q) /\ i \in 1 .. Len(p[e])
        <5>1. i \in 1 .. Len(q)
          BY <1>11, <3>2
        <5> QED
          BY <1>1, <1>6, <5>1
      <4>2. data'[q[i]] = data[q[i]] /\ Values(q)[i] = data[q[i]]
        BY <1>1, <1>6, <1>12, <1>16, <4>1 DEF Values
      <4> QED
        BY <1>11, <3>2, <4>1, <4>2
    <3> QED
      BY <3>1, <3>2
  <2>3. ~ h.fptr < Len(q)
    BY <1>1
  <2> QED
    BY <2>1, <2>2, <2>3
<1> QED
  BY <1>2, <1>9, <1>15, <1>17, <1>18, PutStep

\* f_write.
LEMMA RefWriteStep ==
  ASSUME Known, Sound', NEW p \in Paths, PathsInv(p), f_write_step
  PROVE  Refined
<1>1. req.op = "write" /\ req.buf # <<>> /\ UNCHANGED <<dir, faults>>
  BY DEF f_write_step
<1>2. PICK f \in Fds, h \in FIL, q \in Seq(Clusters) : WriteAt(p, f, h, q)
  BY <1>1, Writing
<1>3. /\ f = req.fd /\ h = fd_stack[f] /\ q = p[h.ent] /\ Opens(f) /\ ~ SeeksNow(f)
      /\ Len(q) = Larger(h.fptr, h.fsize) /\ h.fptr \in Nat /\ h.fsize \in Nat
  BY <1>2 DEF WriteAt
<1>0. /\ h.fptr < Len(q) => ~ Grows(h) /\ WriteClust(h) \in Clusters
      /\ h.fptr = Len(q) => Grows(h)
  BY <1>3, NextUnit
<1>4. CASE h.fptr < Len(q)
  <2>1. ~ Grows(h) /\ WriteClust(h) \in Clusters
    BY <1>0, <1>4
  <2>2. Put(f, WriteClust(h)) /\ fat' = fat
    BY <1>3, <2>1 DEF f_write_step
  <2> QED
    BY <1>1, <1>2, <1>4, <2>2, RefOverwrite
<1>5. CASE ~ (h.fptr < Len(q))
  <2>1. h.fptr = Len(q)
    BY <1>3, <1>5 DEF Larger
  <2>2. Grows(h)
    BY <1>0, <2>1
  <2>3. \/ \E n \in Clusters : create_chain(h, n) /\ Put(f, n)
        \/ /\ req' = [req EXCEPT !.buf = <<>>]
           /\ UNCHANGED <<fat, data, fd_stack, reply>>
    BY <1>3, <2>2 DEF f_write_step
  <2>4. CASE \E n \in Clusters : create_chain(h, n) /\ Put(f, n)
    BY <1>1, <1>2, <2>1, <2>4, RefGrow
  <2>5. CASE req' = [req EXCEPT !.buf = <<>>] /\ UNCHANGED <<fat, data, fd_stack, reply>>
    BY <1>1, <2>5, RefWriteFull
  <2> QED
    BY <2>3, <2>4, <2>5
<1> QED
  BY <1>4, <1>5

\* A path goes to an entry that has none.
LEMMA PathMoves ==
  ASSUME NEW p \in Paths, Chained(p), fat' = fat, NEW s \in 0 .. DirSize, NEW t \in 0 .. DirSize,
         s # t, p[t] = <<>>
  PROVE  \E r \in Paths : /\ Chained(r)' /\ r[t] = p[s] /\ r[s] = <<>>
                          /\ \A u \in 0 .. DirSize \ {s, t} : r[u] = p[u]
<1>1. PICK r : r = [u \in 0 .. DirSize |-> IF u = t THEN p[s] ELSE IF u = s THEN <<>> ELSE p[u]]
  OBVIOUS
<1>2. /\ r[t] = p[s] /\ r[s] = <<>>
      /\ \A u \in 0 .. DirSize \ {s, t} : r[u] = p[u]
  BY <1>1
<1>3. r \in Paths
  BY <1>1 DEF Paths
<1>4. Distinct(r)
  <2> SUFFICES ASSUME NEW u \in 0 .. DirSize, NEW v \in 0 .. DirSize,
                      NEW i \in 1 .. Len(r[u]), NEW j \in 1 .. Len(r[v]), r[u][i] = r[v][j]
               PROVE  u = v /\ i = j
    BY DEF Distinct
  <2>1. PICK x \in 0 .. DirSize : /\ r[u] = p[x] /\ (u = t => x = s) /\ (u # t => x = u)
                                  /\ u # s /\ (x = s => u = t)
    BY <1>2
  <2>2. PICK y \in 0 .. DirSize : /\ r[v] = p[y] /\ (v = t => y = s) /\ (v # t => y = v)
                                  /\ v # s /\ (y = s => v = t)
    BY <1>2
  <2>3. i \in 1 .. Len(p[x]) /\ j \in 1 .. Len(p[y]) /\ p[x][i] = p[y][j]
    BY <2>1, <2>2
  <2>0. Distinct(p)
    BY DEF Chained
  <2>4. x = y /\ i = j
    BY <2>0, <2>3, SMTT(30) DEF Distinct
  <2> QED
    BY <2>1, <2>2, <2>4
<1>5. \A u \in 0 .. DirSize : Linked(r[u])'
  <2> SUFFICES ASSUME NEW u \in 0 .. DirSize PROVE Linked(r[u])'
    OBVIOUS
  <2>1. CASE u = s
    BY <1>2, <2>1 DEF Linked
  <2>2. CASE u # s
    <3>1. PICK x \in 0 .. DirSize : r[u] = p[x]
      BY <1>2, <2>2
    <3> QED
      BY <3>1 DEF Chained, Linked
  <2> QED
    BY <2>1, <2>2
<1> QED
  BY <1>2, <1>3, <1>4, <1>5 DEF Chained, Distinct

\* An entry nobody has open is as its path says.
LEMMA Closed ==
  ASSUME Known, NEW p \in Paths, PathsInv(p), NEW s \in UsedSlots, Users(s) = {}
  PROVE  /\ OfEntry(p[s], dir[s]) /\ s \in Slots /\ s \in 0 .. DirSize /\ s # 0
         /\ p[s] \in Seq(Clusters)
         /\ \A g \in Fds : Opens(g) => fd_stack[g].ent # s /\ fd_stack[g].ent \in Slots
         /\ Store!NotOpen(dir[s].name)
<1>1. s \in Slots /\ s \in 0 .. DirSize /\ s # 0 /\ p[s] \in Seq(Clusters)
  BY DEF UsedSlots, Slots, Paths
<1>2. \A g \in Fds : Opens(g) => fd_stack[g].ent # s /\ fd_stack[g].ent \in UsedSlots
  BY AllKnown DEF Users, Opens, HandlesFit, UsedSlots
<1>3. OfEntry(p[s], dir[s])
  BY <1>1, <1>2 DEF PathsInv, EntriesOf, Writes
<1>4. Store!NotOpen(dir[s].name)
  <2> SUFFICES ASSUME NEW g \in DOMAIN absHandle PROVE absHandle[g].name # dir[s].name
    BY DEF Store!NotOpen
  <2>1. g \in Fds /\ Opens(g)
    BY HandlesRight DEF HandlesAre
  <2>2. absHandle[g].name = dir[fd_stack[g].ent].name
    BY <2>1, Seen
  <2> QED
    BY <1>2, <2>1, <2>2, AllKnown DEF NamesOnce
<1> QED
  BY <1>1, <1>2, <1>3, <1>4 DEF UsedSlots

\* f_unlink takes the entry away and leaves its path to remove_chain.
LEMMA RefUnlink ==
  ASSUME Known, Sound', NEW p \in Paths, PathsInv(p), req.op = "idle",
         NEW n \in Names, NEW s \in EntryOf(n), Users(s) = {},
         NEW op \in {"delete", "move"}, NEW src, NEW dst, op = "move" => dst = n,
         Unlink(s, op, src, dst), UNCHANGED <<fat, data, fd_stack, faults>>
  PROVE  Refined
<1>1. s \in UsedSlots /\ dir[s].name = n /\ n # NoName
  BY FFSAssumption DEF EntryOf, UsedSlots
<1>2. /\ OfEntry(p[s], dir[s]) /\ s \in Slots /\ s \in 0 .. DirSize /\ s # 0
      /\ p[s] \in Seq(Clusters)
      /\ \A g \in Fds : Opens(g) => fd_stack[g].ent # s /\ fd_stack[g].ent \in Slots
      /\ Store!NotOpen(n)
  BY <1>1, Closed
<1>3. p[0] = <<>> /\ Chained(p) /\ 0 \in 0 .. DirSize /\ \A g \in Fds : ~ SeeksNow(g)
  BY FFSAssumption DEF PathsInv, RemovalOf, Freeing, SeeksNow
<1>4. PICK r \in Paths : /\ Chained(r)' /\ r[0] = p[s] /\ r[s] = <<>>
                         /\ \A u \in 0 .. DirSize \ {s, 0} : r[u] = p[u]
  BY <1>2, <1>3, PathMoves
<1>5. /\ dir'[s] = NoEntry /\ dir'[s].name = NoName /\ dir'[s].clust = 0 /\ dir'[s].size = 0
      /\ \A t \in Slots \ {s} : dir'[t] = dir[t]
  BY <1>2, AllKnown DEF Unlink, TypeOK, NoEntry
<1>6. /\ req'.op = op /\ req'.clst = dir[s].clust /\ req'.dst = dst /\ reply'.buf = <<>>
      /\ Freeing' /\ \A g \in Fds : ~ SeeksNow(g)'
  <2>1. PICK x : x = [Idle EXCEPT !.op = op, !.clst = dir[s].clust, !.src = src, !.dst = dst]
    OBVIOUS
  <2>2. x.op = op /\ x.clst = dir[s].clust /\ x.dst = dst
    BY <2>1 DEF Idle
  <2>3. req' = x /\ reply' = NoReply
    BY <2>1 DEF Unlink, Start
  <2> QED
    BY <2>2, <2>3 DEF NoReply, Freeing, SeeksNow
<1>7. \A t \in Slots \ {s} : r[t] = p[t]
  BY <1>4 DEF Slots
<1>8. EntriesOf(r)'
  <2> SUFFICES ASSUME NEW t \in Slots, \A g \in Fds : Writes(g)' => fd_stack'[g].ent # t
               PROVE  OfEntry(r[t], dir'[t])
    BY DEF EntriesOf
  <2>1. CASE t = s
    BY <1>4, <1>5, <2>1 DEF OfEntry, First
  <2>2. CASE t # s
    BY <1>5, <1>7, <2>2 DEF PathsInv, EntriesOf, Writes, Opens
  <2> QED
    BY <2>1, <2>2
<1>9. HandlesOf(r)'
  <2> SUFFICES ASSUME NEW g \in Fds, Opens(g)
               PROVE  /\ OfFile(r[fd_stack[g].ent], fd_stack[g])
                      /\ PlacedAt(r[fd_stack[g].ent], fd_stack[g], SeeksNow(g)')
    BY DEF HandlesOf, Opens
  <2>1. r[fd_stack[g].ent] = p[fd_stack[g].ent]
    BY <1>2, <1>7
  <2> QED
    BY <1>3, <1>6, <2>1 DEF PathsInv, HandlesOf, PlacedAt
<1>10. RemovalOf(r)'
  <2>1. p[s] = <<>> => req'.clst \notin Clusters
    BY <1>2, <1>6 DEF OfEntry, First, Clusters
  <2>2. p[s] # <<>> => req'.clst = p[s][1]
    BY <1>2, <1>6 DEF OfEntry, First
  <2> QED
    BY <1>4, <1>6, <2>1, <2>2 DEF RemovalOf
<1>11. PathsInv(r)'
  BY <1>4, <1>8, <1>9, <1>10 DEF PathsInv
<1>12. Plain'
  <2>1. Calm'
    BY <1>6, AllKnown DEF Calm
  <2>2. \A t \in UsedSlots' : t \in UsedSlots /\ t # s /\ dir'[t] = dir[t]
    BY <1>5 DEF UsedSlots
  <2>3. NamesOnce'
    <3>1. \A t, u \in UsedSlots' : dir'[t].name = dir'[u].name => t = u
      BY <2>2, AllKnown DEF NamesOnce
    <3>2. op = "move" => ~ Exists(dst)'
      <4> SUFFICES ASSUME op = "move", NEW t \in Slots, dir'[t].name = dst PROVE FALSE
        BY DEF Exists, EntryOf
      <4>1. t \in UsedSlots'
        BY <1>1 DEF UsedSlots
      <4> QED
        BY <1>1, <2>2, <4>1, AllKnown DEF NamesOnce
    <3>3. ~ Exists(req.dst)' <=> ~ Exists(dst)'
      BY <1>6 DEF Exists, EntryOf
    <3> QED
      BY <1>6, <3>1, <3>2, <3>3 DEF NamesOnce
  <2>4. Saved'
    <3> SUFFICES ASSUME NEW g \in Fds, Opens(g), "WRITTEN" \notin fd_stack[g].flag
                 PROVE  /\ fd_stack[g].org = dir'[fd_stack[g].ent].clust
                        /\ fd_stack[g].fsize = dir'[fd_stack[g].ent].size
      BY DEF Saved, Opens
    <3> QED
      BY <1>2, <1>5, AllKnown DEF Saved
  <2> QED
    BY <2>1, <2>3, <2>4 DEF Plain
<1>13. n \in DOMAIN absFiles /\ absFiles' = Store!Without(absFiles, n)
  <2>1. FilesAre(p) /\ FilesAre(r)'
    BY <1>11, <1>12, FilesRight, FilesNext DEF Known
  <2>2. \A t \in Slots \ {s} : dir'[t].name = dir[t].name /\ r[t] = p[t]
    BY <1>5, <1>7
  <2> QED
    BY <1>1, <1>5, <2>1, <2>2, FilesShrink
<1>14. absHandle' = absHandle
  <2>1. \A g \in Fds : /\ Opens(g)' <=> Opens(g)
                       /\ Opens(g) => /\ dir'[fd_stack'[g].ent].name = dir[fd_stack[g].ent].name
                                      /\ Position(g)' = Position(g)
    BY <1>2, <1>5, <1>6 DEF Opens, Position
  <2> QED
    BY <2>1, SameHandles
<1>15. absGot' = <<>>
  BY <1>6 DEF absGot
<1>16. [Store!Next]_(Store!vars)
  <2>1. Store!Delete(n)
    BY <1>2, <1>13, <1>14 DEF Store!Delete
  <2> QED
    BY <1>15, <2>1 DEF Store!Next, Store!Change
<1> QED
  BY <1>11, <1>12, <1>16 DEF Refined

\* FS_DeleteFile.
LEMMA RefDelete ==
  ASSUME Known, Sound', NEW p \in Paths, PathsInv(p), req.op = "idle",
         NEW n \in Names, FS_DeleteFile(n)
  PROVE  Refined
<1>1. CASE Answer("delete", FS_NO_ENTRY, <<>>) /\ UNCHANGED <<dir, faults>>
  <2>1. UNCHANGED <<fat, data, dir, fd_stack, faults>>
    BY <1>1 DEF FS_DeleteFile
  <2> QED
    BY <1>1, <2>1, RefStill
<1>2. CASE \E s \in EntryOf(n) : MayShare(Users(s) # {}) /\ Unlink(s, "delete", NoName, NoName)
  <2>1. PICK s \in EntryOf(n) : MayShare(Users(s) # {}) /\ Unlink(s, "delete", NoName, NoName)
    BY <1>2
  <2>2. PICK c \in BOOLEAN : c = (Users(s) # {})
    OBVIOUS
  <2>3. Users(s) = {} /\ faults' = {} /\ faults = {}
    BY <2>1, <2>2, AllKnown, NoFault DEF Calm
  <2>4. UNCHANGED <<fat, data, fd_stack, faults>>
    BY <2>3 DEF FS_DeleteFile
  <2> QED
    BY <2>1, <2>3, <2>4, RefUnlink
<1> QED
  BY <1>1, <1>2 DEF FS_DeleteFile

\* f_rename takes the entry and the path of a file nobody has open to another entry.
LEMMA RefRename ==
  ASSUME Known, Sound', NEW p \in Paths, PathsInv(p), req.op \in {"idle", "move"}, p[0] = <<>>,
         NEW n \in Names, NEW s \in EntryOf(n), Users(s) = {},
         NEW m \in Names, ~ Exists(m), NEW t \in Slots, FreeEntry(t),
         dir' = [dir EXCEPT ![t] = [dir[s] EXCEPT !.name = m], ![s] = NoEntry],
         NEW ret, Answer("move", ret, <<>>), UNCHANGED <<fat, data, fd_stack, faults>>
  PROVE  Refined
<1>1. s \in UsedSlots /\ dir[s].name = n /\ n # NoName /\ m # NoName
  BY FFSAssumption DEF EntryOf, UsedSlots
<1>2. /\ OfEntry(p[s], dir[s]) /\ s \in Slots /\ s \in 0 .. DirSize /\ s # 0
      /\ p[s] \in Seq(Clusters)
      /\ \A g \in Fds : Opens(g) => fd_stack[g].ent # s /\ fd_stack[g].ent \in Slots
      /\ Store!NotOpen(n)
  BY <1>1, Closed
<1>3. /\ dir[t].name = NoName /\ t # s /\ t \in 0 .. DirSize /\ t # 0 /\ p[t] = <<>>
      /\ \A g \in Fds : Opens(g) => fd_stack[g].ent # t
  <2>1. dir[t].name = NoName /\ t \in 0 .. DirSize /\ t # 0
    BY DEF FreeEntry, Slots
  <2> QED
    BY <1>1, <2>1, Unused
<1>4. Chained(p) /\ \A g \in Fds : ~ SeeksNow(g)
  BY DEF PathsInv, SeeksNow
<1>5. PICK r \in Paths : /\ Chained(r)' /\ r[t] = p[s] /\ r[s] = <<>>
                         /\ \A u \in 0 .. DirSize \ {s, t} : r[u] = p[u]
  BY <1>2, <1>3, <1>4, PathMoves
<1>6. /\ dir'[s] = NoEntry /\ dir'[s].name = NoName /\ dir'[s].clust = 0 /\ dir'[s].size = 0
      /\ dir'[t].name = m /\ dir'[t].clust = dir[s].clust /\ dir'[t].size = dir[s].size
      /\ \A u \in Slots \ {s, t} : dir'[u] = dir[u]
  <2>1. dir \in [Slots -> Entry] /\ dir[s] \in Entry
    BY <1>2, AllKnown DEF TypeOK
  <2>2. PICK e : e = [dir[s] EXCEPT !.name = m]
    OBVIOUS
  <2>3. e.name = m /\ e.clust = dir[s].clust /\ e.size = dir[s].size
    BY <2>1, <2>2 DEF Entry
  <2>4. dir'[t] = e /\ dir'[s] = NoEntry /\ \A u \in Slots \ {s, t} : dir'[u] = dir[u]
    BY <1>2, <1>3, <2>1, <2>2
  <2>5. dir'[s].name = NoName /\ dir'[s].clust = 0 /\ dir'[s].size = 0
    BY <2>4 DEF NoEntry
  <2>6. dir'[t].name = m /\ dir'[t].clust = dir[s].clust /\ dir'[t].size = dir[s].size
    BY <2>3, <2>4
  <2> QED
    BY <2>4, <2>5, <2>6
<1>7. req'.op = "idle" /\ reply'.buf = <<>> /\ ~ Freeing' /\ \A g \in Fds : ~ SeeksNow(g)'
  BY DEF Answer, Idle, Freeing, SeeksNow
<1>8. r[0] = <<>> /\ \A u \in Slots \ {s, t} : r[u] = p[u]
  BY <1>2, <1>3, <1>5, FFSAssumption DEF Slots
<1>9. EntriesOf(r)'
  <2> SUFFICES ASSUME NEW u \in Slots, \A g \in Fds : Writes(g)' => fd_stack'[g].ent # u
               PROVE  OfEntry(r[u], dir'[u])
    BY DEF EntriesOf
  <2>1. CASE u = s
    BY <1>5, <1>6, <2>1 DEF OfEntry, First
  <2>2. CASE u = t
    BY <1>2, <1>5, <1>6, <2>2 DEF OfEntry
  <2>3. CASE u \notin {s, t}
    BY <1>6, <1>8, <2>3 DEF PathsInv, EntriesOf, Writes, Opens
  <2> QED
    BY <2>1, <2>2, <2>3
<1>10. HandlesOf(r)'
  <2> SUFFICES ASSUME NEW g \in Fds, Opens(g)
               PROVE  /\ OfFile(r[fd_stack[g].ent], fd_stack[g])
                      /\ PlacedAt(r[fd_stack[g].ent], fd_stack[g], SeeksNow(g)')
    BY DEF HandlesOf, Opens
  <2>1. r[fd_stack[g].ent] = p[fd_stack[g].ent]
    BY <1>2, <1>3, <1>8
  <2> QED
    BY <1>4, <1>7, <2>1 DEF PathsInv, HandlesOf, PlacedAt
<1>11. PathsInv(r)'
  BY <1>5, <1>7, <1>8, <1>9, <1>10 DEF PathsInv, RemovalOf
<1>12. Plain'
  <2>1. Calm'
    BY <1>7, AllKnown DEF Calm
  <2>2. NamesOnce'
    <3> SUFFICES ASSUME NEW u \in UsedSlots', NEW v \in UsedSlots', dir'[u].name = dir'[v].name
                 PROVE  u = v
      BY <1>7 DEF NamesOnce
    <3>1. \A x \in UsedSlots' : \/ x = t
                                \/ /\ x \in UsedSlots /\ x \in Slots \ {s, t}
                                   /\ dir'[x] = dir[x] /\ dir[x].name # m
      BY <1>6 DEF UsedSlots, Exists, EntryOf
    <3>2. u = t <=> v = t
      BY <1>6, <3>1
    <3>3. u # t /\ v # t => u = v
      <4>1. \A x, y \in UsedSlots : dir[x].name = dir[y].name => x = y
        BY AllKnown DEF NamesOnce
      <4> QED
        BY <3>1, <4>1
    <3> QED
      BY <3>2, <3>3
  <2>3. Saved'
    <3> SUFFICES ASSUME NEW g \in Fds, Opens(g), "WRITTEN" \notin fd_stack[g].flag
                 PROVE  /\ fd_stack[g].org = dir'[fd_stack[g].ent].clust
                        /\ fd_stack[g].fsize = dir'[fd_stack[g].ent].size
      BY DEF Saved, Opens
    <3>1. PICK e \in Slots \ {s, t} : e = fd_stack[g].ent
      BY <1>2, <1>3
    <3>2. dir'[e] = dir[e]
      BY <1>6
    <3>3. req.op # "write"
      OBVIOUS
    <3>4. fd_stack[g].org = dir[e].clust /\ fd_stack[g].fsize = dir[e].size
      BY <3>1, <3>3, AllKnown DEF Saved
    <3> QED
      BY <3>1, <3>2, <3>4
  <2> QED
    BY <2>1, <2>2, <2>3 DEF Plain
<1>13. /\ n \in DOMAIN absFiles /\ m \notin DOMAIN absFiles
       /\ absFiles' = Store!With(Store!Without(absFiles, n), m, absFiles[n])
  <2>1. FilesAre(p) /\ FilesAre(r)'
    BY <1>11, <1>12, FilesRight, FilesNext DEF Known
  <2>2. \A u \in Slots \ {s, t} : dir'[u].name = dir[u].name /\ r[u] = p[u]
    BY <1>6, <1>8
  <2>3. dir'[s].name = NoName /\ dir[t].name = NoName /\ dir'[t].name = m /\ r[t] = p[s]
    BY <1>3, <1>5, <1>6
  <2>4. /\ dir[s].name \in DOMAIN absFiles /\ m \notin DOMAIN absFiles
        /\ absFiles' = Store!With(Store!Without(absFiles, dir[s].name), m,
                                  absFiles[dir[s].name])
    <3>1. Renaming(p, r, s, t, m)
      BY <1>1, <2>1, <2>2, <2>3 DEF Renaming
    <3> QED
      BY <2>1, <3>1, FilesRenamed
  <2> QED
    BY <1>1, <2>4
<1>14. absHandle' = absHandle
  <2>1. \A g \in Fds : /\ Opens(g)' <=> Opens(g)
                       /\ Opens(g) => /\ dir'[fd_stack'[g].ent].name = dir[fd_stack[g].ent].name
                                      /\ Position(g)' = Position(g)
    BY <1>2, <1>3, <1>6, <1>7 DEF Opens, Position
  <2> QED
    BY <2>1, SameHandles
<1>15. absGot' = <<>>
  BY <1>7 DEF absGot
<1>16. [Store!Next]_(Store!vars)
  <2>1. Store!Rename(n, m)
    BY <1>2, <1>13, <1>14 DEF Store!Rename
  <2> QED
    BY <1>15, <2>1 DEF Store!Next, Store!Change
<1> QED
  BY <1>11, <1>12, <1>16 DEF Refined

\* The f_rename of FS_Move, at once or after the old target was removed.
LEMMA RefRenames ==
  ASSUME Known, Sound', NEW p \in Paths, PathsInv(p), req.op \in {"idle", "move"}, p[0] = <<>>,
         NEW src \in Names, NEW dst \in Names, ~ Exists(dst),
         ~ DirFull => \A s \in EntryOf(src) : Users(s) = {},
         Rename(src, dst), UNCHANGED <<fat, data, fd_stack, faults>>
  PROVE  Refined
<1>1. PICK s \in EntryOf(src) :
        IF DirFull
        THEN Answer("move", FS_FATAL, <<>>) /\ dir' = dir
        ELSE \E t \in Slots :
               /\ FreeEntry(t)
               /\ dir' = [dir EXCEPT ![t] = [dir[s] EXCEPT !.name = dst], ![s] = NoEntry]
               /\ Answer("move", FS_SUCCESS, <<>>)
  BY DEF Rename
<1>2. CASE DirFull
  <2>1. req' = Idle /\ absGot' = <<>> /\ req.op \notin {"write", "seek"}
    BY <1>1, <1>2 DEF Answer, absGot, Idle
  <2>2. UNCHANGED <<fat, data, dir, fd_stack, faults>>
    BY <1>1, <1>2
  <2> QED
    BY <2>1, <2>2, StillStep
<1>3. CASE ~ DirFull
  <2>1. PICK t \in Slots :
          /\ FreeEntry(t)
          /\ dir' = [dir EXCEPT ![t] = [dir[s] EXCEPT !.name = dst], ![s] = NoEntry]
          /\ Answer("move", FS_SUCCESS, <<>>)
    BY <1>1, <1>3
  <2>2. Users(s) = {}
    BY <1>3
  <2> QED
    BY <2>1, <2>2, RefRename
<1> QED
  BY <1>2, <1>3

\* FS_Move.
LEMMA RefMove ==
  ASSUME Known, Sound', NEW p \in Paths, PathsInv(p), req.op = "idle",
         NEW src \in Names, NEW dst \in Names, FS_Move(src, dst)
  PROVE  Refined
<1>0. p[0] = <<>> /\ UNCHANGED <<fat, data, fd_stack>>
  BY DEF PathsInv, RemovalOf, Freeing, FS_Move
<1>1. CASE Answer("move", FS_NO_ENTRY, <<>>) /\ UNCHANGED <<dir, faults>>
  <2>1. UNCHANGED <<fat, data, dir, fd_stack, faults>>
    BY <1>0, <1>1
  <2> QED
    BY <1>1, <2>1, RefStill
<1>2. CASE /\ ~ Exists(dst)
           /\ MayShare(~ DirFull /\ \E s \in EntryOf(src) : Users(s) # {})
           /\ Rename(src, dst)
  <2>1. PICK c \in BOOLEAN : c = (~ DirFull /\ \E s \in EntryOf(src) : Users(s) # {})
    OBVIOUS
  <2>2. /\ ~ DirFull => \A s \in EntryOf(src) : Users(s) = {}
        /\ faults' = {} /\ faults = {}
    BY <1>2, <2>1, AllKnown, NoFault DEF Calm
  <2>3. UNCHANGED <<fat, data, fd_stack, faults>>
    BY <1>0, <2>2
  <2> QED
    BY <1>0, <1>2, <2>2, <2>3, RefRenames
<1>3. CASE /\ MayShare(\E s \in EntryOf(src) \cup EntryOf(dst) : Users(s) # {})
           /\ \E d \in EntryOf(dst) : Unlink(d, "move", src, dst)
  <2>1. PICK d \in EntryOf(dst) : Unlink(d, "move", src, dst)
    BY <1>3
  <2>2. PICK c \in BOOLEAN : c = (\E s \in EntryOf(src) \cup EntryOf(dst) : Users(s) # {})
    OBVIOUS
  <2>3. Users(d) = {} /\ faults' = {} /\ faults = {}
    BY <1>3, <2>2, AllKnown, NoFault DEF Calm
  <2>4. UNCHANGED <<fat, data, fd_stack, faults>>
    BY <1>0, <2>3
  <2> QED
    BY <2>1, <2>3, <2>4, RefUnlink
<1>4. ~ Rename_error(src, dst)
  BY AllKnown, NoFault DEF Rename_error, Calm
<1> QED
  BY <1>1, <1>2, <1>3, <1>4 DEF FS_Move

\* The first cluster of path 0 is freed.
LEMMA PathShrinks ==
  ASSUME Known, NEW p \in Paths, Chained(p), p[0] # <<>>, NEW c, c = p[0][1],
         fat' = [fat EXCEPT ![c] = 0]
  PROVE  /\ c \in Clusters
         /\ fat[c] = IF Tail(p[0]) = <<>> THEN EOC ELSE Tail(p[0])[1]
         /\ \E r \in Paths : /\ Chained(r)' /\ r[0] = Tail(p[0])
                             /\ \A s \in Slots : r[s] = p[s]
<1>0. PICK q \in Seq(Clusters), n \in Nat : /\ q = p[0] /\ n = Len(q) /\ n > 0
                                            /\ q[1] \in Clusters
  <2>1. PICK q \in Seq(Clusters) : q = p[0] /\ q # <<>>
    BY FFSAssumption DEF Paths
  <2>2. Len(q) > 0 /\ q[1] \in Clusters
    BY <2>1, FirstRight
  <2>3. Len(q) \in Nat
    BY <2>1
  <2> QED
    BY <2>1, <2>2, <2>3
<1>t. PICK w \in Seq(Clusters) : /\ w = Tail(q) /\ Len(w) = n - 1
                                 /\ \A i \in 1 .. Len(w) : w[i] = q[i + 1] /\ i + 1 \in 1 .. n
                                 /\ w = <<>> <=> n = 1
  <2>0. q # <<>>
    BY <1>0
  <2>1. Tail(q) \in Seq(Clusters) /\ Len(Tail(q)) = n - 1
    BY <1>0, <2>0
  <2>2. \A i \in 1 .. n - 1 : Tail(q)[i] = q[i + 1]
    BY <1>0, <2>0
  <2>3. PICK v \in Seq(Clusters) : v = Tail(q)
    BY <2>1
  <2>6. v = <<>> <=> Len(v) = 0
    OBVIOUS
  <2>4. Tail(q) = <<>> <=> n = 1
    BY <1>0, <2>1, <2>3, <2>6
  <2>5. \A i \in 1 .. n - 1 : i + 1 \in 1 .. n
    BY <1>0
  <2> QED
    BY <2>1, <2>2, <2>4, <2>5
<1>1. c \in Clusters /\ 1 \in 1 .. n
  <2>1. p[0][1] = q[1]
    BY <1>0
  <2>2. 1 \in 1 .. n
    BY <1>0
  <2> QED
    BY <1>0, <2>1, <2>2
<1>2. Distinct(p) /\ Linked(q) /\ 0 \in 0 .. DirSize
  BY <1>0, FFSAssumption DEF Chained
<1>3. fat[c] = IF w = <<>> THEN EOC ELSE w[1]
  <2>1. fat[c] = IF 1 < n THEN q[2] ELSE EOC
    BY <1>0, <1>1, <1>2 DEF Linked
  <2>2. n > 1 => w[1] = q[2]
    <3>1. n > 1 => 1 \in 1 .. Len(w)
      BY <1>t
    <3> QED
      BY <1>t, <3>1
  <2>0. n > 0
    BY <1>0
  <2>3. n > 1 <=> n # 1
    BY <2>0
  <2> QED
    BY <1>t, <2>1, <2>2, <2>3
<1>4. PICK r : r = [s \in 0 .. DirSize |-> IF s = 0 THEN w ELSE p[s]]
  OBVIOUS
<1>5. r[0] = w /\ \A s \in 0 .. DirSize : s # 0 => r[s] = p[s]
  BY <1>2, <1>4
<1>6. r \in Paths
  BY <1>4 DEF Paths
<1>7. \A s \in 0 .. DirSize : \A i \in 1 .. Len(r[s]) :
        \E j \in 1 .. Len(p[s]) : /\ r[s][i] = p[s][j] /\ j = (IF s = 0 THEN i + 1 ELSE i)
  <2> TAKE s \in 0 .. DirSize
  <2> TAKE i \in 1 .. Len(r[s])
  <2>1. CASE s = 0
    BY <1>0, <1>5, <1>t, <2>1
  <2>2. CASE s # 0
    BY <1>5, <2>2
  <2> QED
    BY <2>1, <2>2
<1>8. Distinct(r)
  <2> SUFFICES ASSUME NEW u \in 0 .. DirSize, NEW v \in 0 .. DirSize,
                      NEW i \in 1 .. Len(r[u]), NEW j \in 1 .. Len(r[v]), r[u][i] = r[v][j]
               PROVE  u = v /\ i = j
    BY DEF Distinct
  <2>1. PICK x \in 1 .. Len(p[u]) : r[u][i] = p[u][x] /\ x = (IF u = 0 THEN i + 1 ELSE i)
    BY <1>7
  <2>2. PICK y \in 1 .. Len(p[v]) : r[v][j] = p[v][y] /\ y = (IF v = 0 THEN j + 1 ELSE j)
    BY <1>7
  <2>0. p[u][x] = p[v][y]
    BY <2>1, <2>2
  <2>3. u = v /\ x = y
    BY <1>2, <2>0 DEF Distinct
  <2>4. i \in Int /\ j \in Int
    OBVIOUS
  <2> QED
    BY <2>1, <2>2, <2>3, <2>4
<1>9. fat'[c] = 0 /\ \A d \in Clusters \ {c} : fat'[d] = fat[d]
  BY <1>1, AllKnown DEF TypeOK
<1>10. \A s \in 0 .. DirSize : \A i \in 1 .. Len(r[s]) : r[s][i] # c /\ r[s][i] \in Clusters
  <2> TAKE s \in 0 .. DirSize
  <2> TAKE i \in 1 .. Len(r[s])
  <2>1. PICK x \in 1 .. Len(p[s]) : r[s][i] = p[s][x] /\ x = (IF s = 0 THEN i + 1 ELSE i)
    BY <1>7
  <2>2. p[s] \in Seq(Clusters) /\ p[s][x] \in Clusters
    BY DEF Paths
  <2>3. p[s][x] = c => s = 0 /\ x = 1
    BY <1>0, <1>1, <1>2 DEF Distinct
  <2>4. i >= 1
    OBVIOUS
  <2> QED
    BY <2>1, <2>2, <2>3, <2>4
<1>11. \A s \in 0 .. DirSize : Linked(r[s])'
  <2> TAKE s \in 0 .. DirSize
  <2> SUFFICES ASSUME NEW i \in 1 .. Len(r[s])
               PROVE  fat'[r[s][i]] = IF i < Len(r[s]) THEN r[s][i + 1] ELSE EOC
    BY DEF Linked
  <2>1. fat'[r[s][i]] = fat[r[s][i]]
    BY <1>9, <1>10
  <2>2. CASE s # 0
    BY <1>5, <2>1, <2>2 DEF Chained, Linked
  <2>3. CASE s = 0
    <3>1. r[s] = w /\ i \in 1 .. Len(w) /\ w[i] = q[i + 1] /\ i + 1 \in 1 .. n
      BY <1>5, <1>t, <2>3
    <3>2. fat[q[i + 1]] = IF i + 1 < n THEN q[i + 2] ELSE EOC
      BY <1>0, <1>2, <3>1 DEF Linked
    <3>3. i + 1 < n <=> i < Len(w)
      BY <1>t, <3>1
    <3>4. i < Len(w) => w[i + 1] = q[i + 2]
      <4>1. i < Len(w) => i + 1 \in 1 .. Len(w)
        BY <1>t, <3>1
      <4> QED
        BY <1>t, <4>1
    <3> QED
      BY <2>1, <3>1, <3>2, <3>3, <3>4
  <2> QED
    BY <2>2, <2>3
<1>12. Chained(r)'
  BY <1>8, <1>11 DEF Chained, Distinct
<1>13. \A s \in Slots : r[s] = p[s]
  BY <1>5 DEF Slots
<1> QED
  BY <1>0, <1>1, <1>3, <1>5, <1>6, <1>12, <1>13, <1>t

\* A round of remove_chain.
LEMMA RefRemoveStep ==
  ASSUME Known, Sound', NEW p \in Paths, PathsInv(p), remove_chain_step
  PROVE  Refined
<1>1. PICK c : c = req.clst
  OBVIOUS
<1>2. /\ Freeing /\ c \in Clusters /\ fat' = [fat EXCEPT ![c] = 0]
      /\ req' = [req EXCEPT !.clst = fat[c]]
      /\ UNCHANGED <<data, dir, fd_stack, reply, faults>>
  BY <1>1 DEF remove_chain_step
<1>3. p[0] # <<>> /\ c = p[0][1] /\ Chained(p)
  BY <1>1, <1>2 DEF PathsInv, RemovalOf
<1>4. /\ fat[c] = IF Tail(p[0]) = <<>> THEN EOC ELSE Tail(p[0])[1]
      /\ \E r \in Paths : /\ Chained(r)' /\ r[0] = Tail(p[0])
                          /\ \A s \in Slots : r[s] = p[s]
  BY <1>2, <1>3, PathShrinks
<1>5. PICK r \in Paths : Chained(r)' /\ r[0] = Tail(p[0]) /\ \A s \in Slots : r[s] = p[s]
  BY <1>4
<1>6. /\ req'.op = req.op /\ req'.clst = fat[c] /\ req'.dst = req.dst /\ Freeing'
      /\ req.op \in {"delete", "move"}
      /\ \A g \in Fds : ~ SeeksNow(g) /\ ~ SeeksNow(g)'
  <2>1. req \in Request /\ req.op \in {"delete", "move"}
    BY <1>2, AllKnown DEF TypeOK, Freeing
  <2>2. req'.op = req.op /\ req'.clst = fat[c] /\ req'.dst = req.dst
    BY <1>2, <2>1 DEF Request
  <2> QED
    BY <2>1, <2>2 DEF Freeing, SeeksNow
<1>7. EntriesOf(r)'
  BY <1>2, <1>5 DEF PathsInv, EntriesOf, Writes, Opens
<1>8. \A g \in Fds : Opens(g) => fd_stack[g].ent \in Slots
  BY AllKnown DEF HandlesFit, Opens
<1>9. HandlesOf(r)'
  BY <1>2, <1>5, <1>6, <1>8 DEF PathsInv, HandlesOf, Opens, PlacedAt
<1>10. RemovalOf(r)'
  <2>1. EOC \notin Clusters
    BY FFSAssumption DEF EOC, Clusters
  <2> QED
    BY <1>4, <1>5, <1>6, <2>1 DEF RemovalOf
<1>11. PathsInv(r)'
  BY <1>5, <1>7, <1>9, <1>10 DEF PathsInv
<1>12. Plain'
  <2>1. Calm'
    BY <1>2, <1>6, AllKnown DEF Calm
  <2>2. NamesOnce'
    BY <1>2, <1>6, AllKnown DEF NamesOnce, UsedSlots, Exists, EntryOf
  <2>3. Saved'
    BY <1>2, <1>6, AllKnown DEF Saved, Opens
  <2> QED
    BY <2>1, <2>2, <2>3 DEF Plain
<1>13. absFiles' = absFiles
  <2>1. FilesAre(p) /\ FilesAre(r)'
    BY <1>11, <1>12, FilesRight, FilesNext DEF Known
  <2>2. \A s \in Slots : dir'[s].name = dir[s].name
    BY <1>2
  <2>3. \A s \in UsedSlots : Values(r[s])' = Values(p[s])
    BY <1>2, <1>5 DEF Values, UsedSlots
  <2> QED
    BY <2>1, <2>2, <2>3, SameFiles
<1>14. absHandle' = absHandle
  <2>1. \A g \in Fds : /\ Opens(g)' <=> Opens(g)
                       /\ Opens(g) => /\ dir'[fd_stack'[g].ent].name = dir[fd_stack[g].ent].name
                                      /\ Position(g)' = Position(g)
    BY <1>2, <1>6 DEF Opens, Position
  <2> QED
    BY <2>1, SameHandles
<1>15. absGot' = absGot
  BY <1>2, <1>6 DEF absGot
<1>16. [Store!Next]_(Store!vars)
  BY <1>13, <1>14, <1>15 DEF Store!vars
<1> QED
  BY <1>11, <1>12, <1>16 DEF Refined

\* The end of remove_chain: every cluster of the file is free.
LEMMA RefRemoveEnd ==
  ASSUME Known, Sound', NEW p \in Paths, PathsInv(p), remove_chain_end
  PROVE  Refined
<1>1. PICK c : c = req.clst
  OBVIOUS
<1>2. /\ Freeing
      /\ c \in Clusters => fat[c] = 0
      /\ UNCHANGED <<fat, data, fd_stack, faults>>
  BY <1>1 DEF remove_chain_end
<1>3. p[0] = <<>>
  <2> SUFFICES ASSUME p[0] # <<>> PROVE FALSE
    OBVIOUS
  <2>1. 0 \in 0 .. DirSize /\ p[0] \in Seq(Clusters) /\ Linked(p[0])
    BY FFSAssumption DEF Paths, PathsInv, Chained
  <2>2. c = p[0][1] /\ c \in Clusters /\ 1 \in 1 .. Len(p[0])
    <3>1. First(p[0]) = p[0][1] /\ p[0][1] \in Clusters /\ Len(p[0]) > 0
      BY <2>1, FirstRight
    <3>2. c = p[0][1]
      BY <1>1, <1>2 DEF PathsInv, RemovalOf
    <3>3. Len(p[0]) \in Nat
      BY <2>1
    <3> QED
      BY <3>1, <3>2, <3>3
  <2>3. fat[c] = IF 1 < Len(p[0]) THEN p[0][2] ELSE EOC
    BY <2>1, <2>2 DEF Linked
  <2>4. 1 < Len(p[0]) => p[0][2] \in Clusters
    BY <2>1
  <2> QED
    BY <1>2, <2>2, <2>3, <2>4, FFSAssumption DEF EOC, Clusters
<1>4. CASE (Answer("move", FS_FATAL, <<>>) \/ Answer("delete", FS_SUCCESS, <<>>)) /\ dir' = dir
  <2>1. req' = Idle /\ absGot' = <<>> /\ req.op \notin {"write", "seek"}
    BY <1>2, <1>4 DEF Answer, absGot, Idle, Freeing
  <2>2. UNCHANGED <<fat, data, dir, fd_stack, faults>>
    BY <1>2, <1>4
  <2> QED
    BY <1>3, <2>1, <2>2, StillStep
<1>5. CASE req.op = "move" /\ Rename(req.src, req.dst)
  <2>1. PICK src, dst : src = req.src /\ dst = req.dst
    OBVIOUS
  <2>2. /\ src \in Names /\ dst \in Names /\ ~ Exists(dst)
        /\ \A s \in EntryOf(src) : Users(s) = {}
    BY <1>5, <2>1, AllKnown DEF RequestFits, NamesOnce
  <2>3. Rename(src, dst)
    BY <1>5, <2>1
  <2> QED
    BY <1>2, <1>3, <1>5, <2>2, <2>3, RefRenames
<1> QED
  BY <1>4, <1>5 DEF remove_chain_end
-----------------------------------------------------------------------------
(***************************************************************************)
(* The refinement.                                                         *)
(***************************************************************************)

\* A new message.
LEMMA RefReceive ==
  ASSUME Known, Sound', NEW p \in Paths, PathsInv(p), Receive
  PROVE  Refined
<1>0. req.op = "idle"
  BY DEF Receive
<1>1. ASSUME NEW n \in Names, PathRequest(n) PROVE Refined
  <2>1. CASE \E mode \in Modes, nmh2 \in BOOLEAN : FS_Open(n, mode, nmh2)
    BY <1>0, <2>1, RefOpen
  <2>2. CASE FS_CreateFile(n)
    BY <1>0, <2>2, RefCreateFile
  <2>3. CASE FS_DeleteFile(n)
    BY <1>0, <2>3, RefDelete
  <2>4. CASE \E m \in Names : FS_Move(n, m)
    BY <1>0, <2>4, RefMove
  <2> QED
    BY <1>1, <2>1, <2>2, <2>3, <2>4 DEF PathRequest
<1>2. ASSUME NEW f \in Fds, HandleRequest(f) PROVE Refined
  <2>1. CASE FS_Close(f)
    BY <1>0, <2>1, RefClose
  <2>2. CASE \/ \E op \in {"read", "write", "seek", "close"} : BadHandle(op, f)
             \/ Refuse("read", f, "READ")
             \/ Refuse("write", f, "WRITE")
             \/ \E where \in Offsets, whence \in {"SEEK_SET", "SEEK_CUR", "SEEK_END"} :
                  FS_Seek_Refused(f, where, whence)
    BY <1>0, <2>2, RefRefused
  <2>3. CASE (\E n \in Lengths : FS_Read(f, n)) \/ (\E b \in Buffers : FS_Write(f, b))
    BY <1>0, <2>3, RefTransfer
  <2>4. CASE \E where \in Offsets, whence \in {"SEEK_SET", "SEEK_CUR", "SEEK_END"} :
               FS_Seek(f, where, whence)
    BY <1>0, <2>4, RefSeek
  <2> QED
    BY <1>2, <2>1, <2>2, <2>3, <2>4 DEF HandleRequest
<1>3. ~ DirError
  BY AllKnown, NoFault DEF DirError
<1> QED
  BY <1>1, <1>2, <1>3 DEF Receive

\* A round of a loop.
LEMMA RefWork ==
  ASSUME Known, Sound', NEW p \in Paths, PathsInv(p), Work
  PROVE  Refined
<1>1. ~ f_read_error /\ ~ f_write_error /\ ~ remove_chain_error /\ ~ f_rename_again_error
  BY AllKnown, NoFault DEF f_read_error, f_write_error, remove_chain_error,
     f_rename_again_error, Rename_error, Calm
<1> QED
  BY <1>1, RefReadStep, RefReadEnd, RefWriteStep, RefWriteEnd, RefSeekStep, RefSeekEnd,
     RefRemoveStep, RefRemoveEnd DEF Work

\* What the server's state has in common with the file store.
Mapped == Plain /\ \E p \in Paths : PathsInv(p)

\* Every step is one of the file store or one it does not see.
LEMMA NextRefined ==
  Sound /\ Sound' /\ Mapped /\ [Next]_vars => Mapped' /\ [Store!Next]_(Store!vars)
<1> SUFFICES ASSUME Sound, Sound', Mapped, [Next]_vars
             PROVE  Mapped' /\ [Store!Next]_(Store!vars)
  OBVIOUS
<1>1. PICK p \in Paths : PathsInv(p)
  BY DEF Mapped
<1>2. Known
  BY DEF Known, Mapped
<1>3. CASE Next
  <2>1. Refined
    BY <1>1, <1>2, <1>3, RefReceive, RefWork DEF Next
  <2> QED
    BY <2>1 DEF Refined, Mapped
<1>4. CASE UNCHANGED vars
  <2>1. UNCHANGED <<fat, data, dir, fd_stack, req, reply, faults>>
    BY <1>4 DEF vars
  <2>2. Plain'
    BY <2>1 DEF Mapped, Plain, Calm, NamesOnce, Saved, UsedSlots, Exists, EntryOf, Opens
  <2>3. PathsInv(p)'
    BY <1>1, <2>1 DEF PathsInv, Chained, Distinct, Linked, EntriesOf, HandlesOf, RemovalOf,
                      Writes, Opens, Freeing, SeeksNow
  <2>4. \A s \in Slots : dir'[s].name = dir[s].name
    BY <2>1
  <2>5. \A g \in Fds : /\ Opens(g)' <=> Opens(g)
                       /\ Opens(g) => /\ fd_stack'[g].ent = fd_stack[g].ent
                                      /\ Position(g)' = Position(g)
    BY <2>1 DEF Opens, Position
  <2>6. absGot' = absGot
    BY <2>1 DEF absGot
  <2>7. Refined
    BY <1>1, <1>2, <2>1, <2>2, <2>3, <2>4, <2>5, <2>6, Unseen DEF Mapped
  <2> QED
    BY <2>7 DEF Refined, Mapped
<1> QED
  BY <1>3, <1>4

\* An empty function is the empty sequence.
LEMMA EmptyFunction ==
  ASSUME NEW F, F = [x \in DOMAIN F |-> F[x]], DOMAIN F = {}
  PROVE  F = <<>>
<1>1. F \in [1 .. 0 -> {}]
  OBVIOUS
<1> QED
  BY <1>1

\* The initial state is one of the file store, with nothing in any path.
LEMMA InitRefined ==
  ASSUME Faults = {}, Init
  PROVE  Sound /\ Mapped /\ Store!Init
<1>1. TypeOK /\ VolumeInv
  BY InitTypeOK, InitVolume
<1>2. /\ \A f \in Fds : /\ ~ Opens(f) /\ fd_stack[f].flag = {}
                         /\ fd_stack[f].fptr = 0 /\ fd_stack[f].fsize = 0
      /\ \A s \in Slots : dir[s].name = NoName /\ dir[s].clust = 0 /\ dir[s].size = 0
      /\ req.op = "idle" /\ reply.buf = <<>> /\ faults = {}
  BY DEF Init, Opens, NoFile, NoEntry, Idle, NoReply
<1>3. PositionInv
  BY <1>2 DEF PositionInv, PositionInFile
<1>4. UsedSlots = {}
  BY <1>2 DEF UsedSlots
<1>5. Plain
  BY <1>2, <1>4 DEF Plain, Calm, NamesOnce, Saved
<1>6. PICK p : p = [s \in 0 .. DirSize |-> <<>>]
  OBVIOUS
<1>7. p \in Paths /\ \A s \in 0 .. DirSize : p[s] = <<>> /\ Len(p[s]) = 0
  BY <1>6 DEF Paths
<1>8. PathsInv(p)
  <2>1. Chained(p)
    BY <1>7 DEF Chained, Distinct, Linked
  <2>2. EntriesOf(p)
    BY <1>2, <1>7 DEF EntriesOf, OfEntry, First, Slots
  <2>3. HandlesOf(p)
    BY <1>2 DEF HandlesOf
  <2>4. RemovalOf(p)
    BY <1>2, <1>7, FFSAssumption DEF RemovalOf, Freeing
  <2> QED
    BY <2>1, <2>2, <2>3, <2>4 DEF PathsInv
<1>9. absFiles = <<>>
  BY <1>4, EmptyFunction DEF absFiles
<1>10. absHandle = <<>>
  BY <1>2, EmptyFunction DEF absHandle, Opens
<1>11. absGot = <<>>
  BY <1>2 DEF absGot
<1> QED
  BY <1>1, <1>3, <1>5, <1>7, <1>8, <1>9, <1>10, <1>11 DEF Sound, Mapped, Store!Init

\* The invariants proved above hold on.
LEMMA NextSound == Sound /\ [Next]_vars => Sound'
<1> SUFFICES ASSUME Sound, [Next]_vars PROVE Sound'
  OBVIOUS
<1>1. TypeOK' /\ VolumeInv'
  BY NextType, NextVolume DEF Sound
<1>2. PositionInv'
  <2>1. CASE Next
    BY <2>1, ReceivePosition, WorkPosition DEF Next, Sound
  <2>2. CASE UNCHANGED vars
    BY <2>2 DEF vars, PositionInv, PositionInFile, Sound
  <2> QED
    BY <2>1, <2>2
<1> QED
  BY <1>1, <1>2 DEF Sound

\* For clients that do not share the files they write, and on a card without failing

\* transfers, the file server with its driver, its allocation table and its cached sizes
\* is a file store: what is read at a position is what was last written there.
THEOREM Refinement ==
  ASSUME Faults = {}
  PROVE  Spec => StoreSpec
<1>1. Init => Sound /\ Mapped /\ Store!Init
  BY InitRefined
<1> QED
  BY <1>1, NextSound, NextRefined, PTL DEF Spec, StoreSpec, Store!Spec
==============================================================================
