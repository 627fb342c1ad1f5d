------------------------------- MODULE FSClients -------------------------------
(***************************************************************************)
(* What ES (es/NAND.c) and DI (di/DIGlue.c) do with the file server.  ES   *)
(* replaces a file by writing a new one in /tmp and moving it over the old *)
(* one.  DI cannot open a file by its name, for the server would take it   *)
(* for a device of DI's: it sends the path in ioctlv 0x60, the server      *)
(* keeps the handle in HAXHandle, and IOS_Open of "/AX" returns it.        *)
(* The game opens and closes files at will.                                *)
(***************************************************************************)
EXTENDS FSUSB

CONSTANTS
  Dst, TmpDst,  \* the file ES replaces and its name in /tmp
  Own,          \* the files DI uses
  MAX_HANDLES,  \* slots of Nhandle
  Lens, Wheres, \* lengths and offsets DI asks for
  MaxSafe,      \* bound: files ES writes
  MaxCalls,     \* bound: calls of DI and the game
  MaxCuts       \* bound: times the power goes off

ASSUME FSClientsAssumption ==
  /\ Dst \in Paths \ Tmp /\ TmpDst \in Tmp /\ Own \subseteq Paths \ {Dst, TmpDst}
  /\ MAX_HANDLES \in Nat \ {0}
  /\ Lens \subseteq Nat /\ Wheres \subseteq Int
  /\ MaxSafe \in Nat /\ MaxCalls \in Nat /\ MaxCuts \in Nat

VARIABLES
  es,       \* ES: the call of NANDWriteFileSafe or NANDLoadFile it is in
  Nhandle,  \* DI: the table of handles
  di,       \* DI: the call it is in
  held,     \* DI's callers: the handles they have and what each was opened for
  game,     \* the game: the handles it has, and its call
  early,    \* history: ES ended a call early, with a result that is no error
  cuts, calls

clientvars == <<es, Nhandle, di, held, game, early, cuts, calls>>
fcvars == <<fsvars, clientvars>>

Unused == -9999      \* 0xdeadbeef
Handles == 0 .. MAX_HANDLES - 1

IdleES == [at |-> "idle", ver |-> 0, fd |-> 0, ret |-> Unused, load |-> Missing, len |-> 0]
IdleDI == [at |-> "idle", path |-> "none", mode |-> {}, slot |-> 0]
IdleGame == [at |-> "idle", path |-> "none", has |-> {}]
Got(c) == reply[c].ret

-----------------------------------------------------------------------------
(***************************************************************************)
(* NANDWriteFileSafe and NANDLoadFile: `at' names the message ES waits for.*)
(***************************************************************************)

ESAsks(at, m) == Asks("es", m) /\ es' = [es EXCEPT !.at = at]
Rest == UNCHANGED <<disk, fd_stack, HAXHandle, work, cut, Nhandle, di, held, game, cuts, calls>>
ESOnly == Rest /\ UNCHANGED early
Creates == [NoMsg EXCEPT !.op = "create", !.path = TmpDst]

\* The call ends with r.
ESEnds(r) == es' = [es EXCEPT !.at = "idle", !.ret = r] /\ UNCHANGED queue

WriteFileSafe ==
  /\ es.at = "idle" /\ es.ver < MaxSafe
  /\ Asks("es", Creates)
  /\ es' = [IdleES EXCEPT !.at = "create", !.ver = es.ver + 1]
  /\ UNCHANGED reply /\ ESOnly

\* A file that is there already is deleted and created anew.
SafeCreated ==
  /\ es.at \in {"create", "again"} /\ reply["es"].is
  /\ Seen("es")
  /\ IF Got("es") = FS_EEXIST2 /\ es.at = "create"
     THEN ESAsks("delete", [NoMsg EXCEPT !.op = "delete", !.path = TmpDst])
     ELSE IF Got("es") < 0 THEN ESEnds(Got("es"))
     ELSE ESAsks("open", [NoMsg EXCEPT !.op = "open", !.path = TmpDst, !.mode = {"WRITE"}])
  /\ ESOnly

SafeDeleted ==
  /\ es.at = "delete" /\ reply["es"].is
  /\ Seen("es") /\ ESAsks("again", Creates)
  /\ ESOnly

\* When the file cannot be opened the call returns the result of its creation.
SafeOpened ==
  /\ es.at = "open" /\ reply["es"].is
  /\ Seen("es")
  /\ IF Got("es") < 0
     THEN ESEnds(FS_SUCCESS) /\ early' = TRUE
     ELSE /\ Asks("es", [NoMsg EXCEPT !.op = "write", !.fd = Got("es"), !.n = Full,
                                      !.whence = es.ver])
          /\ es' = [es EXCEPT !.at = "write", !.fd = Got("es")]
          /\ UNCHANGED early
  /\ Rest

\* Mutant of SafeWritten: a short write is taken for a whole one.
SafeWritten_short ==
  /\ es.at = "write" /\ reply["es"].is
  /\ Seen("es")
  /\ Asks("es", [NoMsg EXCEPT !.op = "close", !.fd = es.fd])
  /\ es' = [es EXCEPT !.at = IF Got("es") >= 0 THEN "close" ELSE "giveup", !.ret = Got("es")]
  /\ ESOnly

\* A short write, which a full disk answers, is returned as it is.
SafeWritten ==
  /\ es.at = "write" /\ reply["es"].is
  /\ Seen("es")
  /\ Asks("es", [NoMsg EXCEPT !.op = "close", !.fd = es.fd])
  /\ es' = [es EXCEPT !.at = IF Got("es") = Full THEN "close" ELSE "giveup",
                      !.ret = Got("es")]
  /\ Rest /\ early' = (early \/ Got("es") \in 0 .. Full - 1)

SafeGivenUp ==
  /\ es.at = "giveup" /\ reply["es"].is
  /\ Seen("es") /\ ESEnds(es.ret)
  /\ ESOnly

SafeClosed ==
  /\ es.at = "close" /\ reply["es"].is
  /\ Seen("es")
  /\ ESAsks("move", [NoMsg EXCEPT !.op = "move", !.path = TmpDst, !.to = Dst])
  /\ ESOnly

SafeMoved ==
  /\ es.at = "move" /\ reply["es"].is
  /\ Seen("es") /\ ESEnds(Got("es"))
  /\ ESOnly

\* NANDLoadFile: open, seek to the end and back, read, close.
LoadFile ==
  /\ es.at = "idle" /\ calls < MaxCalls /\ calls' = calls + 1
  /\ Asks("es", [NoMsg EXCEPT !.op = "open", !.path = Dst, !.mode = {"READ"}])
  /\ es' = [es EXCEPT !.at = "lopen", !.load = Missing]
  /\ UNCHANGED <<disk, fd_stack, HAXHandle, work, reply, cut, Nhandle, di, held, game, early,
                 cuts>>

LoadOpened ==
  /\ es.at = "lopen" /\ reply["es"].is
  /\ Seen("es")
  /\ IF Got("es") < 0 THEN es' = [es EXCEPT !.at = "idle"] /\ UNCHANGED queue
     ELSE /\ Asks("es", [NoMsg EXCEPT !.op = "seek", !.fd = Got("es"), !.whence = 2])
          /\ es' = [es EXCEPT !.at = "lend", !.fd = Got("es")]
  /\ ESOnly

LoadSized ==
  /\ es.at = "lend" /\ reply["es"].is
  /\ Seen("es")
  /\ Asks("es", [NoMsg EXCEPT !.op = "seek", !.fd = es.fd])
  /\ es' = [es EXCEPT !.at = "lset", !.len = Got("es")]
  /\ ESOnly

LoadSought ==
  /\ es.at = "lset" /\ reply["es"].is
  /\ Seen("es")
  /\ ESAsks("lread", [NoMsg EXCEPT !.op = "read", !.fd = es.fd, !.n = es.len])
  /\ ESOnly

LoadRead ==
  /\ es.at = "lread" /\ reply["es"].is
  /\ Seen("es")
  /\ Asks("es", [NoMsg EXCEPT !.op = "close", !.fd = es.fd])
  /\ es' = [es EXCEPT !.at = "lclose",
              !.load = [ver |-> fd_stack[es.fd].ver, len |-> Got("es")]]
  /\ ESOnly

LoadClosed ==
  /\ es.at = "lclose" /\ reply["es"].is
  /\ Seen("es") /\ es' = [es EXCEPT !.at = "idle", !.len = 0] /\ UNCHANGED queue
  /\ ESOnly

ESSteps ==
  \/ SafeCreated \/ SafeDeleted \/ SafeOpened \/ SafeWritten \/ SafeGivenUp \/ SafeClosed
  \/ SafeMoved \/ LoadOpened \/ LoadSized \/ LoadSought \/ LoadRead \/ LoadClosed

-----------------------------------------------------------------------------
(***************************************************************************)
(* DIGlue.c with FSMode = UNEEK.                                           *)
(***************************************************************************)

DIOnly == UNCHANGED <<disk, fd_stack, HAXHandle, work, cut, es, game, early, cuts>>
FreeHandle(h) == Nhandle[h] = Unused /\ \A g \in 0 .. h - 1 : Nhandle[g] # Unused

\* The caller gets DVD_FATAL when no slot is free, and nothing happens.
DVDOpen(p, mode) ==
  /\ di.at = "idle" /\ calls < MaxCalls /\ calls' = calls + 1
  /\ \E h \in Handles :
       /\ FreeHandle(h)
       /\ di' = [at |-> "hax", path |-> p, mode |-> mode, slot |-> h]
  /\ Asks("di", [NoMsg EXCEPT !.op = "hax", !.path = p, !.mode = mode])
  /\ UNCHANGED <<reply, Nhandle, held>> /\ DIOnly

\* Whatever the answer is, it is kept and "/AX" opened.
DVDOpenAX ==
  /\ di.at = "hax" /\ reply["di"].is
  /\ Seen("di")
  /\ Nhandle' = [Nhandle EXCEPT ![di.slot] = Got("di")]
  /\ di' = [di EXCEPT !.at = "ax"]
  /\ Asks("di", [NoMsg EXCEPT !.op = "ax", !.mode = di.mode])
  /\ UNCHANGED <<held, calls>> /\ DIOnly

\* After an error Nhandle[handle] is reset with the error as the index.
DVDOpened ==
  /\ di.at = "ax" /\ reply["di"].is
  /\ Seen("di")
  /\ Nhandle' = [Nhandle EXCEPT ![di.slot] = Got("di")]
  /\ held' = IF Got("di") < 0 THEN held
             ELSE held \cup {[h |-> di.slot, path |-> di.path]}
  /\ di' = IdleDI
  /\ UNCHANGED <<queue, calls>> /\ DIOnly

\* DVDRead, DVDWrite, DVDSeek and DVDGetSize of a handle in use.
Use(o, x, n, whence) ==
  Asks("di", [NoMsg EXCEPT !.op = o, !.fd = Nhandle[x.h], !.n = n, !.whence = whence])

DVDUse(x) ==
  /\ di.at = "idle" /\ calls < MaxCalls /\ calls' = calls + 1
  /\ \/ \E o \in {"read", "write"}, n \in Lens : Use(o, x, n, 0)
     \/ \E w \in Wheres, c \in 0 .. 2 : Use("seek", x, w, c)
     \/ Use("stats", x, 0, 0)
  /\ di' = [di EXCEPT !.at = "use"]
  /\ UNCHANGED <<reply, Nhandle, held>> /\ DIOnly

DVDUsed ==
  /\ di.at = "use" /\ reply["di"].is
  /\ Seen("di") /\ di' = IdleDI
  /\ UNCHANGED <<queue, Nhandle, held, calls>> /\ DIOnly

DVDClose(x) ==
  /\ di.at = "idle"
  /\ Asks("di", [NoMsg EXCEPT !.op = "close", !.fd = Nhandle[x.h]])
  /\ held' = held \ {x}
  /\ di' = [di EXCEPT !.at = "close", !.slot = x.h]
  /\ UNCHANGED <<reply, Nhandle, calls>> /\ DIOnly

DVDClosed ==
  /\ di.at = "close" /\ reply["di"].is
  /\ Seen("di")
  /\ Nhandle' = [Nhandle EXCEPT ![di.slot] = Unused] /\ di' = IdleDI
  /\ UNCHANGED <<queue, held, calls>> /\ DIOnly

\* DVDDelete, and ISFS_IsUSB, by which DVDInit tells the two servers apart.
DVDAsk(m) ==
  /\ di.at = "idle" /\ calls < MaxCalls /\ calls' = calls + 1
  /\ Asks("di", m)
  /\ di' = [di EXCEPT !.at = "use"]
  /\ UNCHANGED <<reply, Nhandle, held>> /\ DIOnly

DICalls ==
  \/ \E p \in Own, mode \in {{"READ"}, {"READ", "WRITE", "CREATE"}} :
       DVDOpen(p, mode)
  \/ \E x \in held : DVDUse(x) \/ DVDClose(x)
  \/ \E p \in Own : (\A x \in held : x.path # p)
                    /\ DVDAsk([NoMsg EXCEPT !.op = "delete", !.path = p])
  \/ DVDAsk([NoMsg EXCEPT !.op = "isusb"])
DISteps == DVDOpenAX \/ DVDOpened \/ DVDUsed \/ DVDClosed

-----------------------------------------------------------------------------
(***************************************************************************)
(* The game (external): it opens files to read and closes them, and closes *)
(* what is no handle.                                                      *)
(***************************************************************************)
GameOnly == UNCHANGED <<disk, fd_stack, HAXHandle, work, cut, es, Nhandle, di, held, early,
                        cuts>>

GameAsks ==
  /\ game.at = "idle" /\ calls < MaxCalls /\ calls' = calls + 1
  /\ \/ \E p \in Own :
          /\ Asks("game", [NoMsg EXCEPT !.op = "open", !.path = p, !.mode = {"READ"}])
          /\ game' = [game EXCEPT !.at = "open", !.path = p]
     \/ \E x \in game.has :
          /\ Asks("game", [NoMsg EXCEPT !.op = "close", !.fd = x.h])
          /\ game' = [game EXCEPT !.at = "close", !.has = @ \ {x}]
     \/ /\ Asks("game", [NoMsg EXCEPT !.op = "close", !.fd = MAX_FILE])
        /\ game' = [game EXCEPT !.at = "close"]
  /\ UNCHANGED reply /\ GameOnly

GameSees ==
  /\ game.at # "idle" /\ reply["game"].is
  /\ Seen("game")
  /\ game' = [at |-> "idle", path |-> "none",
              has |-> IF game.at = "open" /\ Got("game") >= 0
                      THEN game.has \cup {[h |-> Got("game"), path |-> game.path]}
                      ELSE game.has]
  /\ UNCHANGED <<queue, calls>> /\ GameOnly

-----------------------------------------------------------------------------
\* The power goes off; everything starts again.
PowerOff ==
  /\ cuts < MaxCuts /\ cuts' = cuts + 1
  /\ Restarted
  /\ es' = [IdleES EXCEPT !.ver = es.ver]
  /\ Nhandle' = [h \in Handles |-> Unused]
  /\ di' = IdleDI /\ held' = {} /\ game' = IdleGame
  /\ UNCHANGED <<early, calls>>

FCInit ==
  /\ FSInit
  /\ es = IdleES /\ Nhandle = [h \in Handles |-> Unused]
  /\ di = IdleDI /\ held = {} /\ game = IdleGame
  /\ early = FALSE /\ cuts = 0 /\ calls = 0

Server == FSServer /\ UNCHANGED clientvars
Sees == ESSteps \/ DISteps \/ GameSees
FCNext == Server \/ Sees \/ WriteFileSafe \/ LoadFile \/ DICalls \/ GameAsks \/ PowerOff

FCFairness == WF_fcvars(Server) /\ WF_fcvars(Sees)

-----------------------------------------------------------------------------
(***************************************************************************)
(* Properties.                                                             *)
(***************************************************************************)

WholeFile(f) == f.len = Full

\* NANDWriteFileSafe never leaves a part of a file where it belongs, whenever
\* the power goes off and however full the disk is; and the file is only gone
\* while it is replaced, or when the power went off just then.
DstWhole ==
  /\ disk[Dst] # Missing => WholeFile(disk[Dst])
  /\ es.load # Missing => WholeFile(es.load)
DstThere ==
  [][disk[Dst] # Missing /\ disk'[Dst] = Missing => work'.to = Dst]_fcvars

\* NANDWriteFileSafe answers success only when the file is the new one, but
\* for the calls that end early without an error (SafeOpened).
Answers == es.at = "idle" /\ es.ret = FS_SUCCESS
OkIsNew == Answers /\ ~ early => disk[Dst].ver = es.ver

\* A handle that DI or the game has leads to the file it was opened for, in a
\* slot that nobody else has.
Holds(s, p) == s \in Slots /\ fd_stack[s].fs /\ fd_stack[s].path = p
ESHas == es.at \in {"write", "lend", "lset", "lread"}
HandleIsFile ==
  /\ \A x \in held : Holds(Nhandle[x.h], x.path)
  /\ \A x \in game.has : Holds(x.h, x.path)
  /\ \A x, y \in held : x # y => Nhandle[x.h] # Nhandle[y.h]
  /\ \A x \in held, y \in game.has : Nhandle[x.h] # y.h
  /\ ESHas => es.fd \notin {y.h : y \in game.has} \cup {Nhandle[x.h] : x \in held}

\* No slot of fd_stack is lost: when nobody is in a call, the slots in use are
\* those that somebody has.
Quiet == es.at = "idle" /\ di.at = "idle" /\ game.at = "idle"
SlotsHeld ==
  Quiet => {s \in Slots : fd_stack[s].fs} = {Nhandle[x.h] : x \in held} \cup {x.h : x \in game.has}

\* Every call returns: the calls are bounded, so in the end nobody is in one.
CallsAnswered == <>[]Quiet

\* A file that is replaced is there and whole, and each client's handle is its file.
ClientsRight == DstWhole /\ HandleIsFile /\ SlotsHeld /\ OkIsNew
===============================================================================
