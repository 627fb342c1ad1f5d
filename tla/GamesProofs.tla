------------------------------ MODULE GamesProofs ------------------------------
(***************************************************************************)
(* Theorems about the games: their list and files in DI (DIP), the drive   *)
(* (DIDrive) and the menu (SMenu), for any games, discs and requests, with *)
(* the power going off at any step.                                        *)
(***************************************************************************)
EXTENDS DIP, DIDrive, SMenu, Counting, WellFoundedInduction

(***************************************************************************)
(* DIP: types and handles.                                                 *)
(***************************************************************************)

Cell == {NoFile} \cup [mode : Modes, file : Games \X Names, off : Nat, len : Nat]

\* No table has more handles in use than it has.
HandlesFit == \A m \in Modes : busy[m] + Cardinality(Cached(m)) <= MAX_HANDLES

\* What is written to diconfig.bin has the names that are there.
ConfigKept == req.op \in {"idle", "select"} => diconfig \in Config

DITyped == TypeOK /\ FC \in [Caches -> Cell] /\ HandlesFit /\ ConfigKept

-----------------------------------------------------------------------------
LEMMA Tables ==
  /\ IsFiniteSet(Caches) /\ \A S : S \subseteq Caches => IsFiniteSet(S)
  /\ \A S \in SUBSET Caches : Cardinality(S) \in Nat
<1>1. IsFiniteSet(Caches)
  BY DIPAssumption, FS_Interval DEF Caches
<1> QED
  BY <1>1, FS_Subset, FS_CardinalityType

\* A table's handles are those it had, but for one place of the cache.
LEMMA CachedChanged ==
  ASSUME FC \in [Caches -> Cell], NEW n \in Caches, NEW x, FC' = [FC EXCEPT ![n] = x], NEW m \in Modes
  PROVE  /\ Cached(m)' \subseteq (Cached(m) \ {n}) \cup {n}
         /\ x = NoFile => Cached(m)' = Cached(m) \ {n}
         /\ x.mode # m => Cached(m)' = Cached(m) \ {n}
  BY DEF Cached, NoFile, Modes

LEMMA CountChanged ==
  ASSUME FC \in [Caches -> Cell], NEW n \in Caches, NEW x, FC' = [FC EXCEPT ![n] = x], NEW m \in Modes
  PROVE  /\ Cardinality(Cached(m)') \in Nat /\ Cardinality(Cached(m) \ {n}) \in Nat
         /\ Cardinality(Cached(m)') <= Cardinality(Cached(m) \ {n}) + 1
         /\ x = NoFile \/ x.mode # m => Cardinality(Cached(m)') <= Cardinality(Cached(m) \ {n})
         /\ Cardinality(Cached(m)) \in Nat /\ Cardinality(Cached(m) \ {n}) <= Cardinality(Cached(m))
<1>1. PICK S : S = Cached(m) \ {n}
  OBVIOUS
<1>2. S \subseteq Caches /\ Cached(m) \subseteq Caches /\ IsFiniteSet(S) /\ n \notin S
      /\ S \subseteq Cached(m) /\ IsFiniteSet(Cached(m))
  BY <1>1, Tables DEF Cached
<1>3. Cardinality(S \cup {n}) = Cardinality(S) + 1 /\ IsFiniteSet(S \cup {n})
  BY <1>2, FS_AddElement
<1>4. Cached(m)' \subseteq S \cup {n} /\ (x = NoFile \/ x.mode # m => Cached(m)' = S)
  BY <1>1, CachedChanged
<1>5. PICK T : T = Cached(m)' /\ T \subseteq S \cup {n} /\ (x = NoFile \/ x.mode # m => T = S)
  BY <1>4
<1>6. PICK C : C = Cached(m) /\ S \subseteq C /\ IsFiniteSet(C)
  BY <1>2
<1>7. /\ Cardinality(T) \in Nat /\ Cardinality(S) \in Nat /\ Cardinality(C) \in Nat
      /\ Cardinality(T) <= Cardinality(S) + 1
      /\ Cardinality(S) <= Cardinality(C)
  <2>1. IsFiniteSet(T) /\ Cardinality(T) <= Cardinality(S \cup {n})
    BY <1>3, <1>5, FS_Subset
  <2> QED
    BY <1>2, <1>3, <1>6, <2>1, FS_Subset, FS_CardinalityType
<1>8. x = NoFile \/ x.mode # m => Cardinality(T) <= Cardinality(S)
  BY <1>5, <1>7
<1> QED
  BY <1>1, <1>5, <1>6, <1>7, <1>8, Zenon

\* Without a change of the cache the handles fit when those lost had room.
LEMMA Losing ==
  ASSUME DITyped, UNCHANGED FC, NEW b, busy' = b,
         b = busy \/ \E m \in Modes, n \in Nat :
                       /\ Room(m, n)
                       /\ b \in [Modes -> Nat] /\ \A q \in Modes : b[q] <= IF q = m THEN busy[q] + n ELSE busy[q]
  PROVE  busy' \in [Modes -> 0 .. MAX_HANDLES] /\ HandlesFit'
<1>1. \A m \in Modes : Cached(m)' = Cached(m) /\ Cardinality(Cached(m)) \in Nat
  BY Tables DEF Cached
<1>2. MAX_HANDLES \in Nat /\ busy \in [Modes -> 0 .. MAX_HANDLES] /\ HandlesFit
  BY DIPAssumption DEF DITyped, TypeOK
<1>3. CASE b = busy
  BY <1>1, <1>2, <1>3 DEF HandlesFit
<1>4. CASE \E m \in Modes, n \in Nat :
             /\ Room(m, n)
             /\ b \in [Modes -> Nat] /\ \A q \in Modes : b[q] <= IF q = m THEN busy[q] + n ELSE busy[q]
  <2>1. PICK m \in Modes, n \in Nat :
             /\ Room(m, n)
             /\ b \in [Modes -> Nat] /\ \A q \in Modes : b[q] <= IF q = m THEN busy[q] + n ELSE busy[q]
    BY <1>4
  <2>2. busy[m] + Cardinality(Cached(m)) + n <= MAX_HANDLES
    BY <2>1 DEF Room
  <2>3. ASSUME NEW q \in Modes
        PROVE  b[q] + Cardinality(Cached(q)) <= MAX_HANDLES /\ b[q] \in 0 .. MAX_HANDLES
    <3>1. /\ b[q] \in Nat /\ busy[q] \in Nat /\ Cardinality(Cached(q)) \in Nat
          /\ busy[q] + Cardinality(Cached(q)) <= MAX_HANDLES
      BY <1>1, <1>2, <2>1 DEF HandlesFit
    <3>2. CASE q = m
      BY <1>2, <2>1, <2>2, <3>1, <3>2
    <3>3. CASE q # m
      BY <1>2, <2>1, <3>1, <3>3
    <3> QED
      BY <3>2, <3>3
  <2> QED
    BY <1>1, <1>2, <2>1, <2>3 DEF HandlesFit
<1> QED
  BY <1>3, <1>4

\* A handle may be lost with every failed open.
LEMMA LostIs ==
  ASSUME DITyped, NEW m \in Modes, NEW n \in Nat
  PROVE  /\ Lost(m, n) \in [Modes -> Nat]
         /\ \A q \in Modes : Lost(m, n)[q] = IF q = m /\ m = "UNEEK" THEN busy[q] + n ELSE busy[q]
  BY DIPAssumption DEF DITyped, TypeOK, Lost, Modes

LEMMA LosingOne ==
  ASSUME DITyped, UNCHANGED FC, NEW m \in Modes, NEW n \in Nat \ {0}, Room(m, n),
         busy' = busy \/ busy' = Lost(m, 1)
  PROVE  busy' \in [Modes -> 0 .. MAX_HANDLES] /\ HandlesFit'
<1>1. /\ Lost(m, 1) \in [Modes -> Nat]
      /\ \A q \in Modes : Lost(m, 1)[q] = IF q = m /\ m = "UNEEK" THEN busy[q] + 1 ELSE busy[q]
  BY LostIs
<1>2. \A q \in Modes : busy[q] \in Nat
  BY DIPAssumption DEF DITyped, TypeOK
<1>3. \A q \in Modes : Lost(m, 1)[q] <= IF q = m THEN busy[q] + n ELSE busy[q]
  <2> TAKE q \in Modes
  <2>1. PICK k, b : k = Lost(m, 1)[q] /\ b = busy[q] /\ b \in Nat
                    /\ k = IF q = m /\ m = "UNEEK" THEN b + 1 ELSE b
    BY <1>1, <1>2
  <2>2. k <= IF q = m THEN b + n ELSE b
    BY <2>1
  <2> QED
    BY <2>1, <2>2
<1> QED
  BY <1>1, <1>3, Losing

\* A full table leaves all as it was.
LEMMA Full ==
  ASSUME DITyped, NEW m, NoHandle(m)
  PROVE  DITyped'
  BY DEF DITyped, TypeOK, NoHandle, store, mode, cache, disc, HandlesFit, Cached, ConfigKept

\* What is in /games, and what may be listed.
LEMMA Storage ==
  ASSUME TypeOK
  PROVE  /\ Listing \in Seq(Games) /\ Len(Listing) \in Nat
         /\ \A m \in Modes : Stored(m) \in Seq(Games) /\ Range(Stored(m)) \subseteq Range(Listing)
<1>1. dir.usb \in Seq(Games) /\ dir.sd \in Seq(Games)
  BY DIPAssumption DEF TypeOK
<1>2. Listing \in Seq(Games) /\ Len(Listing) \in Nat
  <2>1. \A u, s \in Seq(Games) : u \o s \in Seq(Games)
    OBVIOUS
  <2>2. Listing \in Seq(Games)
    BY <1>1, <2>1, Zenon DEF Listing
  <2>3. \A u \in Seq(Games) : Len(u) \in Nat
    OBVIOUS
  <2> QED
    BY <2>2, <2>3, Zenon
<1>3. /\ Range(dir.usb) \subseteq Range(dir.usb \o dir.sd)
      /\ Range(dir.sd) \subseteq Range(dir.usb \o dir.sd)
  <2>1. PICK u \in Seq(Games), s \in Seq(Games) : u = dir.usb /\ s = dir.sd
    BY <1>1
  <2>2. \A i \in 1 .. Len(u) : i \in DOMAIN (u \o s) /\ (u \o s)[i] = u[i]
    OBVIOUS
  <2>3. \A i \in 1 .. Len(s) : Len(u) + i \in DOMAIN (u \o s) /\ (u \o s)[Len(u) + i] = s[i]
    OBVIOUS
  <2>4. DOMAIN u = 1 .. Len(u) /\ DOMAIN s = 1 .. Len(s)
    OBVIOUS
  <2>5. Range(u) \subseteq Range(u \o s)
    BY <2>2, <2>4 DEF Range
  <2>6. Range(s) \subseteq Range(u \o s)
    BY <2>3, <2>4 DEF Range
  <2> QED
    BY <2>1, <2>5, <2>6
<1> QED
  BY <1>1, <1>2, <1>3 DEF Listing, Stored

LEMMA OpensIs ==
  ASSUME NEW m, NEW n, NEW A \in BOOLEAN, Opens(m, n, A)
  PROVE  (Room(m, n) /\ A) \/ NoHandle(m)
  BY DEF Opens

LEMMA ConfigIs ==
  /\ Default \in Config
  /\ \A c \in Config : /\ c.count \in Nat /\ c.slot \in Nat /\ c.names \in Seq(Games)
                       /\ c.auto \in BOOLEAN /\ c.rebuild \in BOOLEAN
  /\ \A c \in Config : /\ \A n \in Nat : [c EXCEPT !.count = n] \in Config
                       /\ \A n \in Nat : [c EXCEPT !.slot = n] \in Config
                       /\ \A s \in Seq(Games) : [c EXCEPT !.names = s] \in Config
                       /\ \A b \in BOOLEAN : [c EXCEPT !.auto = b] \in Config
                       /\ \A b \in BOOLEAN : [c EXCEPT !.rebuild = b] \in Config
  BY DEF Config, Default

LEMMA Typed ==
  ASSUME DITyped
  PROVE  /\ base \in Bases /\ base \in Modes /\ FSMode \in Modes /\ DMLite \in BOOLEAN
         /\ dir \in Dirs /\ bootinfo \in BOOLEAN
         /\ DICfg \in Config /\ (diconfig = None \/ diconfig \in Config)
         /\ game \in Games \cup {None} /\ FCEntry \in 0 .. FILECACHE_MAX
         /\ req = [op |-> req.op, slot |-> req.slot, force |-> req.force]
         /\ req.op \in {"idle", "update", "delete", "write", "select"}
         /\ req.slot \in Int /\ req.force \in BOOLEAN
         /\ (req.op \in {"idle", "select"} => diconfig \in Config)
  BY DIPAssumption DEF DITyped, TypeOK, Modes, ConfigKept

\* The variables that a step of DVDUpdateCache or of DVDSelectGame may change.
LEMMA SelectTyped ==
  ASSUME DITyped, UNCHANGED <<base, dir, disc, FCEntry, wrong>>,
         busy' \in [Modes -> 0 .. MAX_HANDLES], HandlesFit', FC' \in [Caches -> Cell],
         fst' = fst \/ fst' = None, FSMode' \in Modes, DMLite' \in BOOLEAN, bootinfo' \in BOOLEAN,
         DICfg' \in Config, diconfig' = None \/ diconfig' \in Config,
         game' \in Games \cup {None}, req' \in [op : {"idle", "update", "delete", "write", "select"},
              slot : Int, force : BOOLEAN],
         req'.op \in {"idle", "select"} => diconfig' \in Config
  PROVE  DITyped'
<1>1. \A i \in Caches : FC'[i] = NoFile \/ FC'[i] \in
       [mode : Modes, file : Games \X Names, off : Nat, len : Nat]
  BY DEF Cell
<1> QED
  BY <1>1 DEF DITyped, TypeOK, ConfigKept, disc

LEMMA ReqIs ==
  ASSUME NEW o \in {"idle", "update", "delete", "write", "select"}, DITyped, req' = [req EXCEPT !.op = o]
  PROVE  /\ req' \in [op : {"idle", "update", "delete", "write", "select"}, slot : Int, force : BOOLEAN]
         /\ req'.op = o /\ req'.slot = req.slot /\ req'.force = req.force
  BY DEF DITyped, TypeOK

LEMMA UpdateTyped ==
  ASSUME DITyped, DVDUpdateCache
  PROVE  DITyped'
<1>1. PICK c : c = (IF diconfig = None THEN Default ELSE diconfig)
  OBVIOUS
<1>2. c \in Config /\ (diconfig # None => c = diconfig)
  BY <1>1, Typed, ConfigIs
<1>3. PICK count, again, looks, lost :
        /\ count = (IF c.auto THEN Len(Listing) ELSE c.count)
        /\ again = (req.force \/ diconfig = None \/ Outdated(c))
        /\ looks = (~ req.force /\ diconfig # None /\ ~ Short(c) /\ c.auto /\ count = c.count)
        /\ lost = (IF diconfig = None THEN Lost(base, 1) ELSE busy)
  OBVIOUS
<1>4. count \in Nat
  BY <1>2, <1>3, ConfigIs, Storage DEF DITyped
<1>5. \/ NoHandle("UNEEK") \/ NoHandle(base)
      \/ /\ Room("UNEEK", IF base = "UNEEK" THEN 3 ELSE 1)
         /\ Room(base, IF c.auto /\ Listing # <<>> THEN 2 ELSE 1)
         /\ DICfg' = IF again THEN [c EXCEPT !.count = count] ELSE c
         /\ busy' = IF looks /\ Missing(c) THEN [lost EXCEPT !["UNEEK"] = @ + 1] ELSE lost
         /\ Go(IF again THEN "delete" ELSE "select")
         /\ UNCHANGED <<store, mode, game, cache, fst, disc, wrong, faults>>
  BY <1>1, <1>3 DEF DVDUpdateCache, Opens
<1>6. SUFFICES ASSUME /\ Room("UNEEK", IF base = "UNEEK" THEN 3 ELSE 1)
                      /\ Room(base, IF c.auto /\ Listing # <<>> THEN 2 ELSE 1)
                      /\ DICfg' = IF again THEN [c EXCEPT !.count = count] ELSE c
                      /\ busy' = IF looks /\ Missing(c) THEN [lost EXCEPT !["UNEEK"] = @ + 1] ELSE lost
                      /\ Go(IF again THEN "delete" ELSE "select")
                      /\ UNCHANGED <<store, mode, game, cache, fst, disc, wrong, faults>>
               PROVE  DITyped'
  BY <1>5, Full
<1>7. "UNEEK" \in Modes /\ base \in Modes /\ UNCHANGED FC
  BY <1>6, Typed DEF cache, Modes
<1>8. /\ \E n \in Nat \ {0} : Room("UNEEK", n)
      /\ \E n \in Nat \ {0} : Room(base, n)
  <2>1. \A b : (IF b THEN 3 ELSE 1) \in Nat \ {0} /\ (IF b THEN 2 ELSE 1) \in Nat \ {0}
    OBVIOUS
  <2> QED
    BY <1>6, <2>1, Zenon
<1>9. busy' = busy \/ busy' = Lost("UNEEK", 1) \/ busy' = Lost(base, 1)
  BY <1>3, <1>6 DEF Lost
<1>10. busy' \in [Modes -> 0 .. MAX_HANDLES] /\ HandlesFit'
  BY <1>7, <1>8, <1>9, LosingOne
<1>11. DICfg' \in Config
  BY <1>2, <1>4, <1>6, ConfigIs
<1>12. /\ req' \in [op : {"idle", "update", "delete", "write", "select"}, slot : Int, force : BOOLEAN]
       /\ req'.op \in {"idle", "select"} => ~again
  BY <1>6, ReqIs DEF Go
<1>13. ~again => diconfig \in Config
  BY <1>3, Typed
<1> QED
  BY <1>6, <1>10, <1>11, <1>12, <1>13, Typed, SelectTyped DEF DITyped, store, mode, cache

LEMMA ListTyped ==
  ASSUME DITyped, DeleteList \/ WriteList \/ SelectNothing \/ SelectBeyond
  PROVE  DITyped'
<1>1. CASE DeleteList
  <2>1. HandlesFit'
    BY <1>1 DEF DeleteList, DITyped, HandlesFit, Cached, cache
  <2>2. /\ req' \in [op : {"idle", "update", "delete", "write", "select"}, slot : Int, force : BOOLEAN]
        /\ req'.op = "write"
    BY <1>1, ReqIs DEF DeleteList, Go
  <2> QED
    BY <1>1, <2>1, <2>2, Typed, SelectTyped DEF DeleteList, DITyped, TypeOK, mode, cache
<1>2. CASE WriteList
  <2>1. \/ NoHandle("UNEEK") \/ NoHandle(base)
        \/ /\ Room("UNEEK", 2)
           /\ diconfig' = [DICfg EXCEPT !.names = Listing]
           /\ DICfg' = diconfig'
           /\ busy' = IF base = "SNEEK" /\ bootinfo THEN Lost("UNEEK", 1) ELSE busy
           /\ Go("select")
           /\ UNCHANGED <<base, dir, bootinfo, mode, game, cache, fst, disc, wrong, manual, faults>>
    BY <1>2 DEF WriteList, Opens
  <2>2. SUFFICES ASSUME
              /\ Room("UNEEK", 2)
              /\ diconfig' = [DICfg EXCEPT !.names = Listing]
              /\ DICfg' = diconfig'
              /\ busy' = IF base = "SNEEK" /\ bootinfo THEN Lost("UNEEK", 1) ELSE busy
              /\ Go("select")
              /\ UNCHANGED <<base, dir, bootinfo, mode, game, cache, fst, disc, wrong, manual, faults>>
                 PROVE  DITyped'
    BY <2>1, Full
  <2>3. busy' \in [Modes -> 0 .. MAX_HANDLES] /\ HandlesFit'
    <3>1. "UNEEK" \in Modes /\ 2 \in Nat \ {0}
      BY DEF Modes
    <3> QED
      BY <2>2, <3>1, LosingOne DEF cache
  <2>4. diconfig' \in Config /\ DICfg' \in Config
    BY <2>2, Typed, ConfigIs, Storage DEF DITyped
  <2>5. req' \in [op : {"idle", "update", "delete", "write", "select"}, slot : Int, force : BOOLEAN]
    BY <2>2, ReqIs DEF Go
  <2> QED
    BY <2>2, <2>3, <2>4, <2>5, Typed, SelectTyped DEF DITyped, mode, cache
<1>3. CASE SelectNothing
  <2>1. HandlesFit'
    BY <1>3 DEF SelectNothing, DITyped, HandlesFit, Cached, cache
  <2> QED
    BY <1>3, <2>1, Typed, SelectTyped DEF SelectNothing, Reply, Idle, DITyped, TypeOK, mode, cache, store
<1>4. CASE SelectBeyond
  <2>1. HandlesFit'
    BY <1>4 DEF SelectBeyond, DITyped, HandlesFit, Cached, cache
  <2> QED
    BY <1>4, <2>1, Typed, SelectTyped DEF SelectBeyond, DITyped, TypeOK, mode, cache, store
<1> QED
  BY <1>1, <1>2, <1>3, <1>4

\* The slot is one of the list.
LEMMA SlotIs ==
  ASSUME DITyped, Selecting
  PROVE  /\ Slot \in Nat /\ Slot < Len(DICfg.names) /\ Chosen \in Games
         /\ (req.slot = 0 => Slot = 0) /\ Slot < DICfg.count
         /\ req.op = "select" /\ DICfg.count > 0
<1>1. DICfg.slot \in Nat /\ DICfg.count \in Nat /\ req.slot \in Int /\ DICfg.names \in Seq(Games)
  BY Typed, ConfigIs
<1>2. Slot \in Nat /\ (req.slot = 0 => Slot = 0) /\ Slot < DICfg.count
  BY <1>1 DEF Slot, Selecting
<1> QED
  BY <1>1, <1>2 DEF Selecting, Chosen

\* Closing the cache keeps no handle in it, and loses none.
LEMMA Closing ==
  ASSUME DITyped, NEW m \in Modes, NEW lost, InitCache(lost),
         lost = busy \/ (Room(m, 2) /\ lost = Lost(m, 1))
  PROVE  busy' \in [Modes -> 0 .. MAX_HANDLES] /\ HandlesFit' /\ FC' \in [Caches -> Cell]
<1>1. FC' \in [Caches -> Cell] /\ \A q \in Modes : Cardinality(Cached(q)') = 0
  <2>1. \A q \in Modes : Cached(q)' = {}
    BY DEF InitCache, Cached, NoFC, NoFile, Modes
  <2> QED
    BY <2>1, FS_EmptySet DEF InitCache, NoFC, Cell
<1>2. ASSUME NEW q \in Modes
      PROVE  lost[q] + Cardinality(Cached(q)) \in 0 .. MAX_HANDLES
  <2>1. PICK b, c, k : b = busy[q] /\ c = Cardinality(Cached(q)) /\ k = lost[q]
    OBVIOUS
  <2>2. b \in Nat /\ c \in Nat /\ b + c <= MAX_HANDLES /\ MAX_HANDLES \in Nat
    BY <2>1, Tables, DIPAssumption DEF DITyped, TypeOK, HandlesFit, Cached
  <2>3. k = b \/ (k = b + 1 /\ b + c + 2 <= MAX_HANDLES)
    BY <2>1, LostIs DEF Room
  <2> QED
    BY <2>1, <2>2, <2>3
<1>3. busy' = [q \in Modes |-> lost[q] + Cardinality(Cached(q))]
  BY DEF InitCache
<1> QED
  BY <1>1, <1>2, <1>3 DEF HandlesFit

LEMMA SelectedTyped ==
  ASSUME DITyped, Selecting, NEW m \in Modes, Room(m, Opened), Selected(m),
         FSMode' \in Modes, DMLite' \in BOOLEAN, bootinfo' \in BOOLEAN
  PROVE  DITyped'
<1>1. busy' \in [Modes -> 0 .. MAX_HANDLES] /\ HandlesFit' /\ FC' \in [Caches -> Cell]
  <2>1. InitCache(ISO(m))
    BY DEF Selected
  <2>2. ISO(m) = busy \/ (Room(m, 2) /\ ISO(m) = Lost(m, 1))
    BY DEF ISO, Opened
  <2> QED
    BY <2>1, <2>2, Closing
<1>2. DICfg' \in Config /\ diconfig' \in Config /\ game' \in Games
  <2>1. diconfig \in Config
    BY SlotIs, Typed
  <2>2. DICfg' \in Config
    BY Typed, SlotIs, ConfigIs DEF Selected, SaveSlot
  <2>3. diconfig' = [DICfg' EXCEPT !.names = diconfig.names]
    BY DEF Selected, SaveSlot
  <2> QED
    BY <2>1, <2>2, <2>3, SlotIs, ConfigIs DEF Selected
<1> QED
  BY <1>1, <1>2, Typed, SelectTyped DEF Selected, Reply, Idle

LEMMA ChoosingTyped ==
  ASSUME DITyped, SelectGame \/ SelectDMLite \/ SelectAgain
  PROVE  DITyped'
<1>1. CASE SelectGame
  <2>1. Selecting /\ (NoHandle(FSMode) \/
          (Room(FSMode, Opened) /\ Selected(FSMode) /\ DMLite' = FALSE /\ UNCHANGED <<FSMode, bootinfo>>))
    BY <1>1 DEF SelectGame, Opens
  <2> QED
    BY <2>1, Full, SelectedTyped, Typed
<1>2. CASE SelectDMLite
  <2>1. Selecting /\ (NoHandle("SNEEK") \/ NoHandle("UNEEK") \/
          (Room("UNEEK", Opened) /\ Selected("UNEEK") /\ DMLite' = TRUE /\ bootinfo' = TRUE
           /\ UNCHANGED FSMode))
    BY <1>2 DEF SelectDMLite, Opens
  <2>2. "UNEEK" \in Modes
    BY DEF Modes
  <2> QED
    BY <2>1, <2>2, Full, SelectedTyped, Typed
<1>3. CASE SelectAgain
  <2>1. Selecting /\ (NoHandle(FSMode) \/ NoHandle("UNEEK") \/ (Room("UNEEK", 1) /\ TryAgain(0)))
    BY <1>3 DEF SelectAgain, Opens
  <2>2. CASE Room("UNEEK", 1) /\ TryAgain(0)
    <3>1. "UNEEK" \in Modes /\ "SNEEK" \in Modes /\ 1 \in Nat \ {0}
      BY DEF Modes
    <3>2. busy' \in [Modes -> 0 .. MAX_HANDLES] /\ HandlesFit'
      BY <2>2, <3>1, LosingOne DEF TryAgain, cache
    <3>3. /\ FSMode' \in Modes /\ DMLite' \in BOOLEAN /\ bootinfo' \in BOOLEAN
          /\ game' \in Games /\ req'.op = "update"
          /\ req' \in [op : {"idle", "update", "delete", "write", "select"}, slot : Int, force : BOOLEAN]
      BY <2>1, <2>2, <3>1, SlotIs, Typed DEF TryAgain
    <3> QED
      BY <2>2, <3>2, <3>3, Typed, SelectTyped DEF TryAgain, DITyped, cache
  <2> QED
    BY <2>1, <2>2, Full
<1> QED
  BY <1>1, <1>2, <1>3

\* A step of a request: the list and the games stay, and what the reads change fits.
LEMMA RequestTyped ==
  ASSUME DITyped, req.op = "idle", UNCHANGED <<base, dir, bootinfo, game>>,
         busy' \in [Modes -> 0 .. MAX_HANDLES], HandlesFit', FC' \in [Caches -> Cell],
         FCEntry' \in 0 .. FILECACHE_MAX, FSMode' \in Modes, UNCHANGED DMLite,
         fst' = None \/ fst' \in Seq(FileEntry), DICfg' \in Config, diconfig' \in Config,
         DiscType' \in {"none", "REV", "DOL"}, Partition' \in BOOLEAN,
         req' \in [op : {"idle", "update", "delete", "write", "select"}, slot : Int, force : BOOLEAN],
         wrong'.is \in Place \cup {None}, wrong'.was \in Place \cup {None}
  PROVE  DITyped'
<1>1. \A i \in Caches : FC'[i] = NoFile \/ FC'[i] \in
       [mode : Modes, file : Games \X Names, off : Nat, len : Nat]
  BY DEF Cell
<1> QED
  BY <1>1 DEF DITyped, TypeOK, ConfigKept

LEMMA SameHandles ==
  ASSUME DITyped, UNCHANGED <<FC, busy>>
  PROVE  busy' \in [Modes -> 0 .. MAX_HANDLES] /\ HandlesFit' /\ FC' \in [Caches -> Cell]
  BY DEF DITyped, TypeOK, HandlesFit, Cached

LEMMA HasIsGame ==
  ASSUME DITyped, NEW m \in Modes, Has(m, game)
  PROVE  game \in Games
<1>1. Stored(m) \in Seq(Games)
  BY Storage DEF DITyped
<1> QED
  BY <1>1 DEF Has, Range

LEMMA OthersTyped ==
  ASSUME DITyped, req.op = "idle",
         \/ \E s \in Slots : DVD_SELECT_GAME(s)
         \/ DVD_WRITE_CONFIG \/ DVD_READ_DISCID \/ DVD_OPEN_PARTITION \/ DVD_RESET \/ DVD_READ_PAST
  PROVE  DITyped'
<1>a. /\ fst = None \/ fst \in Seq(FileEntry)
      /\ DiscType \in {"none", "REV", "DOL"} /\ Partition \in BOOLEAN
      /\ req \in [op : {"idle", "update", "delete", "write", "select"}, slot : Int, force : BOOLEAN]
      /\ diconfig \in Config /\ Nothing.is = None /\ Nothing.was = None
  BY Typed DEF DITyped, TypeOK, Nothing
<1>b. ReadMode \in Modes /\ Restored \in Modes
  BY Typed DEF ReadMode, Restored, Modes
<1>1. CASE \E s \in Slots : DVD_SELECT_GAME(s)
  <2>1. PICK s \in Slots : DVD_SELECT_GAME(s)
    BY <1>1
  <2>2. s \in Int
    BY <2>1 DEF Slots
  <2>3. UNCHANGED <<store, mode, busy, DICfg, game, cache, fst, disc>> /\ wrong' = Nothing
        /\ req' = [op |-> "select", slot |-> s, force |-> FALSE]
    BY <2>1 DEF DVD_SELECT_GAME
  <2> QED
    BY <1>a, <2>2, <2>3, Typed, SameHandles, RequestTyped DEF store, mode, cache, disc
<1>2. CASE DVD_WRITE_CONFIG
  <2>1. NoHandle(base) \/ \E c \in Config : WriteConfig(c)
    BY <1>2, Typed, ConfigIs DEF DVD_WRITE_CONFIG, Opens
  <2>2. ASSUME NEW c \in Config, WriteConfig(c) PROVE DITyped'
    <3>1. diconfig' \in Config /\ DICfg' \in Config
      BY <1>a, <2>2, ConfigIs DEF WriteConfig
    <3> QED
      BY <1>a, <2>2, <3>1, Typed, SameHandles, RequestTyped DEF WriteConfig, mode, cache, disc
  <2> QED
    BY <2>1, <2>2, Full
<1>3. CASE DVD_READ_DISCID
  <2>1. \/ NoHandle(ReadMode)
        \/ /\ Room(ReadMode, 1)
           /\ IF Has(ReadMode, game)
              THEN DiscType' = Disc[game] /\ UNCHANGED busy
              ELSE busy' = Lost(ReadMode, 1) /\ UNCHANGED DiscType
           /\ FSMode' = Restored /\ wrong' = Nothing
           /\ UNCHANGED <<store, DMLite, DICfg, game, cache, fst, Partition, req, manual, faults>>
    BY <1>3 DEF DVD_READ_DISCID, Opens
  <2>2. CASE
        /\ Room(ReadMode, 1)
        /\ IF Has(ReadMode, game)
           THEN DiscType' = Disc[game] /\ UNCHANGED busy
           ELSE busy' = Lost(ReadMode, 1) /\ UNCHANGED DiscType
        /\ FSMode' = Restored /\ wrong' = Nothing
        /\ UNCHANGED <<store, DMLite, DICfg, game, cache, fst, Partition, req, manual, faults>>
    <3>1. UNCHANGED FC /\ (busy' = busy \/ busy' = Lost(ReadMode, 1)) /\ 1 \in Nat \ {0}
      BY <2>2 DEF cache
    <3>2. busy' \in [Modes -> 0 .. MAX_HANDLES] /\ HandlesFit'
      BY <1>b, <2>2, <3>1, LosingOne
    <3>3. DiscType' \in {"none", "REV", "DOL"}
      BY <1>a, <1>b, <2>2, HasIsGame, DIPAssumption
    <3> QED
      BY <1>a, <1>b, <2>2, <3>1, <3>2, <3>3, Typed, RequestTyped DEF DITyped, store, cache
  <2> QED
    BY <2>1, <2>2, Full
<1>4. CASE DVD_OPEN_PARTITION
  <2>1. \/ NoHandle(FSMode)
        \/ /\ Room(FSMode, 1)
           /\ IF Has(FSMode, game) /\ Disc[game] = "REV"
              THEN Partition' = TRUE /\ UNCHANGED busy
              ELSE busy' = Lost(FSMode, 1) /\ UNCHANGED Partition
           /\ wrong' = Nothing
           /\ UNCHANGED <<store, mode, DICfg, game, cache, fst, DiscType, req, manual, faults>>
    BY <1>4 DEF DVD_OPEN_PARTITION, Opens
  <2>2. CASE
        /\ Room(FSMode, 1)
        /\ IF Has(FSMode, game) /\ Disc[game] = "REV"
           THEN Partition' = TRUE /\ UNCHANGED busy
           ELSE busy' = Lost(FSMode, 1) /\ UNCHANGED Partition
        /\ wrong' = Nothing
        /\ UNCHANGED <<store, mode, DICfg, game, cache, fst, DiscType, req, manual, faults>>
    <3>1. UNCHANGED FC /\ (busy' = busy \/ busy' = Lost(FSMode, 1)) /\ 1 \in Nat \ {0}
      BY <2>2 DEF cache
    <3>3. Partition' \in BOOLEAN
      <4>1. Partition' = TRUE \/ Partition' = Partition
        BY <2>2, Zenon
      <4> QED
        BY <1>a, <4>1
    <3>2. busy' \in [Modes -> 0 .. MAX_HANDLES] /\ HandlesFit'
      BY <2>2, <3>1, LosingOne, Typed
    <3> QED
      BY <1>a, <2>2, <3>1, <3>2, <3>3, Typed, RequestTyped DEF DITyped, store, cache, mode
  <2> QED
    BY <2>1, <2>2, Full
<1>5. CASE DVD_RESET
  BY <1>a, <1>5, Typed, SameHandles, RequestTyped DEF DVD_RESET, store, mode, cache, disc
<1>6. CASE DVD_READ_PAST
  BY <1>a, <1>b, <1>6, Typed, SameHandles, RequestTyped DEF DVD_READ_PAST, store, mode, cache, disc
<1> QED
  BY <1>1, <1>2, <1>3, <1>4, <1>5, <1>6

\* The offsets FSTRebuild gives the files, of which the first n have a size.
LEMMA OffsetsExist ==
  ASSUME NEW n \in Nat, NEW size, NEW low, \A k \in 1 .. n : size[k] \in Nat, low \in Nat
  PROVE  \E f : /\ DOMAIN f = 1 .. n /\ f = [k \in DOMAIN f |-> f[k]]
                /\ \A k \in 1 .. n : f[k] = IF k = 1 THEN low ELSE f[k - 1] + size[k - 1]
<1> DEFINE Eq(f, m) == /\ f = [k \in 1 .. m |-> IF k = 1 THEN low ELSE f[k - 1] + size[k - 1]]
                       /\ \A k \in 1 .. m : f[k] \in Nat
<1> DEFINE G == {m \in Nat : m <= n => \E f : Eq(f, m)}
<1>1. 0 \in G
  <2>1. Eq([k \in 1 .. 0 |-> low], 0)
    OBVIOUS
  <2> QED
    BY <2>1
<1>2. ASSUME NEW m \in Nat, m \in G PROVE m + 1 \in G
  <2>1. CASE m + 1 > n
    BY <1>2, <2>1
  <2>2. CASE m + 1 <= n
    <3>1. PICK f : Eq(f, m)
      BY <1>2, <2>2
    <3> DEFINE g == [k \in 1 .. m + 1 |->
                       IF k <= m THEN f[k] ELSE IF k = 1 THEN low ELSE f[m] + size[m]]
    <3>2. \A k \in 1 .. m : f[k] = (IF k = 1 THEN low ELSE f[k - 1] + size[k - 1]) /\ f[k] \in Nat
      BY <3>1
    <3>3. ASSUME NEW k \in 1 .. m + 1
          PROVE  /\ g[k] = IF k = 1 THEN low ELSE g[k - 1] + size[k - 1]
                 /\ g[k] \in Nat
      <4>1. CASE k <= m
        <5>1. k \in 1 .. m /\ g[k] = f[k] /\ (k # 1 => g[k - 1] = f[k - 1])
          BY <4>1, <3>3
        <5> QED
          BY <3>2, <5>1
      <4>2. CASE k = m + 1
        <5>1. /\ k - 1 = m
              /\ k = 1 => g[k] = low
              /\ k # 1 => m \in 1 .. m /\ g[k] = f[m] + size[m] /\ g[k - 1] = f[m] /\ size[m] \in Nat
          BY <1>2, <2>2, <4>2
        <5> QED
          BY <3>2, <4>2, <5>1
      <4> QED
        BY <4>1, <4>2
    <3>4. Eq(g, m + 1)
      <4>1. g = [k \in 1 .. m + 1 |-> g[k]]
        OBVIOUS
      <4> HIDE DEF g
      <4> QED
        BY <3>3, <4>1
    <3> HIDE DEF Eq, g
    <3> QED
      BY <1>2, <3>4
  <2> QED
    BY <2>1, <2>2, <1>2
<1>3. \A m \in Nat : m \in G
  <2> HIDE DEF G
  <2> QED
    BY <1>1, <1>2, NatInduct
<1>4. \E f : Eq(f, n)
  <2> HIDE DEF Eq
  <2>1. n \in G /\ n <= n
    BY <1>3
  <2> QED
    BY <2>1
<1>5. PICK f : Eq(f, n)
  BY <1>4
<1>6. /\ DOMAIN f = 1 .. n /\ f = [k \in DOMAIN f |-> f[k]]
      /\ \A k \in 1 .. n : f[k] = IF k = 1 THEN low ELSE f[k - 1] + size[k - 1]
  BY <1>5
<1> QED
  BY <1>6

LEMMA RebuiltType ==
  ASSUME DITyped, fst \in Seq(FileEntry), fst # <<>>, game \in Games
  PROVE  Rebuilt \in Seq(FileEntry)
<1>1. PICK n : n = Len(fst) /\ n \in Nat /\ DOMAIN fst = 1 .. n /\ n >= 1
  OBVIOUS
<1>2. \A k \in 1 .. n : fst[k] \in FileEntry /\ fst[k].off \in Nat /\ fst[k].name \in Names
  <2>1. \A k \in 1 .. n : fst[k] \in FileEntry
    BY <1>1
  <2> QED
    BY <2>1 DEF FileEntry
<1>3. PICK size : size = [k \in 1 .. n |-> Size[game][fst[k].name]]
  OBVIOUS
<1>4. \A k \in 1 .. n : size[k] \in Nat
  BY <1>2, <1>3, DIPAssumption
<1>5. PICK bad : bad = {k \in 1 .. n : size[k] = 0}
  OBVIOUS
<1>6. PICK end : end = IF bad = {} THEN n ELSE Min(bad) - 1
  OBVIOUS
<1>7. \A k \in 1 .. n : k <= end => size[k] \in Nat \ {0}
  <2>1. CASE bad = {}
    BY <1>4, <1>5, <2>1
  <2>2. CASE bad # {}
    <3>1. bad \subseteq Nat
      BY <1>5
    <3>2. PICK m : m = Min(bad) /\ m \in bad /\ \A k \in bad : m <= k
      BY <2>2, <3>1, Least
    <3>3. m \in Nat /\ end = m - 1
      BY <1>6, <2>2, <3>1, <3>2
    <3>4. \A k \in 1 .. n : k <= end => k \notin bad
      BY <3>2, <3>3
    <3> QED
      BY <1>4, <1>5, <3>4
  <2> QED
    BY <2>1, <2>2
<1>8. Lowest \in Nat
  <2>1. PICK S : S = {fst[k].off : k \in DOMAIN fst}
    OBVIOUS
  <2>2. S \subseteq Nat /\ S # {}
    BY <1>1, <1>2, <2>1
  <2>3. Min(S) \in S
    BY <2>2, Least
  <2> QED
    BY <2>1, <2>2, <2>3 DEF Lowest
<1>9. PICK off : off = CHOOSE f : f = [k \in 1 .. n |-> IF k = 1 THEN Lowest ELSE f[k - 1] + size[k - 1]]
  OBVIOUS
<1>10. \A k \in 1 .. n : off[k] \in Nat
  <2>1. PICK low : low = Lowest /\ low \in Nat
    BY <1>8
  <2>2. \E f : f = [k \in 1 .. n |-> IF k = 1 THEN low ELSE f[k - 1] + size[k - 1]]
    <3>1. PICK f : /\ DOMAIN f = 1 .. n /\ f = [k \in DOMAIN f |-> f[k]]
                   /\ \A k \in 1 .. n : f[k] = IF k = 1 THEN low ELSE f[k - 1] + size[k - 1]
      BY <1>1, <1>4, <2>1, OffsetsExist
    <3>2. f = [k \in 1 .. n |-> IF k = 1 THEN low ELSE f[k - 1] + size[k - 1]]
      BY <3>1
    <3> QED
      BY <3>2
  <2>3. off = [k \in 1 .. n |-> IF k = 1 THEN low ELSE off[k - 1] + size[k - 1]]
    BY <1>9, <2>1, <2>2
  <2> DEFINE G == {m \in Nat : m \in 1 .. n => off[m] \in Nat}
  <2>4. 0 \in G
    OBVIOUS
  <2>5. ASSUME NEW m \in Nat, m \in G PROVE m + 1 \in G
    <3>1. CASE m + 1 \in 1 .. n
      <4>1. off[m + 1] = IF m + 1 = 1 THEN low ELSE off[m] + size[m]
        <5>1. \A k \in 1 .. n : off[k] = IF k = 1 THEN low ELSE off[k - 1] + size[k - 1]
          BY <2>3, Zenon
        <5>2. (m + 1) - 1 = m
          BY <2>5
        <5> QED
          BY <5>1, <5>2, <3>1
      <4>2. m # 0 => m \in 1 .. n /\ off[m] \in Nat /\ size[m] \in Nat
        BY <1>1, <1>4, <2>5, <3>1
      <4> QED
        BY <2>1, <4>1, <4>2
    <3> QED
      BY <3>1, <2>5
  <2>6. \A m \in Nat : m \in G
    <3> HIDE DEF G
    <3> QED
      BY <2>4, <2>5, NatInduct
  <2> QED
    BY <2>6
<1>11. Rebuilt = [k \in 1 .. n |-> IF k <= end THEN [fst[k] EXCEPT !.off = off[k], !.len = size[k]]
                                   ELSE fst[k]]
  BY <1>1, <1>3, <1>5, <1>6, <1>9 DEF Rebuilt
<1>12. \A k \in 1 .. n : Rebuilt[k] \in FileEntry
  <2> TAKE k \in 1 .. n
  <2>1. CASE k <= end
    <3>1. Rebuilt[k] = [fst[k] EXCEPT !.off = off[k], !.len = size[k]]
      BY <1>11, <2>1
    <3>2. size[k] \in Nat \ {0} /\ off[k] \in Nat /\ fst[k] \in FileEntry
      BY <1>2, <1>7, <1>10, <2>1
    <3> QED
      BY <3>1, <3>2 DEF FileEntry
  <2>2. CASE ~(k <= end)
    BY <1>2, <1>11, <2>2
  <2> QED
    BY <2>1, <2>2
<1>13. Rebuilt = [k \in 1 .. n |-> Rebuilt[k]]
  BY <1>11
<1> QED
  BY <1>1, <1>12, <1>13

\* The entry of the game's table that a read at offset o goes to.
LEMMA EntryIs ==
  ASSUME DITyped, fst \in Seq(FileEntry), NEW o, Entries(o) # {}
  PROVE  /\ Min(Entries(o)) \in DOMAIN fst /\ In(o, fst[Min(Entries(o))])
         /\ \A k \in Entries(o) : Min(Entries(o)) <= k
         /\ fst[Min(Entries(o))] \in FileEntry /\ fst # <<>>
<1>1. Entries(o) \subseteq Nat /\ Entries(o) \subseteq DOMAIN fst
  BY DEF Entries
<1>2. PICK k : k = Min(Entries(o)) /\ k \in Entries(o) /\ \A j \in Entries(o) : k <= j
  BY <1>1, Least
<1>3. k \in DOMAIN fst /\ In(o, fst[k]) /\ fst[k] \in FileEntry /\ fst # <<>>
  BY <1>2 DEF Entries
<1> QED
  BY <1>2, <1>3

LEMMA WantedIs ==
  ASSUME DITyped, fst \in Seq(FileEntry), game \in Games, NEW o \in Int
  PROVE  Wanted(o) \in Place \cup {None}
<1>1. CASE Entries(o) = {}
  BY <1>1 DEF Wanted
<1>2. CASE Entries(o) # {}
  <2>1. PICK e : e = fst[Min(Entries(o))] /\ e \in FileEntry /\ In(o, e)
    BY <1>2, EntryIs
  <2>2. o - e.off \in Nat /\ e.name \in Names
    BY <2>1 DEF In, FileEntry
  <2>3. Wanted(o) = [file |-> <<game, e.name>>, at |-> o - e.off]
    BY <1>2, <2>1 DEF Wanted
  <2> QED
    BY <2>2, <2>3 DEF Place
<1> QED
  BY <1>1, <1>2

LEMMA DifferIs ==
  ASSUME NEW x \in Place \cup {None}, NEW y \in Place \cup {None}
  PROVE  Differ(x, y).is \in Place \cup {None} /\ Differ(x, y).was \in Place \cup {None}
  BY DEF Differ, Nothing

\* What a read finds in the cache.
LEMMA HitIs ==
  ASSUME DITyped, NEW o, Hits(o) # {}
  PROVE  /\ Min(Hits(o)) \in Caches /\ FC[Min(Hits(o))] # NoFile /\ In(o, FC[Min(Hits(o))])
         /\ FC[Min(Hits(o))] \in [mode : Modes, file : Games \X Names, off : Nat, len : Nat]
<1>1. Hits(o) \subseteq Nat /\ \A i \in Hits(o) : i \in Caches /\ FC[i] # NoFile /\ In(o, FC[i])
  BY DIPAssumption DEF Hits, Caches
<1>2. PICK i : i = Min(Hits(o)) /\ i \in Hits(o)
  BY <1>1, Least
<1>3. FC[i] \in [mode : Modes, file : Games \X Names, off : Nat, len : Nat]
  BY <1>1, <1>2 DEF DITyped, Cell
<1> QED
  BY <1>1, <1>2, <1>3

\* A file that is put in the cache, in the place of another one.
LEMMA FileTyped ==
  ASSUME DITyped, NEW m \in Modes, NEW n \in Caches, NEW x \in Cell, NEW k \in {1, 2},
         FC' = [FC EXCEPT ![n] = x], x = NoFile \/ x.mode = m,
         ~(busy[m] + Cardinality(Cached(m) \ {n}) + k > MAX_HANDLES),
         busy' = busy \/ (busy' = Lost(m, 1) /\ (x = NoFile \/ k = 2))
  PROVE  busy' \in [Modes -> 0 .. MAX_HANDLES] /\ HandlesFit' /\ FC' \in [Caches -> Cell]
<1>1. FC \in [Caches -> Cell] /\ FC' \in [Caches -> Cell]
  BY DEF DITyped
<1>2. ASSUME NEW q \in Modes
      PROVE  busy'[q] \in Nat /\ busy'[q] + Cardinality(Cached(q)') <= MAX_HANDLES
             /\ Cardinality(Cached(q)') \in Nat
  <2>1. PICK b, b2, c, d, c2 : /\ b = busy[q] /\ b2 = busy'[q] /\ c = Cardinality(Cached(q))
                               /\ d = Cardinality(Cached(q) \ {n}) /\ c2 = Cardinality(Cached(q)')
    OBVIOUS
  <2>2. /\ c2 \in Nat /\ d \in Nat /\ c \in Nat /\ c2 <= d + 1 /\ d <= c
        /\ (x = NoFile \/ x.mode # q => c2 <= d)
    BY <1>1, <2>1, CountChanged
  <2>3. b \in Nat /\ b + c <= MAX_HANDLES /\ MAX_HANDLES \in Nat
    BY <2>1, DIPAssumption DEF DITyped, TypeOK, HandlesFit
  <2>4. b2 = b \/ (q = m /\ b2 = b + 1 /\ (x = NoFile \/ k = 2))
    BY <2>1, LostIs
  <2>5. q = m => b + d + k <= MAX_HANDLES
    BY <2>1, <2>2, <2>3
  <2>6. CASE q = m
    BY <2>1, <2>2, <2>3, <2>4, <2>5, <2>6
  <2>7. CASE q # m
    BY <2>1, <2>2, <2>3, <2>4, <2>7
  <2> QED
    BY <2>6, <2>7
<1>3. DOMAIN busy' = Modes /\ busy' = [q \in Modes |-> busy'[q]]
  <2>1. busy \in [Modes -> Nat] /\ Lost(m, 1) \in [Modes -> Nat]
    <3>1. Lost(m, 1) \in [Modes -> Nat]
      BY LostIs
    <3>2. busy \in [Modes -> 0 .. MAX_HANDLES] /\ MAX_HANDLES \in Nat
      BY DIPAssumption DEF DITyped, TypeOK
    <3> QED
      BY <3>1, <3>2
  <2> QED
    BY <2>1
<1>4. \A q \in Modes : busy'[q] \in 0 .. MAX_HANDLES
  BY <1>2, DIPAssumption
<1> QED
  BY <1>1, <1>2, <1>3, <1>4 DEF HandlesFit

LEMMA NextEntryIs ==
  ASSUME DITyped
  PROVE  NextEntry \in Caches /\ NextEntry + 1 \in 0 .. FILECACHE_MAX /\ NextEntry \in 0 .. FILECACHE_MAX
  BY Typed, DIPAssumption DEF NextEntry, Caches

LEMMA LowReadTyped ==
  ASSUME DITyped, req.op = "idle", game \in Games, NEW m \in Modes, DVDLowRead(m), FSMode' \in Modes
  PROVE  DITyped'
<1>a. /\ fst = None \/ fst \in Seq(FileEntry)
      /\ DiscType \in {"none", "REV", "DOL"} /\ Partition \in BOOLEAN
      /\ req \in [op : {"idle", "update", "delete", "write", "select"}, slot : Int, force : BOOLEAN]
      /\ diconfig \in Config /\ Nothing.is = None /\ Nothing.was = None
  BY Typed DEF DITyped, TypeOK, Nothing
<1>1. CASE ReadFST(m)
  <2>1. \/ NoHandle(m)
        \/ /\ Room(m, 1)
           /\ IF Has(m, game)
              THEN fst' = FST[game] /\ UNCHANGED busy
              ELSE busy' = Lost(m, 1) /\ UNCHANGED fst
           /\ wrong' = Nothing
           /\ UNCHANGED <<store, DMLite, DICfg, game, cache, disc, req, manual, faults>>
    BY <1>1 DEF ReadFST, Opens
  <2>2. CASE
        /\ Room(m, 1)
        /\ IF Has(m, game)
           THEN fst' = FST[game] /\ UNCHANGED busy
           ELSE busy' = Lost(m, 1) /\ UNCHANGED fst
        /\ wrong' = Nothing
        /\ UNCHANGED <<store, DMLite, DICfg, game, cache, disc, req, manual, faults>>
    <3>1. UNCHANGED FC /\ (busy' = busy \/ busy' = Lost(m, 1)) /\ 1 \in Nat \ {0}
      BY <2>2 DEF cache
    <3>2. busy' \in [Modes -> 0 .. MAX_HANDLES] /\ HandlesFit'
      BY <2>2, <3>1, LosingOne
    <3>3. fst' = None \/ fst' \in Seq(FileEntry)
      <4>1. FST[game] \in Seq(FileEntry)
        BY DIPAssumption
      <4> QED
        BY <1>a, <2>2, <4>1
    <3> QED
      BY <1>a, <2>2, <3>1, <3>2, <3>3, Typed, RequestTyped DEF DITyped, store, cache, disc
  <2> QED
    BY <2>1, <2>2, Full
<1>2. ASSUME fst # None, NEW k \in DOMAIN fst, NEW o \in fst[k].off .. fst[k].off + fst[k].len - 1,
             ReadCached(m, o)
      PROVE  DITyped'
  <2>1. fst \in Seq(FileEntry) /\ o \in Int
    BY <1>a, <1>2
  <2>2. PICK c : c = FC[Min(Hits(o))]
    OBVIOUS
  <2>3. In(o, c) /\ c \in [mode : Modes, file : Games \X Names, off : Nat, len : Nat]
    BY <1>2, <2>2, HitIs DEF ReadCached
  <2>4. PICK x : x = IF c.mode = m THEN [file |-> c.file, at |-> o - c.off] ELSE None
    OBVIOUS
  <2>5. x \in Place \cup {None}
    BY <2>1, <2>3, <2>4 DEF In, Place
  <2>6. wrong' = Differ(x, Wanted(o))
    BY <1>2, <2>2, <2>4 DEF ReadCached
  <2>7. wrong'.is \in Place \cup {None} /\ wrong'.was \in Place \cup {None}
    BY <2>1, <2>5, <2>6, WantedIs, DifferIs
  <2>8. UNCHANGED <<store, DMLite, busy, DICfg, game, cache, fst, disc, req, manual, faults>>
    BY <1>2 DEF ReadCached
  <2> QED
    BY <1>a, <2>7, <2>8, Typed, SameHandles, RequestTyped DEF store, cache, disc
<1>3. ASSUME fst # None, NEW j \in DOMAIN fst, NEW o \in fst[j].off .. fst[j].off + fst[j].len - 1,
             ReadFile(m, o)
      PROVE  DITyped'
  <2>1. fst \in Seq(FileEntry) /\ o \in Int
    BY <1>a, <1>3
  <2>2. PICK e, n, hit, redo, k :
          /\ e = fst[Min(Entries(o))] /\ n = NextEntry
          /\ hit = (Has(m, game) /\ Size[game][e.name] > 0)
          /\ redo = (hit /\ DICfg.rebuild /\ e.name = Opening)
          /\ k = IF redo THEN 2 ELSE 1
    OBVIOUS
  <2>3. e \in FileEntry /\ In(o, e) /\ e.name \in Names /\ e.off \in Nat /\ e.len \in Nat /\ fst # <<>>
    BY <1>3, <2>1, <2>2, EntryIs DEF ReadFile, FileEntry
  <2>4. \/ NoHandle(m)
        \/ /\ ~(busy[m] + Cardinality(Cached(m) \ {n}) + k > MAX_HANDLES)
           /\ FC' = [FC EXCEPT ![n] = IF ~ hit THEN NoFile ELSE
                      [mode |-> m, file |-> <<game, e.name>>, off |-> e.off, len |-> e.len]]
           /\ FCEntry' = IF hit THEN n + 1 ELSE n
           /\ busy' = IF ~ hit \/ (redo /\ m # base) THEN Lost(m, 1) ELSE busy
           /\ wrong' = IF hit THEN Differ([file |-> <<game, e.name>>, at |-> o - e.off], Wanted(o))
                       ELSE Nothing
           /\ fst' = IF redo THEN Rebuilt ELSE fst
           /\ DICfg' = IF redo THEN [DICfg EXCEPT !.rebuild = FALSE] ELSE DICfg
           /\ diconfig' = IF redo /\ m = base
                          THEN [DICfg' EXCEPT !.names = diconfig.names] ELSE diconfig
           /\ UNCHANGED <<base, dir, bootinfo, DMLite, game, disc, req, manual>>
    BY <1>3, <2>2 DEF ReadFile
  <2>5. SUFFICES ASSUME ~ NoHandle(m) PROVE DITyped'
    BY Full
  <2>6. n \in Caches /\ k \in {1, 2} /\ FCEntry' \in 0 .. FILECACHE_MAX
    BY <2>2, <2>4, <2>5, NextEntryIs
  <2>7. PICK x : x = IF ~ hit THEN NoFile ELSE
                      [mode |-> m, file |-> <<game, e.name>>, off |-> e.off, len |-> e.len]
    OBVIOUS
  <2>8. x \in Cell /\ (x = NoFile \/ x.mode = m) /\ (~hit => x = NoFile)
    BY <2>3, <2>7 DEF Cell
  <2>9. busy' \in [Modes -> 0 .. MAX_HANDLES] /\ HandlesFit' /\ FC' \in [Caches -> Cell]
    <3>1. FC' = [FC EXCEPT ![n] = x]
      BY <2>4, <2>5, <2>7
    <3>2. busy' = busy \/ (busy' = Lost(m, 1) /\ (x = NoFile \/ k = 2))
      BY <2>2, <2>4, <2>5, <2>8
    <3>3. ~(busy[m] + Cardinality(Cached(m) \ {n}) + k > MAX_HANDLES)
      BY <2>4, <2>5
    <3> QED
      BY <2>6, <2>8, <3>1, <3>2, <3>3, FileTyped
  <2>10. wrong'.is \in Place \cup {None} /\ wrong'.was \in Place \cup {None}
    <3>1. PICK p : p = [file |-> <<game, e.name>>, at |-> o - e.off] /\ p \in Place
      <4>1. o - e.off \in Nat /\ <<game, e.name>> \in Games \X Names
        BY <2>1, <2>3 DEF In
      <4>2. [file |-> <<game, e.name>>, at |-> o - e.off] \in Place
        BY <4>1 DEF Place
      <4> QED
        BY <4>2
    <3>2. wrong' = Differ(p, Wanted(o)) \/ wrong' = Nothing
      BY <2>4, <2>5, <3>1
    <3> QED
      BY <1>a, <2>1, <3>1, <3>2, WantedIs, DifferIs
  <2>11. fst' \in Seq(FileEntry)
    BY <2>1, <2>3, <2>4, <2>5, RebuiltType
  <2>12. DICfg' \in Config /\ diconfig' \in Config
    <3>1. DICfg' \in Config
      BY <2>4, <2>5, Typed, ConfigIs
    <3> QED
      BY <1>a, <2>4, <2>5, <3>1, ConfigIs
  <2> QED
    BY <1>a, <2>4, <2>5, <2>6, <2>9, <2>10, <2>11, <2>12, Typed, RequestTyped DEF disc
<1> QED
  BY <1>1, <1>2, <1>3 DEF DVDLowRead

LEMMA NextTyped ==
  ASSUME DITyped, [Next]_vars
  PROVE  DITyped'
<1>1. CASE req.op = "idle" /\ Request
  <2>1. ReadMode \in Modes /\ FSMode \in Modes /\ Restored \in Modes
    BY Typed DEF ReadMode, Restored, Modes
  <2>2. CASE DVD_LOW_READ
    BY <1>1, <2>1, <2>2, LowReadTyped, Typed DEF DVD_LOW_READ
  <2>3. CASE DVD_READ_UNENCRYPTED
    BY <1>1, <2>1, <2>3, LowReadTyped, Typed DEF DVD_READ_UNENCRYPTED
  <2> QED
    BY <1>1, <2>2, <2>3, OthersTyped DEF Request
<1>2. CASE Work
  BY <1>2, UpdateTyped, ListTyped, ChoosingTyped DEF Work
<1>3. CASE PowerOff
  <2>1. \A q \in Modes : Cached(q)' = {} /\ Cardinality(Cached(q)') = 0
    <3>1. \A q \in Modes : Cached(q)' = {}
      BY <1>3 DEF PowerOff, Cached, NoFC, NoFile, Modes
    <3> QED
      BY <3>1, FS_EmptySet
  <2>2. HandlesFit'
    BY <1>3, <2>1, DIPAssumption DEF PowerOff, HandlesFit
  <2>3. FC' \in [Caches -> Cell] /\ busy' \in [Modes -> 0 .. MAX_HANDLES]
    BY <1>3, DIPAssumption DEF PowerOff, NoFC, Cell
  <2>4. \A i \in Caches : FC'[i] = NoFile
    BY <1>3 DEF PowerOff, NoFC
  <2>5. /\ req' \in [op : {"idle", "update", "delete", "write", "select"}, slot : Int, force : BOOLEAN]
        /\ req'.op = "update"
        /\ wrong'.is \in Place \cup {None} /\ wrong'.was \in Place \cup {None}
    BY <1>3 DEF PowerOff, Booting, Nothing
  <2>6. FCEntry' \in 0 .. FILECACHE_MAX
    BY <1>3, DIPAssumption DEF PowerOff
  <2> QED
    BY <1>3, <2>2, <2>3, <2>4, <2>5, <2>6, Typed, ConfigIs DEF PowerOff, DITyped, TypeOK, ConfigKept
<1>4. CASE UNCHANGED vars
  BY <1>4 DEF vars, store, mode, cache, disc, DITyped, TypeOK, HandlesFit, Cached, ConfigKept
<1> QED
  BY <1>1, <1>2, <1>3, <1>4 DEF Next

LEMMA InitTyped == Init => DITyped
<1> SUFFICES ASSUME Init PROVE DITyped
  OBVIOUS
<1>1. \A q \in Modes : Cached(q) = {} /\ Cardinality(Cached(q)) = 0
  <2>1. \A q \in Modes : Cached(q) = {}
    BY DEF Init, Cached, NoFC, NoFile, Modes
  <2> QED
    BY <2>1, FS_EmptySet
<1>2. HandlesFit
  BY <1>1, DIPAssumption DEF Init, HandlesFit
<1>3. FC \in [Caches -> Cell] /\ busy \in [Modes -> 0 .. MAX_HANDLES] /\ base \in Modes
  BY DIPAssumption DEF Init, NoFC, Cell, Modes
<1>4. \A i \in Caches : FC[i] = NoFile
  BY DEF Init, NoFC
<1>5. /\ req \in [op : {"idle", "update", "delete", "write", "select"}, slot : Int, force : BOOLEAN]
      /\ req.op = "update"
      /\ wrong.is \in Place \cup {None} /\ wrong.was \in Place \cup {None}
  BY DEF Init, Booting, Nothing
<1>6. FCEntry \in 0 .. FILECACHE_MAX
  BY DIPAssumption DEF Init
<1> QED
  BY <1>2, <1>3, <1>4, <1>5, <1>6, ConfigIs DEF Init, DITyped, TypeOK, ConfigKept

\* The variables of DI keep their types, whatever is asked and wherever the power
\* goes off; no index leaves the cache, and no table has more handles in use than
\* it has.
THEOREM DITypes == Spec => [](TypeOK /\ HandlesFit)
<1>1. DITyped => TypeOK /\ HandlesFit
  BY DEF DITyped
<1> QED
  BY <1>1, InitTyped, NextTyped, PTL DEF Spec

-----------------------------------------------------------------------------
(***************************************************************************)
(* DIP: what DI keeps agrees with what is on the disks.                    *)
(***************************************************************************)

\* The list, the slot and the count are the same in memory and in the file.
SameList ==
  /\ diconfig \in Config
  /\ diconfig.slot = DICfg.slot /\ diconfig.count = DICfg.count /\ diconfig.names = DICfg.names

\* The list has every game in /games once.
WholeList ==
  /\ DICfg.count <= Len(DICfg.names) /\ Listed(DICfg) = Range(Listing)
  /\ DICfg.count = Cardinality(Listed(DICfg))

Reachable ==
  /\ Boots(ReadMode, game)
  /\ DICfg.slot < DICfg.count /\ DICfg.names[DICfg.slot + 1] = game

\* The switch to the SD card is only made with SNEEK, and ends with its handler; a
\* list that was read again is the one in the file; one that is about to be
\* written has its count; and no file has a game twice.
StoredInv ==
  /\ DMLite => base = "SNEEK"
  /\ "past" \notin faults => FSMode = base
  /\ "past" \in faults => req.op = "idle"
  /\ diconfig # None => IsInjective(diconfig.names)
  /\ req.op \in {"idle", "select"} => SameList
  /\ req.op \in {"idle", "select"} /\ ~manual => WholeList
  /\ req.op \in {"delete", "write"} /\ ~manual => DICfg.count = Len(Listing)
  /\ req.op = "idle" /\ ~Stopped /\ DICfg.count > 0 => Reachable

\* What is in /games is there once.
LEMMA ListingOnce ==
  ASSUME GamesOnce, DITyped
  PROVE  IsInjective(Listing)
<1>1. PICK u \in Seq(Games), s \in Seq(Games) : u = dir.usb /\ s = dir.sd
  BY DIPAssumption DEF DITyped, TypeOK
<1>2. IsInjective(u \o s)
  BY <1>1 DEF GamesOnce, DITyped, TypeOK
<1>3. IsInjective(u)
  <2>1. /\ DOMAIN u = 1 .. Len(u) /\ Len(u) \in Nat
        /\ \A i \in 1 .. Len(u) : i \in DOMAIN (u \o s) /\ (u \o s)[i] = u[i]
    OBVIOUS
  <2> QED
    BY <1>2, <2>1 DEF IsInjective
<1> QED
  BY <1>1, <1>2, <1>3 DEF Listing

\* A list that is not outdated has the games there are.
LEMMA NotOutdated ==
  ASSUME GamesOnce, DITyped, NEW c \in Config, IsInjective(c.names), ~Outdated(c), c.auto
  PROVE  /\ c.count <= Len(c.names) /\ Listed(c) = Range(Listing)
         /\ c.count = Cardinality(Listed(c))
<1>1. c.names \in Seq(Games) /\ c.count \in Nat /\ Len(c.names) \in Nat
  BY ConfigIs
<1>2. c.count <= Len(c.names) /\ c.count = Len(Listing) /\ Listed(c) \subseteq Range(Listing)
  BY <1>1 DEF Outdated, Short, Missing
<1>3. PICK l \in Seq(Games) : l = Listing /\ IsInjective(l)
  BY Storage, ListingOnce DEF DITyped
<1>4. PICK s \in Seq(Games) : s = c.names /\ IsInjective(s)
  BY <1>1
<1>5. PICK n : n = c.count /\ n \in 0 .. Len(s) /\ n = Len(l) /\ n \in 0 .. Len(l)
  BY <1>1, <1>2, <1>3, <1>4
<1>6. PICK S : S = Listed(c) /\ \A x : x \in S <=> \E i \in 1 .. n : x = s[i]
  <2>1. \A x : x \in Listed(c) <=> \E i \in 1 .. n : x = s[i]
    BY <1>4, <1>5 DEF Listed
  <2> QED
    BY <2>1
<1>7. PICK R : R = Range(l) /\ \A x : x \in R <=> \E i \in 1 .. n : x = l[i]
  <2>1. DOMAIN l = 1 .. n
    BY <1>5
  <2>2. \A x : x \in Range(l) <=> \E i \in 1 .. n : x = l[i]
    BY <2>1 DEF Range
  <2> QED
    BY <2>2
<1>8. /\ \A i, j \in 1 .. Len(s) : s[i] = s[j] => i = j
      /\ \A i, j \in 1 .. Len(l) : l[i] = l[j] => i = j
  BY <1>3, <1>4 DEF IsInjective
<1>9. Cardinality(S) = n
  <2>1. n \in 0 .. Len(s)
    BY <1>5
  <2>2. \A i, j \in 1 .. Len(s) : s[i] = s[j] => i = j
    BY <1>8
  <2>3. \A x : x \in S <=> \E i \in 1 .. n : x = s[i]
    BY <1>6
  <2> QED
    BY <2>1, <2>2, <2>3, CountFirst, Zenon
<1>10. IsFiniteSet(R) /\ Cardinality(R) = n
  <2>1. n \in 0 .. Len(l)
    BY <1>5
  <2>2. \A i, j \in 1 .. Len(l) : l[i] = l[j] => i = j
    BY <1>8
  <2>3. \A x : x \in R <=> \E i \in 1 .. n : x = l[i]
    BY <1>7
  <2> QED
    BY <2>1, <2>2, <2>3, CountFirst, Zenon
<1>11. S \subseteq R
  BY <1>2, <1>3, <1>6, <1>7
<1>12. S = R
  BY <1>9, <1>10, <1>11, FS_Subset
<1> QED
  BY <1>2, <1>3, <1>5, <1>6, <1>7, <1>9, <1>12

\* Without a handle nothing happens any more.
LEMMA FullStored ==
  ASSUME StoredInv, NEW m, NoHandle(m)
  PROVE  StoredInv' /\ Stopped'
<1>1. Stopped'
  BY DEF NoHandle, Stopped
<1>2. "past" \in faults' <=> "past" \in faults
  BY DEF NoHandle
<1>3. UNCHANGED <<base, dir, bootinfo, diconfig, FSMode, DMLite, DICfg, game, req, manual>>
  BY DEF NoHandle, store, mode
<1>4. (SameList' <=> SameList) /\ (WholeList' <=> WholeList) /\ Listing' = Listing
  BY <1>3 DEF SameList, WholeList, Listing, Listed
<1> QED
  BY <1>1, <1>2, <1>3, <1>4 DEF StoredInv

LEMMA NotPast ==
  ASSUME ~Stopped
  PROVE  "past" \notin faults
  BY DEF Stopped

LEMMA UpdateStored ==
  ASSUME GamesOnce, DITyped, StoredInv, ~Stopped, DVDUpdateCache
  PROVE  StoredInv'
<1>1. PICK c : c = (IF diconfig = None THEN Default ELSE diconfig)
  OBVIOUS
<1>2. c \in Config /\ IsInjective(c.names) /\ (diconfig # None => c = diconfig)
  BY <1>1, Typed, ConfigIs DEF StoredInv, Default, IsInjective
<1>3. PICK count, again :
        /\ count = (IF c.auto THEN Len(Listing) ELSE c.count)
        /\ again = (req.force \/ diconfig = None \/ Outdated(c))
  OBVIOUS
<1>4. \/ NoHandle("UNEEK") \/ NoHandle(base)
      \/ /\ DICfg' = IF again THEN [c EXCEPT !.count = count] ELSE c
         /\ manual' = ~ c.auto
         /\ Go(IF again THEN "delete" ELSE "select")
         /\ UNCHANGED <<store, mode, game, cache, fst, disc, wrong, faults>>
  BY <1>1, <1>3 DEF DVDUpdateCache, Opens
<1>5. SUFFICES ASSUME /\ DICfg' = IF again THEN [c EXCEPT !.count = count] ELSE c
                      /\ manual' = ~ c.auto
                      /\ Go(IF again THEN "delete" ELSE "select")
                      /\ UNCHANGED <<store, mode, game, cache, fst, disc, wrong, faults>>
               PROVE  StoredInv'
  BY <1>4, FullStored
<1>6. req'.op = (IF again THEN "delete" ELSE "select") /\ "past" \notin faults'
  BY <1>5, ReqIs, NotPast DEF Go
<1>7. Listing' = Listing
  BY <1>5 DEF Listing, store
<1>8. CASE again
  <2>1. ~manual' => DICfg'.count = Len(Listing')
    BY <1>2, <1>3, <1>5, <1>7, <1>8 DEF Config
  <2> QED
    BY <1>5, <1>6, <1>8, <2>1 DEF StoredInv, store, mode
<1>9. CASE ~again
  <2>1. diconfig = c /\ DICfg' = c /\ diconfig' = diconfig
    BY <1>2, <1>3, <1>5, <1>9 DEF store
  <2>2. SameList'
    BY <1>2, <2>1 DEF SameList
  <2>3. ~manual' => WholeList'
    BY <1>2, <1>3, <1>5, <1>7, <1>9, <2>1, NotOutdated DEF WholeList, Listed
  <2> QED
    BY <1>5, <1>6, <1>9, <2>2, <2>3 DEF StoredInv, store, mode
<1> QED
  BY <1>8, <1>9

LEMMA ListStored ==
  ASSUME GamesOnce, DITyped, StoredInv, ~Stopped,
         DeleteList \/ WriteList \/ SelectNothing \/ SelectBeyond
  PROVE  StoredInv'
<1>1. CASE DeleteList
  <2>1. req'.op = "write" /\ req.op = "delete" /\ Listing' = Listing
    BY <1>1, ReqIs DEF DeleteList, Go, Listing
  <2> QED
    BY <1>1, <2>1 DEF DeleteList, StoredInv, mode
<1>2. CASE WriteList
  <2>1. \/ NoHandle("UNEEK") \/ NoHandle(base)
        \/ /\ diconfig' = [DICfg EXCEPT !.names = Listing]
           /\ DICfg' = diconfig'
           /\ Go("select")
           /\ UNCHANGED <<base, dir, bootinfo, mode, game, cache, fst, disc, wrong, manual, faults>>
    BY <1>2 DEF WriteList, Opens
  <2>2. SUFFICES ASSUME
              /\ diconfig' = [DICfg EXCEPT !.names = Listing]
              /\ DICfg' = diconfig'
              /\ Go("select")
              /\ UNCHANGED <<base, dir, bootinfo, mode, game, cache, fst, disc, wrong, manual, faults>>
                 PROVE  StoredInv'
    BY <2>1, FullStored
  <2>3. req'.op = "select" /\ req.op = "write" /\ Listing' = Listing
    BY <1>2, <2>2, ReqIs DEF WriteList, Go, Listing
  <2>4. /\ diconfig' \in Config /\ diconfig'.names = Listing /\ diconfig'.count = DICfg.count
    BY <2>2, Typed, Storage, ConfigIs DEF DITyped, Config
  <2>5. IsInjective(diconfig'.names) /\ SameList'
    BY <2>2, <2>4, ListingOnce DEF SameList
  <2>6. ~manual' => WholeList'
    <3>1. SUFFICES ASSUME ~manual PROVE WholeList'
      BY <2>2
    <3>2. PICK l \in Seq(Games) : l = Listing /\ IsInjective(l) /\ Len(l) \in Nat
      BY Storage, ListingOnce DEF DITyped
    <3>3. DICfg'.count = Len(l) /\ DICfg'.names = l /\ DOMAIN l = 1 .. Len(l)
      BY <2>2, <2>3, <2>4, <3>1, <3>2 DEF StoredInv
    <3>4. PICK S : S = Listed(DICfg)' /\ S = Range(l) /\ \A x : x \in S <=> \E i \in 1 .. Len(l) : x = l[i]
      <4>1. \A x : x \in Range(l) <=> \E i \in 1 .. Len(l) : x = l[i]
        BY <3>3 DEF Range
      <4>2. Listed(DICfg)' = Range(l)
        BY <3>3 DEF Listed, Range
      <4> QED
        BY <4>1, <4>2
    <3>5. Cardinality(S) = Len(l)
      <4>1. Len(l) \in 0 .. Len(l) /\ \A i, j \in 1 .. Len(l) : l[i] = l[j] => i = j
        BY <3>2, <3>3 DEF IsInjective
      <4> QED
        BY <3>2, <3>4, <4>1, CountFirst
    <3>6. DICfg'.count = Len(l) /\ DICfg'.count <= Len(DICfg'.names)
      BY <3>2, <3>3
    <3>7. Listed(DICfg)' = Range(Listing') /\ DICfg'.count = Cardinality(Listed(DICfg)')
      BY <2>3, <3>2, <3>4, <3>5, <3>6
    <3> QED
      BY <3>6, <3>7 DEF WholeList
  <2> QED
    BY <2>2, <2>3, <2>5, <2>6 DEF StoredInv, mode
<1>3. CASE SelectNothing
  <2>1. req'.op = "idle" /\ req.op = "select" /\ ~(DICfg'.count > 0)
    BY <1>3 DEF SelectNothing, Reply, Idle
  <2>2. (SameList' <=> SameList) /\ (WholeList' <=> WholeList)
    BY <1>3 DEF SelectNothing, SameList, WholeList, Listing, Listed, store
  <2> QED
    BY <1>3, <2>1, <2>2, NotPast DEF SelectNothing, StoredInv, mode, store
<1>4. CASE SelectBeyond
  <2>1. req'.op = "select" /\ req.op = "select" /\ ("past" \in faults' <=> "past" \in faults)
    BY <1>4 DEF SelectBeyond
  <2>2. (SameList' <=> SameList) /\ (WholeList' <=> WholeList)
    BY <1>4 DEF SelectBeyond, SameList, WholeList, Listing, Listed, store
  <2> QED
    BY <1>4, <2>1, <2>2 DEF SelectBeyond, StoredInv, mode, store
<1> QED
  BY <1>1, <1>2, <1>3, <1>4

LEMMA SelectedStored ==
  ASSUME DITyped, StoredInv, ~Stopped, Selecting, NEW m \in Modes, Selected(m),
         ReadMode' = m, Boots(m, Chosen), UNCHANGED FSMode, DMLite' => base = "SNEEK"
  PROVE  StoredInv'
<1>1. /\ SameList /\ (~manual => WholeList) /\ "past" \notin faults
  BY SlotIs, NotPast DEF StoredInv
<1>2. /\ DICfg' = [DICfg EXCEPT !.slot = Slot] /\ diconfig' = [DICfg' EXCEPT !.names = diconfig.names]
      /\ game' = Chosen /\ req' = Idle /\ faults' = faults \ {"rebuild"} /\ manual' = manual
      /\ UNCHANGED <<base, dir>>
  BY DEF Selected, SaveSlot, Reply
<1>3. /\ DICfg'.slot = Slot /\ DICfg'.count = DICfg.count /\ DICfg'.names = DICfg.names
      /\ DICfg' \in Config
  BY <1>2, SlotIs, Typed, ConfigIs DEF Config
<1>4. /\ diconfig' \in Config /\ diconfig'.slot = Slot /\ diconfig'.count = DICfg.count
      /\ diconfig'.names = diconfig.names /\ diconfig.names \in Seq(Games)
  BY <1>1, <1>2, <1>3, ConfigIs DEF SameList, Config
<1>5. SameList'
  BY <1>1, <1>3, <1>4 DEF SameList
<1>6. Listing' = Listing /\ Stored(m)' = Stored(m)
  BY <1>2 DEF Listing, Stored
<1>7. ~manual' => WholeList'
  BY <1>1, <1>2, <1>3, <1>6 DEF WholeList, Listed
<1>8. Reachable'
  <2>1. game' \in Range(Stored(m)') /\ game' \notin Broken
    BY <1>2, <1>6 DEF Boots, Has
  <2>2. DICfg'.slot < DICfg'.count /\ DICfg'.names[DICfg'.slot + 1] = game'
    BY <1>2, <1>3, SlotIs DEF Chosen
  <2> QED
    BY <2>1, <2>2 DEF Reachable, Boots, Has
<1>9. diconfig # None => IsInjective(diconfig'.names)
  BY <1>4 DEF StoredInv
<1>10. req'.op = "idle" /\ "past" \notin faults' /\ diconfig # None
  BY <1>1, <1>2, DIPAssumption DEF Idle, SameList
<1> QED
  BY <1>1, <1>2, <1>5, <1>7, <1>8, <1>9, <1>10 DEF StoredInv

LEMMA ChoosingStored ==
  ASSUME DITyped, StoredInv, ~Stopped, SelectGame \/ SelectDMLite \/ SelectAgain
  PROVE  StoredInv'
<1>1. CASE SelectGame
  <2>1. Selecting /\ Boots(FSMode, Chosen) /\ (NoHandle(FSMode) \/
          (Selected(FSMode) /\ DMLite' = FALSE /\ UNCHANGED <<FSMode, bootinfo>>))
    BY <1>1 DEF SelectGame, Opens
  <2>2. DMLite' = FALSE /\ UNCHANGED FSMode => ReadMode' = FSMode
    BY DEF ReadMode
  <2> QED
    BY <2>1, <2>2, FullStored, SelectedStored, Typed
<1>2. CASE SelectDMLite
  <2>1. Selecting /\ FSMode = "SNEEK" /\ Boots("UNEEK", Chosen) /\ (NoHandle("SNEEK") \/ NoHandle("UNEEK") \/
          (Selected("UNEEK") /\ DMLite' = TRUE /\ UNCHANGED FSMode))
    BY <1>2 DEF SelectDMLite, Opens
  <2>2. "UNEEK" \in Modes /\ base = "SNEEK"
    BY <2>1, NotPast DEF Modes, StoredInv
  <2>3. DMLite' = TRUE => ReadMode' = "UNEEK"
    BY DEF ReadMode
  <2> QED
    BY <2>1, <2>2, <2>3, FullStored, SelectedStored
<1>3. CASE SelectAgain
  <2>1. Selecting /\ (NoHandle(FSMode) \/ NoHandle("UNEEK") \/ TryAgain(0))
    BY <1>3 DEF SelectAgain, Opens
  <2>2. CASE TryAgain(0)
    <3>1. FSMode = base /\ "past" \notin faults'
      BY <2>2, NotPast DEF StoredInv, TryAgain
    <3>2. /\ DMLite' = (DMLite \/ FSMode = "SNEEK")
          /\ FSMode' = IF DMLite' THEN "SNEEK" ELSE FSMode
          /\ req'.op = "update" /\ UNCHANGED <<base, diconfig>>
      BY <2>2 DEF TryAgain
    <3>3. (DMLite' => base = "SNEEK") /\ FSMode' = base'
      BY <3>1, <3>2 DEF StoredInv
    <3> QED
      BY <3>1, <3>2, <3>3 DEF StoredInv
  <2> QED
    BY <2>1, <2>2, FullStored
<1> QED
  BY <1>1, <1>2, <1>3

\* What a request leaves alone is enough, but for the mode in force.
LEMMA RequestStored ==
  ASSUME DITyped, StoredInv, req.op = "idle", ~Stopped,
         UNCHANGED <<base, dir, DMLite, game, manual, req>>,
         "past" \in faults' \/ (FSMode' = base /\ ReadMode' = ReadMode),
         DICfg'.slot = DICfg.slot, DICfg'.count = DICfg.count, DICfg'.names = DICfg.names,
         diconfig' \in Config, diconfig'.slot = diconfig.slot, diconfig'.count = diconfig.count,
         diconfig'.names = diconfig.names
  PROVE  StoredInv'
<1>1. SameList /\ (~manual => WholeList) /\ diconfig # None
  BY DIPAssumption DEF StoredInv, SameList
<1>2. SameList' /\ Listing' = Listing /\ \A m : Stored(m)' = Stored(m)
  BY <1>1 DEF SameList, Listing, Stored
<1>3. ~manual' => WholeList'
  BY <1>1, <1>2 DEF WholeList, Listed
<1>4. ~Stopped' /\ DICfg'.count > 0 => Reachable'
  <2>1. SUFFICES ASSUME ~Stopped', DICfg'.count > 0 PROVE Reachable'
    OBVIOUS
  <2>2. Reachable /\ ReadMode' = ReadMode
    BY <2>1 DEF StoredInv, Stopped
  <2> QED
    BY <1>2, <2>2 DEF Reachable, Boots, Has
<1> QED
  BY <1>1, <1>2, <1>3, <1>4 DEF StoredInv

LEMMA OthersStored ==
  ASSUME DITyped, StoredInv, req.op = "idle", ~Stopped, Request
  PROVE  StoredInv'
<1>a. diconfig \in Config /\ SameList /\ FSMode = base /\ "past" \notin faults /\ (DMLite => base = "SNEEK")
  BY NotPast DEF StoredInv, SameList
<1>1. CASE \E s \in Slots : DVD_SELECT_GAME(s)
  <2>1. PICK s \in Slots : DVD_SELECT_GAME(s)
    BY <1>1
  <2>2. UNCHANGED <<base, dir, diconfig, mode, DICfg, game, manual, faults>> /\ req'.op = "select"
    BY <2>1 DEF DVD_SELECT_GAME, store
  <2>3. (SameList' <=> SameList) /\ (WholeList' <=> WholeList)
    BY <2>2 DEF SameList, WholeList, Listing, Listed
  <2> QED
    BY <1>a, <2>2, <2>3 DEF StoredInv, mode
<1>2. CASE DVD_WRITE_CONFIG
  <2>1. NoHandle(base) \/ WriteConfig([DICfg EXCEPT !.auto = ~ @])
        \/ WriteConfig([DICfg EXCEPT !.rebuild = ~ @])
    BY <1>2 DEF DVD_WRITE_CONFIG, Opens
  <2>2. ASSUME NEW c \in Config, WriteConfig(c), c.slot = DICfg.slot, c.count = DICfg.count, c.names = DICfg.names
        PROVE  StoredInv'
    <3>1. UNCHANGED <<base, dir, mode, game, req, manual, faults>> /\ DICfg' = c
          /\ diconfig' = [c EXCEPT !.names = diconfig.names]
      BY <2>2 DEF WriteConfig
    <3>2. /\ diconfig' \in Config /\ diconfig'.slot = c.slot /\ diconfig'.count = c.count
          /\ diconfig'.names = diconfig.names
      BY <1>a, <3>1, ConfigIs DEF Config
    <3>3. FSMode' = base /\ ReadMode' = ReadMode /\ DMLite' = DMLite
      BY <1>a, <3>1 DEF mode, ReadMode
    <3> QED
      BY <1>a, <2>2, <3>1, <3>2, <3>3, RequestStored DEF SameList
  <2>3. DICfg \in Config
    BY Typed
  <2>4. PICK c1 : /\ c1 = [DICfg EXCEPT !.auto = ~ @] /\ c1 \in Config
                  /\ c1.slot = DICfg.slot /\ c1.count = DICfg.count /\ c1.names = DICfg.names
    <3>1. \A b \in BOOLEAN : /\ [DICfg EXCEPT !.auto = b] \in Config
                             /\ [DICfg EXCEPT !.auto = b].slot = DICfg.slot
                             /\ [DICfg EXCEPT !.auto = b].count = DICfg.count
                             /\ [DICfg EXCEPT !.auto = b].names = DICfg.names
      BY <2>3 DEF Config
    <3>2. PICK b \in BOOLEAN : b = ~ DICfg.auto
      OBVIOUS
    <3> QED
      BY <3>1, <3>2
  <2>5. PICK c2 : /\ c2 = [DICfg EXCEPT !.rebuild = ~ @] /\ c2 \in Config
                  /\ c2.slot = DICfg.slot /\ c2.count = DICfg.count /\ c2.names = DICfg.names
    <3>1. \A b \in BOOLEAN : /\ [DICfg EXCEPT !.rebuild = b] \in Config
                             /\ [DICfg EXCEPT !.rebuild = b].slot = DICfg.slot
                             /\ [DICfg EXCEPT !.rebuild = b].count = DICfg.count
                             /\ [DICfg EXCEPT !.rebuild = b].names = DICfg.names
      BY <2>3 DEF Config
    <3>2. PICK b \in BOOLEAN : b = ~ DICfg.rebuild
      OBVIOUS
    <3> QED
      BY <3>1, <3>2
  <2> QED
    BY <2>1, <2>2, <2>4, <2>5, FullStored
<1>3. ASSUME UNCHANGED <<store, DMLite, DICfg, game, req, manual>>,
             "past" \in faults' \/ FSMode' = Restored \/ FSMode' = FSMode
      PROVE  StoredInv'
  <2>1. "past" \in faults' \/ (FSMode' = base /\ ReadMode' = ReadMode)
    BY <1>a, <1>3 DEF ReadMode, Restored
  <2> QED
    BY <1>a, <1>3, <2>1, RequestStored DEF store
<1>4. CASE DVD_READ_DISCID
  BY <1>3, <1>4, FullStored DEF DVD_READ_DISCID, Opens
<1>5. CASE DVD_OPEN_PARTITION
  BY <1>3, <1>5, FullStored DEF DVD_OPEN_PARTITION, Opens, mode
<1>6. CASE DVD_RESET
  BY <1>3, <1>6 DEF DVD_RESET, mode
<1>7. CASE DVD_READ_PAST
  <2>1. "past" \in faults' \/ FSMode' = FSMode
    BY <1>7 DEF DVD_READ_PAST, ReadMode
  <2> QED
    BY <1>3, <1>7, <2>1 DEF DVD_READ_PAST
<1>8. ASSUME NEW m, DVDLowRead(m), FSMode' = Restored \/ FSMode' = FSMode
      PROVE  StoredInv'
  <2>1. CASE ReadFST(m)
    BY <1>3, <1>8, <2>1, FullStored DEF ReadFST, Opens
  <2>2. CASE \E o : ReadCached(m, o)
    BY <1>3, <1>8, <2>2 DEF ReadCached
  <2>3. ASSUME NEW o, ReadFile(m, o) PROVE StoredInv'
    <3>1. PICK redo \in BOOLEAN :
            \/ NoHandle(m)
            \/ /\ DICfg' = IF redo THEN [DICfg EXCEPT !.rebuild = FALSE] ELSE DICfg
               /\ diconfig' = IF redo /\ m = base
                              THEN [DICfg' EXCEPT !.names = diconfig.names] ELSE diconfig
               /\ UNCHANGED <<base, dir, bootinfo, DMLite, game, disc, req, manual>>
      BY <2>3 DEF ReadFile
    <3>2. SUFFICES ASSUME
               /\ DICfg' = IF redo THEN [DICfg EXCEPT !.rebuild = FALSE] ELSE DICfg
               /\ diconfig' = IF redo /\ m = base
                              THEN [DICfg' EXCEPT !.names = diconfig.names] ELSE diconfig
               /\ UNCHANGED <<base, dir, bootinfo, DMLite, game, disc, req, manual>>
                   PROVE  StoredInv'
      BY <3>1, FullStored
    <3>3. /\ DICfg' \in Config /\ DICfg'.slot = DICfg.slot /\ DICfg'.count = DICfg.count
          /\ DICfg'.names = DICfg.names
      BY <3>2, Typed DEF Config
    <3>4. /\ diconfig' \in Config /\ diconfig'.slot = diconfig.slot /\ diconfig'.count = diconfig.count
          /\ diconfig'.names = diconfig.names
      <4>1. CASE redo /\ m = base
        <5>1. diconfig' = [DICfg' EXCEPT !.names = diconfig.names] /\ diconfig.names \in Seq(Games)
          BY <1>a, <3>2, <4>1, ConfigIs
        <5>2. /\ diconfig' \in Config /\ diconfig'.slot = DICfg'.slot
              /\ diconfig'.count = DICfg'.count /\ diconfig'.names = diconfig.names
          BY <3>3, <5>1 DEF Config
        <5> QED
          BY <1>a, <3>3, <5>2 DEF SameList
      <4>2. CASE ~(redo /\ m = base)
        BY <1>a, <3>2, <4>2
      <4> QED
        BY <4>1, <4>2
    <3>5. FSMode' = base /\ ReadMode' = ReadMode
      BY <1>a, <1>8, <3>2 DEF ReadMode, Restored
    <3> QED
      BY <3>2, <3>3, <3>4, <3>5, RequestStored
  <2> QED
    BY <1>8, <2>1, <2>2, <2>3 DEF DVDLowRead
<1>9. CASE DVD_LOW_READ
  BY <1>8, <1>9 DEF DVD_LOW_READ
<1>10. CASE DVD_READ_UNENCRYPTED
  BY <1>8, <1>10 DEF DVD_READ_UNENCRYPTED
<1> QED
  BY <1>1, <1>2, <1>4, <1>5, <1>6, <1>7, <1>9, <1>10 DEF Request

LEMMA StoredStep ==
  ASSUME GamesOnce, DITyped, StoredInv, [Next]_vars
  PROVE  StoredInv'
<1>1. CASE req.op = "idle" /\ ~ Stopped /\ Request
  BY <1>1, OthersStored
<1>2. CASE ~ Stopped /\ Work
  BY <1>2, UpdateStored, ListStored, ChoosingStored DEF Work
<1>3. CASE PowerOff
  <2>1. req'.op = "update"
    BY <1>3 DEF PowerOff, Booting
  <2> QED
    BY <1>3, <2>1 DEF PowerOff, StoredInv
<1>4. CASE UNCHANGED vars
  BY <1>4 DEF vars, store, mode, StoredInv, SameList, WholeList, Reachable, Boots, Has, Stored,
              Listing, Listed, ReadMode, Stopped
<1> QED
  BY <1>1, <1>2, <1>3, <1>4 DEF Next

\* When no game is there twice: outside of a request the mode is the one DI
\* started with, the list has every game once, and the game that is selected
\* can be reached and is the one the next start selects, whatever is asked, in
\* whatever order the games are changed and the power goes off.
THEOREM StoredSafe ==
  ASSUME GamesOnce
  PROVE  Spec => []StoredRight
<1>1. Init => StoredInv
  <2>1. Init => req.op = "update" /\ diconfig = None /\ DMLite = FALSE /\ FSMode = base
    BY DEF Init, Booting
  <2>2. Init => "past" \notin faults
    BY DEF Init
  <2> QED
    BY <2>1, <2>2 DEF StoredInv
<1>2. StoredInv => StoredRight
  <2>1. SUFFICES ASSUME StoredInv PROVE StoredRight
    OBVIOUS
  <2>2. ModeRestored
    BY <2>1 DEF StoredInv, ModeRestored
  <2>3. ListRight
    BY <2>1 DEF StoredInv, WholeList, ListRight
  <2>4. GameReachable /\ SlotKept
    <3>1. SUFFICES ASSUME req.op = "idle", ~Stopped, DICfg.count > 0
                   PROVE  /\ Boots(ReadMode, game) /\ diconfig # None /\ diconfig.slot < diconfig.count
                          /\ diconfig.names[diconfig.slot + 1] = game
      BY DEF GameReachable, SlotKept
    <3>2. Reachable /\ SameList
      BY <2>1, <3>1 DEF StoredInv
    <3> QED
      BY <3>2, DIPAssumption DEF Reachable, SameList
  <2> QED
    BY <2>2, <2>3, <2>4 DEF StoredRight
<1>3. DITyped /\ StoredInv /\ [Next]_vars => StoredInv'
  BY StoredStep
<1> QED
  BY <1>1, <1>2, <1>3, InitTyped, NextTyped, PTL DEF Spec

-----------------------------------------------------------------------------
(***************************************************************************)
(* DIP: DVDSelectGame calls itself once.                                   *)
(***************************************************************************)

\* It is with slot 0, and then of a list that is the one of /games.
EndsInv ==
  /\ DMLite => base = "SNEEK"
  /\ "past" \notin faults => FSMode = base
  /\ "past" \in faults => req.op = "idle"
  /\ req.force => req.slot = 0
  /\ req.op = "select" /\ req.force => DICfg.names = Listing

LEMMA FullEnds ==
  ASSUME EndsInv, NEW m, NoHandle(m)
  PROVE  EndsInv'
<1>1. "past" \in faults' <=> "past" \in faults
  BY DEF NoHandle
<1> QED
  BY <1>1 DEF NoHandle, EndsInv, Listing, store, mode

LEMMA WorkEnds ==
  ASSUME DITyped, EndsInv, ~Stopped, Work
  PROVE  EndsInv'
<1>a. FSMode = base /\ "past" \notin faults
  BY NotPast DEF EndsInv
<1>1. CASE DVDUpdateCache
  <2>1. \/ NoHandle("UNEEK") \/ NoHandle(base)
        \/ /\ Go("delete") \/ (Go("select") /\ ~req.force)
           /\ UNCHANGED <<store, mode, faults>>
    BY <1>1 DEF DVDUpdateCache, Opens
  <2>2. CASE /\ Go("delete") \/ (Go("select") /\ ~req.force)
             /\ UNCHANGED <<store, mode, faults>>
    <3>1. req'.force = req.force /\ req'.slot = req.slot /\ ~(req'.op = "select" /\ req'.force)
      BY <2>2, ReqIs DEF Go
    <3> QED
      BY <1>a, <2>2, <3>1 DEF EndsInv, store, mode
  <2> QED
    BY <2>1, <2>2, FullEnds
<1>2. CASE DeleteList
  <2>1. req'.op = "write" /\ req'.force = req.force /\ req'.slot = req.slot
    BY <1>2, ReqIs DEF DeleteList, Go
  <2> QED
    BY <1>2, <1>a, <2>1 DEF DeleteList, EndsInv, mode
<1>3. CASE WriteList
  <2>1. \/ NoHandle("UNEEK") \/ NoHandle(base)
        \/ /\ DICfg' = [DICfg EXCEPT !.names = Listing]
           /\ Go("select")
           /\ UNCHANGED <<base, dir, mode, faults>>
    BY <1>3 DEF WriteList, Opens
  <2>2. CASE /\ DICfg' = [DICfg EXCEPT !.names = Listing]
             /\ Go("select")
             /\ UNCHANGED <<base, dir, mode, faults>>
    <3>1. DICfg'.names = Listing' /\ req'.force = req.force /\ req'.slot = req.slot
      BY <2>2, ReqIs, Typed DEF Go, Listing, Config
    <3> QED
      BY <1>a, <2>2, <3>1 DEF EndsInv, mode
  <2> QED
    BY <2>1, <2>2, FullEnds
<1>4. CASE SelectNothing
  BY <1>4, <1>a DEF SelectNothing, Reply, Idle, EndsInv, mode, store
<1>5. CASE SelectBeyond
  BY <1>5, <1>a DEF SelectBeyond, EndsInv, mode, store, Listing
<1>6. ASSUME NEW m, Selected(m), UNCHANGED FSMode, DMLite' => base = "SNEEK" PROVE EndsInv'
  <2>1. req' = Idle /\ faults' = faults \ {"rebuild"} /\ UNCHANGED base
    BY <1>6 DEF Selected, Reply
  <2> QED
    BY <1>6, <1>a, <2>1 DEF EndsInv, Idle
<1>7. CASE SelectGame
  BY <1>6, <1>7, FullEnds DEF SelectGame, Opens
<1>8. CASE SelectDMLite
  BY <1>a, <1>6, <1>8, FullEnds DEF SelectDMLite, Opens
<1>9. CASE SelectAgain
  <2>1. Selecting /\ (NoHandle(FSMode) \/ NoHandle("UNEEK") \/ TryAgain(0))
    BY <1>9 DEF SelectAgain, Opens
  <2>2. CASE TryAgain(0)
    <3>1. /\ DMLite' = (DMLite \/ FSMode = "SNEEK")
          /\ FSMode' = IF DMLite' THEN "SNEEK" ELSE FSMode
          /\ req'.op = "update" /\ req'.slot = 0 /\ UNCHANGED <<base, faults>>
      BY <2>2 DEF TryAgain
    <3>2. (DMLite' => base = "SNEEK") /\ FSMode' = base'
      BY <1>a, <3>1 DEF EndsInv
    <3> QED
      BY <1>a, <3>1, <3>2 DEF EndsInv
  <2> QED
    BY <2>1, <2>2, FullEnds
<1> QED
  BY <1>1, <1>2, <1>3, <1>4, <1>5, <1>7, <1>8, <1>9 DEF Work

LEMMA RequestEnds ==
  ASSUME DITyped, EndsInv, req.op = "idle", ~Stopped, Request
  PROVE  EndsInv'
<1>a. FSMode = base /\ "past" \notin faults /\ (DMLite => base = "SNEEK") /\ Restored = base
  BY NotPast DEF EndsInv, Restored
<1>1. CASE \E s \in Slots : DVD_SELECT_GAME(s)
  <2>1. /\ UNCHANGED <<base, mode, faults>>
        /\ \E s \in Slots : req' = [op |-> "select", slot |-> s, force |-> FALSE]
    BY <1>1 DEF DVD_SELECT_GAME, store
  <2> QED
    BY <1>a, <2>1 DEF EndsInv, mode
<1>2. ASSUME UNCHANGED <<base, DMLite, req>>, FSMode' = FSMode \/ FSMode' = Restored \/ "past" \in faults'
      PROVE  EndsInv'
  BY <1>a, <1>2 DEF EndsInv
<1>3. ASSUME NEW m, DVDLowRead(m), FSMode' = FSMode \/ FSMode' = Restored
      PROVE  EndsInv'
  <2>1. \/ \E k : NoHandle(k)
        \/ UNCHANGED <<base, DMLite, req>>
    <3>1. CASE ReadFST(m)
      BY <3>1 DEF ReadFST, Opens, store
    <3>2. CASE \E o : ReadCached(m, o)
      BY <3>2 DEF ReadCached, store
    <3>3. CASE \E o : ReadFile(m, o)
      BY <3>3 DEF ReadFile
    <3> QED
      BY <1>3, <3>1, <3>2, <3>3 DEF DVDLowRead
  <2> QED
    BY <1>2, <1>3, <2>1, FullEnds
<1>4. CASE DVD_WRITE_CONFIG
  BY <1>2, <1>4, FullEnds DEF DVD_WRITE_CONFIG, WriteConfig, Opens, mode
<1>5. CASE DVD_READ_DISCID
  BY <1>2, <1>5, FullEnds DEF DVD_READ_DISCID, Opens, store
<1>6. CASE DVD_OPEN_PARTITION
  BY <1>2, <1>6, FullEnds DEF DVD_OPEN_PARTITION, Opens, mode, store
<1>7. CASE DVD_RESET
  BY <1>2, <1>7 DEF DVD_RESET, mode, store
<1>8. CASE DVD_READ_PAST
  <2>1. FSMode' = FSMode \/ "past" \in faults'
    BY <1>8 DEF DVD_READ_PAST, ReadMode
  <2> QED
    BY <1>2, <1>8, <2>1 DEF DVD_READ_PAST, store
<1>9. CASE DVD_LOW_READ
  BY <1>3, <1>9 DEF DVD_LOW_READ
<1>10. CASE DVD_READ_UNENCRYPTED
  BY <1>3, <1>10 DEF DVD_READ_UNENCRYPTED
<1> QED
  BY <1>1, <1>4, <1>5, <1>6, <1>7, <1>8, <1>9, <1>10 DEF Request

\* When the first games can be started, DVDSelectGame calls itself at most once:
\* with the list it has made anew it finds the game of slot 0 where it looks.
THEOREM SelectionEnds ==
  ASSUME FirstBoots
  PROVE  Spec => []SelectEnds
<1>1. Init => EndsInv
  <2>1. Init => /\ req.op = "update" /\ ~req.force /\ DMLite = FALSE /\ FSMode = base
                /\ "past" \notin faults
    BY DEF Init, Booting
  <2> QED
    BY <2>1 DEF EndsInv
<1>2. DITyped /\ EndsInv /\ [Next]_vars => EndsInv'
  <2>1. SUFFICES ASSUME DITyped, EndsInv, [Next]_vars PROVE EndsInv'
    OBVIOUS
  <2>2. CASE PowerOff
    BY <2>2 DEF PowerOff, Booting, EndsInv
  <2>3. CASE UNCHANGED vars
    BY <2>1, <2>3 DEF vars, store, mode, EndsInv, Listing
  <2> QED
    BY <2>1, <2>2, <2>3, WorkEnds, RequestEnds DEF Next
<1>3. DITyped /\ EndsInv => SelectEnds
  <2>1. SUFFICES ASSUME DITyped, EndsInv, Selecting, req.force PROVE ~Nowhere
    BY DEF SelectEnds
  <2>2. PICK u \in Seq(Games), s \in Seq(Games) : u = dir.usb /\ s = dir.sd
    BY <2>1, DIPAssumption DEF DITyped, TypeOK
  <2>3. Slot = 0 /\ req.op = "select" /\ Len(DICfg.names) > 0 /\ FSMode = base
    BY <2>1, SlotIs DEF EndsInv
  <2>4. DICfg.names = Listing /\ Chosen = Listing[1]
    BY <2>1, <2>3 DEF EndsInv, Chosen
  <2>5. /\ u # <<>> => u[1] \in Range(u) /\ u[1] \notin Broken
        /\ s # <<>> => s[1] \in Range(s) /\ s[1] \notin Broken
    BY <2>1, <2>2 DEF FirstBoots, DITyped, TypeOK, Range
  <2>6. CASE base = "UNEEK"
    <3>1. Listing = u /\ Stored(FSMode) = u /\ u # <<>>
      BY <2>2, <2>3, <2>4, <2>6 DEF Listing, Stored
    <3> QED
      BY <2>4, <2>5, <3>1 DEF Nowhere, Boots, Has
  <2>7. CASE base = "SNEEK" /\ u # <<>>
    <3>1. Listing = u \o s /\ Stored(FSMode) = u /\ Listing[1] = u[1]
      <4>1. u # <<>> => (u \o s)[1] = u[1]
        OBVIOUS
      <4> QED
        BY <2>2, <2>3, <2>7, <4>1 DEF Listing, Stored
    <3> QED
      BY <2>4, <2>5, <2>7, <3>1 DEF Nowhere, Boots, Has
  <2>8. CASE base = "SNEEK" /\ u = <<>>
    <3>1. Listing = s /\ Stored("UNEEK") = s /\ s # <<>>
      <4>1. <<>> \o s = s
        OBVIOUS
      <4> QED
        BY <2>2, <2>3, <2>4, <2>8, <4>1 DEF Listing, Stored
    <3> QED
      BY <2>3, <2>4, <2>5, <2>8, <3>1 DEF Nowhere, Boots, Has
  <2> QED
    BY <2>1, <2>6, <2>7, <2>8, DIPAssumption DEF DITyped, TypeOK
<1> QED
  BY <1>1, <1>2, <1>3, InitTyped, NextTyped, PTL DEF Spec

-----------------------------------------------------------------------------
(***************************************************************************)
(* DIP: disc reads.                                                        *)
(***************************************************************************)

\* No list is being made: what is cached is of the game that is selected.
Resting == req.op = "idle" \/ (req.op = "select" /\ ~req.force)

\* A file of the game's table, opened where the game is.
OfTable(c) ==
  /\ c.mode = IF DMLite THEN "UNEEK" ELSE base
  /\ \E k \in DOMAIN FST[game] :
       /\ c.file = <<game, FST[game][k].name>>
       /\ c.off = FST[game][k].off /\ c.len = FST[game][k].len

\* The table in memory and the files in the cache are those of the game, and the
\* games of the SD card are not read through a partition.  A game that was opened is
\* on a disk, so a list that is made anew has a game then: no request ends with the
\* cache of one game and another one selected.
ReadInv ==
  /\ req.op # "idle" => wrong = Nothing
  /\ "rebuild" \notin faults =>
       wrong = Nothing /\ (fst # None => game \in Games /\ fst = FST[game])
  /\ Resting /\ "rebuild" \notin faults => \A i \in Caches : FC[i] # NoFile => OfTable(FC[i])
  /\ Resting /\ DMLite => Disc[game] = "DOL" \/ Listing = <<>>
  /\ (\E i \in Caches : FC[i] # NoFile) => Listing # <<>>
  /\ req.op \in {"idle", "select"} => diconfig.count = DICfg.count
  /\ req.op \in {"update", "delete", "write"} /\ ~req.force => FC = NoFC /\ ~DMLite
  /\ req.op = "update" /\ req.force => diconfig \in Config /\ diconfig.count > 0
  /\ req.op \in {"delete", "write", "select"} /\ req.force => DICfg.count > 0 \/ Listing = <<>>

LEMMA FullRead ==
  ASSUME ReadInv, NEW m, NoHandle(m)
  PROVE  ReadInv'
<1>1. "rebuild" \in faults' <=> "rebuild" \in faults
  BY DEF NoHandle
<1>2. UNCHANGED <<base, dir, diconfig, DMLite, DICfg, game, FC, fst, req, wrong>>
  BY DEF NoHandle, store, mode, cache
<1>3. Listing' = Listing /\ (Resting' <=> Resting) /\ \A i \in Caches : OfTable(FC[i])' <=> OfTable(FC[i])
  BY <1>2 DEF Listing, Resting, OfTable
<1> QED
  BY <1>1, <1>2, <1>3 DEF ReadInv

\* While the list is made, the reads have no part.
LEMMA ListRead ==
  ASSUME ReadInv, req.op # "idle", req'.op # "idle", UNCHANGED <<base, dir, DMLite, game, FC, fst, wrong>>,
         "rebuild" \in faults' <=> "rebuild" \in faults, req'.force = req.force,
         req'.op = "select" /\ ~req.force => FC = NoFC /\ ~DMLite,
         req'.op = "select" => diconfig'.count = DICfg'.count,
         req'.op \in {"update", "delete", "write"} /\ ~req.force => FC = NoFC /\ ~DMLite,
         req'.op # "update",
         req'.force => DICfg'.count > 0 \/ Listing = <<>>
  PROVE  ReadInv'
<1>1. Listing' = Listing
  BY DEF Listing
<1>2. Resting' => FC' = NoFC /\ ~DMLite'
  BY DEF Resting
<1>3. FC' = NoFC => \A i \in Caches : FC'[i] = NoFile
  BY DEF NoFC
<1> QED
  BY <1>1, <1>2, <1>3 DEF ReadInv

LEMMA WorkRead ==
  ASSUME SDHasGC, DITyped, EndsInv, ReadInv, ~Stopped, Work
  PROVE  ReadInv'
<1>1. CASE DVDUpdateCache
  <2>1. PICK c, count, again :
        /\ c = (IF diconfig = None THEN Default ELSE diconfig)
        /\ count = (IF c.auto THEN Len(Listing) ELSE c.count)
        /\ again = (req.force \/ diconfig = None \/ Outdated(c))
    OBVIOUS
  <2>2. \/ NoHandle("UNEEK") \/ NoHandle(base)
        \/ /\ DICfg' = IF again THEN [c EXCEPT !.count = count] ELSE c
           /\ Go(IF again THEN "delete" ELSE "select")
           /\ UNCHANGED <<store, mode, game, cache, fst, disc, wrong, faults>>
    BY <1>1, <2>1 DEF DVDUpdateCache, Opens
  <2>3. CASE /\ DICfg' = IF again THEN [c EXCEPT !.count = count] ELSE c
             /\ Go(IF again THEN "delete" ELSE "select")
             /\ UNCHANGED <<store, mode, game, cache, fst, disc, wrong, faults>>
    <3>1. req'.op = (IF again THEN "delete" ELSE "select") /\ req'.force = req.force /\ req.op = "update"
      BY <1>1, <2>3, ReqIs DEF Go, DVDUpdateCache
    <3>2. c \in Config /\ (again => DICfg'.count = count) /\ (~again => DICfg' = diconfig)
      BY <2>1, <2>3, Typed, ConfigIs DEF Config
    <3>3. req.force => DICfg'.count > 0 \/ Listing = <<>>
      <4>1. SUFFICES ASSUME req.force PROVE DICfg'.count > 0 \/ Listing = <<>>
        OBVIOUS
      <4>2. c = diconfig /\ c.count > 0 /\ again
        BY <2>1, <3>1, <4>1, DIPAssumption DEF ReadInv
      <4>3. \A s \in Seq(Games) : Len(s) > 0 \/ s = <<>>
        OBVIOUS
      <4>4. Len(Listing) > 0 \/ Listing = <<>>
        BY <4>3, Storage DEF DITyped
      <4> QED
        BY <2>1, <3>2, <4>2, <4>4
    <3>4. ~req.force => FC = NoFC /\ ~DMLite
      BY <3>1 DEF ReadInv
    <3>5. UNCHANGED <<base, dir, DMLite, game, FC, fst, wrong, diconfig, faults>>
      BY <2>3 DEF store, mode, cache
    <3>6. ~again => ~req.force
      BY <2>1
    <3>7. req'.op \in {"delete", "select"} /\ (req'.op = "select" => ~again)
      BY <3>1
    <3> QED
      BY <3>1, <3>2, <3>3, <3>4, <3>5, <3>6, <3>7, ListRead
  <2> QED
    BY <2>2, <2>3, FullRead
<1>2. CASE DeleteList
  <2>1. req'.op = "write" /\ req'.force = req.force /\ req.op = "delete"
    BY <1>2, ReqIs DEF DeleteList, Go
  <2>2. UNCHANGED <<base, dir, DMLite, game, FC, fst, wrong, DICfg, faults>>
    BY <1>2 DEF DeleteList, mode, cache
  <2>3. (~req.force => FC = NoFC /\ ~DMLite) /\ (req.force => DICfg.count > 0 \/ Listing = <<>>)
    BY <2>1 DEF ReadInv
  <2> QED
    BY <2>1, <2>2, <2>3, ListRead
<1>3. CASE WriteList
  <2>1. \/ NoHandle("UNEEK") \/ NoHandle(base)
        \/ /\ diconfig' = [DICfg EXCEPT !.names = Listing]
           /\ DICfg' = diconfig'
           /\ Go("select")
           /\ UNCHANGED <<base, dir, bootinfo, mode, game, cache, fst, disc, wrong, manual, faults>>
    BY <1>3 DEF WriteList, Opens
  <2>2. CASE
           /\ diconfig' = [DICfg EXCEPT !.names = Listing]
           /\ DICfg' = diconfig'
           /\ Go("select")
           /\ UNCHANGED <<base, dir, bootinfo, mode, game, cache, fst, disc, wrong, manual, faults>>
    <3>1. req'.op = "select" /\ req'.force = req.force /\ req.op = "write"
      BY <1>3, <2>2, ReqIs DEF WriteList, Go
    <3>2. UNCHANGED <<base, dir, DMLite, game, FC, fst, wrong, faults>> /\ DICfg'.count = DICfg.count
          /\ diconfig'.count = DICfg'.count
      BY <2>2, Typed DEF mode, cache, Config
    <3>3. (~req.force => FC = NoFC /\ ~DMLite) /\ (req.force => DICfg.count > 0 \/ Listing = <<>>)
      BY <3>1 DEF ReadInv
    <3> QED
      BY <3>1, <3>2, <3>3, ListRead
  <2> QED
    BY <2>1, <2>2, FullRead
<1>4. CASE SelectNothing
  <2>1. UNCHANGED <<base, dir, DMLite, game, FC, fst, wrong, faults, diconfig, DICfg>>
    BY <1>4 DEF SelectNothing, store, mode, cache
  <2>2. req.op = "select" /\ req'.op = "idle" /\ ~(DICfg.count > 0) /\ req'.force = FALSE
    BY <1>4 DEF SelectNothing, Reply, Idle
  <2>3. Listing' = Listing /\ \A i \in Caches : OfTable(FC[i])' <=> OfTable(FC[i])
    BY <2>1 DEF Listing, OfTable
  <2>4. req.force => Listing = <<>> /\ \A i \in Caches : FC[i] = NoFile
    BY <2>2 DEF ReadInv
  <2>5. ~req.force => Resting
    BY <2>2 DEF Resting
  <2> QED
    BY <2>1, <2>2, <2>3, <2>4, <2>5 DEF ReadInv
<1>5. CASE SelectBeyond
  <2>1. UNCHANGED <<base, dir, DMLite, game, FC, fst, wrong, diconfig, DICfg, req>>
        /\ ("rebuild" \in faults' <=> "rebuild" \in faults)
    BY <1>5 DEF SelectBeyond, store, mode, cache
  <2>2. Listing' = Listing /\ (Resting' <=> Resting) /\ \A i \in Caches : OfTable(FC[i])' <=> OfTable(FC[i])
    BY <2>1 DEF Listing, Resting, OfTable
  <2> QED
    BY <2>1, <2>2 DEF ReadInv
<1>6. ASSUME Selecting, NEW m, Selected(m), DMLite' => Disc[Chosen] = "DOL" PROVE ReadInv'
  <2>1. /\ diconfig' = [DICfg' EXCEPT !.names = diconfig.names] /\ DICfg' \in Config
        /\ game' = Chosen /\ req' = Idle /\ wrong' = wrong /\ FC' = NoFC /\ fst' = None
    BY <1>6, SlotIs, Typed, ConfigIs DEF Selected, SaveSlot, Reply, InitCache
  <2>2. req'.op = "idle" /\ wrong' = Nothing /\ diconfig'.count = DICfg'.count
    BY <1>6, <2>1, SlotIs DEF Idle, ReadInv, Config
  <2>3. \A i \in Caches : FC'[i] = NoFile
    BY <2>1 DEF NoFC
  <2> QED
    BY <1>6, <2>1, <2>2, <2>3 DEF ReadInv
<1>7. CASE SelectGame
  BY <1>6, <1>7, FullRead DEF SelectGame, Opens
<1>8. CASE SelectDMLite
  <2>1. /\ Selecting /\ FSMode = "SNEEK" /\ Boots("UNEEK", Chosen)
        /\ NoHandle("SNEEK") \/ NoHandle("UNEEK") \/ Selected("UNEEK")
    BY <1>8 DEF SelectDMLite, Opens
  <2>2. base = "SNEEK"
    BY <2>1, NotPast DEF EndsInv
  <2>3. Chosen \in Range(dir.sd) /\ dir \in Dirs
    BY <2>1, <2>2, Typed DEF Boots, Has, Stored
  <2>4. Disc[Chosen] = "DOL"
    BY <2>3 DEF SDHasGC
  <2> QED
    BY <1>6, <2>1, <2>4, FullRead
<1>9. CASE SelectAgain
  <2>1. Selecting /\ (NoHandle(FSMode) \/ NoHandle("UNEEK") \/ TryAgain(0))
    BY <1>9 DEF SelectAgain, Opens
  <2>2. CASE TryAgain(0)
    <3>1. /\ req'.op = "update" /\ req'.force = TRUE /\ fst' = None
          /\ UNCHANGED <<base, dir, diconfig, DICfg, FC, wrong, faults>>
      BY <2>2 DEF TryAgain, cache
    <3>2. wrong = Nothing /\ diconfig \in Config /\ diconfig.count > 0
      BY <2>1, SlotIs, Typed DEF ReadInv
    <3>3. Listing' = Listing /\ ~Resting'
      BY <3>1 DEF Listing, Resting
    <3> QED
      BY <3>1, <3>2, <3>3 DEF ReadInv
  <2> QED
    BY <2>1, <2>2, FullRead
<1> QED
  BY <1>1, <1>2, <1>3, <1>4, <1>5, <1>7, <1>8, <1>9 DEF Work

\* Requests that read nothing of the game.
LEMMA RequestRead ==
  ASSUME ReadInv, req.op = "idle", UNCHANGED <<base, dir, DMLite, game, FC>>,
         req' = req \/ (req'.op = "select" /\ ~req'.force),
         "rebuild" \in faults' <=> "rebuild" \in faults,
         wrong' = Nothing, fst' = fst \/ (fst' = FST[game] /\ game \in Games),
         diconfig'.count = DICfg'.count
  PROVE  ReadInv'
<1>1. Listing' = Listing /\ Resting /\ \A i \in Caches : OfTable(FC[i])' <=> OfTable(FC[i])
  BY DEF Listing, Resting, OfTable
<1> QED
  BY <1>1 DEF ReadInv

\* A read with a hit in the cache: of the files of the table only the one that was
\* cached has this place, as the files of a disc are apart.
LEMMA HitRight ==
  ASSUME FilesApart, DITyped, fst = FST[game], game \in Games, NEW o \in Int, NEW i \in Caches,
         NEW m, FC[i] # NoFile, In(o, FC[i]), OfTable(FC[i]), m = IF DMLite THEN "UNEEK" ELSE base
  PROVE  (IF FC[i].mode = m THEN [file |-> FC[i].file, at |-> o - FC[i].off] ELSE None) = Wanted(o)
<1>1. PICK k \in DOMAIN fst : /\ FC[i].file = <<game, fst[k].name>>
                              /\ FC[i].off = fst[k].off /\ FC[i].len = fst[k].len
  BY DEF OfTable
<1>2. fst \in Seq(FileEntry) /\ FC[i].mode = m
  BY DIPAssumption DEF OfTable
<1>3. k \in Entries(o) /\ Entries(o) # {}
  BY <1>1 DEF Entries, In
<1>4. PICK e : e = Min(Entries(o)) /\ e \in DOMAIN fst /\ In(o, fst[e]) /\ fst[e] \in FileEntry
  BY <1>2, <1>3, EntryIs
<1>5. e = k
  <2>1. SUFFICES ASSUME e # k PROVE FALSE
    OBVIOUS
  <2>2. \/ fst[e].off + fst[e].len <= fst[k].off
        \/ fst[k].off + fst[k].len <= fst[e].off
    BY <1>1, <1>4, <2>1 DEF FilesApart
  <2>3. fst[k] \in FileEntry
    BY <1>1, <1>2
  <2>4. fst[k].off \in Nat /\ fst[k].len \in Nat /\ fst[e].off \in Nat /\ fst[e].len \in Nat
    BY <1>4, <2>3 DEF FileEntry
  <2>5. fst[k].off <= o /\ o < fst[k].off + fst[k].len /\ fst[e].off <= o /\ o < fst[e].off + fst[e].len
    BY <1>1, <1>4 DEF In
  <2> QED
    BY <2>2, <2>4, <2>5
<1> QED
  BY <1>1, <1>2, <1>3, <1>4, <1>5 DEF Wanted

LEMMA LowReadRead ==
  ASSUME FilesApart, DITyped, ReadInv, req.op = "idle", game \in Games, NEW m, DVDLowRead(m),
         Listing # <<>> => m = IF DMLite THEN "UNEEK" ELSE base, m \in Modes
  PROVE  ReadInv'
<1>1. CASE ReadFST(m)
  <2>1. \/ NoHandle(m)
        \/ /\ fst' = FST[game] \/ fst' = fst
           /\ wrong' = Nothing
           /\ UNCHANGED <<store, DMLite, DICfg, game, cache, disc, req, manual, faults>>
    BY <1>1 DEF ReadFST, Opens
  <2> QED
    BY <2>1, FullRead, RequestRead DEF store, cache, ReadInv
<1>2. ASSUME fst # None, NEW j \in DOMAIN fst, NEW o \in fst[j].off .. fst[j].off + fst[j].len - 1,
             ReadCached(m, o)
      PROVE  ReadInv'
  <2>1. PICK i : /\ i = Min(Hits(o)) /\ i \in Caches /\ FC[i] # NoFile /\ In(o, FC[i])
                 /\ wrong' = Differ(IF FC[i].mode = m THEN [file |-> FC[i].file, at |-> o - FC[i].off] ELSE None,
                                    Wanted(o))
    BY <1>2, HitIs DEF ReadCached
  <2>2. UNCHANGED <<base, dir, diconfig, DMLite, DICfg, game, FC, fst, req, faults>>
    BY <1>2 DEF ReadCached, store, cache
  <2>3. Listing # <<>> /\ Resting
    BY <2>1 DEF ReadInv, Resting
  <2>4. "rebuild" \notin faults => wrong' = Nothing
    <3>1. SUFFICES ASSUME "rebuild" \notin faults PROVE wrong' = Nothing
      OBVIOUS
    <3>2. fst = FST[game] /\ OfTable(FC[i])
      BY <1>2, <2>1, <2>3, <3>1 DEF ReadInv
    <3>3. o \in Int
      <4>1. fst \in Seq(FileEntry)
        BY <3>2, DIPAssumption
      <4>2. fst[j] \in FileEntry
        BY <4>1
      <4> QED
        BY <4>2 DEF FileEntry
    <3> QED
      BY <2>1, <2>3, <3>2, <3>3, HitRight DEF Differ
  <2>5. Listing' = Listing /\ (Resting' <=> Resting) /\ \A n \in Caches : OfTable(FC[n])' <=> OfTable(FC[n])
    BY <2>2 DEF Listing, Resting, OfTable
  <2> QED
    BY <2>2, <2>4, <2>5 DEF ReadInv
<1>3. ASSUME fst # None, NEW o, ReadFile(m, o)
      PROVE  ReadInv'
  <2>1. PICK e, n, hit, redo :
          /\ e = fst[Min(Entries(o))] /\ n = NextEntry
          /\ hit = (Has(m, game) /\ Size[game][e.name] > 0)
          /\ redo = (hit /\ DICfg.rebuild /\ e.name = Opening)
    OBVIOUS
  <2>2. \/ NoHandle(m)
        \/ /\ FC' = [FC EXCEPT ![n] = IF ~ hit THEN NoFile ELSE
                      [mode |-> m, file |-> <<game, e.name>>, off |-> e.off, len |-> e.len]]
           /\ wrong' = IF hit THEN Differ([file |-> <<game, e.name>>, at |-> o - e.off], Wanted(o))
                       ELSE Nothing
           /\ fst' = IF redo THEN Rebuilt ELSE fst
           /\ DICfg' = IF redo THEN [DICfg EXCEPT !.rebuild = FALSE] ELSE DICfg
           /\ diconfig' = IF redo /\ m = base
                          THEN [DICfg' EXCEPT !.names = diconfig.names] ELSE diconfig
           /\ faults' = faults \cup (IF redo THEN {"rebuild"} ELSE {})
           /\ UNCHANGED <<base, dir, bootinfo, DMLite, game, disc, req, manual>>
    BY <1>3, <2>1 DEF ReadFile
  <2>3. SUFFICES ASSUME ~ NoHandle(m) PROVE ReadInv'
    BY FullRead
  <2>4. Listing' = Listing /\ Resting /\ Resting' /\ Entries(o) # {}
    BY <1>3, <2>2, <2>3 DEF Listing, Resting, ReadFile
  <2>5. wrong' = Nothing
    <3>1. Wanted(o) = [file |-> <<game, e.name>>, at |-> o - e.off]
      BY <2>1, <2>4 DEF Wanted
    <3> QED
      BY <2>2, <2>3, <3>1 DEF Differ
  <2>6. hit => Listing # <<>>
    <3>1. SUFFICES ASSUME hit PROVE Listing # <<>>
      OBVIOUS
    <3>2. game \in Range(Stored(m))
      BY <2>1, <3>1 DEF Has
    <3>3. game \in Range(Listing)
      BY <3>2, Storage DEF DITyped
    <3> QED
      BY <3>3 DEF Range
  <2>7. FC \in [Caches -> Cell] /\ n \in Caches
    BY <2>1, NextEntryIs DEF DITyped
  <2>8. ASSUME NEW i \in Caches
        PROVE  FC'[i] = FC[i] \/ FC'[i] = NoFile \/ (hit /\ i = n /\
                 FC'[i] = [mode |-> m, file |-> <<game, e.name>>, off |-> e.off, len |-> e.len])
    BY <2>2, <2>3, <2>7
  <2>9. ASSUME "rebuild" \notin faults', NEW i \in Caches, FC'[i] # NoFile
        PROVE  OfTable(FC[i])'
    <3>1. ~redo /\ "rebuild" \notin faults /\ fst = FST[game]
      BY <1>3, <2>2, <2>3, <2>9 DEF ReadInv
    <3>2. CASE FC'[i] = FC[i]
      <4>1. OfTable(FC[i])
        BY <2>4, <2>9, <3>1, <3>2 DEF ReadInv
      <4> QED
        BY <2>2, <2>3, <3>2, <4>1 DEF OfTable
    <3>3. CASE hit /\ FC'[i] = [mode |-> m, file |-> <<game, e.name>>, off |-> e.off, len |-> e.len]
      <4>1. m = IF DMLite THEN "UNEEK" ELSE base
        BY <2>6, <3>3
      <4>2. fst \in Seq(FileEntry)
        BY <3>1, DIPAssumption
      <4>3. PICK k \in DOMAIN FST[game] : e = FST[game][k]
        BY <2>1, <2>4, <3>1, <4>2, EntryIs
      <4>4. /\ FC'[i].mode = m /\ FC'[i].file = <<game, e.name>> /\ FC'[i].off = e.off /\ FC'[i].len = e.len
        BY <3>3
      <4>5. UNCHANGED <<base, DMLite, game>>
        BY <2>2, <2>3
      <4> QED
        BY <4>1, <4>3, <4>4, <4>5 DEF OfTable
    <3> QED
      BY <2>8, <2>9, <3>2, <3>3
  <2>10. (\E i \in Caches : FC'[i] # NoFile) => Listing # <<>>
    BY <2>6, <2>8 DEF ReadInv
  <2>11. diconfig'.count = DICfg'.count
    <3>1. diconfig.count = DICfg.count /\ diconfig \in Config /\ DICfg \in Config
      BY Typed DEF ReadInv
    <3>2. DICfg'.count = DICfg.count /\ DICfg' \in Config
      BY <2>2, <2>3, <3>1 DEF Config
    <3>3. diconfig' = [DICfg' EXCEPT !.names = diconfig.names] \/ diconfig' = diconfig
      BY <2>2, <2>3
    <3> QED
      BY <3>1, <3>2, <3>3 DEF Config
  <2>12. "rebuild" \notin faults' => (fst' # None => game' \in Games /\ fst' = FST[game'])
    BY <2>2, <2>3 DEF ReadInv
  <2>13. UNCHANGED <<req, DMLite, game>> /\ req.op = "idle"
    BY <2>2, <2>3
  <2> QED
    BY <2>4, <2>5, <2>9, <2>10, <2>11, <2>12, <2>13 DEF ReadInv
<1> QED
  BY <1>1, <1>2, <1>3 DEF DVDLowRead

LEMMA RequestsRead ==
  ASSUME FilesApart, DITyped, EndsInv, ReadInv, req.op = "idle", ~Stopped, Request
  PROVE  ReadInv'
<1>a. FSMode = base /\ (DMLite => base = "SNEEK") /\ diconfig.count = DICfg.count /\ diconfig \in Config
  BY NotPast, Typed DEF EndsInv, ReadInv
<1>1. CASE \E s \in Slots : DVD_SELECT_GAME(s)
  <2>1. /\ UNCHANGED <<base, dir, DMLite, game, FC, fst, diconfig, DICfg, faults>> /\ wrong' = Nothing
        /\ req'.op = "select" /\ ~req'.force
    BY <1>1 DEF DVD_SELECT_GAME, store, mode, cache
  <2> QED
    BY <1>a, <2>1, RequestRead
<1>2. CASE DVD_WRITE_CONFIG
  <2>1. NoHandle(base) \/ WriteConfig([DICfg EXCEPT !.auto = ~ @])
        \/ WriteConfig([DICfg EXCEPT !.rebuild = ~ @])
    BY <1>2 DEF DVD_WRITE_CONFIG, Opens
  <2>2. ASSUME NEW c \in Config, WriteConfig(c) PROVE ReadInv'
    <3>1. /\ UNCHANGED <<base, dir, DMLite, game, FC, fst, req, faults>> /\ wrong' = Nothing
          /\ DICfg' = c /\ diconfig' = [c EXCEPT !.names = diconfig.names]
      BY <2>2 DEF WriteConfig, mode, cache
    <3>2. diconfig'.count = DICfg'.count
      BY <2>2, <3>1 DEF Config
    <3> QED
      BY <3>1, <3>2, RequestRead
  <2>3. /\ [DICfg EXCEPT !.auto = ~ @] \in Config
        /\ [DICfg EXCEPT !.rebuild = ~ @] \in Config
    BY Typed, ConfigIs
  <2> QED
    BY <2>1, <2>2, <2>3, FullRead
<1>3. ASSUME UNCHANGED <<store, DMLite, DICfg, game, cache, fst, req>>, wrong' = Nothing,
             "rebuild" \in faults' <=> "rebuild" \in faults
      PROVE  ReadInv'
  BY <1>a, <1>3, RequestRead DEF store, cache
<1>4. CASE DVD_READ_DISCID
  BY <1>3, <1>4, FullRead DEF DVD_READ_DISCID, Opens
<1>5. CASE DVD_OPEN_PARTITION
  BY <1>3, <1>5, FullRead DEF DVD_OPEN_PARTITION, Opens, mode
<1>6. CASE DVD_RESET
  BY <1>3, <1>6 DEF DVD_RESET, mode
<1>7. CASE DVD_READ_PAST
  BY <1>3, <1>7 DEF DVD_READ_PAST
<1>8. CASE DVD_LOW_READ
  <2>1. game \in Games /\ Disc[game] = "REV" /\ DVDLowRead(FSMode) /\ FSMode \in Modes
    BY <1>8, Typed DEF DVD_LOW_READ
  <2>2. Listing # <<>> => ~DMLite
    BY <2>1 DEF ReadInv, Resting
  <2> QED
    BY <1>a, <2>1, <2>2, LowReadRead
<1>9. CASE DVD_READ_UNENCRYPTED
  <2>1. game \in Games /\ DVDLowRead(ReadMode)
    BY <1>9, Typed DEF DVD_READ_UNENCRYPTED
  <2>2. ReadMode = (IF DMLite THEN "UNEEK" ELSE base) /\ ReadMode \in Modes
    BY <1>a, Typed DEF ReadMode, Modes
  <2> QED
    BY <2>1, <2>2, LowReadRead
<1> QED
  BY <1>1, <1>2, <1>4, <1>5, <1>6, <1>7, <1>8, <1>9 DEF Request

\* When the files of a disc are apart and the games of the SD card are GameCube
\* games: a disc read returns the bytes of the selected game at its offset,
\* through the cache, the selections, and the file systems the games are on.
THEOREM ReadSafe ==
  ASSUME SDHasGC, FilesApart
  PROVE  Spec => []ReadRight
<1>1. Init => EndsInv /\ ReadInv
  <2>1. SUFFICES ASSUME Init PROVE EndsInv /\ ReadInv
    OBVIOUS
  <2>2. /\ req.op = "update" /\ ~req.force /\ DMLite = FALSE /\ FSMode = base
        /\ "past" \notin faults /\ FC = NoFC /\ fst = None /\ wrong = Nothing
    BY <2>1 DEF Init, Booting
  <2>3. \A i \in Caches : FC[i] = NoFile
    BY <2>2 DEF NoFC
  <2> QED
    BY <2>2, <2>3 DEF EndsInv, ReadInv, Resting
<1>2. DITyped /\ EndsInv /\ ReadInv /\ [Next]_vars => EndsInv' /\ ReadInv'
  <2>1. SUFFICES ASSUME DITyped, EndsInv, ReadInv, [Next]_vars PROVE EndsInv' /\ ReadInv'
    OBVIOUS
  <2>2. CASE PowerOff
    <3>1. \A i \in Caches : FC'[i] = NoFile
      BY <2>2 DEF PowerOff, NoFC
    <3>2. /\ req'.op = "update" /\ ~req'.force /\ ~DMLite' /\ FSMode' = base'
          /\ "past" \notin faults' /\ FC' = NoFC /\ fst' = None /\ wrong' = Nothing
      BY <2>2 DEF PowerOff, Booting
    <3> QED
      BY <3>1, <3>2 DEF EndsInv, ReadInv, Resting
  <2>3. CASE UNCHANGED vars
    <3>1. UNCHANGED <<base, dir, diconfig, FSMode, DMLite, DICfg, game, FC, fst, req, wrong, faults>>
      BY <2>3 DEF vars, store, mode, cache
    <3>2. Listing' = Listing /\ (Resting' <=> Resting) /\ \A i \in Caches : OfTable(FC[i])' <=> OfTable(FC[i])
      BY <3>1 DEF Listing, Resting, OfTable
    <3> QED
      BY <2>1, <3>1, <3>2 DEF ReadInv, EndsInv
  <2> QED
    BY <2>1, <2>2, <2>3, WorkEnds, RequestEnds, WorkRead, RequestsRead DEF Next
<1>3. ReadInv => ReadRight
  BY DEF ReadInv, ReadRight
<1> QED
  BY <1>1, <1>2, <1>3, InitTyped, NextTyped, PTL DEF Spec
-----------------------------------------------------------------------------
(***************************************************************************)
(* The drive (DIDrive).  What it shows is of one disc: the header, the ID  *)
(* and the partition are known by the game they were read from, and the    *)
(* size of the apploader is that of the selected game as long as DICfg     *)
(* lists any.                                                              *)
(***************************************************************************)
DriveInv ==
  /\ present \subseteq Discs /\ listed \subseteq Discs /\ GamePath \in Discs
  /\ listed # {} => ApploaderSize = Layout[GamePath].app
  /\ headed # NoGame => headed \in Discs /\ header = HeaderOf(headed)
  /\ typed # NoGame => DiscKind = Layout[typed].type
  /\ PartitionOpen => opened # NoGame
  /\ unseen => NoDisc
  /\ NoDisc \in BOOLEAN /\ unseen \in BOOLEAN /\ PartitionOpen \in BOOLEAN
  /\ DriveRight

\* A set of games has a smallest one.
LEMMA SmallestIsIn ==
  ASSUME NEW S, S \subseteq Nat, S # {}
  PROVE  Smallest(S) \in S
<1>1. PICK R : R = OpToRel(<, Nat)
  OBVIOUS
<1>2. IsWellFoundedOn(R, Nat)
  BY <1>1, NatLessThanWellFounded, Zenon
<1>3. PICK g \in S : \A h \in S : ~(<<h, g>> \in R)
  <2>1. \E g \in S : \A h \in S : ~(<<h, g>> \in R)
    <3>1. S \subseteq Nat /\ S # {}
      OBVIOUS
    <3>2. QED
      BY <1>2, <3>1, WFMin, Zenon
  <2>2. QED
    BY <2>1
<1>4. \A h \in S : g <= h
  <2>1. SUFFICES ASSUME NEW h \in S, ~(g <= h) PROVE FALSE
    OBVIOUS
  <2>2. h \in Nat /\ g \in Nat /\ h < g
    BY <2>1, SMT
  <2>3. <<h, g>> \in OpToRel(<, Nat)
    BY <2>2, Zenon DEF OpToRel
  <2>4. QED
    BY <1>1, <1>3, <2>3, Zenon
<1>5. QED
  BY <1>3, <1>4, Zenon DEF Smallest

LEMMA DriveFacts ==
  /\ Discs \subseteq Nat /\ NoGame \notin Discs
  /\ BootEnd \in Nat /\ Bi2End \in Nat /\ BootEnd < Bi2End
  /\ \A g \in Discs :
       /\ Layout[g].app \in Nat /\ Layout[g].dol \in Nat /\ Layout[g].fst \in Nat
       /\ Layout[g].fstsize \in Nat /\ Layout[g].part \in Nat
       /\ Bi2End + Layout[g].app <= Layout[g].dol /\ Layout[g].dol <= Layout[g].fst
BY DIDriveAssumption, SMT DEF NoGame

\* What is read of a disc whose header is known comes from the area it is in.
LEMMA WhereIsArea ==
  ASSUME DriveInv, listed # {}, headed = GamePath, NEW off \in Asked
  PROVE  off \in Bi2End + Layout[GamePath].app .. Layout[GamePath].dol - 1
           \/ Where(off) = Area(Layout[GamePath], off)
<1>1. off \in Nat
  BY DriveFacts, SMT DEF Asked
<1>2. GamePath \in Discs /\ ApploaderSize = Layout[GamePath].app /\ header = HeaderOf(GamePath)
  BY DriveFacts DEF DriveInv
<1>3. PICK l : l = Layout[GamePath]
  OBVIOUS
<1>4. /\ l.app \in Nat /\ l.dol \in Nat /\ l.fst \in Nat /\ l.fstsize \in Nat
      /\ Bi2End + l.app <= l.dol /\ l.dol <= l.fst
  BY <1>2, <1>3, DriveFacts
<1>5. /\ header.DolOffset = l.dol /\ header.DolSize = l.fst - l.dol
      /\ header.FSTableOffset = l.fst /\ header.FSTableSize = l.fstsize
  BY <1>2, <1>3 DEF HeaderOf
<1>6. Bi2End \in Nat /\ BootEnd \in Nat
  BY DriveFacts
<1>7. CASE off < Bi2End + l.app
  BY <1>1, <1>2, <1>3, <1>4, <1>5, <1>6, <1>7, SMT DEF Where, Area
<1>8. CASE off >= l.dol
  <2>1. ~(off < Bi2End + l.app) /\ (off \in l.dol .. l.fst - 1 <=> off < l.dol + (l.fst - l.dol))
    BY <1>1, <1>4, <1>6, <1>8, SMT
  <2>2. off \notin l.dol .. l.fst - 1 =>
          (off \in l.fst .. l.fst + l.fstsize - 1 <=> off < l.fst + l.fstsize)
    BY <1>1, <1>4, <1>6, <1>8, SMT
  <2>3. QED
    BY <2>1, <2>2, <1>2, <1>3, <1>5 DEF Where, Area, Dol
<1>9. QED
  BY <1>1, <1>3, <1>4, <1>6, <1>7, <1>8, SMT

\* A read of an area gives an answer DriveRight allows.
LEMMA ReadAreaKeeps ==
  ASSUME DriveInv, NEW off \in Asked, ReadArea(off), ReadKeeps, UNCHANGED hung
  PROVE  DriveInv'
<1>1. UNCHANGED <<present, listed, GamePath, ApploaderSize, NoDisc, unseen, PartitionOpen,
                  opened, DiscKind, typed>>
  BY DEF ReadKeeps, DiscKept, RegsKept, PartKept
<1>2. (headed # NoGame => headed \in Discs /\ header = HeaderOf(headed))'
  BY <1>1 DEF ReadArea, DriveInv
<1>3. ASSUME Ends(GotRead(off, Where(off)), "none")
      PROVE  DriveRight'
  <2>1. last' = GotRead(off, Where(off))
    BY <1>3 DEF Ends
  <2>2. /\ last'.call = "read" /\ last'.ret = SUCCESS /\ last'.off = off
        /\ last'.from = Where(off) /\ last'.known = (headed = GamePath)
        /\ last'.typed = (typed = GamePath) /\ last'.inside = PartitionOpen
        /\ last'.whole = opened
        /\ last'.patched = (Where(off).file = "bi2.bin" /\ DiscKind = "DOL")
    BY <2>1 DEF GotRead
  <2>3. AreaRight'
    <3>1. SUFFICES ASSUME listed # {}, headed = GamePath
                   PROVE  LET l == Layout[GamePath]
                          IN  /\ off \in Bi2End + l.app .. l.dol - 1 \/ Where(off) = Area(l, off)
                              /\ typed = GamePath /\ DiscKind = "DOL" => l.type = "DOL"
      BY <1>1, <2>2 DEF AreaRight
    <3>2. GamePath # NoGame
      BY DriveFacts DEF DriveInv
    <3>3. QED
      BY <3>1, <3>2, WhereIsArea DEF DriveInv
  <2>4. OpenedWhole'
    BY <2>2 DEF OpenedWhole, DriveInv
  <2>5. ChangeSeen' /\ ErrorTold'
    BY <2>2 DEF ChangeSeen, ErrorTold, SUCCESS, ERROR
  <2>6. QED
    BY <2>3, <2>4, <2>5 DEF DriveRight
<1>4. ASSUME NEW code, Ends(Answer(FATAL), code)
      PROVE  DriveRight'
  BY <1>4 DEF Ends, Answer, DriveRight, AreaRight, OpenedWhole, ChangeSeen, ErrorTold, FATAL,
              ERROR
<1>5. DriveRight'
  BY <1>3, <1>4 DEF ReadArea
<1>6. QED
  BY <1>1, <1>2, <1>5 DEF DriveInv

\* An answer without a value is always right; with an error it must have a code.
LEMMA AnswerRight ==
  ASSUME NEW ret, NEW code, Ends(Answer(ret), code), ret = ERROR => code # "none"
  PROVE  DriveRight'
BY DEF Ends, Answer, DriveRight, AreaRight, OpenedWhole, ChangeSeen, ErrorTold, SUCCESS, ERROR

LEMMA SimplyRight ==
  ASSUME Simply
  PROVE  DriveRight'
BY AnswerRight DEF Simply, SUCCESS, ERROR

LEMMA FatalRight ==
  ASSUME NEW code, Ends(Answer(FATAL), code)
  PROVE  DriveRight'
BY AnswerRight DEF FATAL, ERROR

LEMMA DriveInitInv ==
  ASSUME DriveInit
  PROVE  DriveInv
<1>1. /\ present \subseteq Discs /\ listed \subseteq Discs /\ GamePath \in Discs
      /\ ApploaderSize = Layout[GamePath].app
  BY DEF DriveInit
<1>2. /\ headed = NoGame /\ typed = NoGame /\ PartitionOpen = FALSE /\ unseen = TRUE
      /\ NoDisc = TRUE /\ last.call = "done" /\ last.ret = SUCCESS
  BY DEF DriveInit
<1>3. DriveRight
  BY <1>2 DEF DriveRight, AreaRight, OpenedWhole, ChangeSeen, ErrorTold, SUCCESS, ERROR
<1>4. QED
  BY <1>1, <1>2, <1>3 DEF DriveInv

LEMMA SelectKeeps ==
  ASSUME DriveInv, SelectDisc
  PROVE  DriveInv'
<1>1. UNCHANGED <<present, PartitionOpen, opened, header, headed, DiscKind, typed>>
      /\ NoDisc' = TRUE
  BY DEF SelectDisc, PartKept, HeaderKept
<1>2. DriveRight'
  BY SimplyRight, FatalRight DEF SelectDisc
<1>3. unseen' \in BOOLEAN
  BY DEF SelectDisc, DriveInv
<1>4. /\ listed' \subseteq Discs /\ GamePath' \in Discs
      /\ listed' # {} => ApploaderSize' = Layout[GamePath'].app
  <2>1. CASE listed = {} /\ UNCHANGED <<listed, GamePath, ApploaderSize>>
    BY <2>1 DEF DriveInv
  <2>2. ASSUME NEW g \in listed, g \notin present, present = {}, GamePath' = g, listed' = {}
        PROVE  listed' \subseteq Discs /\ GamePath' \in Discs /\ listed' = {}
    BY <2>2 DEF DriveInv
  <2>3. ASSUME NEW g \in listed, g \in present \/ present # {},
               GamePath' = IF g \in present THEN g ELSE Smallest(present),
               ApploaderSize' = Layout[GamePath'].app,
               listed' = IF g \in present THEN listed ELSE present
        PROVE  listed' \subseteq Discs /\ GamePath' \in Discs
    <3>1. present \subseteq Nat
      BY DriveFacts DEF DriveInv
    <3>2. Smallest(present) \in present \/ present = {}
      BY <3>1, SmallestIsIn
    <3>3. QED
      BY <2>3, <3>2 DEF DriveInv
  <2>4. QED
    BY <2>1, <2>2, <2>3 DEF SelectDisc, Loaded
<1>5. QED
  BY <1>1, <1>2, <1>3, <1>4 DEF DriveInv

LEMMA RegistersKeep ==
  ASSUME DriveInv,
         \/ DVD_INSERT_DISC \/ DVD_EJECT_DISC \/ DVD_GET_ERROR \/ DriveReset \/ DVD_REPORTKEY
         \/ ClosePartition
  PROVE  DriveInv'
<1>1. UNCHANGED <<present, listed, GamePath, ApploaderSize, header, headed, DiscKind, typed>>
  BY DEF DVD_INSERT_DISC, DVD_EJECT_DISC, DVD_GET_ERROR, DriveReset, DVD_REPORTKEY,
         ClosePartition, Elsewhere, DiscKept, HeaderKept
<1>2. DriveRight'
  BY SimplyRight, AnswerRight
     DEF DVD_INSERT_DISC, DVD_EJECT_DISC, DVD_GET_ERROR, DriveReset, DVD_REPORTKEY,
         ClosePartition
<1>b. /\ PartitionOpen => opened # NoGame
      /\ unseen => NoDisc
      /\ NoDisc \in BOOLEAN /\ unseen \in BOOLEAN /\ PartitionOpen \in BOOLEAN
  BY DEF DriveInv
<1>3. /\ (PartitionOpen => opened # NoGame)' /\ PartitionOpen' \in BOOLEAN
      /\ (unseen => NoDisc)' /\ NoDisc' \in BOOLEAN /\ unseen' \in BOOLEAN
  <2>1. \/ (PartitionOpen' <=> PartitionOpen) /\ opened' = opened
        \/ ~PartitionOpen'
    BY DEF DVD_INSERT_DISC, DVD_EJECT_DISC, DVD_GET_ERROR, DriveReset, DVD_REPORTKEY,
           ClosePartition, PartKept
  <2>2. \/ (NoDisc' <=> NoDisc) /\ (unseen' <=> unseen)
        \/ ~NoDisc' /\ ~unseen'
        \/ NoDisc' /\ (unseen' <=> unseen)
    BY DEF DVD_INSERT_DISC, DVD_EJECT_DISC, DVD_GET_ERROR, DriveReset, DVD_REPORTKEY,
           ClosePartition, RegsKept
  <2>3. QED
    <3>1. (PartitionOpen' => opened' # NoGame) /\ PartitionOpen' \in BOOLEAN
      <4>1. PartitionOpen' \in BOOLEAN
        BY <1>b DEF DVD_INSERT_DISC, DVD_EJECT_DISC, DVD_GET_ERROR, DriveReset,
                    DVD_REPORTKEY, ClosePartition, PartKept
      <4>2. QED
        BY <1>b, <2>1, <4>1
    <3>2. (unseen' => NoDisc') /\ NoDisc' \in BOOLEAN /\ unseen' \in BOOLEAN
      <4>1. NoDisc' \in BOOLEAN /\ unseen' \in BOOLEAN
        BY <1>b DEF DVD_INSERT_DISC, DVD_EJECT_DISC, DVD_GET_ERROR, DriveReset,
                    DVD_REPORTKEY, ClosePartition, RegsKept
      <4>2. QED
        BY <1>b, <2>2, <4>1
    <3>3. QED
      BY <3>1, <3>2 DEF NoGame
<1>4. QED
  BY <1>1, <1>2, <1>3 DEF DriveInv

LEMMA CoverKeeps ==
  ASSUME DriveInv, DVDLowPrepareCoverRegister \/ DVD_GETCOVER
  PROVE  DriveInv'
<1>1. UNCHANGED <<present, listed, GamePath, ApploaderSize, header, headed, DiscKind, typed,
                  PartitionOpen, opened>>
  BY DEF DVDLowPrepareCoverRegister, DVD_GETCOVER, Elsewhere, DiscKept, HeaderKept, PartKept
<1>2. /\ last' = [call |-> "cover", ret |-> SUCCESS, disc |-> ~NoDisc]
      /\ unseen' = (unseen /\ last'.disc)
  BY DEF DVDLowPrepareCoverRegister, DVD_GETCOVER, Covered, Tells
<1>3. unseen' = FALSE
  BY <1>2 DEF DriveInv
<1>4. DriveRight'
  BY <1>2, <1>3 DEF DriveRight, AreaRight, OpenedWhole, ChangeSeen, ErrorTold, SUCCESS, ERROR
<1>5. NoDisc' \in BOOLEAN
  BY DEF DVDLowPrepareCoverRegister, DVD_GETCOVER, Covered, DriveInv
<1>6. QED
  BY <1>1, <1>3, <1>4, <1>5 DEF DriveInv

LEMMA DiscKeeps ==
  ASSUME DriveInv, DVDLowReadDiscID \/ OpenPartition
  PROVE  DriveInv'
<1>1. UNCHANGED <<present, listed, GamePath, ApploaderSize, header, headed, NoDisc, unseen>>
  BY DEF DVDLowReadDiscID, OpenPartition, DiscKept, HeaderKept, RegsKept
<1>2. DriveRight'
  BY SimplyRight, FatalRight DEF DVDLowReadDiscID, OpenPartition
<1>3. (typed # NoGame => DiscKind = Layout[typed].type)'
  BY DEF DVDLowReadDiscID, OpenPartition, HeaderKept, DriveInv
<1>4. (PartitionOpen => opened # NoGame)' /\ PartitionOpen' \in BOOLEAN
  <2>1. GamePath # NoGame /\ (PartitionOpen => opened # NoGame) /\ PartitionOpen \in BOOLEAN
    BY DriveFacts DEF DriveInv
  <2>2. \/ (PartitionOpen' <=> PartitionOpen) /\ opened' = opened
        \/ PartitionOpen' /\ opened' = GamePath
    BY DEF DVDLowReadDiscID, OpenPartition, PartKept
  <2>3. QED
    <3>1. (PartitionOpen' => opened' # NoGame) /\ PartitionOpen' \in BOOLEAN
      <4>1. PartitionOpen' \in BOOLEAN
        BY <2>1 DEF DVDLowReadDiscID, OpenPartition, PartKept
      <4>2. QED
        BY <2>1, <2>2, <4>1
    <3>2. QED
      BY <3>1 DEF NoGame
<1>5. QED
  BY <1>1, <1>2, <1>3, <1>4 DEF DriveInv

LEMMA ReadsKeep ==
  ASSUME DriveInv, (\E off \in Asked : LowRead(off)) \/ UnencryptedRead
  PROVE  DriveInv'
<1>1. ASSUME DriveRight', ReadKeeps, UNCHANGED <<header, headed>>
      PROVE  DriveInv'
  BY <1>1 DEF DriveInv, ReadKeeps, DiscKept, RegsKept, PartKept
<1>2. ASSUME NEW off \in Asked, LowRead(off)
      PROVE  DriveInv'
  <2>1. CASE ReadArea(off)
    BY <1>2, <2>1, ReadAreaKeeps DEF LowRead
  <2>2. CASE Ends(Answer(FATAL), "none") /\ UNCHANGED <<header, headed>>
    BY <1>1, <1>2, <2>2, FatalRight DEF LowRead
  <2>3. CASE Ends(Answer(ERROR), "range") /\ UNCHANGED <<header, headed>>
    BY <1>1, <1>2, <2>3, AnswerRight DEF LowRead
  <2>4. QED
    BY <1>2, <2>1, <2>2, <2>3 DEF LowRead
<1>3. ASSUME NEW off \in Asked, ReadArea(off), UnencryptedRead, UNCHANGED hung
      PROVE  DriveInv'
  BY <1>3, ReadAreaKeeps DEF UnencryptedRead
<1>4. ASSUME UnencryptedRead, UNCHANGED <<header, headed>>, NEW off,
             DVDLowReadUnencrypted(off)
      PROVE  DriveInv'
  <2>1. CASE Simply
    BY <1>1, <1>4, <2>1, SimplyRight DEF UnencryptedRead
  <2>2. CASE Ends(Answer(FATAL), "none")
    BY <1>1, <1>4, <2>2, FatalRight DEF UnencryptedRead
  <2>3. CASE last' = Answer(ERROR) /\ error' = "range"
    <3>1. Ends(Answer(ERROR), "range")
      BY <2>3 DEF Ends
    <3>2. QED
      BY <1>1, <1>4, <3>1, AnswerRight DEF UnencryptedRead
  <2>4. CASE UNCHANGED <<last, error>>
    <3>1. UNCHANGED <<listed, GamePath, unseen>>
      BY <1>4 DEF UnencryptedRead, ReadKeeps, DiscKept, RegsKept
    <3>2. DriveRight'
      BY <2>4, <3>1 DEF DriveInv, DriveRight, AreaRight, OpenedWhole, ChangeSeen, ErrorTold
    <3>3. QED
      BY <1>1, <1>4, <3>2 DEF UnencryptedRead
  <2>5. QED
    BY <1>4, <2>1, <2>2, <2>3, <2>4 DEF DVDLowReadUnencrypted
<1>5. QED
  BY <1>2, <1>3, <1>4 DEF UnencryptedRead

LEMMA DiskChangedKeeps ==
  ASSUME DriveInv, DiskChanged
  PROVE  DriveInv'
<1>1. UNCHANGED <<listed, GamePath, ApploaderSize, header, headed, DiscKind, typed, NoDisc,
                  unseen, PartitionOpen, opened, last, error>>
  BY DEF DiskChanged, RegsKept, PartKept, HeaderKept
<1>2. present' \subseteq Discs
  BY DEF DiskChanged
<1>3. QED
  BY <1>1, <1>2 DEF DriveInv, DriveRight, AreaRight, OpenedWhole, ChangeSeen, ErrorTold

LEMMA DriveStepInv ==
  ASSUME DriveInv, [DriveNext]_drivevars
  PROVE  DriveInv'
<1>1. CASE UNCHANGED drivevars
  BY <1>1 DEF drivevars, DriveInv, DriveRight, AreaRight, OpenedWhole, ChangeSeen, ErrorTold
<1>2. CASE DriveNext
  BY <1>2, SelectKeeps, RegistersKeep, CoverKeeps, DiscKeeps, ReadsKeep, DiskChangedKeeps
     DEF DriveNext
<1>3. QED
  BY <1>1, <1>2

\* Whatever discs there are and however their areas lie, what the drive shows
\* is of the selected game: reads of a disc whose header was read go to the right
\* file (dip.c, DVDLowRead), a partition that reads was opened as a whole, a new
\* disc is not found in the drive before the drive was found empty, and a refusal
\* has its code.
THEOREM DriveSafe == DriveSpec => []DriveRight
<1>1. DriveInv /\ [DriveNext]_drivevars => DriveInv'
  BY DriveStepInv
<1>2. DriveInv => DriveRight
  BY DEF DriveInv
<1>3. DriveInit => DriveInv
  BY DriveInitInv
<1>4. QED
  BY <1>1, <1>2, <1>3, PTL DEF DriveSpec
-----------------------------------------------------------------------------
(***************************************************************************)
(* The menu (SMenu).  What a press does is a chain of steps on a state m;  *)
(* each of them keeps MenuInv, so that any set of buttons does.  It says   *)
(* more than MenuRight: of a menu that is hidden too, and of a cover that  *)
(* is out of date while neither the settings shown nor those saved have    *)
(* covers.                                                                 *)
(***************************************************************************)
Lists == {GamesMenu, Channels}
MenuTypes == {GamesMenu, Settings, Dumping, Picture, Channels, DML}
MenuConfig == [count : Nat, covers : BOOLEAN, patch : Patches]
Cover == [list : Lists, entry : Nat, is : BOOLEAN]
MenuState ==
  [show : BOOLEAN, type : MenuTypes, lock : BOOLEAN, usb : BOOLEAN, pos : Nat, scroll : Nat,
   cover : Cover, cfg : MenuConfig, saved : MenuConfig, force : BOOLEAN, reinsert : BOOLEAN,
   saving : BOOLEAN, fresh : BOOLEAN, launch : BOOLEAN]

OnEntry(m) ==
  /\ m.type \in Lists => m.pos + m.scroll < Count(m) \/ (m.pos = 0 /\ m.scroll = 0)
  /\ m.type = Picture => m.pos = 0 /\ m.scroll = 0
OnRow(m) ==
  /\ m.type = Settings => m.pos <= LastRow(m) /\ m.pos # 13
  /\ m.type = DML => m.pos <= 13 /\ m.pos \notin {8, 11} /\ (m.pos = 10 => m.force)
Covering(m) ==
  m.cover.is =>
    /\ m.type \in Lists
    /\ m.cfg.covers => m.cover.list = m.type /\ m.cover.entry = m.pos + m.scroll
    /\ m.saved.covers => m.cfg.covers
Noted(m) == (m.cfg.patch # m.saved.patch => m.reinsert) /\ m.cfg.count = m.saved.count

MenuInv(m) == m \in MenuState /\ OnEntry(m) /\ OnRow(m) /\ Covering(m) /\ Noted(m)

\* q is what the game was patched by.
Applied(m, q) ==
  /\ m.reinsert \/ m.saving \/ m.fresh \/ q \in {m.saved.patch, Overtaken}
  /\ m.saving => m.fresh \/ q = Overtaken

\* A step that works on the cursor and the cover only.
SameSettings(m, n) ==
  /\ n.cfg = m.cfg /\ n.saved = m.saved /\ n.reinsert = m.reinsert
  /\ n.saving = m.saving /\ n.fresh = m.fresh /\ n.usb = m.usb

LEMMA MenuTypesDiffer ==
  /\ GamesMenu = 0 /\ Settings = 1 /\ Dumping = 2 /\ Picture = 3 /\ Channels = 4 /\ DML = 5
BY DEF GamesMenu, Settings, Dumping, Picture, Channels, DML

LEMMA LockedKeeps ==
  ASSUME NEW m, MenuInv(m)
  PROVE  MenuInv(Locked(m)) /\ SameSettings(m, Locked(m)) /\ Locked(m).type = m.type
BY DEF MenuInv, MenuState, OnEntry, OnRow, Covering, Noted, Locked, SameSettings, Count, LastRow

\* What is hidden, locked or launched is no concern of the rest.
LEMMA ShowKeeps ==
  ASSUME NEW m, MenuInv(m), NEW b \in BOOLEAN
  PROVE  /\ MenuInv([m EXCEPT !.show = b]) /\ SameSettings(m, [m EXCEPT !.show = b])
         /\ MenuInv([m EXCEPT !.launch = b]) /\ SameSettings(m, [m EXCEPT !.launch = b])
BY DEF MenuInv, MenuState, OnEntry, OnRow, Covering, Noted, SameSettings, Count, LastRow

LEMMA FreedKeeps ==
  ASSUME NEW m, MenuInv(m)
  PROVE  MenuInv(Freed(m)) /\ SameSettings(m, Freed(m)) /\ Freed(m).type = m.type
BY MenuTypesDiffer
   DEF MenuInv, MenuState, OnEntry, OnRow, Covering, Noted, Freed, SameSettings, Count, LastRow,
       NoCover, Cover, Lists

LEMMA MenuSelectKeeps ==
  ASSUME NEW m, MenuInv(m)
  PROVE  MenuInv(MenuSelect(m)) /\ MenuSelect(m).type = m.type
BY DEF MenuInv, MenuState, OnEntry, OnRow, Covering, Noted, MenuSelect, Count, LastRow

LEMMA EnterKeeps ==
  ASSUME NEW m, MenuInv(m), NEW type \in MenuTypes
  PROVE  MenuInv(Enter(m, type)) /\ SameSettings(m, Enter(m, type)) /\ Enter(m, type).type = type
<1>1. Enter(m, type) =
        [m EXCEPT !.type = type, !.cover = NoCover, !.pos = 0, !.scroll = 0, !.lock = TRUE]
  BY DEF MenuInv, MenuState, Enter, Locked, Home, Freed
<1>2. NoCover \in Cover /\ ~ NoCover.is
  BY DEF NoCover, Cover, Lists
<1>3. PICK n : n = Enter(m, type)
  OBVIOUS
<1>4. n \in MenuState /\ SameSettings(m, n)
  <2>1. m \in MenuState
    BY DEF MenuInv
  <2>2. n \in MenuState
    <3>1. [m EXCEPT !.type = type] \in MenuState
      BY <2>1 DEF MenuState
    <3>2. Freed([m EXCEPT !.type = type]) \in MenuState
      BY <1>2, <3>1 DEF MenuState, Freed
    <3>3. \A a \in MenuState : Locked(Home(a)) \in MenuState
      BY DEF MenuState, Locked, Home
    <3>4. QED
      BY <1>3, <3>2, <3>3 DEF Enter
  <2>3. SameSettings(m, n)
    BY <1>1, <1>3, <2>1 DEF MenuState, SameSettings
  <2>4. QED
    BY <2>2, <2>3
<1>5. n.type = type /\ n.pos = 0 /\ n.scroll = 0 /\ n.cover = NoCover
  BY <1>1, <1>3 DEF MenuInv, MenuState
<1>6. OnEntry(n) /\ OnRow(n) /\ Covering(n)
  BY <1>2, <1>4, <1>5 DEF OnEntry, OnRow, Covering, LastRow
<1>7. Noted(n)
  BY <1>4 DEF SameSettings, Noted, MenuInv
<1>8. QED
  BY <1>3, <1>4, <1>5, <1>6, <1>7 DEF MenuInv

\* A cover is loaded for the entry under the cursor, wherever that is.
CursorInv(m) == m \in MenuState /\ OnEntry(m) /\ OnRow(m) /\ Noted(m) /\ m.type \in Lists

LEMMA LoadGives ==
  ASSUME NEW m, CursorInv(m), m.cfg.covers
  PROVE  MenuInv(Load(m)) /\ SameSettings(m, Load(m)) /\ Load(m).type = m.type
<1>1. PICK c \in Cover :
        Load(m) = [m EXCEPT !.cover = c] /\ (c.is => c.list = m.type /\ c.entry = m.pos + m.scroll)
  <2>1. m.pos + m.scroll \in Nat
    BY DEF CursorInv, MenuState
  <2>2. [list |-> Channels, entry |-> m.pos + m.scroll, is |-> TRUE] \in Cover
        /\ [list |-> GamesMenu, entry |-> m.pos + m.scroll, is |-> TRUE] \in Cover
        /\ NoCover \in Cover
    BY <2>1 DEF Cover, NoCover, Lists
  <2>3. CASE m.type = Channels
    <3>1. PICK e : e = m.pos + m.scroll
      OBVIOUS
    <3>2. CASE e < NumChannels /\ e \in Pictured
      BY <2>2, <2>3, <3>1, <3>2 DEF Load, LoadChannelCover
    <3>3. CASE ~(e < NumChannels /\ e \in Pictured)
      BY <2>2, <2>3, <3>1, <3>3 DEF Load, LoadChannelCover, NoCover
    <3>4. QED
      BY <3>2, <3>3
  <2>4. CASE m.type = GamesMenu
    <3>1. PICK e : e = m.pos + m.scroll
      OBVIOUS
    <3>0. Load(m) = LoadDVDCover(m)
      BY <2>4, MenuTypesDiffer DEF Load
    <3>2. CASE e < m.cfg.count /\ e \in Pictured
      BY <2>2, <2>4, <3>0, <3>1, <3>2 DEF LoadDVDCover
    <3>3. CASE ~(e < m.cfg.count /\ e \in Pictured)
      BY <2>2, <2>4, <3>0, <3>1, <3>3 DEF LoadDVDCover, NoCover
    <3>4. QED
      BY <3>2, <3>3
  <2>5. QED
    BY <2>3, <2>4 DEF CursorInv, Lists
<1>2. PICK n : n = Load(m)
  OBVIOUS
<1>3. n \in MenuState /\ n.cover = c
  BY <1>1, <1>2 DEF CursorInv, MenuState
<1>4. SameSettings(m, n) /\ n.type = m.type /\ n.pos = m.pos /\ n.scroll = m.scroll
      /\ n.force = m.force /\ n.usb = m.usb
  BY <1>1, <1>2 DEF CursorInv, MenuState, SameSettings
<1>5. OnEntry(n) /\ OnRow(n) /\ Noted(n)
  BY <1>4 DEF CursorInv, SameSettings, OnEntry, OnRow, Noted, Count, LastRow
<1>6. m.cfg.covers => Covering(n)
  BY <1>1, <1>3, <1>4 DEF Covering, CursorInv, SameSettings
<1>7. QED
  BY <1>2, <1>3, <1>4, <1>5, <1>6 DEF MenuInv

\* Without covers nothing is loaded, and what cover there is may be of another
\* entry: it was loaded before the settings, the saved ones too, lost theirs.
LEMMA ReloadGives ==
  ASSUME NEW m, CursorInv(m), m.cover.is => (m.saved.covers => m.cfg.covers)
  PROVE  MenuInv(Reload(m)) /\ SameSettings(m, Reload(m)) /\ Reload(m).type = m.type
<1>1. CASE m.cfg.covers
  BY <1>1, LoadGives DEF Reload
<1>2. CASE ~ m.cfg.covers
  BY <1>2 DEF Reload, CursorInv, MenuInv, Covering, SameSettings
<1>3. QED
  BY <1>1, <1>2

LEMMA PageFacts ==
  ASSUME NEW m \in MenuState
  PROVE  Page(m) \in Nat /\ Page(m) <= m.scroll /\ EntryCount(m) \in Nat \ {0}
         /\ Count(m) \in Nat
<1>1. EntryCount(m) \in Nat \ {0} /\ Count(m) \in Nat /\ m.scroll \in Nat
  BY SMenuAssumption DEF MenuState, MenuConfig, EntryCount, Count
<1>2. PICK n \in Nat \ {0} : n = EntryCount(m)
  BY <1>1
<1>3. PICK s \in Nat : s = m.scroll
  BY <1>1
<1>4. (s \div n) * n \in Nat /\ (s \div n) * n <= s
  BY <1>2, <1>3, SMT
<1>5. QED
  BY <1>1, <1>2, <1>3, <1>4 DEF Page

\* The four moves of a list keep its cursor on an entry.
LEMMA MovesKeepCursor ==
  ASSUME NEW m, MenuInv(m), m.type \in Lists,
         NEW n \in {Up(m), Down(m), PageDown(m), PageUp(m)}
  PROVE  CursorInv(n) /\ SameSettings(m, n) /\ n.type = m.type /\ n.cover = m.cover
<1>1. m \in MenuState /\ m.pos \in Nat /\ m.scroll \in Nat
  BY DEF MenuInv, MenuState
<1>2. \E pos, scroll \in Nat :
        /\ n = [m EXCEPT !.pos = pos, !.scroll = scroll]
        /\ pos + scroll < Count(m) \/ (pos = 0 /\ scroll = 0)
  <2>1. m.pos + m.scroll < Count(m) \/ (m.pos = 0 /\ m.scroll = 0)
    BY DEF MenuInv, OnEntry
  <2>2. m = [m EXCEPT !.pos = m.pos, !.scroll = m.scroll]
    BY <1>1 DEF MenuState
  <2>3. CASE n = Up(m)
    <3>1. CASE m.pos > 0
      <4>1. n = [m EXCEPT !.pos = m.pos - 1, !.scroll = m.scroll]
        BY <1>1, <2>3, <3>1 DEF Up, MenuState
      <4>2. m.pos - 1 \in Nat /\ m.scroll \in Nat /\ (m.pos - 1) + (m.scroll) < Count(m)
        BY <1>1, <2>1, <3>1, PageFacts, SMT
      <4>3. QED
        BY <4>1, <4>2
    <3>2. CASE ~(m.pos > 0) /\ m.scroll > 0
      <4>1. n = [m EXCEPT !.pos = m.pos, !.scroll = m.scroll - 1]
        BY <1>1, <2>3, <3>2 DEF Up, MenuState
      <4>2. m.pos \in Nat /\ m.scroll - 1 \in Nat /\ (m.pos) + (m.scroll - 1) < Count(m)
        BY <1>1, <2>1, <3>2, PageFacts, SMT
      <4>3. QED
        BY <4>1, <4>2
    <3>3. CASE ~(m.pos > 0) /\ ~(m.scroll > 0)
      BY <1>1, <2>1, <2>2, <2>3, <3>3 DEF Up
    <3>4. QED
      BY <3>1, <3>2, <3>3
  <2>4. CASE n = Down(m)
    <3>1. CASE m.pos + m.scroll + 1 >= Count(m)
      BY <1>1, <2>1, <2>2, <2>4, <3>1 DEF Down
    <3>2. CASE ~(m.pos + m.scroll + 1 >= Count(m)) /\ m.pos >= EntryCount(m) - 1
      <4>1. n = [m EXCEPT !.pos = m.pos, !.scroll = m.scroll + 1]
        BY <1>1, <2>4, <3>2 DEF Down, MenuState
      <4>2. m.pos \in Nat /\ m.scroll + 1 \in Nat /\ (m.pos) + (m.scroll + 1) < Count(m)
        BY <1>1, <2>1, <3>2, PageFacts, SMT
      <4>3. QED
        BY <4>1, <4>2
    <3>3. CASE ~(m.pos + m.scroll + 1 >= Count(m)) /\ ~(m.pos >= EntryCount(m) - 1)
      <4>1. n = [m EXCEPT !.pos = m.pos + 1, !.scroll = m.scroll]
        BY <1>1, <2>4, <3>3 DEF Down, MenuState
      <4>2. m.pos + 1 \in Nat /\ m.scroll \in Nat /\ (m.pos + 1) + (m.scroll) < Count(m)
        BY <1>1, <2>1, <3>3, PageFacts, SMT
      <4>3. QED
        BY <4>1, <4>2
    <3>4. QED
      BY <3>1, <3>2, <3>3
  <2>5. CASE n = PageDown(m)
    <3>1. PICK s \in Nat : /\ s = IF Page(m) + EntryCount(m) < Count(m)
                                  THEN Page(m) + EntryCount(m) ELSE 0
                           /\ 0 + s < Count(m) \/ s = 0
      BY <1>1, PageFacts
    <3>2. n = [m EXCEPT !.pos = 0, !.scroll = s]
      BY <1>1, <2>5, <3>1 DEF PageDown, Home, MenuState
    <3>3. QED
      BY <3>1, <3>2
  <2>6. CASE n = PageUp(m)
    <3>1. PICK s \in Nat : /\ s = IF Page(m) > EntryCount(m) THEN m.scroll - EntryCount(m)
                                  ELSE 0
                           /\ 0 + s < Count(m) \/ s = 0
      <4>1. ASSUME Page(m) > EntryCount(m)
            PROVE  m.scroll - EntryCount(m) \in Nat /\ m.scroll - EntryCount(m) < Count(m)
        BY <1>1, <2>1, <4>1, PageFacts
      <4>2. CASE Page(m) > EntryCount(m)
        BY <1>1, <4>1, <4>2, PageFacts
      <4>3. CASE ~(Page(m) > EntryCount(m))
        BY <4>3
      <4>4. QED
        BY <4>2, <4>3
    <3>2. n = [m EXCEPT !.pos = 0, !.scroll = s]
      BY <1>1, <2>6, <3>1 DEF PageUp, Home, MenuState
    <3>3. QED
      BY <3>1, <3>2
  <2>7. QED
    BY <2>3, <2>4, <2>5, <2>6
<1>3. PICK pos \in Nat, scroll \in Nat :
        /\ n = [m EXCEPT !.pos = pos, !.scroll = scroll]
        /\ pos + scroll < Count(m) \/ (pos = 0 /\ scroll = 0)
  BY <1>2
<1>4. n \in MenuState /\ SameSettings(m, n) /\ n.type = m.type /\ n.cover = m.cover
      /\ n.pos = pos /\ n.scroll = scroll
  BY <1>1, <1>3 DEF MenuState, SameSettings
<1>5. OnEntry(n) /\ OnRow(n) /\ Noted(n)
  BY <1>3, <1>4, MenuTypesDiffer
     DEF OnEntry, OnRow, Noted, SameSettings, Count, MenuInv, Lists
<1>6. QED
  BY <1>4, <1>5 DEF CursorInv

LEMMA MovedKeeps ==
  ASSUME NEW m, MenuInv(m), m.type \in Lists, NEW keys
  PROVE  MenuInv(Moved(m, keys)) /\ SameSettings(m, Moved(m, keys))
<1>1. ASSUME NEW n \in {Up(m), Down(m), PageDown(m), PageUp(m)}
      PROVE  MenuInv(Locked(Reload(n))) /\ SameSettings(m, Locked(Reload(n)))
  <2>1. CursorInv(n) /\ SameSettings(m, n) /\ n.type = m.type /\ n.cover = m.cover
    BY <1>1, MovesKeepCursor
  <2>2. n.cover.is => (n.saved.covers => n.cfg.covers)
    BY <2>1 DEF MenuInv, Covering, SameSettings
  <2>3. MenuInv(Reload(n)) /\ SameSettings(n, Reload(n))
    BY <2>1, <2>2, ReloadGives
  <2>4. MenuInv(Locked(Reload(n))) /\ SameSettings(Reload(n), Locked(Reload(n)))
    BY <2>3, LockedKeeps
  <2>5. QED
    BY <2>1, <2>3, <2>4 DEF SameSettings
<1>2. MenuInv(Locked(m)) /\ SameSettings(m, Locked(m)) /\ SameSettings(m, m)
  BY LockedKeeps DEF SameSettings
<1>3. QED
  BY <1>1, <1>2 DEF Moved

\* What the steps of a press do to what the game is patched by; the menu stays
\* that of its FS.
AppliedStays(m, n) == n.usb = m.usb /\ \A q : Applied(m, q) => Applied(n, q)

LEMMA SameApplied ==
  ASSUME NEW m, NEW n, SameSettings(m, n)
  PROVE  AppliedStays(m, n)
BY DEF SameSettings, AppliedStays, Applied

LEMMA AppliedOn ==
  ASSUME NEW a, NEW b, NEW c, AppliedStays(a, b), AppliedStays(b, c)
  PROVE  AppliedStays(a, c)
BY DEF AppliedStays

LEMMA ChannelListKeeps ==
  ASSUME NEW m, MenuInv(m), m.type \in Lists, NEW keys
  PROVE  MenuInv(ChannelList(m, keys)) /\ AppliedStays(m, ChannelList(m, keys))
<1>1. CASE "A" \in keys
  <2>1. PICK a : a = Locked(Freed(m))
    OBVIOUS
  <2>2. MenuInv(a) /\ SameSettings(m, a)
    BY <2>1, FreedKeeps, LockedKeeps DEF SameSettings
  <2>3. PICK b : b = [a EXCEPT !.show = FALSE]
    OBVIOUS
  <2>4. MenuInv(b) /\ SameSettings(m, b)
    BY <2>2, <2>3, ShowKeeps DEF SameSettings
  <2>5. PICK c : c = [b EXCEPT !.launch = TRUE]
    OBVIOUS
  <2>6. MenuInv(c) /\ SameSettings(m, c)
    BY <2>4, <2>5, ShowKeeps DEF SameSettings
  <2>7. c = ChannelList(m, keys)
    BY <1>1, <2>1, <2>3, <2>5 DEF ChannelList
  <2>8. QED
    BY <2>6, <2>7, SameApplied
<1>2. CASE "A" \notin keys
  BY <1>2, MovedKeeps, SameApplied DEF ChannelList
<1>3. QED
  BY <1>1, <1>2

LEMMA SelectApplied ==
  ASSUME NEW m, MenuInv(m)
  PROVE  AppliedStays(m, MenuSelect(m))
BY DEF MenuInv, MenuState, AppliedStays, Applied, MenuSelect

LEMMA GameListKeeps ==
  ASSUME NEW m, MenuInv(m), m.type \in Lists, NEW keys
  PROVE  MenuInv(GameList(m, keys)) /\ AppliedStays(m, GameList(m, keys))
<1>1. CASE "A" \in keys
  <2>1. PICK a : a = MenuSelect(m)
    OBVIOUS
  <2>2. MenuInv(a) /\ AppliedStays(m, a) /\ a.type = m.type
    BY <2>1, MenuSelectKeeps, SelectApplied
  <2>3. PICK b : b = Freed(a)
    OBVIOUS
  <2>4. MenuInv(b) /\ SameSettings(a, b) /\ b.type = m.type
    BY <2>2, <2>3, FreedKeeps
  <2>5. PICK c : c = [b EXCEPT !.show = FALSE]
    OBVIOUS
  <2>6. MenuInv(c) /\ SameSettings(b, c) /\ c.type = m.type
    <3>1. c.type = b.type
      BY <2>4, <2>5 DEF MenuInv, MenuState
    <3>2. QED
      BY <2>4, <2>5, <3>1, ShowKeeps
  <2>7. PICK d : d = Locked(c)
    OBVIOUS
  <2>8. MenuInv(d) /\ SameSettings(c, d) /\ d.type = m.type
    BY <2>6, <2>7, LockedKeeps
  <2>9. MenuInv(Moved(d, keys)) /\ SameSettings(d, Moved(d, keys))
    BY <2>8, MovedKeeps
  <2>10. SameSettings(a, Moved(d, keys))
    BY <2>4, <2>6, <2>8, <2>9 DEF SameSettings
  <2>11. GameList(m, keys) = Moved(d, keys)
    BY <1>1, <2>1, <2>3, <2>5, <2>7 DEF GameList
  <2>12. QED
    BY <2>2, <2>9, <2>10, <2>11, SameApplied, AppliedOn
<1>2. CASE "A" \notin keys
  BY <1>2, MovedKeeps, SameApplied DEF GameList
<1>3. QED
  BY <1>1, <1>2

-----------------------------------------------------------------------------
(***************************************************************************)
(* The menus of settings.                                                  *)
(***************************************************************************)
InMenu(m, type) == MenuInv(m) /\ m.type = type

\* A setting is changed only in its menu, where there is no cover.
LEMMA NoCoverHere ==
  ASSUME NEW m, NEW type \in {Settings, DML}, InMenu(m, type)
  PROVE  m.type \notin Lists /\ m.type # Picture /\ ~ m.cover.is
BY MenuTypesDiffer DEF InMenu, MenuInv, Covering, Lists

\* Outside the lists only the row and what is noted count.
LEMMA OutsideLists ==
  ASSUME NEW n \in MenuState, NEW type \in {Settings, DML}, n.type = type, ~ n.cover.is,
         OnRow(n), Noted(n)
  PROVE  InMenu(n, type)
BY MenuTypesDiffer DEF InMenu, MenuInv, OnEntry, Covering, Lists

LEMMA SettingChangedKeeps ==
  ASSUME NEW m, InMenu(m, Settings), NEW p \in Patches
  PROVE  InMenu(SettingChanged(m, p), Settings) /\ AppliedStays(m, SettingChanged(m, p))
<1>1. m \in MenuState /\ ~ m.cover.is /\ OnRow(m) /\ Noted(m) /\ m.type = Settings
  BY NoCoverHere DEF InMenu, MenuInv
<1>2. CASE m.pos \in PatchRows
  <2>1. PICK n : n = [m EXCEPT !.cfg.patch = p, !.reinsert = TRUE]
    OBVIOUS
  <2>2. n \in MenuState
    BY <1>1, <2>1 DEF MenuState, MenuConfig
  <2>3. /\ n.type = m.type /\ n.pos = m.pos /\ n.usb = m.usb /\ n.cover = m.cover
        /\ n.reinsert /\ n.saving = m.saving /\ n.fresh = m.fresh /\ n.saved = m.saved
        /\ n.cfg.count = m.cfg.count
    BY <1>1, <2>1 DEF MenuState, MenuConfig
  <2>4. OnRow(n) /\ Noted(n)
    BY <1>1, <2>3, MenuTypesDiffer DEF OnRow, Noted, LastRow
  <2>5. InMenu(n, Settings)
    BY <1>1, <2>2, <2>3, <2>4, OutsideLists
  <2>6. AppliedStays(m, n)
    BY <2>3 DEF AppliedStays, Applied
  <2>7. QED
    BY <1>2, <2>1, <2>5, <2>6 DEF SettingChanged
<1>3. CASE m.pos \notin PatchRows /\ m.pos = CoverRow
  <2>1. PICK n : n = [m EXCEPT !.cfg.covers = ~ @]
    OBVIOUS
  <2>2. PICK b \in BOOLEAN : n = [m EXCEPT !.cfg.covers = b]
    BY <2>1
  <2>3. n \in MenuState
    BY <1>1, <2>2 DEF MenuState, MenuConfig
  <2>4. /\ n.type = m.type /\ n.pos = m.pos /\ n.usb = m.usb /\ n.cover = m.cover
        /\ n.reinsert = m.reinsert /\ n.saving = m.saving /\ n.fresh = m.fresh
        /\ n.saved = m.saved /\ n.cfg.count = m.cfg.count /\ n.cfg.patch = m.cfg.patch
    BY <1>1, <2>2 DEF MenuState, MenuConfig
  <2>5. OnRow(n) /\ Noted(n)
    BY <1>1, <2>4, MenuTypesDiffer DEF OnRow, Noted, LastRow
  <2>6. InMenu(n, Settings)
    BY <1>1, <2>3, <2>4, <2>5, OutsideLists
  <2>7. AppliedStays(m, n)
    BY <2>4 DEF AppliedStays, Applied
  <2>8. QED
    BY <1>3, <2>1, <2>6, <2>7 DEF SettingChanged
<1>4. CASE m.pos \notin PatchRows /\ m.pos # CoverRow
  BY <1>4 DEF SettingChanged, AppliedStays
<1>5. QED
  BY <1>2, <1>3, <1>4

\* A save that need not select the game again changes nothing that patches it.
LEMMA SaveKeeps ==
  ASSUME NEW m, NEW type \in {Settings, DML}, InMenu(m, type)
  PROVE  InMenu(Save(m), type) /\ AppliedStays(m, Save(m))
<1>1. m \in MenuState /\ ~ m.cover.is /\ OnRow(m) /\ Noted(m) /\ m.type = type
  BY NoCoverHere DEF InMenu, MenuInv
<1>2. PICK n : n = Save(m)
  OBVIOUS
<1>3. CASE m.reinsert
  <2>1. n = [m EXCEPT !.fresh = TRUE, !.saving = TRUE]
    BY <1>1, <1>2, <1>3 DEF Save, MenuSelect, MenuState
  <2>2. n \in MenuState
    BY <1>1, <2>1 DEF MenuState
  <2>3. /\ n.type = m.type /\ n.pos = m.pos /\ n.usb = m.usb /\ n.cover = m.cover
        /\ n.force = m.force /\ n.reinsert = m.reinsert /\ n.saved = m.saved
        /\ n.cfg = m.cfg /\ n.fresh
    BY <1>1, <2>1 DEF MenuState
  <2>4. OnRow(n) /\ Noted(n)
    BY <1>1, <2>3 DEF OnRow, Noted, LastRow
  <2>5. InMenu(n, type)
    BY <1>1, <2>2, <2>3, <2>4, OutsideLists
  <2>6. QED
    BY <1>2, <2>3, <2>5 DEF AppliedStays, Applied
<1>4. CASE ~ m.reinsert
  <2>1. n = [m EXCEPT !.saved = m.cfg]
    BY <1>2, <1>4 DEF Save
  <2>2. n \in MenuState
    BY <1>1, <2>1 DEF MenuState
  <2>3. /\ n.type = m.type /\ n.pos = m.pos /\ n.usb = m.usb /\ n.cover = m.cover
        /\ n.force = m.force /\ n.reinsert = m.reinsert /\ n.saved = m.cfg
        /\ n.cfg = m.cfg /\ n.fresh = m.fresh /\ n.saving = m.saving
    BY <1>1, <2>1 DEF MenuState
  <2>4. OnRow(n) /\ Noted(n)
    BY <1>1, <2>3 DEF OnRow, Noted, LastRow
  <2>5. InMenu(n, type)
    BY <1>1, <2>2, <2>3, <2>4, OutsideLists
  <2>6. n.saved.patch = m.saved.patch
    BY <1>1, <1>4, <2>3 DEF Noted
  <2>7. QED
    BY <1>2, <2>3, <2>5, <2>6 DEF AppliedStays, Applied
<1>5. QED
  BY <1>3, <1>4

LEMMA RecreateKeeps ==
  ASSUME NEW m, InMenu(m, Settings)
  PROVE  InMenu(Recreate(m), Settings) /\ AppliedStays(m, Recreate(m))
<1>1. m \in MenuState /\ ~ m.cover.is /\ OnRow(m) /\ Noted(m) /\ m.type = Settings
  BY NoCoverHere DEF InMenu, MenuInv
<1>2. PICK n : n = Recreate(m)
  OBVIOUS
<1>3. PICK c : c = [m.cfg EXCEPT !.count = 0]
  OBVIOUS
<1>4. m.cfg \in MenuConfig /\ c \in MenuConfig /\ c.count = 0 /\ c.patch = m.cfg.patch
  BY <1>1, <1>3 DEF MenuState, MenuConfig
<1>5. n = [m EXCEPT !.cfg = c, !.saved = c, !.launch = TRUE]
  BY <1>1, <1>2, <1>3, <1>4 DEF Recreate, MenuState, MenuConfig
<1>6. n \in MenuState
  BY <1>1, <1>4, <1>5 DEF MenuState
<1>7. /\ n.type = m.type /\ n.pos = m.pos /\ n.usb = m.usb /\ n.cover = m.cover
      /\ n.reinsert = m.reinsert /\ n.saved = c /\ n.cfg = c /\ n.fresh = m.fresh
      /\ n.saving = m.saving
  BY <1>1, <1>5 DEF MenuState
<1>8. OnRow(n) /\ Noted(n)
  BY <1>1, <1>7, MenuTypesDiffer DEF OnRow, Noted, LastRow
<1>9. InMenu(n, Settings)
  BY <1>1, <1>6, <1>7, <1>8, OutsideLists
<1>10. m.reinsert \/ n.saved.patch = m.saved.patch
  BY <1>1, <1>4, <1>7 DEF Noted
<1>11. QED
  BY <1>2, <1>7, <1>9, <1>10 DEF AppliedStays, Applied

LEMMA LockedIn ==
  ASSUME NEW m, NEW type, InMenu(m, type)
  PROVE  InMenu(Locked(m), type) /\ AppliedStays(m, Locked(m)) /\ AppliedStays(m, m)
BY LockedKeeps, SameApplied DEF InMenu, AppliedStays

LEMMA LaunchIn ==
  ASSUME NEW m, NEW type, InMenu(m, type)
  PROVE  InMenu([m EXCEPT !.launch = TRUE], type) /\ AppliedStays(m, [m EXCEPT !.launch = TRUE])
<1>1. [m EXCEPT !.launch = TRUE].type = m.type
  BY DEF InMenu, MenuInv, MenuState
<1>2. QED
  BY <1>1, ShowKeeps, SameApplied DEF InMenu

\* The cursor goes to another row of the menu.
LEMMA RowMoves ==
  ASSUME NEW m, NEW type \in {Settings, DML}, InMenu(m, type), NEW row \in Nat,
         type = Settings => row <= LastRow(m) /\ row # 13,
         type = DML => row <= 13 /\ row \notin {8, 11} /\ (row = 10 => m.force)
  PROVE  /\ InMenu(Locked([m EXCEPT !.pos = row]), type)
         /\ AppliedStays(m, Locked([m EXCEPT !.pos = row]))
<1>1. m \in MenuState /\ ~ m.cover.is /\ Noted(m) /\ m.type = type
  BY NoCoverHere DEF InMenu, MenuInv
<1>2. PICK n : n = [m EXCEPT !.pos = row]
  OBVIOUS
<1>3. n \in MenuState
  BY <1>1, <1>2 DEF MenuState
<1>4. /\ n.type = m.type /\ n.pos = row /\ n.usb = m.usb /\ n.cover = m.cover
      /\ n.force = m.force /\ SameSettings(m, n)
  BY <1>1, <1>2 DEF MenuState, SameSettings
<1>5. OnRow(n) /\ Noted(n)
  BY <1>1, <1>4, MenuTypesDiffer DEF OnRow, Noted, LastRow, SameSettings
<1>6. InMenu(n, type)
  BY <1>1, <1>3, <1>4, <1>5, OutsideLists
<1>7. AppliedStays(m, n)
  BY <1>4, SameApplied
<1>8. InMenu(Locked(n), type) /\ AppliedStays(n, Locked(n))
  BY <1>6, LockedIn
<1>9. QED
  BY <1>2, <1>7, <1>8, AppliedOn

LEMMA SettingMovesKeep ==
  ASSUME NEW m, InMenu(m, Settings), NEW keys
  PROVE  InMenu(SettingMoves(m, keys), Settings) /\ AppliedStays(m, SettingMoves(m, keys))
<1>1. m.pos \in Nat /\ m.pos <= LastRow(m) /\ m.pos # 13 /\ LastRow(m) \in {15, 16}
  BY DEF InMenu, MenuInv, OnRow, MenuState, LastRow
<1>2. PICK up : up = IF m.pos = 0 THEN LastRow(m) ELSE IF m.pos = 14 THEN 12 ELSE m.pos - 1
  OBVIOUS
<1>3. up \in Nat /\ up <= LastRow(m) /\ up # 13
  BY <1>1, <1>2
<1>4. PICK down : down = IF m.pos >= LastRow(m) THEN 0
                         ELSE IF m.pos = 12 THEN 14 ELSE m.pos + 1
  OBVIOUS
<1>5. down \in Nat /\ down <= LastRow(m) /\ down # 13
  BY <1>1, <1>4
<1>6. /\ [m EXCEPT !.pos = IF @ = 0 THEN LastRow(m) ELSE IF @ = 14 THEN 12 ELSE @ - 1]
           = [m EXCEPT !.pos = up]
      /\ [m EXCEPT !.pos = IF @ >= LastRow(m) THEN 0 ELSE IF @ = 12 THEN 14 ELSE @ + 1]
           = [m EXCEPT !.pos = down]
  BY <1>2, <1>4
<1>7. Settings # DML
  BY MenuTypesDiffer
<1>8. ASSUME NEW row \in {up, down}
      PROVE  /\ InMenu(Locked([m EXCEPT !.pos = row]), Settings)
             /\ AppliedStays(m, Locked([m EXCEPT !.pos = row]))
  BY <1>3, <1>5, <1>7, RowMoves
<1>9. QED
  BY <1>6, <1>8, LockedIn DEF SettingMoves

LEMMA SettingsMenuKeeps ==
  ASSUME NEW m, InMenu(m, Settings), NEW keys, NEW p \in Patches
  PROVE  InMenu(SettingsMenu(m, keys, p), Settings)
         /\ AppliedStays(m, SettingsMenu(m, keys, p))
<1>1. InMenu(SettingRow(m, p), Settings) /\ AppliedStays(m, SettingRow(m, p))
  BY SaveKeeps, RecreateKeeps, LaunchIn, SettingChangedKeeps DEF SettingRow
<1>2. PICK a : a = IF "A" \in keys THEN Locked(SettingRow(m, p)) ELSE m
  OBVIOUS
<1>3. InMenu(a, Settings) /\ AppliedStays(m, a)
  BY <1>1, <1>2, LockedIn, AppliedOn
<1>4. PICK b : b = SettingMoves(a, keys)
  OBVIOUS
<1>5. InMenu(b, Settings) /\ AppliedStays(m, b)
  BY <1>3, <1>4, SettingMovesKeep, AppliedOn
<1>6. InMenu(SettingTurned(b, p), Settings) /\ AppliedStays(b, SettingTurned(b, p))
  BY <1>5, SettingChangedKeeps, LockedIn DEF SettingTurned
<1>7. InMenu(Locked(SettingTurned(b, p)), Settings)
      /\ AppliedStays(b, Locked(SettingTurned(b, p)))
  BY <1>6, LockedIn, AppliedOn
<1>8. SettingsMenu(m, keys, p)
        = IF keys \cap {"RIGHT", "LEFT"} # {} THEN Locked(SettingTurned(b, p)) ELSE b
  BY <1>2, <1>4 DEF SettingsMenu
<1>9. QED
  BY <1>5, <1>7, <1>8, AppliedOn

LEMMA DMLMenuKeeps ==
  ASSUME NEW m, InMenu(m, DML), NEW keys, NEW v \in BOOLEAN
  PROVE  InMenu(DMLMenu(m, keys, v), DML) /\ AppliedStays(m, DMLMenu(m, keys, v))
<1>1. InMenu(DMLRow(m, v), DML) /\ AppliedStays(m, DMLRow(m, v))
  <2>1. CASE m.pos = 9
    <3>1. m \in MenuState /\ ~ m.cover.is /\ OnRow(m) /\ Noted(m) /\ m.type = DML
      BY NoCoverHere DEF InMenu, MenuInv
    <3>2. PICK n : n = [m EXCEPT !.force = v]
      OBVIOUS
    <3>3. n \in MenuState
      BY <3>1, <3>2 DEF MenuState
    <3>4. /\ n.type = m.type /\ n.pos = m.pos /\ n.cover = m.cover /\ SameSettings(m, n)
      BY <3>1, <3>2 DEF MenuState, SameSettings
    <3>5. OnRow(n) /\ Noted(n)
      BY <2>1, <3>1, <3>4, MenuTypesDiffer DEF OnRow, Noted, SameSettings
    <3>6. InMenu(n, DML)
      BY <3>1, <3>3, <3>4, <3>5, OutsideLists
    <3>7. QED
      BY <2>1, <3>2, <3>4, <3>6, SameApplied DEF DMLRow
  <2>2. CASE m.pos # 9
    BY <2>2, SaveKeeps, LaunchIn, LockedIn DEF DMLRow
  <2>3. QED
    BY <2>1, <2>2
<1>2. PICK a : a = IF "A" \in keys THEN Locked(DMLRow(m, v)) ELSE m
  OBVIOUS
<1>3. InMenu(a, DML) /\ AppliedStays(m, a)
  BY <1>1, <1>2, LockedIn, AppliedOn
<1>4. a.pos \in Nat /\ a.pos <= 13 /\ a.pos \notin {8, 11} /\ (a.pos = 10 => a.force)
  BY <1>3, MenuTypesDiffer DEF InMenu, MenuInv, OnRow, MenuState
<1>5. PICK up : up = IF a.pos = 0 THEN 13 ELSE IF a.pos = 9 THEN 7
                     ELSE IF a.pos = 12 THEN IF a.force THEN 10 ELSE 9 ELSE a.pos - 1
  OBVIOUS
<1>6. up \in Nat /\ up <= 13 /\ up \notin {8, 11} /\ (up = 10 => a.force)
  BY <1>4, <1>5
<1>7. PICK down : down = IF a.pos >= 13 THEN 0 ELSE IF a.pos = 7 THEN 9
                         ELSE IF a.pos = 10 \/ (a.pos = 9 /\ ~ a.force) THEN 12
                         ELSE a.pos + 1
  OBVIOUS
<1>8. down \in Nat /\ down <= 13 /\ down \notin {8, 11} /\ (down = 10 => a.force)
  BY <1>4, <1>7
<1>9. ASSUME NEW row \in {up, down}
      PROVE  /\ InMenu(Locked([a EXCEPT !.pos = row]), DML)
             /\ AppliedStays(a, Locked([a EXCEPT !.pos = row]))
  <2>1. Settings # DML
    BY MenuTypesDiffer
  <2>2. QED
    BY <1>3, <1>6, <1>8, <2>1, RowMoves
<1>10. InMenu(DMLMoves(a, keys), DML) /\ AppliedStays(a, DMLMoves(a, keys))
  BY <1>3, <1>5, <1>7, <1>9, LockedIn DEF DMLMoves
<1>11. QED
  BY <1>2, <1>3, <1>10, AppliedOn DEF DMLMenu

-----------------------------------------------------------------------------
(***************************************************************************)
(* The buttons that change the menu, and a whole press.                    *)
(***************************************************************************)
Keeps(m, n) == MenuInv(n) /\ AppliedStays(m, n)

LEMMA KeepsOn ==
  ASSUME NEW a, NEW b, NEW c, Keeps(a, b), Keeps(b, c)
  PROVE  Keeps(a, c)
BY AppliedOn DEF Keeps

LEMMA KeepsSame ==
  ASSUME NEW m, NEW n, MenuInv(n), SameSettings(m, n)
  PROVE  Keeps(m, n)
BY SameApplied DEF Keeps

LEMMA KeepsItself ==
  ASSUME NEW m, MenuInv(m)
  PROVE  Keeps(m, m)
BY DEF Keeps, AppliedStays

LEMMA ReloadKeeps ==
  ASSUME NEW m, MenuInv(m), m.type \in Lists
  PROVE  Keeps(m, Reload(m))
<1>1. CursorInv(m) /\ (m.cover.is => (m.saved.covers => m.cfg.covers))
  BY DEF MenuInv, CursorInv, Covering
<1>2. QED
  BY <1>1, ReloadGives, KeepsSame

LEMMA EnterIs ==
  ASSUME NEW m, MenuInv(m), NEW type \in MenuTypes
  PROVE  Keeps(m, Enter(m, type)) /\ Enter(m, type).type = type
BY EnterKeeps, KeepsSame

\* The settings are read again: a cover that stays was loaded with covers on.
LEMMA AfterStartKeeps ==
  ASSUME NEW m, MenuInv(m)
  PROVE  Keeps(m, AfterStart(m))
<1>1. CASE m.show
  <2>1. PICK n : n = [m EXCEPT !.show = FALSE]
    OBVIOUS
  <2>2. MenuInv(n) /\ SameSettings(m, n)
    BY <2>1, ShowKeeps
  <2>3. MenuInv(Locked(n)) /\ SameSettings(n, Locked(n))
    BY <2>2, LockedKeeps
  <2>4. QED
    BY <1>1, <2>1, <2>2, <2>3, KeepsSame, KeepsOn DEF AfterStart
<1>2. CASE ~ m.show
  <2>1. PICK n : n = Locked([m EXCEPT !.show = TRUE, !.cfg = m.saved])
    OBVIOUS
  <2>2. n = [m EXCEPT !.show = TRUE, !.cfg = m.saved, !.lock = TRUE]
    BY <2>1 DEF Locked, MenuInv, MenuState
  <2>3. n \in MenuState
    BY <2>2 DEF MenuInv, MenuState
  <2>4. /\ n.type = m.type /\ n.pos = m.pos /\ n.scroll = m.scroll /\ n.usb = m.usb
        /\ n.cover = m.cover /\ n.force = m.force /\ n.saved = m.saved /\ n.cfg = m.saved
        /\ n.reinsert = m.reinsert /\ n.saving = m.saving /\ n.fresh = m.fresh
    BY <2>2 DEF MenuInv, MenuState
  <2>5. OnEntry(n) /\ OnRow(n) /\ Noted(n)
    BY <2>4 DEF MenuInv, OnEntry, OnRow, Noted, Count, LastRow
  <2>6. AppliedStays(m, n)
    BY <2>4 DEF AppliedStays, Applied
  <2>7. CASE m.type = GamesMenu
    <3>1. CursorInv(n) /\ (n.cover.is => (n.saved.covers => n.cfg.covers))
      BY <2>3, <2>4, <2>5, <2>7 DEF CursorInv, Lists
    <3>2. MenuInv(Reload(n)) /\ SameSettings(n, Reload(n))
      BY <3>1, ReloadGives
    <3>3. QED
      BY <1>2, <2>1, <2>6, <2>7, <3>2, SameApplied, AppliedOn DEF AfterStart, Keeps
  <2>8. CASE m.type # GamesMenu
    <3>1. Covering(n)
      BY <2>4 DEF MenuInv, Covering
    <3>2. QED
      BY <1>2, <2>1, <2>3, <2>5, <2>6, <2>8, <3>1 DEF AfterStart, Keeps, MenuInv
  <2>9. QED
    BY <2>7, <2>8
<1>3. QED
  BY <1>1, <1>2

LEMMA TypesAre ==
  /\ GamesMenu \in MenuTypes /\ Settings \in MenuTypes /\ Dumping \in MenuTypes
  /\ Picture \in MenuTypes /\ Channels \in MenuTypes /\ DML \in MenuTypes
  /\ GamesMenu \in Lists /\ Channels \in Lists
BY DEF MenuTypes, Lists

LEMMA AfterKeeps ==
  ASSUME NEW m, MenuInv(m)
  PROVE  Keeps(m, AfterB(m)) /\ Keeps(m, AfterX(m)) /\ Keeps(m, AfterZ(m))
         /\ Keeps(m, AfterHome(m)) /\ Keeps(m, Enter(m, Dumping))
<1>1. Keeps(m, AfterB(m))
  <2>1. PICK n : n = [m EXCEPT !.show = m.type # GamesMenu]
    OBVIOUS
  <2>2. PICK b \in BOOLEAN : n = [m EXCEPT !.show = b]
    BY <2>1
  <2>3. MenuInv(n) /\ SameSettings(m, n)
    BY <2>2, ShowKeeps
  <2>4. PICK back : back = Enter(n, GamesMenu)
    OBVIOUS
  <2>5. Keeps(n, back) /\ back.type = GamesMenu
    BY <2>3, <2>4, EnterIs, TypesAre
  <2>6. Keeps(back, Reload(back)) /\ Keeps(back, back)
    BY <2>5, ReloadKeeps, KeepsItself, TypesAre DEF Keeps
  <2>7. AfterB(m) = IF back.show THEN Reload(back) ELSE back
    BY <2>1, <2>4 DEF AfterB
  <2>8. QED
    BY <2>3, <2>5, <2>6, <2>7, KeepsSame, KeepsOn
<1>2. Keeps(m, AfterHome(m))
  <2>1. Keeps(m, Enter(m, Channels)) /\ Enter(m, Channels).type \in Lists
    BY EnterIs, TypesAre
  <2>2. QED
    BY <2>1, ReloadKeeps, KeepsOn DEF AfterHome, Keeps
<1>3. QED
  BY <1>1, <1>2, EnterIs, TypesAre DEF AfterX, AfterZ

LEMMA WhenKeeps ==
  ASSUME NEW a, NEW m, Keeps(a, m), NEW n, Keeps(m, n), NEW b
  PROVE  Keeps(a, When(b, n, m))
BY KeepsOn DEF When

LEMMA MenuedKeeps ==
  ASSUME NEW m, MenuInv(m), NEW keys
  PROVE  Keeps(m, Menued(m, keys))
<1> DEFINE m1 == When("START" \in keys, AfterStart(m), m)
           m2 == When("B" \in keys /\ ~ m1.lock, AfterB(m1), m1)
           m3 == When("X" \in keys /\ ~ m2.lock, AfterX(m2), m2)
           m4 == When("Y" \in keys /\ ~ m3.lock /\ m3.type # Dumping, Enter(m3, Dumping), m3)
           m5 == When("Z" \in keys /\ ~ m4.lock /\ m4.type # Picture, AfterZ(m4), m4)
           m6 == When("HOME" \in keys /\ m5.type # Channels, AfterHome(m5), m5)
<1>1. Menued(m, keys) = IF ~ m1.show THEN m1 ELSE m6
  BY Zenon DEF Menued
<1> HIDE DEF m1, m2, m3, m4, m5, m6
<1>2. Keeps(m, m)
  BY KeepsItself
<1>3. Keeps(m, m1) /\ MenuInv(m1)
  BY <1>2, AfterStartKeeps, WhenKeeps DEF Keeps, m1
<1>4. Keeps(m, m2) /\ MenuInv(m2)
  BY <1>3, AfterKeeps, WhenKeeps DEF Keeps, m2
<1>5. Keeps(m, m3) /\ MenuInv(m3)
  BY <1>4, AfterKeeps, WhenKeeps DEF Keeps, m3
<1>6. Keeps(m, m4) /\ MenuInv(m4)
  BY <1>5, AfterKeeps, WhenKeeps DEF Keeps, m4
<1>7. Keeps(m, m5) /\ MenuInv(m5)
  BY <1>6, AfterKeeps, WhenKeeps DEF Keeps, m5
<1>8. Keeps(m, m6)
  BY <1>7, AfterKeeps, WhenKeeps DEF m6
<1>9. QED
  BY <1>1, <1>3, <1>8

LEMMA ClosedKeeps ==
  ASSUME NEW m, MenuInv(m), m.type = Picture
  PROVE  Keeps(m, Closed(m))
<1>1. PICK n : n = Closed(m)
  OBVIOUS
<1>2. n = [m EXCEPT !.type = GamesMenu, !.show = FALSE]
  BY <1>1 DEF Closed
<1>3. n \in MenuState
  BY <1>2, TypesAre DEF MenuInv, MenuState
<1>4. n.type = GamesMenu /\ n.pos = m.pos /\ n.scroll = m.scroll /\ n.cover = m.cover
      /\ SameSettings(m, n)
  BY <1>2 DEF MenuInv, MenuState, SameSettings
<1>5. m.pos = 0 /\ m.scroll = 0 /\ ~ m.cover.is
  BY MenuTypesDiffer DEF MenuInv, OnEntry, Covering, Lists
<1>6. OnEntry(n) /\ OnRow(n) /\ Covering(n)
  BY <1>4, <1>5, MenuTypesDiffer DEF OnEntry, OnRow, Covering
<1>7. Noted(n)
  BY <1>4 DEF MenuInv, Noted, SameSettings
<1>8. QED
  BY <1>1, <1>3, <1>4, <1>6, <1>7, KeepsSame DEF MenuInv

LEMMA PolledKeeps ==
  ASSUME NEW m0, MenuInv(m0), NEW keys, NEW p \in Patches, NEW v \in BOOLEAN
  PROVE  Keeps(m0, Polled(m0, keys, p, v))
<1>1. PICK m : m = Menued(m0, keys)
  OBVIOUS
<1>2. Keeps(m0, m) /\ MenuInv(m) /\ m.type \in MenuTypes
  BY <1>1, MenuedKeeps DEF Keeps, MenuInv, MenuState
<1>3. Keeps(m, PickEntry(m, keys, p, v))
  <2>1. CASE m.type = Channels
    <3>1. PickEntry(m, keys, p, v) = ChannelList(m, keys)
      BY <2>1, MenuTypesDiffer DEF PickEntry
    <3>2. QED
      BY <1>2, <2>1, <3>1, ChannelListKeeps, TypesAre DEF Keeps
  <2>2. CASE m.type = GamesMenu
    <3>1. PickEntry(m, keys, p, v) = GameList(m, keys)
      BY <2>2, MenuTypesDiffer DEF PickEntry
    <3>2. QED
      BY <1>2, <2>2, <3>1, GameListKeeps, TypesAre DEF Keeps
  <2>3. CASE m.type = Settings
    <3>1. PickEntry(m, keys, p, v) = SettingsMenu(m, keys, p)
      BY <2>3, MenuTypesDiffer DEF PickEntry
    <3>2. QED
      BY <1>2, <2>3, <3>1, SettingsMenuKeeps DEF Keeps, InMenu
  <2>4. CASE m.type = Dumping
    <3>1. PickEntry(m, keys, p, v) = When("A" \in keys, Locked(m), m)
      BY <2>4, MenuTypesDiffer DEF PickEntry
    <3>2. Keeps(m, Locked(m)) /\ Keeps(m, m)
      BY <1>2, LockedKeeps, KeepsSame, KeepsItself
    <3>3. QED
      BY <3>1, <3>2 DEF When
  <2>5. CASE m.type = Picture
    <3>1. PickEntry(m, keys, p, v) = Closed(m)
      BY <2>5, MenuTypesDiffer DEF PickEntry
    <3>2. QED
      BY <1>2, <2>5, <3>1, ClosedKeeps
  <2>6. CASE m.type = DML
    <3>1. PickEntry(m, keys, p, v) = DMLMenu(m, keys, v)
      BY <2>6, MenuTypesDiffer DEF PickEntry
    <3>2. QED
      BY <1>2, <2>6, <3>1, DMLMenuKeeps DEF Keeps, InMenu
  <2>7. QED
    BY <1>2, <2>1, <2>2, <2>3, <2>4, <2>5, <2>6 DEF MenuTypes
<1>4. Polled(m0, keys, p, v) = IF ~ m.show /\ "START" \in keys THEN m ELSE PickEntry(m, keys, p, v)
  BY <1>1 DEF Polled
<1>5. QED
  BY <1>2, <1>3, <1>4, KeepsOn

-----------------------------------------------------------------------------
MenuShape ==
  [ShowMenu : BOOLEAN, MenuType : MenuTypes, SLock : BOOLEAN, usb : BOOLEAN]

SMInv ==
  /\ menu \in MenuShape /\ cursor \in [PosX : Nat, ScrollX : Nat]
  /\ MenuInv(State(menu.usb)) /\ Applied(State(menu.usb), patched)

LEMMA MenuInitInv == SMInit => SMInv
<1> SUFFICES ASSUME SMInit PROVE SMInv
  OBVIOUS
<1>2. menu \in MenuShape /\ menu.MenuType = GamesMenu /\ cursor \in [PosX : Nat, ScrollX : Nat]
  <2>1. {FALSE} \subseteq BOOLEAN /\ {GamesMenu} \subseteq MenuTypes
    BY TypesAre
  <2>2. menu \in [ShowMenu : {FALSE}, MenuType : {GamesMenu}, SLock : {FALSE}, usb : BOOLEAN]
    BY DEF SMInit
  <2>3. menu \in MenuShape /\ menu.MenuType = GamesMenu
    BY <2>1, <2>2 DEF MenuShape
  <2>4. cursor \in [PosX : Nat, ScrollX : Nat]
    BY DEF SMInit, Top
  <2>5. QED
    BY <2>3, <2>4
<1>3. PICK m : m = State(menu.usb)
  OBVIOUS
<1>4. /\ m.type = GamesMenu /\ m.pos = 0 /\ m.scroll = 0 /\ m.cover = NoCover
      /\ m.cfg = saved /\ m.saved = saved /\ saved.patch = patched
  BY <1>2, <1>3 DEF SMInit, State, Top
<1>5. saved \in MenuConfig /\ NoCover \in Cover /\ ~ NoCover.is
  BY SMenuAssumption, TypesAre DEF SMInit, MenuConfig, NoCover, Cover
<1>6. m \in MenuState
  BY <1>2, <1>3, <1>5, TypesAre DEF SMInit, State, MenuState, Top, MenuShape
<1>7. OnEntry(m) /\ OnRow(m) /\ Covering(m) /\ Noted(m)
  BY <1>4, <1>5, MenuTypesDiffer DEF OnEntry, OnRow, Covering, Noted
<1>8. Applied(m, patched)
  BY <1>3, <1>4 DEF Applied, SMInit, State
<1>9. QED
  BY <1>2, <1>3, <1>6, <1>7, <1>8 DEF SMInv, MenuInv

\* What a press leaves is the state it worked out, but for the launch.
LEMMA BecomesInv ==
  ASSUME SMInv, NEW m, MenuInv(m), Applied(m, patched), m.usb = menu.usb, Becomes(m)
  PROVE  SMInv'
<1>1. m \in MenuState
  BY DEF MenuInv
<1>2. menu' \in MenuShape /\ cursor' \in [PosX : Nat, ScrollX : Nat]
  BY <1>1 DEF Becomes, SMInv, MenuShape, MenuState
<1>3. PICK n : n = State(menu.usb)'
  OBVIOUS
<1>4. n = [m EXCEPT !.launch = FALSE]
  <2>1. menu'.ShowMenu = m.show /\ menu'.MenuType = m.type /\ menu'.SLock = m.lock
        /\ menu'.usb = m.usb
    BY DEF Becomes, SMInv, MenuShape
  <2>2. n = [show |-> m.show, type |-> m.type, lock |-> m.lock, usb |-> m.usb, pos |-> m.pos,
             scroll |-> m.scroll, cover |-> m.cover, cfg |-> m.cfg, saved |-> m.saved,
             force |-> m.force, reinsert |-> m.reinsert, saving |-> m.saving,
             fresh |-> m.fresh, launch |-> FALSE]
    BY <1>3, <2>1 DEF Becomes, State
  <2>3. PICK a : a = [m EXCEPT !.launch = FALSE]
    OBVIOUS
  <2>4. a \in MenuState
    BY <1>1, <2>3 DEF MenuState
  <2>5. /\ a.show = m.show /\ a.type = m.type /\ a.lock = m.lock /\ a.usb = m.usb
        /\ a.pos = m.pos /\ a.scroll = m.scroll /\ a.cover = m.cover /\ a.cfg = m.cfg
        /\ a.saved = m.saved /\ a.force = m.force /\ a.reinsert = m.reinsert
        /\ a.saving = m.saving /\ a.fresh = m.fresh /\ a.launch = FALSE
    BY <1>1, <2>3 DEF MenuState
  <2>6. a = [show |-> a.show, type |-> a.type, lock |-> a.lock, usb |-> a.usb, pos |-> a.pos,
             scroll |-> a.scroll, cover |-> a.cover, cfg |-> a.cfg, saved |-> a.saved,
             force |-> a.force, reinsert |-> a.reinsert, saving |-> a.saving,
             fresh |-> a.fresh, launch |-> a.launch]
    BY <2>4 DEF MenuState
  <2>7. QED
    BY <2>2, <2>3, <2>5, <2>6, Zenon
<1>5. MenuInv(n) /\ SameSettings(m, n)
  BY <1>4, ShowKeeps
<1>6. patched' = patched
  BY DEF Becomes
<1>7. Applied(n, patched')
  BY <1>5, <1>6, SameApplied DEF AppliedStays
<1>8. QED
  BY <1>2, <1>3, <1>5, <1>7 DEF SMInv

\* A start makes DI list its games: the settings are those on the disk.
LEMMA RestartInv ==
  ASSUME SMInv, NEW m, MenuInv(m), Restart(m)
  PROVE  SMInv'
<1>1. m.saved \in MenuConfig /\ m.force \in BOOLEAN
  BY DEF MenuInv, MenuState
<1>2. menu' \in MenuShape /\ menu'.MenuType = GamesMenu
      /\ cursor' \in [PosX : Nat, ScrollX : Nat] /\ cursor'.PosX = 0 /\ cursor'.ScrollX = 0
  BY TypesAre DEF Restart, SMInv, MenuShape, Top
<1>3. saved' \in MenuConfig /\ saved'.patch = m.saved.patch /\ MenuCfg' = saved'
  BY <1>1, SMenuAssumption DEF Restart, MenuConfig
<1>4. NoCover \in Cover /\ ~ NoCover.is
  BY TypesAre DEF NoCover, Cover
<1>5. PICK n : n = State(menu.usb)'
  OBVIOUS
<1>6. n = [show |-> menu'.ShowMenu, type |-> menu'.MenuType, lock |-> menu'.SLock,
           usb |-> menu'.usb, pos |-> 0, scroll |-> 0, cover |-> NoCover, cfg |-> saved',
           saved |-> saved', force |-> m.force, reinsert |-> FALSE, saving |-> FALSE,
           fresh |-> FALSE, launch |-> FALSE]
  BY <1>2, <1>3, <1>5 DEF State, Restart, Top
<1>7. n \in MenuState
  BY <1>1, <1>2, <1>3, <1>4, <1>6 DEF MenuState, MenuShape
<1>8. /\ n.type = GamesMenu /\ n.pos = 0 /\ n.scroll = 0 /\ n.cover = NoCover
      /\ n.cfg = n.saved /\ n.saved.patch = m.saved.patch /\ ~ n.saving
  BY <1>2, <1>3, <1>6
<1>9. OnEntry(n) /\ OnRow(n) /\ Covering(n) /\ Noted(n)
  BY <1>4, <1>8, MenuTypesDiffer DEF OnEntry, OnRow, Covering, Noted
<1>10. patched' = m.saved.patch
  BY DEF Restart
<1>11. Applied(n, patched')
  BY <1>8, <1>10 DEF Applied
<1>12. QED
  BY <1>2, <1>5, <1>7, <1>9, <1>11 DEF SMInv, MenuInv

LEMMA PressKeeps ==
  ASSUME SMInv, NEW keys, SMenuReadPad(keys)
  PROVE  SMInv'
<1>1. PICK m0 : m0 = State(menu.usb)
  OBVIOUS
<1>2. PICK p \in Patches, v \in BOOLEAN :
        LET m == Polled(m0, keys, p, v)
        IN  Becomes(m) \/ (m.launch /\ Restart(m))
  BY <1>1 DEF SMenuReadPad
<1>3. PICK m : m = Polled(m0, keys, p, v)
  OBVIOUS
<1>4. MenuInv(m) /\ AppliedStays(m0, m)
  BY <1>1, <1>3, PolledKeeps DEF SMInv, Keeps
<1>5. Applied(m, patched)
  BY <1>1, <1>4 DEF SMInv, AppliedStays
<1>6. CASE Becomes(m)
  <2>1. m.usb = menu.usb
    BY <1>1, <1>4 DEF AppliedStays, State
  <2>2. QED
    BY <1>4, <1>5, <1>6, <2>1, BecomesInv
<1>7. CASE Restart(m)
  BY <1>4, <1>7, RestartInv
<1>8. QED
  BY <1>2, <1>3, <1>6, <1>7

LEMMA MenuStepInv ==
  ASSUME SMInv, [SMNext]_smvars
  PROVE  SMInv'
<1>1. PICK m : m = State(menu.usb)
  OBVIOUS
<1>2. MenuInv(m) /\ m \in MenuState /\ Applied(m, patched)
  BY <1>1 DEF SMInv, MenuInv
<1>3. PICK n : n = State(menu.usb)'
  OBVIOUS
<1>4. CASE Release
  <2>1. /\ n.type = m.type /\ n.pos = m.pos /\ n.scroll = m.scroll /\ n.cover = m.cover
        /\ n.force = m.force /\ SameSettings(m, n)
    BY <1>1, <1>3, <1>4 DEF Release, State, SMInv, MenuShape, SameSettings
  <2>2. menu' \in MenuShape /\ menu'.usb = menu.usb
    BY <1>4 DEF Release, SMInv, MenuShape
  <2>3. n \in MenuState
    BY <1>1, <1>2, <1>3, <1>4, <2>2 DEF Release, State, MenuState, MenuShape
  <2>4. OnEntry(n) /\ OnRow(n) /\ Covering(n) /\ Noted(n)
    BY <1>2, <2>1 DEF MenuInv, OnEntry, OnRow, Covering, Noted, SameSettings, Count, LastRow
  <2>5. Applied(n, patched')
    BY <1>2, <1>4, <2>1, SameApplied DEF AppliedStays, Release
  <2>6. QED
    BY <1>3, <1>4, <2>2, <2>3, <2>4, <2>5 DEF SMInv, MenuInv, Release
<1>5. CASE SaveWrites
  <2>1. /\ n.type = m.type /\ n.pos = m.pos /\ n.scroll = m.scroll /\ n.cover = m.cover
        /\ n.force = m.force /\ n.usb = m.usb /\ n.cfg = m.cfg /\ n.saved = m.cfg
        /\ ~ n.reinsert /\ ~ n.saving /\ n.fresh = m.fresh /\ m.saving
    BY <1>1, <1>3, <1>5 DEF SaveWrites, State
  <2>2. n \in MenuState
    BY <1>1, <1>2, <1>3, <1>5 DEF SaveWrites, State, MenuState
  <2>3. OnEntry(n) /\ OnRow(n) /\ Covering(n) /\ Noted(n)
    BY <1>2, <2>1 DEF MenuInv, OnEntry, OnRow, Covering, Noted, Count, LastRow
  <2>4. Applied(n, patched')
    BY <1>2, <1>5, <2>1 DEF Applied, SaveWrites
  <2>5. QED
    BY <1>3, <1>5, <2>2, <2>3, <2>4 DEF SMInv, MenuInv, SaveWrites
<1>6. CASE GameIsRead
  <2>1. /\ n.type = m.type /\ n.pos = m.pos /\ n.scroll = m.scroll /\ n.cover = m.cover
        /\ n.force = m.force /\ n.usb = m.usb /\ n.cfg = m.cfg /\ n.saved = m.saved
        /\ n.reinsert = m.reinsert /\ n.saving = m.saving /\ ~ n.fresh
        /\ patched' = IF m.saving THEN Overtaken ELSE m.saved.patch
    BY <1>1, <1>3, <1>6 DEF GameIsRead, State
  <2>2. n \in MenuState
    BY <1>1, <1>2, <1>3, <1>6 DEF GameIsRead, State, MenuState
  <2>3. OnEntry(n) /\ OnRow(n) /\ Covering(n) /\ Noted(n)
    BY <1>2, <2>1 DEF MenuInv, OnEntry, OnRow, Covering, Noted, Count, LastRow
  <2>4. Applied(n, patched')
    BY <2>1 DEF Applied
  <2>5. QED
    BY <1>3, <1>6, <2>2, <2>3, <2>4 DEF SMInv, MenuInv, GameIsRead
<1>7. CASE UNCHANGED smvars
  BY <1>7 DEF smvars, SMInv, State
<1>8. QED
  BY <1>4, <1>5, <1>6, <1>7, PressKeeps DEF SMNext

LEMMA MenuInvRight ==
  ASSUME SMInv
  PROVE  MenuRight
<1>1. PICK m : m = State(menu.usb)
  OBVIOUS
<1>2. /\ m.show = menu.ShowMenu /\ m.type = menu.MenuType /\ m.usb = menu.usb
      /\ m.pos = cursor.PosX /\ m.scroll = cursor.ScrollX /\ m.cover = cover
      /\ m.cfg = MenuCfg /\ m.saved = saved /\ m.force = force /\ m.reinsert = reinsert
      /\ m.saving = saving /\ m.fresh = fresh
  BY <1>1 DEF State
<1>3. m \in MenuState /\ OnEntry(m) /\ OnRow(m) /\ Covering(m) /\ Noted(m)
      /\ Applied(m, patched)
  BY <1>1 DEF SMInv, MenuInv
<1>4. m.pos \in Nat /\ m.scroll \in Nat
  BY <1>3 DEF MenuState
<1>5. CursorInList
  BY <1>2, <1>3, <1>4, MenuTypesDiffer DEF CursorInList, OnEntry, Entry, Count, Lists
<1>6. CursorOnRow
  BY <1>2, <1>3, <1>4 DEF CursorOnRow, OnRow, LastRow
<1>7. CoverIsCurrent
  BY <1>2, <1>3 DEF CoverIsCurrent, Covering, Entry
<1>8. ChangeIsNoted
  BY <1>2, <1>3 DEF ChangeIsNoted, Noted
<1>9. SavedIsApplied
  BY <1>2, <1>3 DEF SavedIsApplied, Applied
<1>10. QED
  BY <1>5, <1>6, <1>7, <1>8, <1>9 DEF MenuRight

\* Whatever is installed and whatever buttons are down at once (SMenu.c), the
\* cursor of an open menu is on an entry or a row, the cover shown is that of the
\* entry, a changed setting is noted, and a game that was read after a save runs
\* with what was saved.
THEOREM MenuSafe == SMSpec => []MenuRight
<1>1. SMInv /\ [SMNext]_smvars => SMInv'
  BY MenuStepInv
<1>2. SMInv => MenuRight
  BY MenuInvRight
<1>3. QED
  BY MenuInitInv, <1>1, <1>2, PTL DEF SMSpec
==============================================================================
