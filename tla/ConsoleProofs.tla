---------------------------- MODULE ConsoleProofs ----------------------------
(***************************************************************************)
(* What TLAPS proves of the parts of ES beside the imports, for any titles,*)
(* discs and channels and any number of starts, failures and power cuts.   *)
(*                                                                         *)
(* Each part has an invariant that says of every place its program can be  *)
(* in what the property needs there; it holds at first, each action keeps  *)
(* it, and the property follows from it.                                   *)
(***************************************************************************)
EXTENDS ESLaunch, Dump, ESContent, ESConfig, ESServer, ESChannels, Counting,
        FiniteSetTheorems, SequenceTheorems, TLAPS

-----------------------------------------------------------------------------
(***************************************************************************)
(* The loop (ESServer).                                                    *)
(***************************************************************************)

\* One step of ES keeps the timer of the menu running.
LEMMA MenuStep ==
  ASSUME MenuRuns, [ServerNext]_servervars
  PROVE  MenuRuns'
<1> USE DEF MenuRuns, Tick, Search, NoMessage, Asks, LoopKept, SlotRegs
<1>1. CASE ServerStart
  BY <1>1 DEF ServerStart, Started
<1>2. CASE DriverAsks
  BY <1>2 DEF DriverAsks, Puts
<1>3. CASE OthersAsk
  BY <1>3 DEF OthersAsk, Puts
<1>4. CASE MenuLoads \/ TimerFires
  BY <1>4 DEF MenuLoads, TimerFires
<1>5. CASE Leaves
  BY <1>5 DEF Leaves
<1>6. CASE Loop
  <2>1. CASE Receive
    BY <1>6, <2>1 DEF Receive
  <2>2. CASE FirstTimer
    BY <1>6, <2>2 DEF FirstTimer
  <2>3. CASE SMenuFindOffsets \/ Drawn
    BY <1>6, <2>3 DEF SMenuFindOffsets, Drawn, Restarted
  <2>4. CASE Serve
    <3>1. serving # Tick /\ serving # Search
      BY <2>4 DEF Serve
    <3>2. UNCHANGED <<title, timer, StartTimer>>
      BY <2>4 DEF Serve
    <3> QED
      BY <3>1, <3>2
  <2> QED
    BY <1>6, <2>1, <2>2, <2>3, <2>4 DEF Loop
<1>7. CASE UNCHANGED servervars
  BY <1>7 DEF servervars
<1> QED
  BY <1>1, <1>2, <1>3, <1>4, <1>5, <1>6, <1>7 DEF ServerNext

\* The timer of the menu is never lost: whatever clients ask and however often
\* titles are started, it runs whenever ES does not serve one of its ticks
\* (main.c: the timer is stopped while the menu is drawn and started again).
THEOREM MenuAlwaysRuns == ServerSpec => []MenuRuns
<1>1. ServerInit => MenuRuns
  BY DEF ServerInit, MenuRuns
<1> QED
  BY <1>1, MenuStep, PTL DEF ServerSpec

-----------------------------------------------------------------------------
(***************************************************************************)
(* The list of channels (ESChannels).                                      *)
(***************************************************************************)

\* What the file lists is part of what is installed as long as nothing went, and
\* has all of it as long as nothing came.
FileListsPart ==
  \A list \in cnlcache :
    /\ list \subseteq Channels0
    /\ ~went => list \subseteq installed
    /\ ~came => installed \subseteq list

\* There is one file.
OneFile == \A l, m \in cnlcache : l = m

ChannelsInv ==
  installed \subseteq Channels0 /\ FileListsPart /\ OneFile /\ ChannelsRight

\* Of two sets one of which has the other, with as many members, both are one.
LEMMA SameSize ==
  ASSUME NEW S \in SUBSET Channels0, NEW T \in SUBSET Channels0,
         Cardinality(S) = Cardinality(T), S \subseteq T \/ T \subseteq S
  PROVE  S = T
<1>1. IsFiniteSet(S) /\ IsFiniteSet(T)
  BY ESChannelsAssumption, FS_Subset
<1> QED
  BY <1>1, FS_Subset

LEMMA ChannelsStep ==
  ASSUME ChannelsInv, [ChannelsNext]_channelvars
  PROVE  ChannelsInv'
<1> USE DEF ChannelsInv, FileListsPart, OneFile, ChannelsRight
<1>1. CASE LoadAndRebuildChannelCache
  <2>0. installed' = installed /\ atStart' = installed
    BY <1>1 DEF LoadAndRebuildChannelCache
  <2>1. CASE channelCache' = {installed} /\ CacheWritten
    BY <2>0, <2>1 DEF CacheWritten
  <2>2. CASE /\ ~Outdated(cnlcache) /\ channelCache' = cnlcache
             /\ UNCHANGED <<cnlcache, came, went>>
    <3>1. ASSUME NEW list \in cnlcache
          PROVE  /\ Cardinality(list) = Cardinality(installed)
                 /\ list = installed \/ (came /\ went)
      <4>1. Cardinality(list) = Cardinality(installed)
        BY <2>2, <3>1 DEF Outdated
      <4>2. CASE ~came \/ ~went
        BY <4>1, <4>2, <3>1, SameSize
      <4> QED
        BY <4>1, <4>2
    <3> QED
      BY <2>0, <2>2, <3>1
  <2>3. CASE channelCache' = {} /\ UNCHANGED <<cnlcache, came, went>>
    BY <2>0, <2>3
  <2> QED
    BY <1>1, <2>1, <2>2, <2>3 DEF LoadAndRebuildChannelCache
<1>2. CASE ChannelsChange
  <2>1. PICK c \in Channels0 :
           \/ c \notin installed /\ installed' = installed \cup {c} /\ came' = TRUE /\ UNCHANGED went
           \/ c \in installed /\ installed' = installed \ {c} /\ went' = TRUE /\ UNCHANGED came
    BY <1>2 DEF ChannelsChange
  <2>2. UNCHANGED <<cnlcache, channelCache, atStart>>
    BY <1>2 DEF ChannelsChange
  <2> QED
    BY <2>1, <2>2
<1>3. CASE MenuLeft
  BY <1>3 DEF MenuLeft
<1>4. CASE UNCHANGED channelvars
  BY <1>4 DEF channelvars
<1> QED
  BY <1>1, <1>2, <1>3, <1>4 DEF ChannelsNext

\* The menu lists what is installed, unless channels both came and went since the
\* file was written: a list of the right length is then the right list
\* (LoadAndRebuildChannelCache compares lengths only).
THEOREM ChannelsListed == ChannelsSpec => []ChannelsRight
<1>1. ChannelsInit => ChannelsInv
  BY DEF ChannelsInit, ChannelsInv, FileListsPart, OneFile, ChannelsRight
<1>2. ChannelsInv => ChannelsRight
  BY DEF ChannelsInv
<1> QED
  BY <1>1, <1>2, ChannelsStep, PTL DEF ChannelsSpec

-----------------------------------------------------------------------------
(***************************************************************************)
(* The region (ESConfig).                                                  *)
(***************************************************************************)

Keys == {"AREA", "VIDEO", "GAME", "SERNO"}

\* The calls that may be left of Config_ChangeSystem.
Rests == {<<"AREA", "VIDEO", "GAME", "flush">>, <<"VIDEO", "GAME", "flush">>,
          <<"GAME", "flush">>, <<"flush">>}

\* A value that was set, and is not to be set again, is the one of the region.
SetSoFar(r, todo) ==
  /\ todo \in Rests
  /\ todo # <<"AREA", "VIDEO", "GAME", "flush">> =>
       setting.text["AREA"] = Value(r, "AREA")
  /\ todo \in {<<"GAME", "flush">>, <<"flush">>} =>
       setting.text["VIDEO"] = Value(r, "VIDEO")
  /\ todo = <<"flush">> => setting.text["GAME"] = Value(r, "GAME")

\* While a region is set the copy in memory is the text of the file, and can be
\* read.
CopyIsFile == SettingsBuf = [text |-> setting.text, plain |-> TRUE]

FileWhole ==
  /\ setting = [text |-> setting.text, coded |-> TRUE]
  /\ setting.text = [k \in Keys |-> setting.text[k]]
  /\ setting.text["SERNO"] = "serial"

Whole == region # "mixed" => region \in Regions /\ setting.text = TextOf(region)

ConfigInv ==
  /\ unopened \in Nat
  /\ unopened = 0 =>
       /\ FileWhole
       /\ turn = NoTurn => Whole
       /\ turn # NoTurn =>
            /\ CopyIsFile
            /\ turn = [region |-> turn.region, todo |-> turn.todo]
            /\ turn.region \notin Regions => turn.todo = <<"flush">> /\ Whole
            /\ turn.region \in Regions => SetSoFar(turn.region, turn.todo)

\* A step that cannot open the file leaves nothing to prove.
LEMMA Opened0 ==
  ASSUME ConfigInv, [ConfigNext]_configvars
  PROVE  unopened' \in Nat /\ (unopened' = 0 => UNCHANGED unopened)
BY DEF ConfigInv, ConfigNext, configvars, Config_ChangeSystem, Config_SetSettingsValue,
       FinalFlush, ConfigCut, Config_SettingsFlush, OpensSetting, SettingFails

\* What a flush that opens the file twice does.
LEMMA Flushed ==
  ASSUME NEW buf, Config_SettingsFlush(buf), UNCHANGED unopened, unopened \in Nat
  PROVE  /\ setting' = [text |-> buf.text, coded |-> buf.plain]
         /\ SettingsBuf' = [text |-> buf.text, plain |-> buf.plain]
BY DEF Config_SettingsFlush, OpensSetting, SettingFails, Coded, Reloaded, Config_InitSetting

LEMMA ConfigStep ==
  ASSUME ConfigInv, [ConfigNext]_configvars
  PROVE  ConfigInv'
<1>0. unopened \in Nat /\ unopened' \in Nat /\ (unopened' = 0 => UNCHANGED unopened)
  BY Opened0 DEF ConfigInv
<1>1. SUFFICES ASSUME unopened' = 0
               PROVE  /\ FileWhole'
                      /\ (turn = NoTurn => Whole)'
                      /\ (turn # NoTurn =>
                            /\ CopyIsFile
                            /\ turn = [region |-> turn.region, todo |-> turn.todo]
                            /\ turn.region \notin Regions => turn.todo = <<"flush">> /\ Whole
                            /\ turn.region \in Regions => SetSoFar(turn.region, turn.todo))'
  BY <1>0 DEF ConfigInv
<1>2. unopened = 0 /\ UNCHANGED unopened
  BY <1>0, <1>1
<1>3. FileWhole
  BY <1>2 DEF ConfigInv
<1>4. CASE Config_ChangeSystem
  <2>1. SettingsBuf' = [text |-> setting.text, plain |-> setting.coded]
    BY <1>2, <1>4 DEF Config_ChangeSystem, SettingFails, Config_InitSetting
  <2>2. PICK r \in Regions \cup {"KOR"} :
          turn' = [region |-> r, todo |-> (IF r = "KOR" THEN <<>> ELSE SetKeys) \o <<"flush">>]
    BY <1>4 DEF Config_ChangeSystem
  <2>3. turn = NoTurn /\ UNCHANGED <<setting, region>>
    BY <1>4 DEF Config_ChangeSystem
  <2>4. SetKeys \o <<"flush">> = <<"AREA", "VIDEO", "GAME", "flush">> /\ <<>> \o <<"flush">> = <<"flush">>
    <3>1. \A a, b, c, d : <<a, b, c>> \o <<d>> = <<a, b, c, d>>
      <4> SUFFICES ASSUME NEW a, NEW b, NEW c, NEW d
                   PROVE  <<a, b, c>> \o <<d>> = <<a, b, c, d>>
        OBVIOUS
      <4>1. PICK s : s = <<a, b, c>>
        OBVIOUS
      <4>2. s \in Seq({a, b, c, d}) /\ <<d>> \in Seq({a, b, c, d}) /\ Len(s) = 3
        BY <4>1
      <4>3. /\ Len(s \o <<d>>) = 4 /\ s \o <<d>> \in Seq({a, b, c, d})
            /\ (s \o <<d>>)[1] = a /\ (s \o <<d>>)[2] = b
            /\ (s \o <<d>>)[3] = c /\ (s \o <<d>>)[4] = d
        BY <4>1, <4>2
      <4>4. PICK u : u = s \o <<d>>
        OBVIOUS
      <4>5. u = [i \in 1 .. 4 |-> u[i]]
        BY <4>3, <4>4
      <4>6. u = <<a, b, c, d>>
        <5>1. DOMAIN u = 1 .. 4 /\ DOMAIN <<a, b, c, d>> = 1 .. 4
          BY <4>5
        <5>2. \A i \in 1 .. 4 : u[i] = <<a, b, c, d>>[i]
          BY <4>3, <4>4
        <5>3. <<a, b, c, d>> = [i \in 1 .. 4 |-> <<a, b, c, d>>[i]]
          OBVIOUS
        <5> QED
          BY <4>5, <5>2, <5>3
      <4> QED
        BY <4>1, <4>4, <4>6
    <3>2. \A d : <<>> \o <<d>> = <<d>>
      OBVIOUS
    <3> QED
      BY <3>1, <3>2, Zenon DEF SetKeys
  <2>5. FileWhole' /\ CopyIsFile'
    <3>1. setting.coded = TRUE
      BY <1>3 DEF FileWhole
    <3>2. FileWhole'
      BY <1>3, <2>3 DEF FileWhole
    <3> QED
      BY <2>1, <2>3, <3>1, <3>2 DEF CopyIsFile
  <2>6. Whole'
    BY <1>2, <2>3 DEF ConfigInv, Whole
  <2>7. CASE r = "KOR"
    <3>1. turn' = [region |-> "KOR", todo |-> <<"flush">>]
      BY <2>2, <2>4, <2>7
    <3> QED
      BY <3>1, <2>5, <2>6 DEF Regions, NoTurn
  <2>8. CASE r \in Regions
    <3>1. turn' = [region |-> r, todo |-> <<"AREA", "VIDEO", "GAME", "flush">>]
      BY <2>2, <2>4, <2>8 DEF Regions
    <3>2. <<"AREA", "VIDEO", "GAME", "flush">> \notin {<<"GAME", "flush">>, <<"flush">>}
      OBVIOUS
    <3>3. SetSoFar(turn.region, turn.todo)'
      BY <3>1, <3>2 DEF SetSoFar, Rests
    <3> QED
      BY <3>1, <3>3, <2>5, <2>6, <2>8 DEF Regions, NoTurn
  <2> QED
    BY <2>2, <2>7, <2>8
<1>5. CASE Config_SetSettingsValue
  <2> DEFINE key == Head(turn.todo)
  <2> DEFINE v == Value(turn.region, key)
  <2> DEFINE buf == Printed(SettingsBuf, key, v)
  <2>1. turn # NoTurn /\ key # "flush" /\ Config_SettingsFlush(buf)
    BY <1>5 DEF Config_SetSettingsValue
  <2>2. CopyIsFile /\ turn = [region |-> turn.region, todo |-> turn.todo]
    BY <1>2, <2>1 DEF ConfigInv
  <2>3. turn.region \in Regions /\ SetSoFar(turn.region, turn.todo)
    BY <1>2, <2>1 DEF ConfigInv
  <2>4. turn' = [region |-> turn.region, todo |-> Tail(turn.todo)]
    BY <1>5, <2>2 DEF Config_SetSettingsValue
  <2>5. DOMAIN setting.text = Keys
    BY <1>3 DEF FileWhole
  <2>6. buf = [text |-> [k \in Keys |-> IF k = key THEN v ELSE setting.text[k]], plain |-> TRUE]
    BY <2>2, <2>5 DEF Printed, CopyIsFile, Config_GetSettingsString
  <2>7. /\ setting' = [text |-> buf.text, coded |-> buf.plain]
        /\ SettingsBuf' = [text |-> buf.text, plain |-> buf.plain]
    <3> HIDE DEF buf
    <3> QED
      BY <1>2, <2>1, Flushed
  <2>8. /\ setting' = [text |-> [k \in Keys |-> IF k = key THEN v ELSE setting.text[k]],
                       coded |-> TRUE]
        /\ SettingsBuf' = [text |-> setting'.text, plain |-> TRUE]
    <3>1. PICK text : text = [k \in Keys |-> IF k = key THEN v ELSE setting.text[k]]
      OBVIOUS
    <3>2. buf.text = text /\ buf.plain = TRUE
      BY <2>6, <3>1
    <3> HIDE DEF buf
    <3> QED
      BY <2>7, <3>1, <3>2
  <2>9. \/ turn.todo = <<"AREA", "VIDEO", "GAME", "flush">>
        \/ turn.todo = <<"VIDEO", "GAME", "flush">>
        \/ turn.todo = <<"GAME", "flush">>
    BY <2>1, <2>3 DEF SetSoFar, Rests
  <2>10. key \in {"AREA", "VIDEO", "GAME"}
    BY <2>9
  <2>11. FileWhole'
    BY <1>3, <2>8, <2>10 DEF FileWhole, Keys
  <2>12. SetSoFar(turn.region, turn.todo)'
    <3>1. \A k \in Keys : setting'.text[k] = IF k = key THEN v ELSE setting.text[k]
      BY <2>8
    <3>2. CASE turn.todo = <<"AREA", "VIDEO", "GAME", "flush">>
      <4>1. key = "AREA" /\ turn'.todo = <<"VIDEO", "GAME", "flush">> /\ turn'.region = turn.region
        BY <2>4, <3>2
      <4> QED
        BY <4>1, <3>1 DEF SetSoFar, Rests, Keys
    <3>3. CASE turn.todo = <<"VIDEO", "GAME", "flush">>
      <4>1. key = "VIDEO" /\ turn'.todo = <<"GAME", "flush">> /\ turn'.region = turn.region
        BY <2>4, <3>3
      <4>2. setting.text["AREA"] = Value(turn.region, "AREA")
        BY <2>3, <3>3 DEF SetSoFar
      <4> QED
        BY <4>1, <4>2, <3>1 DEF SetSoFar, Rests, Keys
    <3>4. CASE turn.todo = <<"GAME", "flush">>
      <4>1. key = "GAME" /\ turn'.todo = <<"flush">> /\ turn'.region = turn.region
        BY <2>4, <3>4
      <4>2. /\ setting.text["AREA"] = Value(turn.region, "AREA")
            /\ setting.text["VIDEO"] = Value(turn.region, "VIDEO")
        BY <2>3, <3>4 DEF SetSoFar
      <4> QED
        BY <4>1, <4>2, <3>1 DEF SetSoFar, Rests, Keys
    <3> QED
      BY <2>9, <3>2, <3>3, <3>4
  <2>13. turn'.region \in Regions /\ turn' # NoTurn
    BY <2>3, <2>4 DEF Regions, NoTurn
  <2> QED
    BY <2>4, <2>8, <2>11, <2>12, <2>13 DEF CopyIsFile
<1>6. CASE FinalFlush
  <2>1. turn # NoTurn /\ Head(turn.todo) = "flush" /\ Config_SettingsFlush(SettingsBuf)
    BY <1>6 DEF FinalFlush
  <2>2. turn' = NoTurn /\ region' = IF turn.region \in Regions THEN turn.region ELSE region
    BY <1>6 DEF FinalFlush
  <2>3. SettingsBuf = [text |-> setting.text, plain |-> TRUE]
    BY <1>2, <2>1 DEF ConfigInv, CopyIsFile
  <2>4. PICK buf : buf = SettingsBuf
    OBVIOUS
  <2>5. setting' = [text |-> buf.text, coded |-> buf.plain]
    BY <1>2, <2>1, <2>4, Flushed
  <2>6. setting' = setting
    BY <1>3, <2>3, <2>4, <2>5 DEF FileWhole
  <2>7. CASE turn.region \notin Regions
    BY <1>2, <1>3, <2>1, <2>2, <2>6, <2>7 DEF ConfigInv, FileWhole, Whole, NoTurn
  <2>8. CASE turn.region \in Regions
    <3>1. SetSoFar(turn.region, turn.todo)
      BY <1>2, <2>1, <2>8 DEF ConfigInv
    <3>2. turn.todo = <<"flush">>
      BY <2>1, <3>1 DEF SetSoFar, Rests
    <3>3. /\ setting.text["AREA"] = Value(turn.region, "AREA")
          /\ setting.text["VIDEO"] = Value(turn.region, "VIDEO")
          /\ setting.text["GAME"] = Value(turn.region, "GAME")
      BY <3>1, <3>2 DEF SetSoFar
    <3>4. setting.text = TextOf(turn.region)
      BY <1>3, <3>3 DEF FileWhole, Keys, TextOf
    <3> QED
      BY <1>3, <2>2, <2>6, <2>8, <3>4 DEF FileWhole, Whole, NoTurn
  <2> QED
    BY <2>7, <2>8
<1>7. CASE ConfigCut
  BY <1>3, <1>7 DEF ConfigCut, FileWhole, Whole
<1>8. CASE UNCHANGED configvars
  BY <1>2, <1>8 DEF configvars, ConfigInv, FileWhole, Whole, CopyIsFile, SetSoFar
<1> QED
  BY <1>4, <1>5, <1>6, <1>7, <1>8 DEF ConfigNext

\* setting.txt keeps the serial number, and is of one region between two titles,
\* wherever the power goes off while the three values are rewritten one by one
\* (Config_SetSettingsValue encrypts and reloads the whole text each time), as
\* long as the file can be opened.
THEOREM RegionSafe == ConfigSpec => []RegionKept
<1>1. ConfigInit => ConfigInv
  <2> SUFFICES ASSUME ConfigInit PROVE ConfigInv
    OBVIOUS
  <2>1. setting = [text |-> TextOf(region), coded |-> TRUE] /\ region \in Regions
    BY DEF ConfigInit
  <2>2. TextOf(region) = [k \in Keys |-> TextOf(region)[k]] /\ TextOf(region)["SERNO"] = "serial"
    BY DEF TextOf, Keys
  <2>3. FileWhole /\ Whole
    BY <2>1, <2>2 DEF FileWhole, Whole
  <2> QED
    BY <2>3 DEF ConfigInit, ConfigInv
<1>2. ConfigInv => RegionKept
  BY DEF ConfigInv, RegionKept, SerialKept, RegionWhole, FileWhole, Whole
<1> QED
  BY <1>1, <1>2, ConfigStep, PTL DEF ConfigSpec

-----------------------------------------------------------------------------
(***************************************************************************)
(* Starting titles (ESLaunch).                                             *)
(***************************************************************************)

BootShape ==
  /\ boot = [at |-> boot.at, title |-> boot.title, ios |-> boot.ios, i |-> boot.i,
             disc |-> boot.disc]
  /\ verify = [at |-> verify.at, unread |-> verify.unread, disc |-> verify.disc]

\* Titles are numbers from 1 on, and so are versions.
TmdsFit ==
  /\ DOMAIN tmds \subseteq Nat \ {None}
  /\ \A t \in DOMAIN tmds : tmds[t].version \in Nat

\* Where launch.sys has not been deleted yet.
Early == {"check", "erase"}

\* What a start finds in launch.sys, and what comes of it: the disc, if an IOS is
\* started and there is one.
ToStart == IF launch = None THEN MENU ELSE launch
Becomes(t) == IF IsIOS(t) /\ disc # None THEN disc ELSE t

\* It may run next.
Right(t) == t = asked \/ (t = MENU /\ lost) \/ amiss

\* Nothing of a request is left behind the place where it is used up, but for files
\* that went amiss.
UsedUp ==
  /\ boot.at \notin {"running", "gc"} => verified = None
  /\ ~amiss /\ boot.at \notin Early => launch = None
  /\ ~amiss /\ boot.at \in {"load", "running"} /\ verified = None => disc = None
  /\ ~amiss /\ boot.at = "running" /\ verified # None /\ verify.at # "disc" => disc = verified

\* The UID is that of the title, or of the disc whose group is to be set.
UidFits ==
  /\ boot.at \notin {"running", "gc", "nothing"} => uid = None
  /\ verify.at = "gid" => uid = Title
  /\ boot.at = "running" /\ verify.at # "gid" /\ uid # None /\ ~parted => uid = boot.title

\* What is started is what was asked for, from launch.sys to the PowerPC.
OnTheWay ==
  /\ boot.at \in Early => Right(Becomes(ToStart))
  /\ boot.at \in {"erase", "kernel", "modules", "module", "di", "disc"} =>
       Right(Becomes(boot.title))
  /\ boot.at \in {"modules", "module", "di", "disc"} => boot.disc = IsIOS(boot.title)
  /\ boot.at = "disc" => boot.disc
  /\ boot.at \in {"title", "load"} => Right(boot.title)

\* The PowerPC runs something only behind that, and then the menu is next.
RunsBehind ==
  /\ ppc # None => boot.at \in {"disc runs", "running"}
  /\ boot.at \in {"disc runs", "running"} => asked = MENU

\* ES_DIVerify is for a running title, and writes a TMD only over an older one, or
\* over one that it could not load.
Verifying ==
  /\ verify.at # "none" => boot.at = "running" /\ verify.disc \in Discs
  /\ verify.at = "write" /\ Title \in DOMAIN tmds =>
       verify.unread \/ tmds[Title].version < verify.disc.version

LaunchInv ==
  BootShape /\ TmdsFit /\ UsedUp /\ UidFits /\ OnTheWay /\ RunsBehind /\ Verifying

\* What NoDowngrade says of a step.
TmdsStay ==
  \A t \in DOMAIN tmds :
    \/ t \in DOMAIN tmds' /\ tmds'[t].version >= tmds[t].version
    \/ /\ verify.at = "write" /\ t = Title
       /\ verify.unread \/ tmds[t].version < verify.disc.version

\* The menu is no IOS, and no title is the one that is none.
LEMMA Titled == MENU # None /\ BC # None /\ ~IsIOS(MENU) /\ \A d \in Discs : d.title # None
<1>1. Others \in Nat /\ MENU \in 1 .. Others - 1 /\ BC \in 1 .. Others - 1
  BY ESLaunchAssumption
<1>2. \A d \in Discs : d.title \in Nat /\ d.title >= Others
  BY ESLaunchAssumption
<1> QED
  BY <1>1, <1>2 DEF None, IsIOS

\* Where no TMD is touched.
LEMMA SameTmds ==
  ASSUME TmdsFit, UNCHANGED tmds
  PROVE  TmdsFit' /\ TmdsStay
BY DEF TmdsFit, TmdsStay

\* A step of ES_BootSystem.
LEMMA BootStep ==
  ASSUME LaunchInv, ES_BootSystem
  PROVE  /\ LaunchInv' /\ UNCHANGED tmds
         /\ ppc' # ppc => Right(ppc')
<1> USE DEF LaunchInv
<1>0. BootShape /\ UNCHANGED <<tmds, hardware, verify, parted>>
  BY DEF ES_BootSystem, ReadLaunch, EraseLaunch, FindKernel, LoadModules, LoadModule,
         DIConnected, NetworkIsUp, RunDisc, NoDisc, EraseDisc, LoadTitle, Card, Stays
<1>1. TmdsFit'
  BY <1>0 DEF TmdsFit
<1>00. boot.at # "running" /\ verify.at = "none" /\ verify'.at = "none"
  <2>1. boot.at # "running"
    BY DEF ES_BootSystem, ReadLaunch, EraseLaunch, FindKernel, LoadModules, LoadModule,
           DIConnected, NetworkIsUp, RunDisc, NoDisc, EraseDisc, LoadTitle
  <2> QED
    BY <1>0, <2>1 DEF Verifying
<1>01. Verifying' /\ (boot'.at = boot'.at)
  BY <1>0, <1>00 DEF Verifying
<1>2. ASSUME NEW s, Go(s) PROVE boot' = [at |-> s, title |-> boot.title, ios |-> boot.ios,
                                         i |-> boot.i, disc |-> boot.disc]
  BY <1>0, <1>2 DEF Go, BootShape
<1>02. ASSUME NEW s, Ends(s) PROVE boot' = [at |-> s, title |-> boot.title, ios |-> None,
                                            i |-> 1, disc |-> FALSE]
  BY <1>02 DEF Ends, At
<1> USE DEF UsedUp, UidFits, Early
<1>3. CASE ReadLaunch
  <2>1. PICK t \in {launch, None} :
        /\ boot' = [boot EXCEPT !.at = "erase", !.title = IF t = None THEN MENU ELSE t]
        /\ amiss' = (amiss \/ t # launch)
    BY <1>3 DEF ReadLaunch
  <2>2. /\ boot.at = "check" /\ UNCHANGED <<launch, disc, uid, ppc, asked, lost, verified>>
        /\ boot' = [at |-> "erase", title |-> IF t = None THEN MENU ELSE t, ios |-> boot.ios,
                    i |-> boot.i, disc |-> boot.disc]
    BY <1>0, <1>3, <2>1 DEF ReadLaunch, BootShape, Card, Stays, Hist
  <2>3. Right(Becomes(ToStart))' /\ Right(Becomes(boot.title))'
    <3>1. CASE t = launch
      BY <2>1, <2>2, <3>1 DEF OnTheWay, ToStart, Right, Becomes
    <3>2. CASE t # launch
      BY <2>1, <3>2 DEF Right
    <3> QED
      BY <3>1, <3>2
  <2>4. amiss => amiss'
    BY <2>1
  <2> QED
    BY <1>0, <1>00, <1>01, <1>1, <2>2, <2>3, <2>4 DEF BootShape, OnTheWay, RunsBehind
<1>4. CASE EraseLaunch
  <2>1. /\ boot.at = "erase" /\ (~amiss' => launch' = None /\ ~amiss)
        /\ UNCHANGED <<disc, uid, ppc, asked, lost, verified>>
        /\ boot' = [at |-> "kernel", title |-> boot.title, ios |-> boot.ios, i |-> boot.i, disc |-> boot.disc]
    BY <1>2, <1>4 DEF EraseLaunch, LaunchGoes, Stays, Hist
  <2>2. Right(Becomes(boot.title))'
    BY <2>1 DEF OnTheWay, Right, Becomes
  <2> QED
    BY <1>0, <1>00, <1>01, <1>1, <2>1, <2>2 DEF BootShape, OnTheWay, RunsBehind
<1>5. CASE FindKernel
  <2>1. boot.at = "kernel" /\ UNCHANGED <<launch, disc, uid, ppc, asked, lost, verified, amiss>>
    BY <1>5 DEF FindKernel, Card, Stays, Hist
  <2>2. Right(Becomes(boot.title))
    BY <2>1 DEF OnTheWay
  <2>3. CASE Ends("panic")
    <3>1. boot'.at = "panic" /\ BootShape'
      BY <1>0, <1>02, <2>3 DEF BootShape
    <3> QED
      BY <1>0, <1>00, <1>01, <1>1, <2>1, <3>1 DEF OnTheWay, RunsBehind
  <2>4. CASE \E v : boot' = [boot EXCEPT !.at = "modules", !.ios = v, !.disc = IsIOS(boot.title)]
    <3>1. /\ boot'.at = "modules" /\ boot'.title = boot.title /\ boot'.disc = IsIOS(boot.title)
          /\ BootShape'
      BY <1>0, <2>4 DEF BootShape
    <3>2. Right(Becomes(boot.title))'
      BY <2>1, <2>2, <3>1 DEF Right, Becomes
    <3> QED
      BY <1>0, <1>00, <1>01, <1>1, <2>1, <3>1, <3>2 DEF OnTheWay, RunsBehind
  <2> QED
    BY <1>5, <2>3, <2>4, Zenon DEF FindKernel
<1>6. CASE LoadModules \/ LoadModule \/ DIConnected
  <2>1. /\ boot.at \in {"modules", "module", "di"}
        /\ UNCHANGED <<launch, disc, uid, ppc, asked, lost, verified, amiss>>
    BY <1>6 DEF LoadModules, LoadModule, DIConnected, Card, Stays, Hist
  <2>2. /\ BootShape'
        /\ \/ boot'.at \in {"panic", "hung"}
           \/ /\ boot'.at \in {"modules", "module", "di"}
              /\ boot'.title = boot.title /\ boot'.disc = boot.disc
    <3>1. CASE LoadModules
      <4>1. \/ Ends("panic") \/ boot' = [boot EXCEPT !.ios = Fallback]
            \/ boot' = [boot EXCEPT !.at = "module", !.i = 1]
        BY <3>1 DEF LoadModules
      <4>2. CASE Ends("panic")
        BY <1>0, <1>02, <4>2 DEF BootShape
      <4>3. CASE boot' = [boot EXCEPT !.ios = Fallback]
        BY <1>0, <2>1, <4>3 DEF BootShape
      <4>4. CASE boot' = [boot EXCEPT !.at = "module", !.i = 1]
        BY <1>0, <4>4 DEF BootShape
      <4> QED
        BY <4>1, <4>2, <4>3, <4>4
    <3>2. CASE LoadModule
      <4>1. \/ boot' = [boot EXCEPT !.at = "hung"]
            \/ \E s \in {"di", "module"} : boot' = [boot EXCEPT !.i = @ + 1, !.at = s]
        BY <3>2 DEF LoadModule
      <4> QED
        BY <1>0, <4>1 DEF BootShape
    <3>3. CASE DIConnected
      BY <1>0, <1>2, <3>3 DEF DIConnected, BootShape
    <3> QED
      BY <1>6, <3>1, <3>2, <3>3
  <2>3. Right(Becomes(boot.title)) /\ boot.disc = IsIOS(boot.title)
    BY <2>1 DEF OnTheWay
  <2>4. CASE boot'.at \in {"panic", "hung"}
    BY <1>0, <1>00, <1>01, <1>1, <2>1, <2>2, <2>4 DEF OnTheWay, RunsBehind
  <2>5. CASE boot'.at \in {"modules", "module", "di"} /\ boot'.title = boot.title
             /\ boot'.disc = boot.disc
    <3>1. Right(Becomes(boot.title))'
      BY <2>1, <2>5, <2>3 DEF Right, Becomes
    <3> QED
      BY <1>0, <1>00, <1>01, <1>1, <2>1, <2>2, <2>3, <2>5, <3>1 DEF OnTheWay, RunsBehind
  <2> QED
    BY <2>2, <2>4, <2>5
<1>7. CASE NetworkIsUp
  <2>1. /\ boot.at = "module"
        /\ UNCHANGED <<launch, disc, uid, ppc, asked, lost, verified, amiss>>
        /\ boot' = [at |-> IF boot.disc THEN "disc" ELSE "title", title |-> boot.title,
                    ios |-> boot.ios, i |-> boot.i, disc |-> boot.disc]
    BY <1>2, <1>7 DEF NetworkIsUp, Card, Stays, Hist
  <2>2. Right(Becomes(boot.title))'
    BY <2>1 DEF OnTheWay, Right, Becomes
  <2>3. ~boot.disc => Right(boot.title)'
    BY <2>1, <2>2 DEF OnTheWay, Becomes
  <2> QED
    BY <1>0, <1>00, <1>01, <1>1, <2>1, <2>2, <2>3 DEF BootShape, OnTheWay, RunsBehind
<1>8. CASE RunDisc
  <2>1. /\ boot.at = "disc" /\ disc # None
        /\ UNCHANGED <<launch, disc, uid, verified, amiss>> /\ ppc' = disc /\ asked' = MENU
        /\ boot' = [at |-> "disc runs", title |-> disc, ios |-> boot.ios, i |-> boot.i, disc |-> boot.disc]
    BY <1>0, <1>8 DEF RunDisc, Runs, BootShape, Card
  <2>2. Right(disc)
    BY <2>1 DEF OnTheWay, Becomes
  <2>3. Right(ppc')
    BY <2>1, <2>2
  <2> QED
    BY <1>0, <1>00, <1>01, <1>1, <2>1, <2>3 DEF BootShape, OnTheWay, RunsBehind
<1>9. CASE NoDisc
  <2>1. /\ boot.at = "disc" /\ amiss' = (amiss \/ disc # None)
        /\ UNCHANGED <<launch, disc, uid, ppc, asked, lost, verified>>
        /\ boot' = [at |-> "title", title |-> boot.title, ios |-> boot.ios, i |-> boot.i, disc |-> boot.disc]
    BY <1>2, <1>9 DEF NoDisc, Card, Stays, Hist
  <2>2. Right(boot.title)'
    BY <2>1 DEF OnTheWay, Right, Becomes
  <2> QED
    BY <1>0, <1>00, <1>01, <1>1, <2>1, <2>2 DEF BootShape, OnTheWay, RunsBehind
<1>10. CASE EraseDisc
  <2>1. /\ boot.at \in {"disc runs", "title"} /\ (~amiss' => disc' = None /\ ~amiss)
        /\ UNCHANGED <<launch, uid, ppc, asked, lost, verified>>
        /\ boot' = [at |-> IF boot.at = "title" THEN "load" ELSE "running", title |-> boot.title,
                    ios |-> None, i |-> 1, disc |-> FALSE]
    BY <1>02, <1>10 DEF EraseDisc, DiscGoes, Stays, Hist
  <2>2. boot.at = "title" => Right(boot.title)'
    BY <2>1 DEF OnTheWay, Right
  <2>3. verified = None /\ uid = None
    BY <2>1
  <2> QED
    BY <1>0, <1>00, <1>01, <1>1, <2>1, <2>2, <2>3 DEF BootShape, OnTheWay, RunsBehind
<1>11. CASE LoadTitle
  <2>1. boot.at = "load" /\ UNCHANGED <<launch, disc, verified, amiss>>
    BY <1>11 DEF LoadTitle, Card, Runs, Hist
  <2>2. Right(boot.title) /\ ppc = None /\ verified = None
    BY <2>1 DEF OnTheWay, RunsBehind
  <2>3. CASE \E s \in {"nothing", "gc"} : Ends(s) /\ UNCHANGED <<ppc, asked, lost>>
    <3>1. boot'.at \in {"nothing", "gc"} /\ BootShape'
      BY <1>0, <1>02, <2>3 DEF BootShape
    <3> QED
      BY <1>0, <1>00, <1>01, <1>1, <2>1, <2>2, <2>3, <3>1 DEF OnTheWay, RunsBehind
  <2>4. CASE Runs(boot.title) /\ Ends("running") /\ uid' = boot.title
    <3>1. boot'.at = "running" /\ boot'.title = boot.title /\ BootShape'
      BY <1>0, <1>02, <2>4 DEF BootShape
    <3>2. ppc' = boot.title /\ asked' = MENU
      BY <2>4 DEF Runs
    <3>3. Right(ppc')
      BY <2>2, <3>2
    <3> QED
      BY <1>0, <1>00, <1>01, <1>1, <2>1, <2>2, <2>4, <3>1, <3>2, <3>3 DEF OnTheWay, RunsBehind
  <2> QED
    BY <1>11, <2>3, <2>4 DEF LoadTitle, Hist
<1> QED
  BY <1>3, <1>4, <1>5, <1>6, <1>7, <1>8, <1>9, <1>10, <1>11 DEF ES_BootSystem

\* A start anew keeps what was promised, if what launch.sys has then is right.
LEMMA Restarted0 ==
  ASSUME TmdsFit', Restarts, Right(Becomes(ToStart))'
  PROVE  LaunchInv'
BY Titled DEF Restarts, At, NoVerify, LaunchInv, BootShape, UsedUp, UidFits, Early,
              OnTheWay, RunsBehind, Verifying, None

\* A request that starts nothing and leaves launch.sys and disc.sys alone.
LEMMA SameFiles ==
  ASSUME LaunchInv, TmdsFit', boot.at = "running", boot'.at = "running",
         BootShape', UidFits', Verifying', verify.at # "disc" \/ verify'.at = "disc",
         UNCHANGED <<launch, disc, ppc, asked, lost, verified, amiss>>
  PROVE  LaunchInv'
<1>1. UsedUp' /\ OnTheWay' /\ RunsBehind'
  BY DEF LaunchInv, UsedUp, Early, OnTheWay, RunsBehind
<1> QED
  BY <1>1 DEF LaunchInv

\* ESP_LaunchTitle.
LEMMA LaunchesTitle ==
  ASSUME LaunchInv, NEW t \in Wanted, LaunchTitle(t)
  PROVE  LaunchInv' /\ UNCHANGED tmds /\ (ppc' = ppc \/ ppc' = None)
<1>1. /\ boot.at = "running" /\ verify.at = "none" /\ UNCHANGED <<tmds, disc, hardware>>
      /\ t # None
  BY ESLaunchAssumption DEF LaunchTitle, Idle, None
<1>2. TmdsFit'
  BY <1>1, SameTmds DEF LaunchInv
<1>3. ~amiss => launch = None
  BY <1>1 DEF LaunchInv, UsedUp, Early
<1>4. CASE /\ launch' \in {launch, t, None} /\ amiss' = (amiss \/ launch' # launch)
           /\ UNCHANGED <<boot, uid, ppc, asked, lost, verify, verified, parted>>
  <2>1. BootShape' /\ UidFits' /\ Verifying'
    BY <1>1, <1>4 DEF LaunchInv, BootShape, UidFits, Title, Verifying
  <2>2. ~amiss' => ~amiss /\ launch' = launch
    BY <1>4
  <2>3. UsedUp'
    BY <1>1, <1>3, <1>4, <2>2 DEF LaunchInv, UsedUp, Early
  <2>4. OnTheWay' /\ RunsBehind'
    BY <1>1, <1>4 DEF LaunchInv, Early, OnTheWay, RunsBehind
  <2> QED
    BY <1>1, <1>2, <1>4, <2>1, <2>3, <2>4 DEF LaunchInv
<1>5. CASE /\ Restarts /\ asked' = Goal(t) /\ UNCHANGED amiss
           /\ \/ launch' = t /\ lost' = FALSE
              \/ launch' = launch /\ lost' = TRUE
  <2>1. CASE amiss
    BY <1>2, <1>5, <2>1, <1>1, Restarted0 DEF Right, Restarts
  <2>2. CASE ~amiss /\ launch' = launch /\ lost' = TRUE
    <3>1. ToStart' = MENU /\ Becomes(MENU)' = MENU
      BY <1>3, <2>2, Titled DEF ToStart, Becomes
    <3>2. Right(Becomes(ToStart))'
      BY <2>2, <3>1 DEF Right
    <3> QED
      BY <1>1, <1>2, <1>5, <3>2, Restarted0 DEF Restarts
  <2>3. CASE ~amiss /\ launch' = t
    <3>1. ToStart' = t
      BY <1>1, <2>3 DEF ToStart
    <3>2. CASE IsIOS(t) /\ verified # None
      <4>1. disc = verified
        BY <1>1, <2>3, <3>2 DEF LaunchInv, UsedUp
      <4>2. asked' = verified
        BY <1>5, <3>2 DEF Goal
      <4>3. Becomes(t)' = verified
        BY <1>1, <3>2, <4>1 DEF Becomes
      <4>4. Right(Becomes(ToStart))'
        BY <3>1, <4>2, <4>3 DEF Right
      <4> QED
        BY <1>1, <1>2, <1>5, <4>4, Restarted0 DEF Restarts
    <3>3. CASE ~(IsIOS(t) /\ verified # None)
      <4>1. verified = None => disc = None
        BY <1>1, <2>3 DEF LaunchInv, UsedUp
      <4>2. asked' = t
        BY <1>5, <3>3 DEF Goal
      <4>3. Becomes(t)' = t
        BY <1>1, <3>3, <4>1 DEF Becomes
      <4>4. Right(Becomes(ToStart))'
        BY <3>1, <4>2, <4>3 DEF Right
      <4> QED
        BY <1>1, <1>2, <1>5, <4>4, Restarted0 DEF Restarts
    <3> QED
      BY <3>2, <3>3
  <2> QED
    BY <1>5, <2>1, <2>2, <2>3
<1> QED
  BY <1>4, <1>5 DEF LaunchTitle

\* The launch of 1-100.
LEMMA LaunchesGC ==
  ASSUME LaunchInv, LaunchGC
  PROVE  LaunchInv' /\ UNCHANGED tmds /\ ppc' = None
<1>1. /\ boot.at = "running" /\ verify.at = "none" /\ (amiss \/ launch = None)
      /\ UNCHANGED <<tmds, launch, disc, hardware, amiss>> /\ ppc' = None
      /\ asked' = MENU /\ lost' = FALSE
  BY DEF LaunchGC, Card, Restarts, Idle, LaunchInv, UsedUp, Early
<1>2. TmdsFit'
  BY <1>1, SameTmds DEF LaunchInv
<1>3. CASE Go("gc") /\ UNCHANGED <<uid, verify, verified, parted>>
  <2>1. boot' = [at |-> "gc", title |-> boot.title, ios |-> boot.ios, i |-> boot.i,
                 disc |-> boot.disc]
    BY <1>3 DEF Go, LaunchInv, BootShape
  <2>2. BootShape' /\ UidFits' /\ Verifying' /\ UsedUp'
    BY <1>1, <1>3, <2>1 DEF LaunchInv, BootShape, UidFits, Verifying, UsedUp, Early
  <2> QED
    BY <1>1, <1>2, <2>1, <2>2 DEF LaunchInv, Early, OnTheWay, RunsBehind
<1>4. CASE Restarts
  <2>1. Right(Becomes(ToStart))'
    BY <1>1, Titled DEF ToStart, Becomes, Right
  <2> QED
    BY <1>1, <1>2, <1>4, <2>1, Restarted0
<1> QED
  BY <1>1, <1>3, <1>4 DEF LaunchGC

\* ES_SetUID.
LEMMA SetsUID ==
  ASSUME LaunchInv, NEW t \in Wanted, SetTitleUID(t)
  PROVE  LaunchInv' /\ UNCHANGED <<tmds, ppc>>
<1>1. /\ boot.at = "running" /\ verify.at = "none" /\ boot' = [boot EXCEPT !.title = t]
      /\ UNCHANGED <<tmds, launch, disc, ppc, verify, amiss, asked, lost, verified>>
      /\ \/ uid' = t /\ parted' = FALSE
         \/ uid' = uid /\ parted' = (uid # t)
  BY DEF SetTitleUID, Idle, Card, Hist
<1>2. boot' = [at |-> "running", title |-> t, ios |-> boot.ios, i |-> boot.i, disc |-> boot.disc]
  BY <1>1 DEF LaunchInv, BootShape
<1>3. BootShape' /\ UidFits' /\ Verifying'
  BY <1>1, <1>2 DEF LaunchInv, BootShape, UidFits, Verifying
<1>4. TmdsFit'
  BY <1>1, SameTmds DEF LaunchInv
<1> QED
  BY <1>1, <1>2, <1>3, <1>4, SameFiles

\* ES_DIVerify puts in a TMD where there is none, and takes one off the card only if
\* the disc's is newer or it could not be loaded.
LEMMA TmdWritten ==
  ASSUME LaunchInv, DropTMD \/ MoveTMD
  PROVE  TmdsFit' /\ TmdsStay
<1>1. verify.at # "none"
  BY DEF DropTMD, MoveTMD
<1>2. verify.disc \in Discs
  BY <1>1 DEF LaunchInv, Verifying
<1>3. Title \in Nat \ {None} /\ verify.disc.version \in Nat
  BY <1>2, Titled, ESLaunchAssumption DEF Title
<1>4. /\ DOMAIN tmds \subseteq Nat \ {None}
      /\ \A t \in DOMAIN tmds : tmds[t].version \in Nat
  BY DEF LaunchInv, TmdsFit
<1>5. CASE DropTMD
  <2>1. /\ verify.at = "write" /\ Title \in DOMAIN tmds
        /\ tmds' = [t \in DOMAIN tmds \ {Title} |-> tmds[t]]
    BY <1>5 DEF DropTMD
  <2>2. verify.unread \/ tmds[Title].version < verify.disc.version
    BY <2>1 DEF LaunchInv, Verifying
  <2>3. TmdsFit'
    BY <1>4, <2>1 DEF TmdsFit
  <2>4. ASSUME NEW t \in DOMAIN tmds, t # Title
        PROVE  t \in DOMAIN tmds' /\ tmds'[t].version >= tmds[t].version
    BY <1>4, <2>1, <2>4
  <2> QED
    BY <2>1, <2>2, <2>3, <2>4 DEF TmdsStay
<1>6. CASE MoveTMD
  <2> DEFINE new == [ios |-> verify.disc.ios, version |-> verify.disc.version, modules |-> <<>>]
  <2>1. /\ Title \notin DOMAIN tmds
        /\ tmds' = [t \in DOMAIN tmds \cup {Title} |-> IF t \in DOMAIN tmds THEN tmds[t] ELSE new]
    BY <1>6 DEF MoveTMD
  <2>2. new.version = verify.disc.version
    OBVIOUS
  <2> HIDE DEF new
  <2>3. TmdsFit'
    BY <1>3, <1>4, <2>1, <2>2 DEF TmdsFit
  <2>4. TmdsStay
    BY <1>4, <2>1 DEF TmdsStay
  <2> QED
    BY <2>3, <2>4
<1> QED
  BY <1>5, <1>6

\* A step of ES_DIVerify.
LEMMA VerifyStep ==
  ASSUME LaunchInv, ESP_DIVerify \/ \E d \in Discs : DIVerify(d)
  PROVE  LaunchInv' /\ TmdsStay /\ UNCHANGED ppc
<1>1. boot.at = "running" /\ UNCHANGED <<ppc, asked, lost>>
  BY DEF ESP_DIVerify, DIVerify, LoadOldTMD, DropTMD, MoveTMD, LeaveTMD, MakeUid, SetGid,
         DropDisc, WriteDisc, Untouched, Hist, Idle, LaunchInv, Verifying
<1>2. TmdsFit' /\ TmdsStay
  <2>1. CASE DropTMD \/ MoveTMD
    BY <2>1, TmdWritten
  <2>2. CASE ~(DropTMD \/ MoveTMD)
    <3>1. UNCHANGED tmds
      BY <2>2 DEF ESP_DIVerify, DIVerify, LoadOldTMD, LeaveTMD, MakeUid, SetGid, DropDisc,
                  WriteDisc, Card
    <3> QED
      BY <3>1, SameTmds DEF LaunchInv
  <2> QED
    BY <2>1, <2>2
<1>v. verify = [at |-> verify.at, unread |-> verify.unread, disc |-> verify.disc]
  BY DEF LaunchInv, BootShape
<1>b. boot = [at |-> "running", title |-> boot.title, ios |-> boot.ios, i |-> boot.i,
              disc |-> boot.disc]
  BY <1>1 DEF LaunchInv, BootShape
<1>3. ASSUME NEW s, Verifies(s)
      PROVE  verify' = [at |-> s, unread |-> verify.unread, disc |-> verify.disc]
  BY <1>3, <1>v DEF Verifies
<1>4. ASSUME NEW d \in Discs, DIVerify(d) PROVE LaunchInv'
  <2>1. /\ verify.at = "none" /\ verify' = [at |-> "load", unread |-> FALSE, disc |-> d]
        /\ UNCHANGED <<launch, disc, boot, uid, parted, verified, amiss>>
    BY <1>4 DEF DIVerify, Idle, Card, Hist
  <2>2. BootShape' /\ UidFits' /\ Verifying'
    BY <1>1, <1>b, <2>1 DEF LaunchInv, BootShape, UidFits, Verifying
  <2> QED
    BY <1>1, <1>2, <2>1, <2>2, SameFiles
<1>5. CASE LoadOldTMD
  <2>1. /\ verify.at = "load" /\ verify.disc \in Discs
        /\ UNCHANGED <<tmds, launch, disc, boot, uid, parted, verified, amiss>>
    BY <1>5 DEF LoadOldTMD, Card, LaunchInv, Verifying
  <2>2. /\ verify'.at \in {"write", "uid"} /\ verify'.disc = verify.disc
        /\ verify' = [at |-> verify'.at, unread |-> verify'.unread, disc |-> verify.disc]
        /\ verify'.at = "write" /\ Title \in DOMAIN tmds =>
             verify'.unread \/ tmds[Title].version < verify.disc.version
    <3>1. CASE Title \in DOMAIN tmds
               /\ Verifies(IF tmds[Title].version < verify.disc.version THEN "write" ELSE "uid")
      BY <1>3, <3>1
    <3>2. CASE verify' = [verify EXCEPT !.at = "write", !.unread = Title \in DOMAIN tmds]
      BY <1>v, <3>2
    <3> QED
      BY <1>5, <3>1, <3>2 DEF LoadOldTMD
  <2>3. BootShape' /\ UidFits' /\ Verifying'
    BY <1>1, <1>b, <2>1, <2>2 DEF LaunchInv, BootShape, UidFits, Verifying, Title
  <2> QED
    BY <1>1, <1>2, <2>1, <2>2, <2>3, SameFiles
<1>6. CASE DropTMD \/ MoveTMD \/ LeaveTMD
  <2>1. /\ verify.at \in {"write", "move"} /\ verify.disc \in Discs
        /\ UNCHANGED <<launch, disc, boot, uid, parted, verified, amiss>>
    BY <1>6 DEF DropTMD, MoveTMD, LeaveTMD, Card, LaunchInv, Verifying
  <2>2. \/ Replies \/ Verifies("move") \/ Verifies("uid")
    BY <1>6 DEF DropTMD, MoveTMD, LeaveTMD
  <2>3. /\ verify' = [at |-> verify'.at, unread |-> verify'.unread, disc |-> verify'.disc]
        /\ verify'.at = "none" \/ (verify'.at \in {"move", "uid"} /\ verify'.disc = verify.disc)
    BY <1>3, <2>2 DEF Replies, NoVerify
  <2>4. BootShape' /\ UidFits' /\ Verifying'
    BY <1>1, <1>b, <2>1, <2>3 DEF LaunchInv, BootShape, UidFits, Verifying
  <2> QED
    BY <1>1, <1>2, <2>1, <2>4, SameFiles
<1>7. CASE MakeUid
  <2>1. /\ verify.at = "uid" /\ verify.disc \in Discs
        /\ UNCHANGED <<launch, disc, boot, parted, verified, amiss>>
    BY <1>7 DEF MakeUid, Card, LaunchInv, Verifying
  <2>2. CASE uid' = Title /\ Verifies("gid")
    <3>1. verify' = [at |-> "gid", unread |-> verify.unread, disc |-> verify.disc]
      BY <1>3, <2>2
    <3>2. BootShape' /\ UidFits' /\ Verifying'
      BY <1>1, <1>b, <2>1, <2>2, <3>1 DEF LaunchInv, BootShape, UidFits, Verifying, Title
    <3> QED
      BY <1>1, <1>2, <2>1, <3>2, SameFiles
  <2>3. CASE uid' = uid /\ Replies
    <3>1. BootShape' /\ UidFits' /\ Verifying'
      BY <1>1, <1>b, <2>1, <2>3 DEF Replies, NoVerify, LaunchInv, BootShape, UidFits, Verifying
    <3> QED
      BY <1>1, <1>2, <2>1, <3>1, SameFiles
  <2> QED
    BY <1>7, <2>2, <2>3 DEF MakeUid
<1>8. CASE SetGid
  <2>1. /\ verify.at = "gid" /\ verify.disc \in Discs /\ uid = Title
        /\ UNCHANGED <<disc, uid, verified>>
    BY <1>8 DEF SetGid, LaunchInv, UidFits, Verifying
  <2>2. CASE parted' = (boot.title # Title) /\ Replies /\ UNCHANGED <<boot, launch, amiss>>
    <3>1. BootShape' /\ UidFits' /\ Verifying'
      BY <1>1, <1>b, <2>1, <2>2 DEF Replies, NoVerify, LaunchInv, BootShape, UidFits, Verifying
    <3> QED
      BY <1>1, <1>2, <2>1, <2>2, <3>1, SameFiles
  <2>3. CASE boot' = [boot EXCEPT !.title = Title] /\ parted' = FALSE
             /\ LaunchGoes /\ Verifies("disc")
    <3>1. verify' = [at |-> "disc", unread |-> verify.unread, disc |-> verify.disc]
      BY <1>3, <2>3
    <3>2. boot' = [at |-> "running", title |-> Title, ios |-> boot.ios, i |-> boot.i,
                   disc |-> boot.disc]
      BY <1>b, <2>3
    <3>3. BootShape' /\ UidFits' /\ Verifying'
      BY <2>1, <2>3, <3>1, <3>2 DEF LaunchInv, BootShape, UidFits, Verifying
    <3>4. ~amiss' => ~amiss /\ launch' = None
      BY <2>3 DEF LaunchGoes
    <3>5. UsedUp'
      BY <1>1, <2>1, <3>1, <3>2, <3>4 DEF LaunchInv, UsedUp, Early
    <3>6. OnTheWay' /\ RunsBehind'
      BY <1>1, <3>2 DEF LaunchInv, Early, OnTheWay, RunsBehind
    <3> QED
      BY <1>1, <1>2, <3>3, <3>5, <3>6 DEF LaunchInv
  <2> QED
    BY <1>8, <2>2, <2>3 DEF SetGid
<1>9. CASE DropDisc
  <2>1. /\ verify.at = "disc" /\ disc' = None
        /\ UNCHANGED <<launch, boot, uid, verify, verified, parted, amiss>>
    BY <1>9 DEF DropDisc
  <2>2. BootShape' /\ UidFits' /\ RunsBehind'
    BY <1>1, <2>1 DEF LaunchInv, BootShape, UidFits, RunsBehind, Title
  <2>3. Verifying'
    BY <2>1 DEF LaunchInv, Verifying
  <2>4. UsedUp' /\ OnTheWay'
    BY <1>1, <2>1 DEF LaunchInv, UsedUp, Early, OnTheWay
  <2> QED
    BY <1>1, <1>2, <2>2, <2>3, <2>4 DEF LaunchInv
<1>10. CASE WriteDisc
  <2>1. /\ verify.at = "disc" /\ verify.disc \in Discs /\ Replies /\ verified' = Title
        /\ UNCHANGED <<launch, boot, uid, parted>>
        /\ ~amiss' => disc' = Title /\ launch' = None
    BY <1>10 DEF WriteDisc, LaunchInv, Verifying
  <2>2. Title # None
    BY <2>1, Titled DEF Title
  <2>3. BootShape' /\ UidFits' /\ Verifying' /\ UsedUp'
    BY <1>1, <1>b, <2>1, <2>2
    DEF Replies, NoVerify, LaunchInv, BootShape, UidFits, Verifying, UsedUp, Early
  <2>4. OnTheWay' /\ RunsBehind'
    BY <1>1, <2>1 DEF LaunchInv, Early, OnTheWay, RunsBehind
  <2> QED
    BY <1>1, <1>2, <2>3, <2>4 DEF LaunchInv
<1> QED
  BY <1>1, <1>2, <1>4, <1>5, <1>6, <1>7, <1>8, <1>9, <1>10 DEF ESP_DIVerify

\* The power goes off.
LEMMA CutStep ==
  ASSUME LaunchInv, PowerOff
  PROVE  LaunchInv' /\ UNCHANGED tmds /\ ppc' = None
<1>1. /\ Restarts /\ UNCHANGED <<tmds, launch, disc, asked, amiss>>
      /\ lost' = (lost \/ ppc = None) /\ ppc' = None
  BY DEF PowerOff, Card, Restarts
<1>2. Right(Becomes(ToStart))'
  <2>1. CASE boot.at \in Early
    <3>1. Right(Becomes(ToStart))
      BY <2>1 DEF LaunchInv, OnTheWay
    <3> QED
      BY <1>1, <3>1 DEF Right, Becomes, ToStart
  <2>2. CASE boot.at \notin Early /\ ~amiss
    <3>1. Becomes(ToStart)' = MENU
      BY <1>1, <2>2, Titled DEF LaunchInv, UsedUp, ToStart, Becomes
    <3>2. ppc # None => asked = MENU
      BY DEF LaunchInv, RunsBehind
    <3> QED
      BY <1>1, <3>1, <3>2 DEF Right
  <2>3. CASE amiss
    BY <1>1, <2>3 DEF Right
  <2> QED
    BY <2>1, <2>2, <2>3
<1>3. TmdsFit'
  BY <1>1, SameTmds DEF LaunchInv
<1> QED
  BY <1>1, <1>2, <1>3, Restarted0

LEMMA LaunchStep ==
  ASSUME LaunchInv, [LANext]_lavars
  PROVE  LaunchInv' /\ ((ppc' # ppc /\ ppc' # None) => Right(ppc')) /\ TmdsStay
<1>1. UNCHANGED tmds => TmdsStay
  BY SameTmds DEF LaunchInv
<1>2. CASE ES_BootSystem
  BY <1>1, <1>2, BootStep
<1>3. ASSUME NEW t \in Wanted, LaunchTitle(t)
      PROVE  LaunchInv' /\ UNCHANGED tmds /\ (ppc' = ppc \/ ppc' = None)
  BY <1>3, LaunchesTitle
<1>4. ASSUME NEW t \in Wanted, SetTitleUID(t) PROVE LaunchInv' /\ UNCHANGED <<tmds, ppc>>
  BY <1>4, SetsUID
<1>5. CASE LaunchGC
  BY <1>1, <1>5, LaunchesGC
<1>6. CASE ESP_DIVerify \/ \E d \in Discs : DIVerify(d)
  BY <1>6, VerifyStep
<1>7. CASE PowerOff
  BY <1>1, <1>7, CutStep
<1>8. CASE UNCHANGED lavars
  <2>1. UNCHANGED <<tmds, launch, disc, boot, uid, ppc, asked, lost, verify, verified, parted,
                    amiss>>
    BY <1>8 DEF lavars
  <2>2. BootShape' /\ UsedUp' /\ UidFits' /\ RunsBehind' /\ TmdsFit'
    BY <2>1 DEF LaunchInv, BootShape, UsedUp, UidFits, RunsBehind, TmdsFit, Title
  <2>3. OnTheWay'
    BY <2>1 DEF LaunchInv, OnTheWay, Right, Becomes, ToStart
  <2>4. Verifying'
    BY <2>1 DEF LaunchInv, Verifying, Title
  <2> QED
    BY <1>1, <2>1, <2>2, <2>3, <2>4 DEF LaunchInv
<1> QED
  BY <1>1, <1>2, <1>3, <1>4, <1>5, <1>6, <1>7, <1>8 DEF LANext

LEMMA LaunchStarts == LAInit => LaunchInv
<1> SUFFICES ASSUME LAInit PROVE LaunchInv
  OBVIOUS
<1>1. TmdsFit
  BY ESLaunchAssumption DEF LAInit, TmdsFit, None
<1>2. Right(Becomes(ToStart))
  BY Titled DEF LAInit, Right, Becomes, ToStart
<1> QED
  BY <1>1, <1>2 DEF LAInit, At, NoVerify, LaunchInv, BootShape, UsedUp, UidFits, Early,
    OnTheWay, RunsBehind, Verifying

\* Between two requests the UID of a title that runs is the title's, but after a call
\* that failed between TitleID and the UID (ES_SetUID, or ES_DIVerify at the group);
\* and launch.sys and disc.sys are gone unless a disc was verified or one of them
\* could not be written or deleted, wherever the power went off.
THEOREM LaunchSafe == LASpec => []LaunchRight
<1>1. LaunchInv => LaunchRight
  BY DEF LaunchInv, LaunchRight, UidFits, UidIsTitle, UsedUp, NothingLeft, Idle, Early
<1>2. LaunchInv /\ [LANext]_lavars => LaunchInv'
  BY LaunchStep
<1> QED
  BY <1>1, <1>2, LaunchStarts, PTL DEF LASpec

\* What the PowerPC starts to run is what was asked for last; after a lost request
\* it is the menu, and it may be something else only if launch.sys or disc.sys could
\* not be written, deleted or read.
THEOREM AskedRuns == LASpec => RunsWhatWasAsked
<1>1. LaunchInv /\ [LANext]_lavars =>
        [(ppc' # ppc /\ ppc' # None) =>
           ppc' = asked \/ (ppc' = MENU /\ lost) \/ amiss]_lavars
  BY LaunchStep DEF Right
<1>2. LaunchInv /\ [LANext]_lavars => LaunchInv'
  BY LaunchStep
<1> QED
  BY <1>1, <1>2, LaunchStarts, PTL DEF LASpec, RunsWhatWasAsked

\* ES_DIVerify takes a TMD off the card only for that of a newer disc, or if it could
\* not load it, and no TMD gets older in its place.
THEOREM NeverOlder == LASpec => NoDowngrade
<1>1. LaunchInv /\ [LANext]_lavars =>
        [\A t \in DOMAIN tmds :
           \/ t \in DOMAIN tmds' /\ tmds'[t].version >= tmds[t].version
           \/ /\ verify.at = "write" /\ t = Title
              /\ verify.unread \/ tmds[t].version < verify.disc.version]_lavars
  BY LaunchStep DEF TmdsStay
<1>2. LaunchInv /\ [LANext]_lavars => LaunchInv'
  BY LaunchStep
<1> QED
  BY <1>1, <1>2, LaunchStarts, PTL DEF LASpec, NoDowngrade

-----------------------------------------------------------------------------
(***************************************************************************)
(* The image of a disc (Dump).                                             *)
(***************************************************************************)

\* The sectors from b + 1 on, k of them.
Run(b, k) == [i \in 1 .. k |-> b + i]

\* As long as no read has failed, what the parts hold is what was read so far, and
\* the open part is the one the next sector belongs to.
ReadSoFar ==
  /\ DVDOffset \in Nat /\ DVDOffset < Sectors[DVDType]
  /\ DVDOffset < Split => handle = 0 /\ parts[0] = Run(0, DVDOffset)
  /\ DVDOffset >= Split =>
       /\ handle = 1 /\ parts[0] = Run(0, Split)
       /\ parts[1] = Run(Split, DVDOffset - Split)

DumpInv ==
  /\ drive \in DOMAIN Sectors \cup {"other", Nothing}
  /\ DVDType \in DOMAIN Sectors \cup {Nothing}
  /\ DVDStatus \in {3, 4, 5} => DVDType # Nothing
  /\ parts = [p \in {0, 1} |-> parts[p]]
  /\ DVDStatus = 4 /\ clean /\ ~DVDError => ReadSoFar
  /\ ImageIsDisc

LEMMA RunGrows ==
  ASSUME NEW b \in Nat, NEW k \in Nat
  PROVE  Append(Run(b, k), b + k + 1) = Run(b, k + 1)
<1>1. Run(b, k) \in Seq(Nat) /\ Len(Run(b, k)) = k
  BY DEF Run
<1>2. PICK r \in Seq(Nat) : r = Run(b, k) /\ Len(r) = k
  BY <1>1
<1>3. \A i \in 1 .. k : r[i] = b + i
  BY <1>2 DEF Run
<1>4. PICK x \in Nat : x = b + k + 1
  OBVIOUS
<1>5. PICK s : s = Append(r, x)
  OBVIOUS
<1>6. s \in Seq(Nat) /\ Len(s) = k + 1
  BY <1>2, <1>5
<1>7. \A i \in 1 .. k + 1 : s[i] = b + i
  <2>1. \A i \in 1 .. k : s[i] = r[i]
    BY <1>2, <1>5
  <2>2. s[k + 1] = x
    BY <1>2, <1>5
  <2>3. \A i \in 1 .. k + 1 : i \in 1 .. k \/ i = k + 1
    OBVIOUS
  <2> QED
    BY <1>3, <1>4, <2>1, <2>2, <2>3
<1>8. s = [i \in 1 .. k + 1 |-> s[i]]
  BY <1>6
<1>9. s = Run(b, k + 1)
  BY <1>7, <1>8 DEF Run
<1> QED
  BY <1>2, <1>4, <1>5, <1>9

LEMMA SectorsFit ==
  /\ Split \in Nat \ {0} /\ Nothing \notin DOMAIN Sectors
  /\ \A t \in DOMAIN Sectors : Sectors[t] \in Nat \ {0}
BY DumpAssumption DEF Nothing

\* A sector that was read goes where it belongs.
LEMMA SectorWritten ==
  ASSUME DumpInv, ReadSector
  PROVE  DumpInv'
<1> DEFINE n == DVDOffset + 1
<1> DEFINE put == [parts EXCEPT ![handle] = Append(@, n)]
<1> DEFINE D == Sectors[DVDType]
<1> DEFINE over == n >= D
<1>1. DVDStatus = 4 /\ ~DVDError /\ UNCHANGED <<drive, DVDType, clean>>
  BY DEF ReadSector, Works, Drive
<1>2. DVDType \in DOMAIN Sectors /\ D \in Nat \ {0} /\ Split \in Nat \ {0}
  BY <1>1, SectorsFit DEF DumpInv
<1>3. PICK q \in 0 .. 2 : handle = q \/ ~clean
  BY <1>1, <1>2 DEF DumpInv, ReadSoFar
<1>4. put = [p \in {0, 1} |-> IF p = handle THEN Append(parts[p], n) ELSE parts[p]]
  BY DEF DumpInv
<1>5. \/ DVDError' = TRUE /\ UNCHANGED <<DVDStatus, DVDOffset, handle, parts>>
      \/ /\ DVDError' = TRUE /\ parts' = put /\ UNCHANGED DVDStatus
      \/ /\ DVDOffset' = n
         /\ parts' = IF n = Split THEN [put EXCEPT ![1] = <<>>] ELSE put
         /\ handle' = IF over THEN NoPart ELSE IF n = Split THEN 1 ELSE handle
         /\ DVDStatus' = IF over THEN 5 ELSE 4
         /\ DVDError' = FALSE
  BY DEF ReadSector, WriteSector
<1>6. CASE DVDError' = TRUE /\ UNCHANGED DVDStatus /\ (UNCHANGED parts \/ parts' = put)
  BY <1>1, <1>4, <1>6 DEF DumpInv, ImageIsDisc
<1>7. CASE /\ DVDOffset' = n
           /\ parts' = IF n = Split THEN [put EXCEPT ![1] = <<>>] ELSE put
           /\ handle' = IF over THEN NoPart ELSE IF n = Split THEN 1 ELSE handle
           /\ DVDStatus' = IF over THEN 5 ELSE 4
           /\ DVDError' = FALSE
  <2>1. parts' = [p \in {0, 1} |-> parts'[p]]
    BY <1>4, <1>7
  <2>2. SUFFICES ASSUME clean PROVE (DVDStatus = 4 => ReadSoFar)' /\ ImageIsDisc'
    BY <1>1, <1>7, <2>1 DEF DumpInv, ImageIsDisc
  <2>3. ReadSoFar /\ DVDOffset \in Nat /\ DVDOffset < D
    BY <1>1, <2>2 DEF DumpInv, ReadSoFar
  <2>4. ~over => n < D
    BY <1>2, <2>3
  <2>5. over => n = D
    BY <1>2, <2>3
  <2>6. CASE n < Split
    <3>1. handle = 0 /\ parts[0] = Run(0, DVDOffset)
      BY <1>2, <2>3, <2>6 DEF ReadSoFar
    <3>2. parts'[0] = Run(0, n)
      <4>1. parts'[0] = Append(parts[0], n)
        <5> HIDE DEF put
        <5>1. parts' = put
          BY <1>2, <1>7, <2>3, <2>6
        <5> QED
          BY <1>4, <3>1, <5>1
      <4>2. Append(Run(0, DVDOffset), 0 + DVDOffset + 1) = Run(0, n)
        BY <2>3, RunGrows
      <4> QED
        BY <2>3, <3>1, <4>1, <4>2
    <3>3. ~over => ReadSoFar'
      BY <1>1, <1>2, <1>7, <2>3, <2>4, <2>6, <3>1, <3>2 DEF ReadSoFar
    <3>4. over => ImageIsDisc'
      BY <1>1, <1>2, <2>5, <2>6, <3>2 DEF ImageIsDisc, Run
    <3> QED
      BY <1>7, <3>3, <3>4 DEF ImageIsDisc
  <2>7. CASE n = Split
    <3>1. handle = 0 /\ parts[0] = Run(0, DVDOffset)
      BY <1>2, <2>3, <2>7 DEF ReadSoFar
    <3>2. parts'[0] = Run(0, n) /\ parts'[1] = <<>>
      <4>1. parts'[0] = Append(parts[0], n) /\ parts'[1] = <<>>
        <5> HIDE DEF put
        <5>1. put[0] = Append(parts[0], n) /\ put = [p \in {0, 1} |-> put[p]]
          BY <1>4, <3>1
        <5>2. parts' = [put EXCEPT ![1] = <<>>]
          BY <1>7, <2>7
        <5> QED
          BY <5>1, <5>2
      <4>2. Append(Run(0, DVDOffset), 0 + DVDOffset + 1) = Run(0, n)
        BY <2>3, RunGrows
      <4> QED
        BY <2>3, <3>1, <4>1, <4>2
    <3>3. <<>> = Run(Split, 0)
      BY DEF Run
    <3>4. ~over => ReadSoFar'
      BY <1>1, <1>2, <1>7, <2>3, <2>4, <2>7, <3>2, <3>3 DEF ReadSoFar
    <3>5. over => ImageIsDisc'
      BY <1>1, <1>2, <2>5, <2>7, <3>2 DEF ImageIsDisc, Run
    <3> QED
      BY <1>7, <3>4, <3>5 DEF ImageIsDisc
  <2>8. CASE n > Split
    <3>1. /\ handle = 1 /\ parts[0] = Run(0, Split)
          /\ parts[1] = Run(Split, DVDOffset - Split) /\ DVDOffset - Split \in Nat
      BY <1>2, <2>3, <2>8 DEF ReadSoFar
    <3>2. parts'[0] = Run(0, Split) /\ parts'[1] = Run(Split, n - Split)
      <4>1. parts'[0] = parts[0] /\ parts'[1] = Append(parts[1], n)
        <5> HIDE DEF put
        <5>1. parts' = put
          BY <1>2, <1>7, <2>3, <2>8
        <5> QED
          BY <1>4, <3>1, <5>1
      <4>2. Append(Run(Split, DVDOffset - Split), Split + (DVDOffset - Split) + 1)
              = Run(Split, (DVDOffset - Split) + 1)
        BY <1>2, <3>1, RunGrows
      <4>3. Split + (DVDOffset - Split) + 1 = n /\ (DVDOffset - Split) + 1 = n - Split
        BY <1>2, <2>3
      <4> QED
        BY <3>1, <4>1, <4>2, <4>3
    <3>3. ~over => ReadSoFar'
      BY <1>1, <1>2, <1>7, <2>3, <2>4, <2>8, <3>1, <3>2 DEF ReadSoFar
    <3>4. over => ImageIsDisc'
      BY <1>1, <1>2, <2>5, <2>8, <3>2 DEF ImageIsDisc, Run
    <3> QED
      BY <1>7, <3>3, <3>4 DEF ImageIsDisc
  <2> QED
    BY <1>2, <2>3, <2>6, <2>7, <2>8
<1> QED
  BY <1>5, <1>6, <1>7

LEMMA DumpStep ==
  ASSUME DumpInv, [DUNext]_duvars
  PROVE  DumpInv'
<1> USE DEF DumpInv
<1>1. CASE FirstTick
  BY <1>1 DEF FirstTick, Image, ImageIsDisc
<1>2. CASE WaitForDisc
  BY <1>2 DEF WaitForDisc, Drive, Image, ImageIsDisc
<1>3. CASE Identify
  BY <1>3 DEF Identify, Works, Drive, Image, ImageIsDisc, Nothing
<1>4. CASE OpenImage
  <2>1. DVDStatus = 3 /\ DVDStatus' = 4 /\ UNCHANGED <<drive, DVDType, DVDOffset>>
    BY <1>4 DEF OpenImage, Works, Drive
  <2>2. DVDType \in DOMAIN Sectors /\ Sectors[DVDType] \in Nat \ {0} /\ Split \in Nat \ {0}
    BY <2>1, SectorsFit
  <2>3. CASE DVDError' = TRUE /\ UNCHANGED parts
    BY <2>1, <2>3 DEF ImageIsDisc
  <2>4. CASE handle' = 0 /\ parts' = [parts EXCEPT ![0] = <<>>]
    <3>1. parts' = [p \in {0, 1} |-> parts'[p]] /\ parts'[0] = <<>>
      BY <2>4
    <3>2. clean' => DVDOffset = 0
      BY <1>4 DEF OpenImage
    <3>3. clean' => ReadSoFar'
      BY <2>1, <2>2, <2>4, <3>1, <3>2 DEF ReadSoFar, Run
    <3> QED
      BY <2>1, <3>1, <3>3 DEF ImageIsDisc
  <2> QED
    BY <1>4, <2>3, <2>4 DEF OpenImage
<1>5. CASE ReadSector
  BY <1>5, SectorWritten
<1>6. CASE SkipSector
  <2>1. clean' = FALSE /\ DVDStatus = 4 /\ UNCHANGED <<drive, DVDType>>
    BY <1>6 DEF SkipSector, Works, Drive
  <2>2. parts' = [p \in {0, 1} |-> parts'[p]]
    BY <1>6 DEF SkipSector, WriteSector
  <2> QED
    BY <2>1, <2>2 DEF ImageIsDisc
<1>7. CASE RetrySector \/ ReadFails
  BY <1>7 DEF RetrySector, ReadFails, Works, Drive, Image, ImageIsDisc
<1>8. CASE Extract
  BY <1>8 DEF Extract, Works, Image, ImageIsDisc
<1>9. CASE ExtractNext
  <2>1. UNCHANGED <<drive, DVDStatus, DVDType, DVDError, Image>> /\ clean' \in {clean, FALSE}
    BY <1>9 DEF ExtractNext, Drive
  <2>2. CASE clean' = clean
    BY <2>1, <2>2 DEF Image, ImageIsDisc, ReadSoFar
  <2>3. CASE clean' = FALSE
    BY <2>1, <2>3 DEF Image, ImageIsDisc
  <2> QED
    BY <2>1, <2>2, <2>3
<1>10. CASE ExtractDone
  BY <1>10 DEF ExtractDone, Drive, Image, ImageIsDisc
<1>11. CASE StartDump
  BY <1>11 DEF StartDump, Image, ImageIsDisc
<1>12. CASE Eject
  BY <1>12 DEF Eject, Image, ImageIsDisc
<1>13. CASE Insert
  <2>1. UNCHANGED <<DVDStatus, DVDType, DVDError, clean, Image>>
        /\ drive' \in DOMAIN Sectors \cup {"other"}
    BY <1>13 DEF Insert
  <2> QED
    BY <2>1 DEF Image, ImageIsDisc, ReadSoFar
<1>14. CASE UNCHANGED duvars
  BY <1>14 DEF duvars, ImageIsDisc, ReadSoFar
<1> QED
  BY <1>1, <1>2, <1>3, <1>4, <1>5, <1>6, <1>7, <1>8, <1>9, <1>10, <1>11, <1>12, <1>13, <1>14
  DEF DUNext, DumpDoTick

\* An image that was begun at sector 0 and read without an error is the disc, cut at
\* Split into two parts, for discs and parts of any size (DumpDoTick opens the second
\* part when the last sector of the first is written).
THEOREM DumpSafe == DUSpec => []ImageIsDisc
<1>1. DUInit => DumpInv
  BY DEF DUInit, DumpInv, ImageIsDisc
<1>2. DumpInv => ImageIsDisc
  BY DEF DumpInv
<1> QED
  BY <1>1, <1>2, DumpStep, PTL DEF DUSpec

-----------------------------------------------------------------------------
(***************************************************************************)
(* The files of a disc (Dump).                                             *)
(***************************************************************************)

\* The bytes from p on.
From(p, n) == [i \in 1 .. n |-> p + i - 1]

\* The bytes of two clusters that follow each other are those of both.
LEMMA FromJoins ==
  ASSUME NEW p \in Nat, NEW m \in Nat, NEW n \in Nat
  PROVE  From(p, m) \o From(p + m, n) = From(p, m + n)
<1> DEFINE s == From(p, m)
           t == From(p + m, n)
<1>1. s \in Seq(Int) /\ Len(s) = m /\ \A i \in 1 .. m : s[i] = p + i - 1
  BY DEF From
<1>2. t \in Seq(Int) /\ Len(t) = n /\ \A i \in 1 .. n : t[i] = p + m + i - 1
  BY DEF From
<1>3. /\ s \o t \in Seq(Int) /\ Len(s \o t) = m + n
      /\ \A i \in 1 .. m + n : (s \o t)[i] = p + i - 1
  <2> HIDE DEF s, t
  <2>1. /\ s \o t \in Seq(Int) /\ Len(s \o t) = Len(s) + Len(t)
        /\ \A i \in 1 .. Len(s) + Len(t) :
             (s \o t)[i] = IF i <= Len(s) THEN s[i] ELSE t[i - Len(s)]
    BY <1>1, <1>2, ConcatProperties, Zenon
  <2> QED
    BY <1>1, <1>2, <2>1
<1>4. s \o t = [i \in 1 .. m + n |-> p + i - 1]
  <2> HIDE DEF s, t
  <2>1. s \o t \in [1 .. m + n -> Int]
    BY <1>3, LenProperties
  <2> QED
    BY <1>3, <2>1
<1> QED
  BY <1>4 DEF From

\* How much is written after k clusters, of size bytes from at in the first.
Filled(k, at, size) ==
  IF k = 0 THEN 0
  ELSE IF (k * ClusterData) - at < size THEN (k * ClusterData) - at ELSE size

LEMMA ClusterRight ==
  ASSUME NEW c \in Nat, NEW at \in 0 .. ClusterData - 1, NEW size \in Nat,
         NEW k \in Nat, k # 0
  PROVE  /\ Filled(k - 1, at, size) \in Nat
         /\ NextCluster(From((c * ClusterData) + at, Filled(k - 1, at, size)), k, c, at, size)
              = From((c * ClusterData) + at, Filled(k, at, size))
<1> USE DumpAssumption
<1> DEFINE m == k - 1
           o == (c * ClusterData) + at
           d == Filled(m, at, size)
           a == IF k = 1 THEN at ELSE 0
           left == size - d
           w == IF a + left > ClusterData THEN ClusterData - a ELSE left
<1>1. PICK x : x = m * ClusterData
  OBVIOUS
<1>2. PICK y : y = c * ClusterData
  OBVIOUS
<1>3. /\ x \in Nat /\ y \in Nat /\ m \in Nat
      /\ k * ClusterData = x + ClusterData
      /\ (c + k - 1) * ClusterData = y + x
      /\ m = 0 => x = 0
      /\ m # 0 => x >= ClusterData
  <2>1. x \in Nat /\ y \in Nat /\ m \in Nat
    BY <1>1, <1>2
  <2>2. k * ClusterData = x + ClusterData /\ (c + k - 1) * ClusterData = y + x /\ (m = 0 => x = 0)
    BY <1>1, <1>2
  <2>3. ASSUME m # 0 PROVE x >= ClusterData
    <3>1. m - 1 \in Nat /\ x = (m - 1) * ClusterData + ClusterData
      BY <1>1, <2>1, <2>3
    <3>2. (m - 1) * ClusterData \in Nat
      BY <3>1
    <3> QED
      BY <3>1, <3>2
  <2> QED
    BY <2>1, <2>2, <2>3
<1>4. /\ d = IF m = 0 THEN 0 ELSE IF x - at < size THEN x - at ELSE size
      /\ Filled(k, at, size) = IF x + ClusterData - at < size THEN x + ClusterData - at ELSE size
  BY <1>1, <1>3 DEF Filled
<1>5. /\ d \in Nat /\ w \in Nat
      /\ d + w = Filled(k, at, size)
      /\ w = 0 \/ y + x + a = o + d
  <2> HIDE DEF d, m
  <2> QED
    BY <1>2, <1>3, <1>4 DEF m
<1>6. Len(From(o, d)) = d
  <2> HIDE DEF d
  <2> QED
    BY <1>2, <1>3, <1>5 DEF From
<1>7. [i \in 1 .. w |-> ((c + k - 1) * ClusterData) + a + i - 1] = From(o + d, w)
  <2>1. (c + k - 1) * ClusterData = y + x
    BY <1>3
  <2> HIDE DEF d, w, a, o
  <2>2. CASE w = 0
    BY <2>2, <1>5 DEF From
  <2>3. CASE w # 0
    <3>1. \A i \in 1 .. w : ((c + k - 1) * ClusterData) + a + i - 1 = o + d + i - 1
      <4>1. y + x + a = o + d
        BY <1>5, <2>3
      <4>2. a \in Int /\ d \in Int /\ o \in Int
        BY <1>2, <1>3, <1>5 DEF a, o
      <4> QED
        BY <4>1, <4>2, <2>1, <1>3
    <3> QED
      BY <3>1 DEF From
  <2> QED
    BY <2>2, <2>3
<1>8. NextCluster(From(o, d), k, c, at, size) = From(o, d) \o From(o + d, w)
  BY <1>6, <1>7 DEF NextCluster
<1>9. o \in Nat
  BY <1>2, <1>3
<1>10. From(o, d) \o From(o + d, w) = From(o, d + w)
  <2> HIDE DEF d, w, o
  <2> QED
    BY <1>5, <1>9, FromJoins
<1> QED
  BY <1>5, <1>8, <1>10

\* Enough clusters hold the whole file.
LEMMA AllWritten ==
  ASSUME NEW at \in 0 .. ClusterData - 1, NEW size \in Nat
  PROVE  Filled(size, at, size) = size
<1> USE DumpAssumption
<1>1. CASE size = 0
  BY <1>1 DEF Filled
<1>2. CASE size # 0
  <2>1. PICK z : z = (size - 1) * ClusterData
    OBVIOUS
  <2>2. z \in Nat /\ size * ClusterData = z + ClusterData /\ z >= size - 1
    <3>1. size - 1 \in Nat /\ ClusterData - 1 \in Nat
      BY <1>2
    <3>2. (size - 1) * (ClusterData - 1) \in Nat
      BY <3>1
    <3>3. z = ((size - 1) * (ClusterData - 1)) + (size - 1)
      BY <2>1, <3>1
    <3>4. size * ClusterData = z + ClusterData
      BY <2>1, <3>1
    <3> QED
      BY <3>1, <3>2, <3>3, <3>4
  <2> QED
    BY <1>2, <2>2 DEF Filled
<1> QED
  BY <1>1, <1>2

\* The loop that writes cluster after cluster does so.
LEMMA ClusterLoop ==
  ASSUME NEW c \in Nat, NEW at \in 0 .. ClusterData - 1, NEW size \in Nat
  PROVE  Clusters(c, at, size) = From((c * ClusterData) + at, size)
<1> USE DumpAssumption
<1> DEFINE f == CHOOSE g : g = [k \in Nat |-> IF k = 0 THEN <<>>
                                  ELSE NextCluster(g[k - 1], k, c, at, size)]
           o == (c * ClusterData) + at
           h == [k \in Nat |-> From(o, Filled(k, at, size))]
           S == {k \in Nat : f[k] = From(o, Filled(k, at, size))}
<1>1. \A k \in Nat : k # 0 => h[k] = NextCluster(h[k - 1], k, c, at, size)
  <2> TAKE k \in Nat
  <2> HAVE k # 0
  <2>1. k - 1 \in Nat
    OBVIOUS
  <2>2. h[k - 1] = From(o, Filled(k - 1, at, size))
    BY <2>1
  <2> QED
    BY <2>2, ClusterRight
<1>2. From(o, 0) = <<>>
  BY DEF From
<1>3. h[0] = <<>>
  BY <1>2 DEF Filled
<1>4. h = [k \in Nat |-> IF k = 0 THEN <<>> ELSE NextCluster(h[k - 1], k, c, at, size)]
  <2>1. \A k \in Nat : h[k] = IF k = 0 THEN <<>> ELSE NextCluster(h[k - 1], k, c, at, size)
    BY <1>1, <1>3
  <2> QED
    BY <2>1
<1>5. f = [k \in Nat |-> IF k = 0 THEN <<>> ELSE NextCluster(f[k - 1], k, c, at, size)]
  <2> HIDE DEF h
  <2> QED
    BY <1>4
<1> HIDE DEF f
<1>6. f[0] = <<>> /\ \A k \in Nat : k # 0 => f[k] = NextCluster(f[k - 1], k, c, at, size)
  BY <1>5
<1>7. 0 \in S
  BY <1>2, <1>6 DEF Filled
<1>8. ASSUME NEW k \in Nat, k \in S PROVE k + 1 \in S
  <2>1. f[k] = From(o, Filled(k, at, size))
    BY <1>8
  <2>2. k + 1 \in Nat /\ k + 1 # 0 /\ (k + 1) - 1 = k
    OBVIOUS
  <2>3. f[k + 1] = NextCluster(f[k], k + 1, c, at, size)
    BY <1>6, <2>2
  <2>4. NextCluster(From(o, Filled(k, at, size)), k + 1, c, at, size)
          = From(o, Filled(k + 1, at, size))
    <3>1. PICK j \in Nat : j = k + 1
      BY <2>2
    <3>2. k = j - 1 /\ j # 0
      BY <2>2, <3>1
    <3>3. NextCluster(From(o, Filled(j - 1, at, size)), j, c, at, size)
            = From(o, Filled(j, at, size))
      BY <3>2, ClusterRight
    <3> QED
      BY <3>1, <3>2, <3>3
  <2> QED
    BY <2>1, <2>2, <2>3, <2>4
<1>9. \A k \in Nat : k \in S
  <2> HIDE DEF S
  <2> QED
    BY <1>7, <1>8, NatInduct
<1>10. f[size] = From(o, size)
  BY <1>9, AllWritten
<1>11. Clusters(c, at, size) = f[size]
  BY DEF Clusters, f
<1> QED
  BY <1>10, <1>11

\* ExtractFile gets the bytes of a file, if the place of its first cluster is one
\* that 32 bits can hold.
LEMMA ExtractedRight ==
  ASSUME NEW o \in Nat, NEW size \in Nat, (o \div ClusterData) * Cluster < Word
  PROVE  Extracted(o, size) = From(o, size)
<1> USE DumpAssumption
<1>1. PICK div : div = o \div ClusterData
  OBVIOUS
<1>2. PICK at : at = o % ClusterData
  OBVIOUS
<1>3. /\ div \in Nat /\ at \in 0 .. ClusterData - 1
      /\ o = (div * ClusterData) + at
  BY <1>1, <1>2
<1>4. div * Cluster \in Nat /\ div * ClusterData \in Nat /\ div * ClusterData <= div * Cluster
  <2>1. Cluster - ClusterData \in Nat
    OBVIOUS
  <2>2. div * (Cluster - ClusterData) \in Nat
    BY <1>3, <2>1
  <2>3. div * Cluster \in Nat /\ div * ClusterData \in Nat
    BY <1>3
  <2>4. div * Cluster = div * (Cluster - ClusterData) + div * ClusterData
    BY <1>3, <2>1
  <2> QED
    BY <2>2, <2>3, <2>4
<1>5. /\ (div * Cluster) % Word = div * Cluster
      /\ (div * ClusterData) % Word = div * ClusterData
  <2>1. PICK x : x = div * Cluster
    OBVIOUS
  <2>2. PICK y : y = div * ClusterData
    OBVIOUS
  <2>3. x % Word = x /\ y % Word = y
    BY <1>1, <1>4, <2>1, <2>2
  <2> QED
    BY <2>1, <2>2, <2>3
<1>6. (div * Cluster) \div Cluster = div
  BY <1>3
<1>7. o - (div * ClusterData) = at /\ ~ (at >= ClusterData)
  BY <1>3, <1>4
<1>8. Extracted(o, size) = Clusters(div, at, size)
  BY <1>1, <1>5, <1>6, <1>7 DEF Extracted
<1> QED
  BY <1>3, <1>8, ClusterLoop

\* The files found so far are as many as were counted, none of them is above the
\* last one, and each is right.
FilesInv ==
  /\ ex.on => DVDStatus = 6
  /\ fst = <<>> \/ fst \in Fsts
  /\ DOMAIN ex = {"on", "old", "got", "count"}
  /\ ex.old \in Nat /\ ex.count \in Nat /\ DOMAIN ex.got = DOMAIN fst
  /\ \E D \in SUBSET DOMAIN fst :
       /\ Cardinality(D) = ex.count
       /\ \A i \in D : fst[i].offset <= ex.old /\ ex.got[i] = From(fst[i].offset, fst[i].size)
  /\ DVDStatus = 7 => ex.count = Len(fst)

\* 32 bits hold the place on the disc of the first cluster of every file.
InReach ==
  \A l \in Fsts : \A i \in DOMAIN l : (l[i].offset \div ClusterData) * Cluster < Word

LEMMA FilesStart == DUInit => FilesInv
<1>1. Cardinality({}) = 0
  BY FS_EmptySet
<1> QED
  BY <1>1 DEF DUInit, FilesInv

\* The file found next is above all found before, and so a new one.
LEMMA ExtractNextKeeps ==
  ASSUME InReach, FilesInv, ExtractNext
  PROVE  FilesInv'
<1>1. PICK i \in Above :
        ex' = [ex EXCEPT !.old = fst[i].offset, !.count = @ + 1,
                         !.got[i] = Extracted(fst[i].offset, fst[i].size)]
  BY DEF ExtractNext
<1>2. PICK D \in SUBSET DOMAIN fst :
        /\ Cardinality(D) = ex.count
        /\ \A j \in D : fst[j].offset <= ex.old /\ ex.got[j] = From(fst[j].offset, fst[j].size)
  BY DEF FilesInv
<1>3. /\ ex.on /\ DVDStatus = 6 /\ DVDStatus' = 6 /\ fst' = fst /\ fst \in Fsts
      /\ i \in DOMAIN fst /\ fst[i].offset > ex.old /\ DOMAIN ex.got = DOMAIN fst
      /\ DOMAIN ex = {"on", "old", "got", "count"}
  /\ ex.old \in Nat /\ ex.count \in Nat
  BY <1>1 DEF FilesInv, ExtractNext, Drive, Above
<1>4. fst \in Seq([offset : Nat, size : Nat]) /\ Len(fst) \in Nat /\ DOMAIN fst = 1 .. Len(fst)
  BY <1>3, DumpAssumption
<1>5. \A j \in DOMAIN fst : fst[j].offset \in Nat /\ fst[j].size \in Nat
  <2>1. \A j \in 1 .. Len(fst) : fst[j] \in [offset : Nat, size : Nat]
    BY <1>4, ElementOfSeq
  <2> QED
    BY <1>4, <2>1
<1>6. (fst[i].offset \div ClusterData) * Cluster < Word
  BY <1>3 DEF InReach
<1>7. Extracted(fst[i].offset, fst[i].size) = From(fst[i].offset, fst[i].size)
  BY <1>3, <1>5, <1>6, ExtractedRight
<1>8. IsFiniteSet(D) /\ i \notin D
  <2>1. IsFiniteSet(1 .. Len(fst))
    BY <1>4, FS_Interval
  <2>2. IsFiniteSet(D)
    BY <1>4, <2>1, FS_Subset
  <2>3. i \notin D
    BY <1>2, <1>3, <1>5
  <2> QED
    BY <2>2, <2>3
<1>9. Cardinality(D \cup {i}) = ex.count + 1
  BY <1>2, <1>8, FS_AddElement
<1>10. ex'.on = ex.on /\ ex'.old = fst[i].offset /\ ex'.count = ex.count + 1
       /\ ex'.got = [ex.got EXCEPT ![i] = Extracted(fst[i].offset, fst[i].size)]
  BY <1>1 DEF FilesInv
<1>11. \A j \in D \cup {i} : fst'[j].offset <= ex'.old
                             /\ ex'.got[j] = From(fst'[j].offset, fst'[j].size)
  BY <1>2, <1>3, <1>5, <1>7, <1>10
<1>12. D \cup {i} \in SUBSET DOMAIN fst'
  BY <1>2, <1>3
<1>13. /\ ex'.on => DVDStatus' = 6
       /\ fst' \in Fsts
       /\ ex'.old \in Nat /\ ex'.count \in Nat
       /\ DOMAIN ex'.got = DOMAIN fst' /\ DVDStatus' # 7
  BY <1>3, <1>5, <1>10
<1>14. DOMAIN ex' = {"on", "old", "got", "count"}
  BY <1>1 DEF FilesInv
<1>15. Cardinality(D \cup {i}) = ex'.count
  BY <1>9, <1>10
<1> QED
  BY <1>11, <1>12, <1>13, <1>14, <1>15 DEF FilesInv

\* No other step changes what was extracted before the next disc is.
LEMMA FilesStep ==
  ASSUME InReach, FilesInv, [DUNext]_duvars
  PROVE  FilesInv'
<1> DEFINE Kept == UNCHANGED <<fst, ex>> /\ (DVDStatus' = 7 => DVDStatus = 7)
<1> USE DEF Image, Drive, Works
<1>1. CASE Extract
  <2>1. DVDStatus' = 6 /\ DVDStatus = 6
    BY <1>1 DEF Extract
  <2>2. Cardinality({}) = 0
    BY FS_EmptySet
  <2> QED
    BY <1>1, <2>1, <2>2 DEF Extract, FilesInv
<1>2. CASE ExtractNext
  BY <1>2, ExtractNextKeeps
<1>3. CASE ExtractDone
  BY <1>3 DEF ExtractDone, FilesInv
<1>4. CASE ~ ex.on /\ (FirstTick \/ WaitForDisc \/ Identify \/ OpenImage)
  <2>1. Kept
    <3>1. FirstTick \/ WaitForDisc => Kept
      BY DEF FirstTick, WaitForDisc
    <3>2. Identify => Kept
      BY DEF Identify
    <3>3. OpenImage => Kept
      BY DEF OpenImage
    <3> QED
      BY <1>4, <3>1, <3>2, <3>3
  <2> QED
    BY <1>4, <2>1 DEF FilesInv
<1>5. CASE ~ ex.on /\ (ReadSector \/ SkipSector \/ RetrySector \/ ReadFails)
  <2>1. Kept
    BY <1>5 DEF ReadSector, SkipSector, RetrySector, ReadFails, WriteSector
  <2> QED
    BY <1>5, <2>1 DEF FilesInv
<1>6. CASE StartDump
  BY <1>6 DEF StartDump, FilesInv
<1>7. CASE Eject \/ Insert \/ UNCHANGED duvars
  BY <1>7 DEF Eject, Insert, duvars, FilesInv
<1> QED
  BY <1>1, <1>2, <1>3, <1>4, <1>5, <1>6, <1>7 DEF DUNext, DumpDoTick

\* As many files as there are were found, each another: all were.
LEMMA AllFound == FilesInv => FilesAreRight
<1> SUFFICES ASSUME FilesInv, DVDStatus = 7
             PROVE  \A i \in DOMAIN fst :
                      ex.got[i] = [k \in 1 .. fst[i].size |-> fst[i].offset + k - 1]
  BY DEF FilesAreRight
<1>1. PICK D \in SUBSET DOMAIN fst :
        /\ Cardinality(D) = Len(fst)
        /\ \A j \in D : ex.got[j] = From(fst[j].offset, fst[j].size)
  BY DEF FilesInv
<1>2. fst \in Seq([offset : Nat, size : Nat])
  <2>1. <<>> \in Seq([offset : Nat, size : Nat])
    OBVIOUS
  <2> QED
    BY <2>1, DumpAssumption DEF FilesInv
<1>3. Len(fst) \in Nat /\ DOMAIN fst = 1 .. Len(fst)
  BY <1>2
<1>4. IsFiniteSet(1 .. Len(fst)) /\ Cardinality(1 .. Len(fst)) = Len(fst)
  BY <1>3, FS_Interval
<1>5. D = DOMAIN fst
  BY <1>1, <1>3, <1>4, FS_Subset
<1> QED
  BY <1>1, <1>5 DEF From

\* What is dumped is what the disc has: an image begun at its first sector and
\* read without an error is the disc, cut in two parts, and each file extracted
\* is the one the table names, for any sizes of discs and parts, any clusters and
\* any file tables that 32 bits reach (Dump.c: DumpDoTick, ExtractFile).
THEOREM DumpIsRight ==
  ASSUME InReach
  PROVE  DUSpec => []DumpRight
<1>1. FilesInv /\ [DUNext]_duvars => FilesInv'
  BY FilesStep
<1>2. DumpRight <=> ImageIsDisc /\ FilesAreRight
  BY DEF DumpRight
<1> QED
  BY <1>1, <1>2, FilesStart, AllFound, DumpSafe, PTL DEF DUSpec

-----------------------------------------------------------------------------
(***************************************************************************)
(* Contents, counts and lists (ESContent).                                 *)
(***************************************************************************)

TmdOf(t, tmd) == tmd \in Tmds[t] \/ tmd = NoTMD

CardFits ==
  /\ nand = [tmd |-> nand.tmd, apps |-> nand.apps, views |-> nand.views, map |-> nand.map]
  /\ nand.tmd = [t \in Titles |-> nand.tmd[t]]
  /\ \A t \in Titles : TmdOf(t, nand.tmd[t])
  /\ nand.apps = [t \in Titles |-> nand.apps[t]]
  /\ nand.views \in [Titles -> Nat]
  /\ nand.map \in Seq(Nat)

\* In the directory of a title is what some TMD of it names as its own.
AppsOwn ==
  \A t \in Titles : \A n \in nand.apps[t] :
    \E tmd \in Tmds[t] : \E i \in DOMAIN tmd : tmd[i].id = n /\ ~tmd[i].shared

MapFits == ~CNTMapDirty => CNTMap = nand.map

\* A held handle has open what was asked for, which nobody else closes.
HandlesFit ==
  /\ ffs = [h \in FFSHandles |-> ffs[h]]
  /\ DOMAIN held \subseteq FFSHandles
  /\ \A h \in DOMAIN held : ffs[h] = held[h] /\ held[h].what \in {"app", "shared"}
  /\ HandlesOwned

SessionFits ==
  /\ TitleID \in Titles
  /\ session.op # "none" =>
       /\ session.op \in {"import", "export"} /\ session.title \in Titles
       /\ session.tmd \in Tmds[session.title]
  /\ SessionHasTmd
  /\ iTMD.at = "freed" => ended = "export"

\* The contents of a TMD that are there, whether or not a handle is free.
There(tmd, t) ==
  {i \in DOMAIN tmd : IF tmd[i].shared THEN \E k \in 1 .. Len(nand.map) : nand.map[k] = tmd[i].id
                      ELSE tmd[i].id \in nand.apps[t]}

\* What a count that is not out of date is the number of.
Amount(kind, t, tmd) ==
  CASE kind = "contents"     -> Cardinality(There(nand.tmd[t], t))
    [] kind = "tmd contents" -> Cardinality(There(tmd, t))
    [] kind = "shared"       -> Len(nand.map)
    [] kind = "views"        -> nand.views[t]
    [] OTHER                 -> Len(nand.tmd[t])

Kinds == {"contents", "tmd contents", "shared", "views", "view", "tmd", "di"}
CountFits ==
  \/ counted = NoCount
  \/ /\ counted = [kind |-> counted.kind, title |-> counted.title, tmd |-> counted.tmd,
                   n |-> counted.n, old |-> counted.old]
     /\ counted.kind \in Kinds /\ counted.title \in Titles /\ TmdOf(counted.title, counted.tmd)
     /\ counted.old \in BOOLEAN
     /\ ~counted.old => counted.n = Amount(counted.kind, counted.title, counted.tmd)

ToldFits == NotFoundIsGone /\ ListFitsCount

ContentInv ==
  CardFits /\ AppsOwn /\ MapFits /\ HandlesFit /\ SessionFits /\ CountFits /\ ToldFits

-----------------------------------------------------------------------------
LEMMA TmdIs ==
  ASSUME NEW t \in Titles, NEW tmd, TmdOf(t, tmd)
  PROVE  /\ tmd \in Seq([index : Nat, id : Nat, shared : BOOLEAN])
         /\ Len(tmd) \in Nat /\ DOMAIN tmd = 1 .. Len(tmd) /\ IsFiniteSet(DOMAIN tmd)
         /\ \A i \in DOMAIN tmd : tmd[i].id \in Nat /\ tmd[i].shared \in BOOLEAN
         /\ \A i, j \in DOMAIN tmd : tmd[i].index = tmd[j].index => i = j
<1> DEFINE R == [index : Nat, id : Nat, shared : BOOLEAN]
<1>1. tmd \in Seq(R)
  <2>1. Tmds[t] \subseteq Seq(R)
    BY ESContentAssumption
  <2> HIDE DEF R
  <2>2. <<>> \in Seq(R)
    OBVIOUS
  <2> QED
    BY <2>1, <2>2 DEF TmdOf, NoTMD
<1>2. Len(tmd) \in Nat /\ DOMAIN tmd = 1 .. Len(tmd)
  BY <1>1
<1>3. IsFiniteSet(1 .. Len(tmd))
  BY <1>2, FS_Interval
<1>4. \A i \in DOMAIN tmd : tmd[i].id \in Nat /\ tmd[i].shared \in BOOLEAN
  <2>1. \A i \in DOMAIN tmd : tmd[i] \in R
    <3> HIDE DEF R
    <3> QED
      BY <1>1
  <2> QED
    BY <2>1
<1>5. \A i, j \in DOMAIN tmd : tmd[i].index = tmd[j].index => i = j
  BY ESContentAssumption DEF TmdOf, NoTMD
<1> QED
  BY <1>1, <1>2, <1>3, <1>4, <1>5

\* A search finds the place of what it looks for, or that there is none.
LEMMA FoundAt ==
  ASSUME NEW tmd, NEW index, Len(tmd) \in Nat
  PROVE  \/ /\ ContentAt(tmd, index) = 0
            /\ \A i \in 1 .. Len(tmd) : tmd[i].index # index
         \/ /\ ContentAt(tmd, index) \in 1 .. Len(tmd)
            /\ tmd[ContentAt(tmd, index)].index = index
<1> DEFINE I == {i \in 1 .. Len(tmd) : tmd[i].index = index}
<1>1. ContentAt(tmd, index) = IF I # {} THEN Min(I) ELSE 0
  BY DEF ContentAt, SelectInSeq
<1>2. I # {} => Min(I) \in I
  BY Least
<1> QED
  BY <1>1, <1>2

LEMMA FoundShared ==
  ASSUME NEW id, NEW loads, NEW map, map = MapNow(loads), Len(map) \in Nat
  PROVE  \/ GetSharedContentID(id, loads) = 0 /\ \A i \in 1 .. Len(map) : map[i] # id
         \/ /\ GetSharedContentID(id, loads) \in 1 .. Len(map)
            /\ map[GetSharedContentID(id, loads)] = id
<1> DEFINE I == {i \in 1 .. Len(map) : map[i] = id}
<1>1. GetSharedContentID(id, loads) = IF I # {} THEN Min(I) ELSE 0
  BY DEF GetSharedContentID, SelectInSeq
<1>2. I # {} => Min(I) \in I
  BY Least
<1> QED
  BY <1>1, <1>2

\* What a TMD names at an index is the content with that index.
LEMMA NamedIs ==
  ASSUME NEW t \in Titles, NEW tmd, TmdOf(t, tmd), NEW i \in DOMAIN tmd
  PROVE  Named(t, tmd, tmd[i].index) =
           IF tmd[i].shared THEN SharedApp(tmd[i].id) ELSE App(t, tmd[i])
<1> DEFINE cs == {c \in Range(tmd) : c.index = tmd[i].index}
<1>1. cs = {tmd[i]}
  BY TmdIs DEF Range
<1>2. (CHOOSE d \in cs : TRUE) = tmd[i]
  BY <1>1
<1> HIDE DEF cs
<1>3. cs # {} /\ Named(t, tmd, tmd[i].index) =
        LET c == CHOOSE d \in cs : TRUE
        IN  IF cs = {} THEN Unopened ELSE IF c.shared THEN SharedApp(c.id) ELSE App(t, c)
  BY <1>1 DEF Named, cs
<1> QED
  BY <1>2, <1>3

LEMMA SlotFree == Room => Slot \in FFSHandles /\ ffs[Slot] = Unopened
BY DEF Room, Slot

\* The copy of content.map in use is the file, or nothing if it could not be loaded.
MapMoves == MapUnused \/ \E loads \in BOOLEAN : MapUsed(loads)

LEMMA MapIs ==
  ASSUME MapFits, NEW loads \in BOOLEAN
  PROVE  /\ MapNow(loads) = nand.map \/ MapNow(loads) = <<>>
         /\ ~CNTMapDirty \/ loads => MapNow(loads) = nand.map
         /\ Room /\ nand.map # <<>> => LoadsMap
BY DEF MapFits, MapNow, LoadsMap

LEMMA MapStep ==
  ASSUME MapFits, MapMoves, UNCHANGED nand
  PROVE  MapFits'
BY DEF MapFits, MapMoves, MapUsed, MapUnused, MapNow

LEMMA MapSearchedMoves ==
  ASSUME NEW tmd, NEW failed, MapSearched(tmd, failed)
  PROVE  MapMoves
<1>1. LoadedBy(tmd, Len(tmd), failed) \in BOOLEAN
  BY DEF LoadedBy, LoadsMap
<1> QED
  BY <1>1 DEF MapSearched, MapMoves

\* The contents that are found are there, and all that are if no file fails.
LEMMA OnCardIs ==
  ASSUME ContentInv, NEW t \in Titles, NEW tmd, TmdOf(t, tmd), NEW failed
  PROVE  /\ Cardinality(OnCard(tmd, t, failed)) \in Nat /\ Cardinality(There(tmd, t)) \in Nat
         /\ Cardinality(OnCard(tmd, t, failed)) <= Cardinality(There(tmd, t))
         /\ Room /\ failed = {} => OnCard(tmd, t, failed) = There(tmd, t)
<1>1. nand.map \in Seq(Nat) /\ DOMAIN nand.map = 1 .. Len(nand.map)
  BY DEF ContentInv, CardFits
<1>2. ASSUME NEW i \in DOMAIN tmd, NEW loads \in BOOLEAN, ES_CheckSharedContent(tmd[i].id, loads)
      PROVE  \E k \in 1 .. Len(nand.map) : nand.map[k] = tmd[i].id
  <2>1. MapNow(loads) # <<>>
    BY <1>2 DEF ES_CheckSharedContent, Range
  <2>2. MapNow(loads) = nand.map
    BY <2>1, MapIs DEF ContentInv
  <2> QED
    BY <1>1, <1>2, <2>2 DEF ES_CheckSharedContent, Range
<1>3. \A i : LoadedBy(tmd, i, failed) \in BOOLEAN
  BY DEF LoadedBy, LoadsMap
<1>4. OnCard(tmd, t, failed) \subseteq There(tmd, t)
  <2> SUFFICES ASSUME NEW i \in OnCard(tmd, t, failed) PROVE i \in There(tmd, t)
    OBVIOUS
  <2>1. i \in DOMAIN tmd
    BY DEF OnCard
  <2>2. CASE tmd[i].shared
    <3>1. ES_CheckSharedContent(tmd[i].id, LoadedBy(tmd, i, failed))
      BY <2>2 DEF OnCard
    <3>2. \E k \in 1 .. Len(nand.map) : nand.map[k] = tmd[i].id
      BY <1>2, <1>3, <2>1, <3>1
    <3> QED
      BY <2>1, <2>2, <3>2 DEF There
  <2>3. CASE ~tmd[i].shared
    BY <2>1, <2>3 DEF OnCard, There
  <2> QED
    BY <2>2, <2>3
<1>5. Room /\ failed = {} => OnCard(tmd, t, failed) = There(tmd, t)
  <2> SUFFICES ASSUME Room, failed = {}, NEW i \in There(tmd, t)
               PROVE  i \in OnCard(tmd, t, failed)
    BY <1>4
  <2>1. i \in DOMAIN tmd /\ DOMAIN tmd = 1 .. Len(tmd) /\ Len(tmd) \in Nat
    BY TmdIs DEF There
  <2>2. CASE tmd[i].shared
    <3>1. PICK k \in 1 .. Len(nand.map) : nand.map[k] = tmd[i].id
      BY <2>2 DEF There
    <3>2. LoadsMap
      <4>1. nand.map # <<>>
        BY <1>1, <3>1
      <4> QED
        BY <4>1 DEF LoadsMap
    <3>3. LoadedBy(tmd, i, failed)
      BY <2>1, <2>2, <3>2 DEF LoadedBy
    <3>4. MapNow(LoadedBy(tmd, i, failed)) = nand.map
      BY <1>3, <3>3, MapIs DEF ContentInv
    <3>5. ES_CheckSharedContent(tmd[i].id, LoadedBy(tmd, i, failed))
      BY <1>1, <3>1, <3>4 DEF ES_CheckSharedContent, Range
    <3> QED
      BY <2>1, <2>2, <3>5 DEF OnCard
  <2>3. CASE ~tmd[i].shared
    BY <2>1, <2>3 DEF OnCard, There
  <2> QED
    BY <2>2, <2>3
<1>6. IsFiniteSet(There(tmd, t))
  <2>1. There(tmd, t) \subseteq DOMAIN tmd /\ IsFiniteSet(DOMAIN tmd)
    BY TmdIs DEF There
  <2> QED
    BY <2>1, FS_Subset
<1>7. /\ Cardinality(OnCard(tmd, t, failed)) <= Cardinality(There(tmd, t))
      /\ IsFiniteSet(OnCard(tmd, t, failed))
  BY <1>4, <1>6, FS_Subset
<1> QED
  BY <1>5, <1>6, <1>7, FS_CardinalityType

\* Most calls leave the card and the session alone.
LEMMA CardSame ==
  ASSUME ContentInv, UNCHANGED nand
  PROVE  /\ CardFits' /\ AppsOwn'
         /\ UNCHANGED counted => CountFits'
         /\ \A kind, t, tmd : Amount(kind, t, tmd)' = Amount(kind, t, tmd)
         /\ MapMoves \/ MapUnused => MapFits'
<1>1. \A t, tmd : There(tmd, t)' = There(tmd, t)
  BY DEF There
<1>2. \A kind, t, tmd : Amount(kind, t, tmd)' = Amount(kind, t, tmd)
  BY <1>1 DEF Amount
<1>3. CardFits' /\ AppsOwn'
  BY DEF ContentInv, CardFits, AppsOwn
<1>4. UNCHANGED counted => CountFits'
  BY <1>2 DEF ContentInv, CountFits
<1>5. MapMoves \/ MapUnused => MapFits'
  BY MapStep DEF ContentInv, MapMoves
<1> QED
  BY <1>2, <1>3, <1>4, <1>5

LEMMA SessionSame ==
  ASSUME ContentInv, UNCHANGED <<TitleID, iTMD, session, ended, strayed>>
  PROVE  SessionFits'
BY DEF ContentInv, SessionFits, SessionHasTmd

LEMMA HandlesSame ==
  ASSUME ContentInv, UNCHANGED <<ffs, held>>, leaked \subseteq leaked'
  PROVE  HandlesFit'
BY DEF ContentInv, HandlesFit, HandlesOwned

LEMMA ToldNothing ==
  ASSUME told' = Silence
  PROVE  ToldFits'
BY DEF ToldFits, NotFoundIsGone, ListFitsCount, Silence

\* A count.
LEMMA CountedStep ==
  ASSUME ContentInv, NEW kind \in Kinds, NEW t \in Titles, NEW tmd, TmdOf(t, tmd), NEW n,
         NEW short \in BOOLEAN, Counts(kind, t, tmd, n, short),
         Room /\ ~short => n = Amount(kind, t, tmd), MapMoves
  PROVE  ContentInv'
<1>1. /\ counted' = [kind |-> kind, title |-> t, tmd |-> tmd, n |-> n, old |-> short \/ ~Room]
      /\ told' = Silence /\ UNCHANGED <<ffs, held, nand, TitleID, iTMD, session, ended, leaked, strayed>>
  BY DEF Counts, Answers, Keeps
<1>2. CountFits'
  BY <1>1, CardSame DEF CountFits
<1> QED
  BY <1>1, <1>2, CardSame, SessionSame, HandlesSame, ToldNothing DEF ContentInv

LEMMA RefusedStep ==
  ASSUME ContentInv, Refuses, MapMoves
  PROVE  ContentInv'
<1>1. told' = Silence /\ UNCHANGED <<counted, ffs, held, nand, TitleID, iTMD, session, ended, leaked, strayed>>
  BY DEF Refuses, Fails, Answers, Keeps
<1> QED
  BY <1>1, CardSame, SessionSame, HandlesSame, ToldNothing DEF ContentInv

\* A list, which fits if the count is not out of date.
LEMMA ListedStep ==
  ASSUME ContentInv, NEW written, NEW read, NEW had, Listed(written, read, had),
         ~counted.old => written <= counted.n /\ read <= had, MapMoves
  PROVE  ContentInv'
<1>1. /\ counted' = NoCount /\ UNCHANGED <<ffs, held, nand, TitleID, iTMD, session, ended, leaked, strayed>>
      /\ told' = [op |-> "list", written |-> written, room |-> counted.n, read |-> read,
                  had |-> had, old |-> counted.old]
  BY DEF Listed, Answers, Keeps
<1>2. ToldFits'
  BY <1>1 DEF ToldFits, NotFoundIsGone, ListFitsCount
<1>3. CountFits'
  BY <1>1 DEF CountFits
<1> QED
  BY <1>1, <1>2, <1>3, CardSame, SessionSame, HandlesSame DEF ContentInv

\* What a count that was told, and is not out of date, was of.
LEMMA CountIs ==
  ASSUME ContentInv, NEW kind \in Kinds, Follows(kind)
  PROVE  /\ counted.title \in Titles /\ TmdOf(counted.title, counted.tmd)
         /\ ~counted.old => counted.n = Amount(kind, counted.title, counted.tmd)
         /\ Len(nand.map) \in Nat
         /\ TmdOf(counted.title, nand.tmd[counted.title])
         /\ nand.views[counted.title] \in Nat
<1>1. counted # NoCount
  <2>1. kind # "none"
    BY DEF Kinds
  <2>2. NoCount.kind = "none"
    BY DEF NoCount
  <2> QED
    BY <2>1, <2>2 DEF Follows
<1> QED
  BY <1>1 DEF Follows, ContentInv, CountFits, CardFits

LEMMA QueryStep ==
  ASSUME ContentInv, ContentQuery
  PROVE  ContentInv'
<1>0. /\ nand.map \in Seq(Nat) /\ \A t \in Titles : TmdOf(t, nand.tmd[t]) /\ TmdOf(t, NoTMD)
      /\ TitleID \in Titles
  BY DEF ContentInv, CardFits, SessionFits, TmdOf
<1>00. MapMoves
  BY MapSearchedMoves DEF MapMoves, ContentQuery, ES_GetTitleContentCount, ES_GetTicketViewCount, ES_GetTMDViewSize,
    ES_GetStoredTMDSize, ES_GetTmdContentsOnCardCount, ES_GetTitleContentsOnCard,
    ES_ListTmdContentsOnCard, ES_GetSharedContentCount, ES_GetSharedContents, ES_GetTicketViews,
    ES_GetTMDView, ES_GetStoredTMD, ES_DIGetStoredTMDSize, ES_DIGetStoredTMD
<1>1. ASSUME NEW t \in Titles, ES_GetTitleContentCount(t) PROVE ContentInv'
  <2>1. CASE Refuses
    BY <1>00, <2>1, RefusedStep
  <2>2. ASSUME NEW failed, NEW n, n = Cardinality(OnCard(nand.tmd[t], t, failed)),
               Counts("contents", t, NoTMD, n, failed # {})
        PROVE  ContentInv'
    <3>1. Room /\ ~(failed # {}) => n = Amount("contents", t, NoTMD)
      BY <1>0, <2>2, OnCardIs DEF Amount
    <3>2. PICK short \in BOOLEAN : short = (failed # {})
      OBVIOUS
    <3> QED
      BY <1>0, <1>00, <2>2, <3>1, <3>2, CountedStep DEF Kinds
  <2> QED
    BY <1>1, <2>1, <2>2 DEF ES_GetTitleContentCount
<1>2. ASSUME NEW t \in Titles, ES_GetTicketViewCount(t) PROVE ContentInv'
  <2>1. PICK n, short :
          /\ Counts("views", t, NoTMD, n, short) /\ short \in BOOLEAN
          /\ ~short => n = nand.views[t]
    <3>1. nand.views[t] # 0 => (nand.views[t] # 0) = TRUE
      OBVIOUS
    <3>2. CASE Counts("views", t, NoTMD, 0, nand.views[t] # 0)
      <4>1. /\ (nand.views[t] # 0) \in BOOLEAN
            /\ ~(nand.views[t] # 0) => 0 = nand.views[t]
        OBVIOUS
      <4> QED
        BY <3>2, <4>1
    <3>3. CASE Counts("views", t, NoTMD, nand.views[t], FALSE)
      BY <3>3
    <3> QED
      BY <1>2, <3>2, <3>3 DEF ES_GetTicketViewCount
  <2>2. Room /\ ~short => n = Amount("views", t, NoTMD)
    BY <2>1 DEF Amount
  <2> QED
    BY <1>0, <1>00, <2>1, <2>2, CountedStep DEF Kinds
<1>3. ASSUME NEW t \in Titles, NEW kind \in {"view", "tmd"},
             Counts(kind, t, NoTMD, Len(nand.tmd[t]), FALSE) PROVE ContentInv'
  <2>1. PICK n : n = Len(nand.tmd[t])
    OBVIOUS
  <2>2. n = Amount(kind, t, NoTMD)
    BY <2>1, <1>3 DEF Amount
  <2> QED
    BY <1>0, <1>00, <1>3, <2>1, <2>2, CountedStep DEF Kinds
<1>4. ASSUME NEW t \in Titles, ES_GetTMDViewSize(t) \/ ES_GetStoredTMDSize(t) PROVE ContentInv'
  <2>1. CASE Refuses
    BY <1>00, <2>1, RefusedStep
  <2> QED
    BY <1>3, <1>4, <2>1 DEF ES_GetTMDViewSize, ES_GetStoredTMDSize
<1>5. ASSUME NEW t \in Titles, NEW tmd \in Tmds[t], ES_GetTmdContentsOnCardCount(t, tmd)
      PROVE  ContentInv'
  <2>1. TmdOf(t, tmd)
    BY DEF TmdOf
  <2>2. PICK failed, n, short :
          /\ n = Cardinality(OnCard(tmd, t, failed)) /\ short = (failed # {}) /\ short \in BOOLEAN
          /\ Counts("tmd contents", t, tmd, n, short)
    BY <1>5 DEF ES_GetTmdContentsOnCardCount
  <2>3. Room /\ ~short => n = Amount("tmd contents", t, tmd)
    BY <2>1, <2>2, OnCardIs DEF Amount
  <2> QED
    BY <1>00, <2>1, <2>2, <2>3, CountedStep DEF Kinds
<1>6. CASE ES_GetTitleContentsOnCard
  <2>1. Follows("contents")
    BY <1>6 DEF ES_GetTitleContentsOnCard
  <2>2. PICK t \in Titles : t = counted.title
    BY <2>1, CountIs DEF Kinds
  <2>3. CASE Refuses
    BY <1>00, <2>3, RefusedStep
  <2>4. ASSUME NEW failed, NEW w, w = Cardinality(OnCard(nand.tmd[t], t, failed)),
               Listed(w, 0, 0)
        PROVE  ContentInv'
    <3>1. ~counted.old => counted.n = Cardinality(There(nand.tmd[t], t))
      BY <2>1, <2>2, CountIs DEF Kinds, Amount
    <3>2. w <= Cardinality(There(nand.tmd[t], t))
      BY <1>0, <2>4, OnCardIs
    <3> QED
      BY <1>00, <2>4, <3>1, <3>2, ListedStep
  <2> QED
    BY <1>6, <2>2, <2>3, <2>4 DEF ES_GetTitleContentsOnCard
<1>7. CASE ES_ListTmdContentsOnCard
  <2>1. Follows("tmd contents")
    BY <1>7 DEF ES_ListTmdContentsOnCard
  <2>2. PICK t, tmd : t \in Titles /\ t = counted.title /\ tmd = counted.tmd /\ TmdOf(t, tmd)
    BY <2>1, CountIs DEF Kinds
  <2>3. PICK failed, w : w = Cardinality(OnCard(tmd, t, failed)) /\ Listed(w, 0, 0)
    BY <1>7, <2>2 DEF ES_ListTmdContentsOnCard
  <2>4. ~counted.old => counted.n = Cardinality(There(tmd, t))
    BY <2>1, <2>2, CountIs DEF Kinds, Amount
  <2>5. w <= Cardinality(There(tmd, t))
    BY <2>2, <2>3, OnCardIs
  <2> QED
    BY <1>00, <2>3, <2>4, <2>5, ListedStep
<1>8. CASE ES_GetSharedContentCount
  <2>1. CASE Refuses
    BY <1>00, <2>1, RefusedStep
  <2>2. CASE Counts("shared", TitleID, NoTMD, Len(nand.map), FALSE)
    <3>1. PICK t, n : t \in Titles /\ t = TitleID /\ n = Len(nand.map)
      BY <1>0
    <3>2. n = Amount("shared", t, NoTMD)
      BY <3>1 DEF Amount
    <3> QED
      BY <1>0, <1>00, <2>2, <3>1, <3>2, CountedStep DEF Kinds
  <2> QED
    BY <1>8, <2>1, <2>2 DEF ES_GetSharedContentCount
<1>9. CASE ES_GetSharedContents \/ ES_GetTicketViews
  <2>1. CASE Refuses
    BY <1>00, <2>1, RefusedStep
  <2>2. CASE Follows("shared") /\ Listed(counted.n, counted.n, Len(nand.map))
    <3>1. ~counted.old => counted.n = Len(nand.map)
      BY <2>2, CountIs DEF Kinds, Amount
    <3>2. Len(nand.map) \in Nat
      BY <1>0
    <3>3. PICK n, m : n = counted.n /\ m = Len(nand.map)
      OBVIOUS
    <3> QED
      BY <1>00, <2>2, <3>1, <3>2, <3>3, ListedStep
  <2>3. CASE Follows("views") /\ Listed(counted.n, counted.n, nand.views[counted.title])
    <3>1. ~counted.old => counted.n = nand.views[counted.title]
      BY <2>3, CountIs DEF Kinds, Amount
    <3>2. nand.views[counted.title] \in Nat
      BY <2>3, CountIs DEF Kinds
    <3>3. PICK n, m : n = counted.n /\ m = nand.views[counted.title]
      OBVIOUS
    <3> QED
      BY <1>00, <2>3, <3>1, <3>2, <3>3, ListedStep
  <2> QED
    BY <1>9, <2>1, <2>2, <2>3 DEF ES_GetSharedContents, ES_GetTicketViews
<1>10. CASE ES_GetTMDView \/ ES_GetStoredTMD \/ ES_DIGetStoredTMD
  <2>1. CASE Refuses
    BY <1>00, <2>1, RefusedStep
  <2>2. PICK k, m : k = Len(nand.tmd[counted.title]) /\ m = IF counted.n < k THEN counted.n ELSE k
    OBVIOUS
  <2>3. PICK kind \in {"view", "tmd", "di"} : Follows(kind)
    BY <1>10 DEF ES_GetTMDView, ES_GetStoredTMD, ES_DIGetStoredTMD
  <2>4. ~counted.old => counted.n = k
    BY <2>2, <2>3, CountIs DEF Kinds, Amount
  <2>5. k \in Nat
    BY <2>2, <2>3, CountIs, TmdIs DEF Kinds
  <2>6. CASE Listed(k, 0, 0)
    BY <1>00, <2>4, <2>5, <2>6, ListedStep
  <2>7. CASE Listed(m, m, k)
    <3>1. ~counted.old => m <= counted.n /\ m <= k
      BY <2>2, <2>4, <2>5
    <3> QED
      BY <1>00, <2>7, <3>1, ListedStep
  <2> QED
    BY <1>10, <2>1, <2>2, <2>6, <2>7 DEF ES_GetTMDView, ES_GetStoredTMD, ES_DIGetStoredTMD
<1>11. CASE ES_DIGetStoredTMDSize /\ ~Refuses
  <2>1. /\ LoadsTMD(TitleID) /\ told' = Silence
        /\ counted' = [kind |-> "di", title |-> TitleID, tmd |-> NoTMD,
                       n |-> Len(nand.tmd[TitleID]), old |-> FALSE]
        /\ ffs' = [ffs EXCEPT ![Slot] = TmdFile(TitleID)] /\ leaked' = leaked \cup {Slot}
        /\ UNCHANGED <<nand, TitleID, iTMD, session, ended, held, strayed>>
    BY <1>11 DEF ES_DIGetStoredTMDSize
  <2>2. Slot \in FFSHandles /\ ffs[Slot] = Unopened
    BY <2>1, SlotFree DEF LoadsTMD
  <2>3. Slot \notin DOMAIN held
    BY <2>2 DEF ContentInv, HandlesFit, Unopened
  <2>4. HandlesFit'
    BY <2>1, <2>2, <2>3 DEF ContentInv, HandlesFit, HandlesOwned
  <2>5. CountFits'
    <3>1. Amount("di", TitleID, NoTMD)' = Len(nand.tmd[TitleID])
      BY <2>1 DEF Amount
    <3> QED
      BY <1>0, <2>1, <3>1 DEF CountFits, Kinds
  <2> QED
    BY <1>00, <2>1, <2>4, <2>5, CardSame, SessionSame, ToldNothing DEF ContentInv
<1>12. CASE Refuses
  BY <1>00, <1>12, RefusedStep
<1> QED
  BY <1>1, <1>2, <1>4, <1>5, <1>6, <1>7, <1>8, <1>9, <1>10, <1>11, <1>12 DEF ContentQuery

\* A file is opened on a free handle, and closed.
LEMMA OpenedStep ==
  ASSUME ContentInv, NEW f, f.what \in {"app", "shared"}, Room, Opened(Slot, f, f), UNCHANGED leaked
  PROVE  HandlesFit'
<1>1. PICK h \in FFSHandles : h = Slot /\ ffs[h] = Unopened
  BY SlotFree
<1>2. /\ ffs' = [ffs EXCEPT ![h] = f]
      /\ held' = [k \in DOMAIN held \cup {h} |-> IF k = h THEN f ELSE held[k]]
  BY <1>1 DEF Opened
<1>3. /\ DOMAIN held' = DOMAIN held \cup {h}
      /\ \A k \in DOMAIN held' : held'[k] = IF k = h THEN f ELSE held[k]
  BY <1>2
<1>4. ffs' = [k \in FFSHandles |-> IF k = h THEN f ELSE ffs[k]]
  BY <1>2 DEF ContentInv, HandlesFit
<1> QED
  BY <1>3, <1>4 DEF ContentInv, HandlesFit, HandlesOwned

LEMMA ClosedStep ==
  ASSUME ContentInv, NEW h \in DOMAIN held, ClosedFile(h), UNCHANGED leaked
  PROVE  HandlesFit'
<1>1. /\ ffs' = [ffs EXCEPT ![h] = Unopened]
      /\ DOMAIN held' = DOMAIN held \ {h} /\ \A k \in DOMAIN held' : held'[k] = held[k]
  BY DEF ClosedFile
<1>2. ffs' = [k \in FFSHandles |-> IF k = h THEN Unopened ELSE ffs[k]]
  BY <1>1 DEF ContentInv, HandlesFit
<1> QED
  BY <1>1, <1>2 DEF ContentInv, HandlesFit, HandlesOwned

LEMMA OpenStep ==
  ASSUME ContentInv, NEW t \in Titles, NEW index, ESP_OpenContent(t, index), Keeps,
         UNCHANGED counted
  PROVE  ContentInv'
<1>p. PICK tmd, i, c : tmd = nand.tmd[t] /\ i = ContentAt(tmd, index) /\ c = tmd[i]
  OBVIOUS
<1>0. UNCHANGED <<nand, TitleID, iTMD, session, ended, leaked, strayed>>
  BY DEF Keeps
<1>00. MapMoves
  <2>1. \A loads \in {FALSE, LoadsMap} : loads \in BOOLEAN
    BY DEF LoadsMap
  <2> QED
    BY <2>1 DEF ESP_OpenContent, MapMoves
<1>1. SUFFICES HandlesFit' /\ ToldFits'
  BY <1>0, <1>00, CardSame, SessionSame DEF ContentInv
<1>2. TmdOf(t, tmd) /\ nand.map \in Seq(Nat)
  BY <1>p DEF ContentInv, CardFits
<1>3. /\ Len(tmd) \in Nat /\ DOMAIN tmd = 1 .. Len(tmd)
      /\ \A j, k \in DOMAIN tmd : tmd[j].index = tmd[k].index => j = k
  BY <1>2, TmdIs
<1>4. CASE Fails
  BY <1>0, <1>4, HandlesSame, ToldNothing DEF Fails, Answers
<1>5. CASE /\ LoadsTMD(t) /\ i = 0
           /\ Answers([op |-> "nfound", title |-> t, index |-> index, missed |-> FALSE])
  <2>1. \A k \in DOMAIN tmd : tmd[k].index # index
    BY <1>3, <1>5, <1>p, FoundAt
  <2>2. /\ told' = [op |-> "nfound", title |-> t, index |-> index, missed |-> FALSE]
        /\ UNCHANGED <<ffs, held>>
    BY <1>5 DEF Answers
  <2>3. ToldFits'
    BY <1>0, <1>p, <2>1, <2>2 DEF ToldFits, NotFoundIsGone, ListFitsCount, Range
  <2> QED
    BY <1>0, <2>2, <2>3, HandlesSame
<1>6. ASSUME LoadsTMD(t), i # 0, c.shared, NEW loads \in BOOLEAN,
             GetSharedContentID(c.id, loads) = 0,
             Answers([op |-> "nfound", title |-> t, index |-> index,
                      missed |-> CNTMapDirty /\ ~loads])
      PROVE  HandlesFit' /\ ToldFits'
  <2>1. i \in DOMAIN tmd /\ c.index = index
    BY <1>3, <1>6, <1>p, FoundAt
  <2>2. \A d \in Range(tmd) : d.index = index => d = c
    BY <1>3, <1>p, <2>1 DEF Range
  <2>3. ~(CNTMapDirty /\ ~loads) => c.id \notin Range(nand.map)
    <3> SUFFICES ASSUME ~(CNTMapDirty /\ ~loads) PROVE c.id \notin Range(nand.map)
      OBVIOUS
    <3>1. PICK map, id : map = nand.map /\ DOMAIN map = 1 .. Len(map) /\ Len(map) \in Nat /\ id = c.id
      BY <1>2
    <3>2. map = MapNow(loads)
      BY <3>1, MapIs DEF ContentInv
    <3>3. \A k \in 1 .. Len(map) : map[k] # id
      BY <1>6, <3>1, <3>2, FoundShared
    <3> QED
      BY <3>1, <3>3 DEF Range
  <2>4. PICK missed : missed = (CNTMapDirty /\ ~loads)
    OBVIOUS
  <2>5. /\ told' = [op |-> "nfound", title |-> t, index |-> index, missed |-> missed]
        /\ UNCHANGED <<ffs, held>>
    BY <1>6, <2>4 DEF Answers
  <2>6. ToldFits'
    <3>1. ~missed => \A d \in Range(tmd) : d.index = index => d.shared /\ d.id \notin Range(nand.map)
      BY <1>6, <2>2, <2>3, <2>4
    <3> QED
      BY <1>0, <1>p, <2>5, <3>1 DEF ToldFits, NotFoundIsGone, ListFitsCount
  <2> QED
    BY <1>0, <2>5, <2>6, HandlesSame
<1>7. ASSUME LoadsTMD(t), i # 0, c.shared, NEW loads \in BOOLEAN, NEW id,
             id = GetSharedContentID(c.id, loads), id # 0,
             Opened(Slot, SharedApp(nand.map[id]), Named(t, tmd, index))
      PROVE  HandlesFit' /\ ToldFits'
  <2>1. i \in DOMAIN tmd /\ c.index = index
    BY <1>3, <1>7, <1>p, FoundAt
  <2>2. nand.map[id] = c.id
    <3>1. PICK map, key : map = MapNow(loads) /\ key = c.id
      OBVIOUS
    <3>2. (map = nand.map \/ map = <<>>) /\ Len(map) \in Nat
      BY <1>2, <3>1, MapIs DEF ContentInv
    <3>3. id \in 1 .. Len(map) /\ map[id] = key
      BY <1>7, <3>1, <3>2, FoundShared
    <3>4. map = nand.map
      BY <3>2, <3>3
    <3> QED
      BY <3>1, <3>3, <3>4
  <2>3. Named(t, tmd, index) = SharedApp(c.id)
    BY <1>2, <1>7, <1>p, <2>1, NamedIs
  <2>4. PICK f : f = SharedApp(c.id)
    OBVIOUS
  <2>5. f.what = "shared"
    BY <2>4 DEF SharedApp
  <2>6. Opened(Slot, f, f)
    BY <1>7, <2>2, <2>3, <2>4
  <2>7. HandlesFit'
    BY <1>0, <1>7, <2>5, <2>6, OpenedStep DEF LoadsTMD
  <2>8. told' = Silence
    BY <2>6 DEF Opened
  <2> QED
    BY <2>7, <2>8, ToldNothing
<1>8. CASE LoadsTMD(t) /\ i # 0 /\ ~c.shared /\ Opened(Slot, App(t, c), Named(t, tmd, index))
  <2>1. i \in DOMAIN tmd /\ c.index = index
    BY <1>3, <1>8, <1>p, FoundAt
  <2>2. Named(t, tmd, index) = App(t, c)
    BY <1>2, <1>8, <1>p, <2>1, NamedIs
  <2>3. PICK f : f = App(t, c)
    OBVIOUS
  <2>6. f.what = "app"
    BY <2>3 DEF App
  <2>4. Opened(Slot, f, f) /\ Room
    BY <1>8, <2>2, <2>3 DEF LoadsTMD
  <2>5. HandlesFit'
    BY <1>0, <2>6, <2>4, OpenedStep
  <2>7. told' = Silence
    BY <2>4 DEF Opened
  <2> QED
    BY <2>5, <2>7, ToldNothing
<1>9. \A loads \in {FALSE, LoadsMap} : loads \in BOOLEAN
  BY DEF LoadsMap
<1>10. \/ Fails
       \/ /\ LoadsTMD(t) /\ i = 0
          /\ Answers([op |-> "nfound", title |-> t, index |-> index, missed |-> FALSE])
       \/ /\ LoadsTMD(t) /\ i # 0 /\ c.shared
          /\ \E loads \in BOOLEAN :
               LET id == GetSharedContentID(c.id, loads)
               IN  \/ id = 0 /\ Answers([op |-> "nfound", title |-> t, index |-> index,
                                         missed |-> CNTMapDirty /\ ~loads])
                   \/ id # 0 /\ Opened(Slot, SharedApp(nand.map[id]), Named(t, tmd, index))
       \/ LoadsTMD(t) /\ i # 0 /\ ~c.shared /\ Opened(Slot, App(t, c), Named(t, tmd, index))
  BY <1>9, <1>p, Zenon DEF ESP_OpenContent
<1> QED
  BY <1>4, <1>5, <1>6, <1>7, <1>8, <1>10

\* A count may be out of date from now on.
LEMMA OutdatedStep ==
  ASSUME ContentInv, Outdates
  PROVE  CountFits'
<1>1. CASE counted = NoCount
  BY <1>1 DEF Outdates, CountFits
<1>2. CASE counted # NoCount
  <2>1. counted' = [kind |-> counted.kind, title |-> counted.title, tmd |-> counted.tmd,
                    n |-> counted.n, old |-> TRUE]
    BY <1>2 DEF Outdates, ContentInv, CountFits
  <2> QED
    BY <1>2, <2>1 DEF ContentInv, CountFits
<1> QED
  BY <1>1, <1>2

\* The end of an import that succeeds.
LEMMA FinishStep ==
  ASSUME ContentInv, ~strayed, ES_AddTitleFinish
  PROVE  ContentInv'
<1> DEFINE t == session.title
<1> DEFINE tmd == session.tmd
<1> DEFINE new == {i \in DOMAIN tmd : tmd[i].shared /\ ~ES_CheckSharedContent(tmd[i].id, LoadsMap)}
<1> DEFINE own == {c.id : c \in {d \in Range(tmd) : ~d.shared}}
<1>2. session.op = "import" /\ Room /\ t \in Titles /\ tmd \in Tmds[t] /\ TmdOf(t, tmd)
  BY DEF ES_AddTitleFinish, ContentInv, SessionFits, TmdOf
<1>1. /\ IsFiniteSet(DOMAIN tmd) /\ \A i \in DOMAIN tmd : tmd[i].id \in Nat
  <2>1. PICK t0, tmd0 : t0 = t /\ tmd0 = tmd
    OBVIOUS
  <2> QED
    BY <1>2, <2>1, TmdIs
<1>3. PICK order \in [1 .. Cardinality(new) -> new] :
        nand' = [nand EXCEPT !.tmd[t] = tmd, !.apps[t] = @ \cup own,
                             !.map = @ \o [k \in DOMAIN order |-> tmd[order[k]].id]]
  BY Zenon DEF ES_AddTitleFinish
<1>4. IF new # {} THEN NewEntries ELSE MapMoves
  <2>1. LoadsMap \in BOOLEAN
    BY DEF LoadsMap
  <2>2. IF new # {} THEN NewEntries ELSE MapUsed(LoadsMap) \/ MapUnused
    BY Zenon DEF ES_AddTitleFinish
  <2> QED
    BY <2>1, <2>2 DEF MapMoves
<1>5. /\ iTMD' = NullTMD /\ Over /\ Outdates /\ told' = Silence
      /\ UNCHANGED <<strayed, ffs, held, leaked, TitleID>>
  BY DEF ES_AddTitleFinish, OtherKept
<1>6. Cardinality(new) \in Nat /\ (new = {} => Cardinality(new) = 0)
  <2>1. IsFiniteSet(DOMAIN tmd) /\ new \subseteq DOMAIN tmd
    BY <1>1
  <2> HIDE DEF new
  <2>2. IsFiniteSet(new)
    BY <2>1, FS_Subset
  <2> QED
    BY <2>2, FS_CardinalityType, FS_EmptySet
<1> DEFINE more == [k \in 1 .. Cardinality(new) |-> tmd[order[k]].id]
<1>7. more \in Seq(Nat) /\ (new = {} => more = <<>>)
  <2>1. \A k \in 1 .. Cardinality(new) : tmd[order[k]].id \in Nat
    BY <1>1, <1>3
  <2> HIDE DEF new
  <2> QED
    BY <1>6, <2>1
<1>8. /\ nand' = [tmd |-> nand'.tmd, apps |-> nand'.apps, views |-> nand.views, map |-> nand.map \o more]
      /\ nand'.tmd = [s \in Titles |-> IF s = t THEN tmd ELSE nand.tmd[s]]
      /\ nand'.apps = [s \in Titles |-> IF s = t THEN nand.apps[s] \cup own ELSE nand.apps[s]]
  <2> HIDE DEF new, own
  <2>1. DOMAIN order = 1 .. Cardinality(new)
    OBVIOUS
  <2>2. nand' = [tmd |-> [nand.tmd EXCEPT ![t] = tmd], apps |-> [nand.apps EXCEPT ![t] = @ \cup own],
                 views |-> nand.views, map |-> nand.map \o more]
    BY <1>3, <2>1 DEF ContentInv, CardFits
  <2> HIDE DEF more
  <2> QED
    BY <1>2, <2>2 DEF ContentInv, CardFits
<1> HIDE DEF more
<1>9. nand'.map = nand.map \o more /\ nand'.map \in Seq(Nat) /\ (new = {} => nand'.map = nand.map)
  <2>1. nand.map \in Seq(Nat)
    BY DEF ContentInv, CardFits
  <2>2. \A m \in Seq(Nat) : m \o <<>> = m
    OBVIOUS
  <2>3. nand'.map = nand.map \o more
    BY <1>8
  <2> HIDE DEF new
  <2>4. nand'.map \in Seq(Nat)
    BY <1>7, <2>1, <2>3
  <2>5. new = {} => nand'.map = nand.map
    BY <1>7, <2>1, <2>2, <2>3
  <2> QED
    BY <2>3, <2>4, <2>5
<1>10. CardFits'
  <2>1. \A s \in Titles : TmdOf(s, nand.tmd[s])
    BY DEF ContentInv, CardFits
  <2>2. \A s \in Titles : TmdOf(s, nand'.tmd[s])
    BY <1>2, <1>8, <2>1
  <2>3. nand' = [tmd |-> nand'.tmd, apps |-> nand'.apps, views |-> nand'.views, map |-> nand'.map]
    BY <1>8
  <2>4. nand'.views \in [Titles -> Nat]
    BY <1>8 DEF ContentInv, CardFits
  <2>5. nand'.tmd = [s \in Titles |-> nand'.tmd[s]] /\ nand'.apps = [s \in Titles |-> nand'.apps[s]]
    BY <1>8
  <2>6. \A s \in Titles : TmdOf(s, nand.tmd[s])'
    BY <2>2 DEF TmdOf
  <2> QED
    BY <1>9, <2>3, <2>4, <2>5, <2>6 DEF CardFits
<1>11. AppsOwn'
  <2> SUFFICES ASSUME NEW s \in Titles, NEW n \in nand'.apps[s]
               PROVE  \E a \in Tmds[s] : \E i \in DOMAIN a : a[i].id = n /\ ~a[i].shared
    BY DEF AppsOwn
  <2>1. CASE n \in nand.apps[s]
    BY <2>1 DEF ContentInv, AppsOwn
  <2>2. CASE s = t /\ n \in own
    <3>1. PICK d \in Range(tmd) : ~d.shared /\ d.id = n
      BY <2>2
    <3>2. PICK i \in DOMAIN tmd : d = tmd[i]
      BY DEF Range
    <3> QED
      BY <1>2, <2>2, <3>1, <3>2
  <2> QED
    BY <1>8, <2>1, <2>2
<1>12. MapFits'
  <2>1. CASE new # {}
    BY <1>4, <2>1 DEF NewEntries, MapFits
  <2>2. CASE new = {}
    <3>1. nand'.map = nand.map /\ MapMoves
      BY <1>4, <1>9, <2>2
    <3> QED
      BY <3>1 DEF ContentInv, MapFits, MapMoves, MapUsed, MapUnused, MapNow
  <2> QED
    BY <2>1, <2>2
<1>13. SessionFits'
  BY <1>5 DEF ContentInv, SessionFits, SessionHasTmd, Over, NoSession, NullTMD
<1> QED
  BY <1>5, <1>10, <1>11, <1>12, <1>13, HandlesSame, OutdatedStep, ToldNothing DEF ContentInv

LEMMA ContentStep ==
  ASSUME ContentInv, [ContentNext]_contentvars
  PROVE  ContentInv'
<1>1. CASE UNCHANGED contentvars
  <2>1. UNCHANGED <<nand, CNTMap, CNTMapDirty, ffs, TitleID, iTMD, session, ended, held,
                    leaked, counted, told, strayed>>
    BY <1>1 DEF contentvars
  <2>2. MapFits' /\ ToldFits'
    BY <2>1 DEF ContentInv, MapFits, ToldFits, NotFoundIsGone, ListFitsCount
  <2> QED
    BY <2>1, <2>2, CardSame, SessionSame, HandlesSame DEF ContentInv
<1>2. CASE ~strayed /\ (ES_OpenContent \/ ES_OpenTitleContent)
  <2>1. PICK t, i : t \in Titles /\ ESP_OpenContent(t, i) /\ Keeps /\ UNCHANGED counted
    BY <1>2 DEF ES_OpenContent, ES_OpenTitleContent, ContentInv, SessionFits
  <2> QED
    BY <2>1, OpenStep
<1>3. CASE ES_CloseContent \/ ES_ExportContentEnd
  <2>1. PICK h \in DOMAIN held : ClosedFile(h)
    BY <1>3 DEF ES_CloseContent, ES_ExportContentEnd
  <2>2. /\ UNCHANGED <<nand, TitleID, iTMD, session, ended, leaked, strayed, counted>>
        /\ MapUnused
    BY <1>3 DEF ES_CloseContent, ES_ExportContentEnd, Keeps
  <2>3. told' = Silence
    BY <2>1 DEF ClosedFile
  <2> QED
    BY <2>1, <2>2, <2>3, ClosedStep, CardSame, SessionSame, ToldNothing DEF ContentInv
<1>4. CASE ES_SetUID
  <2>1. /\ UNCHANGED <<nand, ffs, held, iTMD, session, ended, leaked, counted, strayed>>
        /\ TitleID' \in Titles /\ told' = Silence /\ MapUnused
    BY <1>4 DEF ES_SetUID, Answers
  <2>2. SessionFits'
    BY <2>1 DEF ContentInv, SessionFits, SessionHasTmd
  <2> QED
    BY <2>1, <2>2, CardSame, HandlesSame, ToldNothing DEF ContentInv
<1>5. CASE ContentQuery
  BY <1>5, QueryStep
<1>6. CASE ~strayed /\ ES_AddTitleFinish
  BY <1>6, FinishStep
<1>7. CASE ES_AddTitleStart \/ ES_ExportTitleInit
  <2>1. /\ UNCHANGED <<nand, counted, ffs, held, leaked, TitleID, ended, strayed>>
        /\ told' = Silence /\ MapUnused /\ session = NoSession
    BY <1>7 DEF ES_AddTitleStart, ES_ExportTitleInit, CardKept, OtherKept
  <2>2. CASE UNCHANGED session /\ iTMD' = NullTMD
    <3>1. SessionFits'
      BY <2>1, <2>2 DEF ContentInv, SessionFits, SessionHasTmd, NoSession, NullTMD
    <3> QED
      BY <2>1, <3>1, CardSame, HandlesSame, ToldNothing DEF ContentInv
  <2>3. CASE \E op \in {"import", "export"}, t \in Titles : \E tmd \in Tmds[t] : Begun(op, t, tmd)
    <3>1. SessionFits'
      BY <2>1, <2>3 DEF ContentInv, SessionFits, SessionHasTmd, Begun
    <3> QED
      BY <2>1, <3>1, CardSame, HandlesSame, ToldNothing DEF ContentInv
  <2>4. ASSUME NEW t \in Titles, LoadsTMD(t) PROVE nand.tmd[t] \in Tmds[t]
    BY <2>4 DEF LoadsTMD, ContentInv, CardFits, TmdOf
  <2> QED
    BY <1>7, <2>2, <2>3, <2>4 DEF ES_AddTitleStart, ES_ExportTitleInit
<1>8. CASE ~strayed /\ (ES_AddTitleCancel \/ ES_ExportTitleDone)
  <2>1. /\ UNCHANGED <<nand, counted, ffs, held, leaked, TitleID>>
        /\ told' = Silence /\ MapUnused /\ Over
    BY <1>8 DEF ES_AddTitleCancel, ES_ExportTitleDone, CardKept, OtherKept
  <2>2. SessionFits'
    <3>0. session.op # "none" => iTMD.at = "live"
      BY DEF ContentInv, SessionFits, SessionHasTmd
    <3>1. CASE ES_AddTitleCancel
      <4>1. \/ iTMD.at = "null" /\ UNCHANGED <<iTMD, strayed>>
            \/ iTMD' = NullTMD /\ strayed' = (iTMD.at = "freed")
        BY <3>1 DEF ES_AddTitleCancel, iCleanUpTikTMD
      <4>2. session'.op = "none" /\ NullTMD.at = "null"
            /\ (session.op = "none" => ended' = ended)
        BY <2>1 DEF Over, NoSession, NullTMD
      <4>3. iTMD.at \in {"null", "freed"} => session.op = "none" /\ ended' = ended
        BY <3>0, <4>2
      <4>4. TitleID \in Titles /\ (iTMD.at = "freed" => ended = "export")
        BY DEF ContentInv, SessionFits
      <4>5. (strayed => ended = "export")' /\ (iTMD.at = "freed" => ended = "export")'
        <5>1. CASE iTMD.at = "null" /\ UNCHANGED <<iTMD, strayed>>
          BY <1>8, <5>1
        <5>2. CASE iTMD' = NullTMD /\ strayed' = (iTMD.at = "freed")
          <6>1. iTMD'.at = "null"
            BY <4>2, <5>2
          <6>2. strayed' => iTMD.at = "freed"
            BY <5>2
          <6> QED
            BY <4>3, <4>4, <6>1, <6>2
        <5> QED
          BY <4>1, <5>1, <5>2
      <4> QED
        BY <2>1, <4>2, <4>4, <4>5 DEF SessionFits, SessionHasTmd
    <3>2. CASE ES_ExportTitleDone
      <4>1. session.op = "export" /\ strayed' = FALSE
        BY <3>0, <3>2 DEF ES_ExportTitleDone
      <4>2. ended' = "export" /\ session'.op = "none"
        BY <2>1, <4>1 DEF Over, NoSession
      <4> QED
        BY <2>1, <4>1, <4>2 DEF ContentInv, SessionFits, SessionHasTmd
    <3> QED
      BY <1>8, <3>1, <3>2
  <2> QED
    BY <2>1, <2>2, CardSame, HandlesSame, ToldNothing DEF ContentInv
<1>9. CASE ES_ExportContentBegin
  <2>1. PICK i \in DOMAIN session.tmd :
          LET c == iTMD.tmd[i]
          IN  \/ /\ Room /\ c.id \in nand.apps[iTMD.title]
                 /\ Opened(Slot, App(iTMD.title, c),
                           Named(session.title, session.tmd, session.tmd[i].index))
              \/ Fails
    BY <1>9 DEF ES_ExportContentBegin
  <2>2. /\ UNCHANGED <<nand, TitleID, iTMD, session, ended, leaked, strayed, counted>>
        /\ MapUnused /\ session.op = "export"
    BY <1>9 DEF ES_ExportContentBegin, Keeps
  <2>3. PICK t, tmd : /\ t = session.title /\ tmd = session.tmd /\ t \in Titles /\ tmd \in Tmds[t]
                      /\ iTMD.title = t /\ iTMD.tmd = tmd /\ TmdOf(t, tmd)
    BY <2>2 DEF ContentInv, SessionFits, SessionHasTmd, TmdOf
  <2>4. i \in DOMAIN tmd
    BY <2>3
  <2>5. CASE Fails
    BY <2>2, <2>5, CardSame, SessionSame, HandlesSame, ToldNothing DEF ContentInv, Fails, Answers
  <2>6. CASE /\ Room /\ tmd[i].id \in nand.apps[t]
             /\ Opened(Slot, App(t, tmd[i]), Named(t, tmd, tmd[i].index))
    <3>1. ~tmd[i].shared
      <4>1. PICK a \in Tmds[t] : \E j \in DOMAIN a : a[j].id = tmd[i].id /\ ~a[j].shared
        BY <2>3, <2>6 DEF ContentInv, AppsOwn
      <4>2. \A x, y \in Tmds[t] : \A k \in DOMAIN x, l \in DOMAIN y :
              x[k].id = y[l].id => x[k].shared = y[l].shared
        BY <2>3, ESContentAssumption
      <4>3. PICK j \in DOMAIN a : a[j].id = tmd[i].id /\ ~a[j].shared
        BY <4>1
      <4>4. a[j].shared = tmd[i].shared
        BY <2>3, <2>4, <4>2, <4>3
      <4> QED
        BY <4>3, <4>4
    <3>2. Named(t, tmd, tmd[i].index) = App(t, tmd[i])
      BY <2>3, <2>4, <3>1, NamedIs
    <3>3. PICK f : f = App(t, tmd[i])
      OBVIOUS
    <3>4. f.what = "app"
      BY <3>3 DEF App
    <3>5. Opened(Slot, f, f)
      BY <2>6, <3>2, <3>3
    <3>6. HandlesFit'
      BY <2>2, <2>6, <3>4, <3>5, OpenedStep
    <3>7. told' = Silence
      BY <3>5 DEF Opened
    <3> QED
      BY <2>2, <3>6, <3>7, CardSame, SessionSame, ToldNothing DEF ContentInv
  <2> QED
    BY <2>1, <2>3, <2>5, <2>6
<1>10. CASE ES_DeleteTitleContent \/ ES_AddTicket
  <2>1. /\ UNCHANGED <<iTMD, session, ended, strayed, ffs, held, leaked, TitleID>>
        /\ Outdates /\ told' = Silence /\ MapUnused
    BY <1>10 DEF ES_DeleteTitleContent, ES_AddTicket, OtherKept
  <2>2. CardFits' /\ AppsOwn' /\ nand'.map = nand.map
    <3>1. CASE ES_DeleteTitleContent
      <4>1. PICK t \in Titles : nand' = [nand EXCEPT !.tmd[t] = NoTMD, !.apps[t] = {}]
        BY <3>1 DEF ES_DeleteTitleContent
      <4>2. /\ nand' = [tmd |-> nand'.tmd, apps |-> nand'.apps, views |-> nand'.views, map |-> nand'.map]
            /\ nand'.tmd = [nand.tmd EXCEPT ![t] = NoTMD] /\ nand'.apps = [nand.apps EXCEPT ![t] = {}]
            /\ nand'.views = nand.views /\ nand'.map = nand.map
        BY <4>1 DEF ContentInv, CardFits
      <4>3. /\ nand'.tmd = [s \in Titles |-> IF s = t THEN NoTMD ELSE nand.tmd[s]]
            /\ nand'.apps = [s \in Titles |-> IF s = t THEN {} ELSE nand.apps[s]]
        BY <4>2 DEF ContentInv, CardFits
      <4>4. \A s \in Titles : TmdOf(s, nand.tmd[s])'
        BY <4>3 DEF ContentInv, CardFits, TmdOf
      <4>5. nand'.tmd = [s \in Titles |-> nand'.tmd[s]] /\ nand'.apps = [s \in Titles |-> nand'.apps[s]]
        BY <4>3
      <4>6. CardFits'
        BY <4>2, <4>4, <4>5 DEF ContentInv, CardFits
      <4>7. AppsOwn'
        BY <4>3 DEF ContentInv, AppsOwn
      <4> QED
        BY <4>2, <4>6, <4>7
    <3>2. CASE ES_AddTicket
      <4>1. PICK t \in Titles, n \in Views : nand' = [nand EXCEPT !.views[t] = n]
        BY <3>2 DEF ES_AddTicket
      <4>2. /\ nand' = [tmd |-> nand'.tmd, apps |-> nand'.apps, views |-> nand'.views, map |-> nand'.map]
            /\ nand'.views = [nand.views EXCEPT ![t] = n]
            /\ nand'.tmd = nand.tmd /\ nand'.apps = nand.apps /\ nand'.map = nand.map
        BY <4>1 DEF ContentInv, CardFits
      <4>3. nand'.views \in [Titles -> Nat]
        BY <4>2, ESContentAssumption DEF ContentInv, CardFits
      <4> QED
        BY <4>2, <4>3 DEF ContentInv, CardFits, AppsOwn, TmdOf
    <3> QED
      BY <1>10, <3>1, <3>2
  <2>3. MapFits'
    BY <2>1, <2>2 DEF ContentInv, MapFits, MapUnused
  <2> QED
    BY <2>1, <2>2, <2>3, SessionSame, HandlesSame, OutdatedStep, ToldNothing DEF ContentInv
<1>11. CASE OthersFile
  <2>1. /\ UNCHANGED <<nand, TitleID, iTMD, session, ended, leaked, strayed, held, counted>>
        /\ told' = Silence /\ MapUnused
    BY <1>11 DEF OthersFile, Keeps
  <2>2. PICK h \in FFSHandles : \/ Room /\ h = Slot /\ ffs' = [ffs EXCEPT ![h] = Foreign]
                                \/ ffs[h] = Foreign /\ ffs' = [ffs EXCEPT ![h] = Unopened]
    BY <1>11 DEF OthersFile
  <2>3. ffs[h].what \in {"none", "foreign"}
    BY <2>2, SlotFree DEF Unopened, Foreign
  <2>4. h \notin DOMAIN held
    BY <2>3 DEF ContentInv, HandlesFit
  <2>5. PICK f : f \in {Foreign, Unopened} /\ ffs' = [ffs EXCEPT ![h] = f]
    BY <2>2
  <2>6. ffs' = [k \in FFSHandles |-> IF k = h THEN f ELSE ffs[k]]
    BY <2>5 DEF ContentInv, HandlesFit
  <2>7. HandlesFit'
    BY <2>1, <2>4, <2>5, <2>6 DEF ContentInv, HandlesFit, HandlesOwned
  <2> QED
    BY <2>1, <2>7, CardSame, SessionSame, ToldNothing DEF ContentInv
<1>12. CASE ~strayed /\ ContentRestart
  <2>1. /\ TitleID' = First /\ CNTMapDirty' = TRUE /\ ffs' = [h \in FFSHandles |-> Unopened]
        /\ iTMD' = NullTMD /\ session' = NoSession /\ held' = <<>> /\ leaked' = {}
        /\ counted' = NoCount /\ told' = Silence /\ UNCHANGED <<nand, strayed>>
    BY <1>12 DEF ContentRestart
  <2>2. HandlesFit'
    BY <2>1 DEF HandlesFit, HandlesOwned
  <2>3. SessionFits'
    BY <1>12, <2>1, ESContentAssumption DEF SessionFits, SessionHasTmd, NoSession, NullTMD
  <2>4. MapFits' /\ CountFits'
    BY <2>1 DEF MapFits, CountFits
  <2> QED
    BY <2>1, <2>2, <2>3, <2>4, CardSame, ToldNothing DEF ContentInv
<1> QED
  BY <1>1, <1>2, <1>3, <1>4, <1>5, <1>6, <1>7, <1>8, <1>9, <1>10, <1>11, <1>12 DEF ContentNext

\* A handle has open what the TMD named, a content is not found only if it is not there
\* or content.map could not be loaded in that call, lists fit into the buffers made for
\* counts that are not out of date, and handles and iTMD are owned as they should be, for
\* any TMDs, any number of handles and any order of calls, and whichever file operation
\* of a call fails (ESP_OpenContent finds a shared content by its place in a copy of
\* content.map, and opens the TMD, content.map and the content one after the other).
THEOREM ContentSafe == ContentSpec => []ContentRight
<1>1. ContentInit => ContentInv
  <2> SUFFICES ASSUME ContentInit PROVE ContentInv
    OBVIOUS
  <2>1. CardFits /\ AppsOwn
    BY DEF ContentInit, CardFits, AppsOwn, TmdOf
  <2>2. MapFits /\ CountFits
    BY DEF ContentInit, MapFits, CountFits
  <2>3. HandlesFit
    BY DEF ContentInit, HandlesFit, HandlesOwned
  <2>4. SessionFits
    BY ESContentAssumption DEF ContentInit, SessionFits, SessionHasTmd, NoSession, NullTMD
  <2>5. ToldFits
    BY DEF ContentInit, ToldFits, NotFoundIsGone, ListFitsCount, Silence
  <2> QED
    BY <2>1, <2>2, <2>3, <2>4, <2>5 DEF ContentInv
<1>2. ContentInv => ContentRight
  BY DEF ContentInv, ContentRight, HandlesFit, HandleIsContent, ToldFits, SessionFits
<1> QED
  BY <1>1, <1>2, ContentStep, PTL DEF ContentSpec

==============================================================================
