------------------------------- MODULE ESConfig -------------------------------
(***************************************************************************)
(* The console's region (es/Config.c).  When ES starts a title of another  *)
(* region it rewrites three values of setting.txt, one at a time: each     *)
(* time the whole text is printed anew from the copy in memory, encrypted  *)
(* in place, written over the file, and loaded again.                      *)
(*                                                                         *)
(* SYSCONF is changed in memory only, as the call that would save it is    *)
(* commented out, and so it is left out here.                              *)
(***************************************************************************)
EXTENDS Naturals, Sequences

CONSTANTS
  MaxSystems,   \* bound: titles that set the region
  MaxUnopened,  \* bound: times the file cannot be opened
  MaxConfigCuts \* bound: power failures

ASSUME ESConfigAssumption ==
  MaxSystems \in Nat /\ MaxUnopened \in Nat /\ MaxConfigCuts \in Nat

VARIABLES
  setting,      \* setting.txt: its values, and whether it is encrypted
  SettingsBuf,  \* the copy: its values, and whether they can be read
  turn,         \* the region that is being set, and the values still to come
  region,       \* history: the region that was set last, if all of it was
  unopened, configcuts, systems

configvars == <<setting, SettingsBuf, turn, region, unopened, configcuts, systems>>

Regions == {"JAP", "USA", "EUR"}
SetKeys == <<"AREA", "VIDEO", "GAME">>

\* Config_ChangeSystem: what each region means.
Value(r, key) ==
  CASE key = "AREA"  -> r
    [] key = "VIDEO" -> IF r = "EUR" THEN "PAL" ELSE "NTSC"
    [] key = "GAME"  -> r
TextOf(r) ==
  [AREA |-> Value(r, "AREA"), VIDEO |-> Value(r, "VIDEO"), GAME |-> Value(r, "GAME"),
   SERNO |-> "serial"]   \* MODEL, DVD, MPCH and CODE are treated like SERNO

\* What is printed for a name that was not found.
NullText == "null"
Unread == [text |-> [k \in {"AREA", "VIDEO", "GAME", "SERNO"} |-> NullText], plain |-> FALSE]
NoTurn == [region |-> "none", todo |-> <<>>]

ConfigInit ==
  /\ region \in Regions
  /\ setting = [text |-> TextOf(region), coded |-> TRUE]
  /\ SettingsBuf = Unread /\ turn = NoTurn
  /\ unopened = 0 /\ configcuts = 0 /\ systems = 0

-----------------------------------------------------------------------------
\* IOS_Open.
OpensSetting == UNCHANGED unopened
SettingFails == unopened < MaxUnopened /\ unopened' = unopened + 1

\* Reading decrypts what may not have been encrypted.
Config_InitSetting(file) == [text |-> file.text, plain |-> file.coded]

Config_GetSettingsString(buf, key) == IF buf.plain THEN buf.text[key] ELSE NullText

Printed(buf, key, v) ==
  [text |-> [k \in DOMAIN buf.text |->
               IF k = key THEN v ELSE Config_GetSettingsString(buf, k)],
   plain |-> TRUE]

\* Config_SettingsFlush: the write and the load may each fail to open the file,
\* and the power may go off before and after the write.
Coded(buf) == [text |-> buf.text, coded |-> buf.plain]
Crypted(buf) == [buf EXCEPT !.plain = ~buf.plain]

\* Mutant of Reloaded: the copy stays as it was written.
Reloaded_not(buf, file) == SettingsBuf' = Crypted(buf)

Reloaded(buf, file) == SettingsBuf' = Config_InitSetting(file)

Config_SettingsFlush(buf) ==
  \/ /\ OpensSetting
     /\ setting' = Coded(buf) /\ Reloaded(buf, setting')
  \/ /\ SettingFails
     /\ \/ UNCHANGED setting /\ Reloaded(buf, setting)
        \/ setting' = Coded(buf) /\ SettingsBuf' = Crypted(buf)

-----------------------------------------------------------------------------
\* A title of a region, of a region that is not known ("KOR" and the rest), or
\* the System Menu.
Config_ChangeSystem ==
  /\ turn = NoTurn /\ systems < MaxSystems /\ systems' = systems + 1
  /\ \/ OpensSetting /\ SettingsBuf' = Config_InitSetting(setting)
     \/ SettingFails /\ UNCHANGED SettingsBuf
  /\ \E r \in Regions \cup {"KOR"} :
       turn' = [region |-> r, todo |-> (IF r = "KOR" THEN <<>> ELSE SetKeys) \o <<"flush">>]
  /\ UNCHANGED <<setting, region, configcuts>>

Config_SetSettingsValue ==
  /\ turn # NoTurn /\ Head(turn.todo) # "flush"
  /\ LET key == Head(turn.todo)
     IN  Config_SettingsFlush(Printed(SettingsBuf, key, Value(turn.region, key)))
  /\ turn' = [turn EXCEPT !.todo = Tail(@)]
  /\ UNCHANGED <<region, configcuts, systems>>

\* The last call of Config_ChangeSystem.
FinalFlush ==
  /\ turn # NoTurn /\ Head(turn.todo) = "flush"
  /\ Config_SettingsFlush(SettingsBuf)
  /\ turn' = NoTurn
  /\ region' = IF turn.region \in Regions THEN turn.region ELSE region
  /\ UNCHANGED <<configcuts, systems>>

ConfigCut ==
  /\ turn # NoTurn /\ configcuts < MaxConfigCuts /\ configcuts' = configcuts + 1
  /\ SettingsBuf' = Unread /\ turn' = NoTurn /\ region' = "mixed"
  /\ UNCHANGED <<setting, unopened, systems>>

ConfigNext ==
  Config_ChangeSystem \/ Config_SetSettingsValue \/ FinalFlush \/ ConfigCut

ConfigSpec == ConfigInit /\ [][ConfigNext]_configvars

-----------------------------------------------------------------------------
(***************************************************************************)
(* Properties.  Both hold as long as every open succeeds: one that does    *)
(* not leaves the encrypted text in memory, from which the next call       *)
(* prints a file without any of the values.                                *)
(***************************************************************************)

\* Values that ES does not change, the serial number among them, are in
\* setting.txt in a form that can be read, however often the region is set and
\* whenever the power goes off in between.
SerialKept ==
  unopened = 0 => setting.coded /\ setting.text.SERNO = "serial"

\* When no region is being set, the three values are those of one region, the
\* one set last, unless the power went off while it was set.
RegionWhole ==
  turn = NoTurn /\ unopened = 0 /\ region # "mixed" => setting.text = TextOf(region)

\* setting.txt keeps what is not of the region, and is of one region when a title is
\* started.
RegionKept == SerialKept /\ RegionWhole
===============================================================================
