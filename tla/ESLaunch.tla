-------------------------------- MODULE ESLaunch --------------------------------
(***************************************************************************)
(* How a title is started (es/ES.c).  To start another title ES writes its *)
(* ID into /sys/launch.sys and boots the kernel again; ES_BootSystem then  *)
(* finds the file, deletes it, loads the modules of the IOS the title asks *)
(* for and lets the PowerPC run it.  A disc is started by launching an     *)
(* IOS: what runs is the title in /sys/disc.sys, which ES_DIVerify wrote.  *)
(* The power may go off between any two steps, and each may fail.          *)
(*                                                                         *)
(* A title is a number: MENU and the IOSs are below Others, whose upper    *)
(* word is not 1.  NANDWriteFileSafe (see FSClients) writes the file,      *)
(* fails, or ends early without an error; the old file goes before the new *)
(* one takes its place, and an error may be answered after that, too.      *)
(***************************************************************************)
EXTENDS Naturals, Sequences, FiniteSets

CONSTANTS
  MENU, BC, BCNAND, \* 1-2, 1-100 and 1-200
  Others,           \* the first title whose upper word is not 1
  Installed,        \* TMDs on the card at first: title to [ios, version, modules]
  Discs,            \* discs: a set of [title, ios, version]
  Wanted,           \* the titles clients name, to start them or to have their UID
  Consoles,         \* consoles: a set of [wiiu, dibin, usb, gc], see below
  Fallback,         \* the IOS that stands for those that cannot be loaded, 35
  MaxStarts,        \* bound: starts of ES
  MaxAsks           \* bound: requests that start nothing

ASSUME ESLaunchAssumption ==
  /\ {MENU, BC, BCNAND} \subseteq 1 .. Others - 1 /\ MENU \notin {BC, BCNAND}
  /\ MENU \in DOMAIN Installed /\ DOMAIN Installed \subseteq Nat \ {0}
  /\ \A t \in DOMAIN Installed : Installed[t].version \in Nat
  /\ Others \in Nat
  /\ \A d \in Discs : d.title \in Nat /\ d.title >= Others /\ d.version \in Nat
  /\ Wanted \subseteq Nat \ {0}
  /\ Consoles \subseteq [wiiu : BOOLEAN, dibin : BOOLEAN, usb : BOOLEAN, gc : BOOLEAN]
  /\ MaxStarts \in Nat /\ MaxAsks \in Nat

VARIABLES
  tmds,      \* title.tmd of each title on the card
  launch,    \* /sys/launch.sys: a title, or None
  disc,      \* /sys/disc.sys
  hardware,  \* the console: is a Wii U, has di.bin, runs FS from USB, can enter GC mode
  boot,      \* ES: where it is, and its globals
  uid,       \* the title whose UID the PowerPC's process has
  ppc,       \* the title the PowerPC runs
  asked,     \* history: the title that should run next
  lost,      \* history: the power went off, or a write ended early, since that was asked
  verify,    \* ES_DIVerify: where it is, its disc, and if the TMD could not be loaded
  verified,  \* history: the disc of the last ES_DIVerify that came to its end
  parted,    \* history: a request failed between TitleID and the UID
  amiss,     \* history: launch.sys or disc.sys could not be written, deleted or read
  starts, asks

lavars == <<tmds, launch, disc, hardware, boot, uid, ppc, asked, lost, verify, verified,
            parted, amiss, starts, asks>>

None == 0
NoVerify == [at |-> "none", unread |-> FALSE,
             disc |-> [title |-> None, ios |-> None, version |-> 0]]
IsIOS(t) == t < Others /\ t # MENU
At(s) == [at |-> s, title |-> None, ios |-> None, i |-> 1, disc |-> FALSE]

Hist == <<asked, lost, verified>>
Card == <<tmds, launch, disc>>

Go(s) == boot' = [boot EXCEPT !.at = s]
Ends(s) == boot' = [At(s) EXCEPT !.title = boot.title]
Stays == UNCHANGED <<hardware, uid, ppc, verify, parted, starts, asks, Hist>>

\* A file that is deleted may stay, and nobody looks at the result.
LaunchGoes == launch' \in {None, launch} /\ amiss' = (amiss \/ launch' # None)
DiscGoes == disc' \in {None, disc} /\ amiss' = (amiss \/ disc' # None)

-----------------------------------------------------------------------------
(***************************************************************************)
(* ES_BootSystem.                                                          *)
(***************************************************************************)

\* CheckBootTitle reads launch.sys; 1-2 is what runs without one, or if that fails.
ReadLaunch ==
  /\ boot.at = "check"
  /\ \E t \in {launch, None} :
       /\ boot' = [boot EXCEPT !.at = "erase", !.title = IF t = None THEN MENU ELSE t]
       /\ amiss' = (amiss \/ t # launch)
  /\ UNCHANGED Card /\ Stays

EraseLaunch ==
  /\ boot.at = "erase"
  /\ LaunchGoes
  /\ Go("kernel")
  /\ UNCHANGED <<tmds, disc>> /\ Stays

Loadable(v) == IF v < 28 THEN Fallback ELSE IF v = 58 THEN 56 ELSE v

\* The IOS a title needs is in its TMD; an IOS is its own, and stands for a disc.
\* A TMD that is not there, or cannot be read, stops ES.
FindKernel ==
  /\ boot.at = "kernel"
  /\ LET t == boot.title
         own == IsIOS(t)
         v == IF own THEN t ELSE IF t \in DOMAIN tmds THEN tmds[t].ios ELSE None
     IN  \/ Ends("panic")
         \/ /\ v \in DOMAIN tmds
            /\ boot' = [boot EXCEPT !.at = "modules", !.ios = Loadable(v), !.disc = own]
  /\ UNCHANGED <<Card, amiss>> /\ Stays

Modules == tmds[boot.ios].modules

\* A stub has three contents; another IOS is loaded instead.
LoadModules ==
  /\ boot.at = "modules"
  /\ \/ Ends("panic")
     \/ /\ boot.ios \in DOMAIN tmds
        /\ boot' = IF Len(Modules) = 3 THEN [boot EXCEPT !.ios = Fallback]
                   ELSE [boot EXCEPT !.at = "module", !.i = 1]
  /\ UNCHANGED <<Card, amiss>> /\ Stays

\* One content: the kernel is running already, and the SD module would meet the
\* FS module on the card.  One that is not there, or cannot be loaded, stops ES.
LoadModule ==
  /\ boot.at = "module" /\ boot.i <= Len(Modules)
  /\ LET m == Modules[boot.i]
         skip == m = "kernel" \/ (m = "sd" /\ ~ hardware.usb)
         waits == m = "di" /\ hardware.dibin /\ ~ hardware.usb
     IN  \/ ~ skip /\ boot' = [boot EXCEPT !.at = "hung"]
         \/ boot' = [boot EXCEPT !.i = @ + 1, !.at = IF waits THEN "di" ELSE "module"]
  /\ UNCHANGED <<Card, amiss>> /\ Stays

\* DVDConnected answers 1 when DI has its disk (external).
DIConnected == boot.at = "di" /\ Go("module") /\ UNCHANGED <<Card, amiss>> /\ Stays

\* The network module takes its time (external).
NetworkIsUp ==
  /\ boot.at = "module" /\ boot.i > Len(Modules)
  /\ Go(IF boot.disc THEN "disc" ELSE "title")
  /\ UNCHANGED <<Card, amiss>> /\ Stays

\* The PowerPC runs t.
Runs(t) == ppc' = t /\ asked' = MENU /\ lost' = FALSE /\ UNCHANGED verified

RunDisc ==
  /\ boot.at = "disc" /\ disc # None
  /\ boot' = [boot EXCEPT !.at = "disc runs", !.title = disc]
  /\ Runs(disc)
  /\ UNCHANGED <<Card, hardware, uid, verify, parted, amiss, starts, asks>>

\* There is none, or it cannot be read.
NoDisc ==
  /\ boot.at = "disc"
  /\ Go("title") /\ amiss' = (amiss \/ disc # None)
  /\ UNCHANGED Card /\ Stays

EraseDisc ==
  /\ boot.at \in {"disc runs", "title"}
  /\ DiscGoes
  /\ Ends(IF boot.at = "title" THEN "load" ELSE "running")
  /\ UNCHANGED <<tmds, launch>> /\ Stays

\* LoadTitle: the UID is looked up, or made, which may fail.  On a Wii U every
\* title but 1-2 is started by that of BC-NAND.  An IOS is not started, but for
\* those from 1-100 on, which take the place of the running one.
LoadTitle ==
  /\ boot.at = "load"
  /\ \/ /\ boot.title \notin DOMAIN tmds
        /\ Ends("nothing") /\ UNCHANGED <<uid, ppc, Hist>>
     \/ Ends("nothing") /\ UNCHANGED <<uid, ppc, Hist>>
     \/ /\ boot.title \in DOMAIN tmds
        /\ uid' = boot.title
        /\ IF hardware.wiiu
           THEN IF boot.title = MENU \/ BCNAND \in DOMAIN tmds
                THEN Runs(boot.title) /\ Ends("running")
                ELSE Ends("nothing") /\ UNCHANGED <<ppc, Hist>>
           ELSE IF ~ IsIOS(boot.title) THEN Runs(boot.title) /\ Ends("running")
                ELSE Ends(IF boot.title >= BC THEN "gc" ELSE "nothing")
                     /\ UNCHANGED <<ppc, Hist>>
  /\ UNCHANGED <<Card, hardware, verify, parted, amiss, starts, asks>>

ES_BootSystem ==
  \/ ReadLaunch \/ EraseLaunch \/ FindKernel \/ LoadModules \/ LoadModule \/ DIConnected
  \/ NetworkIsUp \/ RunDisc \/ NoDisc \/ EraseDisc \/ LoadTitle

-----------------------------------------------------------------------------
(***************************************************************************)
(* What the running title asks for.                                        *)
(***************************************************************************)

Idle == boot.at = "running" /\ verify.at = "none"
Starts == starts < MaxStarts /\ starts' = starts + 1 /\ UNCHANGED asks
Requests == asks < MaxAsks /\ asks' = asks + 1 /\ UNCHANGED starts
Restarts ==
  /\ boot' = At("check") /\ uid' = None /\ ppc' = None
  /\ verify' = NoVerify /\ verified' = None /\ parted' = FALSE

\* What a launch of t is to run: an IOS is launched for the disc.
Goal(t) == IF IsIOS(t) /\ verified # None THEN verified ELSE t

\* ESP_LaunchTitle of any title but 1-100: write launch.sys and boot the kernel.
\* The write succeeds, ends early without an error, or returns one.
LaunchTitle(t) ==
  /\ Idle /\ t # BC
  /\ \/ /\ Starts
        /\ \/ launch' = t /\ lost' = FALSE
           \/ launch' = launch /\ lost' = TRUE
        /\ asked' = Goal(t)
        /\ Restarts /\ UNCHANGED amiss
     \/ /\ Requests
        /\ launch' \in {launch, t, None}
        /\ amiss' = (amiss \/ launch' # launch)
        /\ UNCHANGED <<boot, uid, ppc, asked, lost, verify, verified, parted>>
  /\ UNCHANGED <<tmds, disc, hardware>>

\* 1-100: a loader for GC discs is booted, or the installed one; when there is
\* none, or it does not boot, the kernel is, as after a start.
LaunchGC ==
  /\ Idle /\ Starts
  /\ \/ /\ hardware.gc \/ BC \in DOMAIN tmds
        /\ Go("gc") /\ ppc' = None /\ UNCHANGED <<uid, verify, verified, parted>>
     \/ Restarts
  /\ asked' = MENU /\ lost' = FALSE
  /\ UNCHANGED <<Card, hardware, amiss>>

\* ES_SetUID: TitleID is t at once, whether the UID is found and set or not; the
\* TMD and the group come after that.
SetTitleUID(t) ==
  /\ Idle /\ Requests
  /\ boot' = [boot EXCEPT !.title = t]
  /\ \/ uid' = t /\ parted' = FALSE
     \/ uid' = uid /\ parted' = (uid # t)
  /\ UNCHANGED <<Card, hardware, ppc, verify, amiss, Hist>>

-----------------------------------------------------------------------------
(***************************************************************************)
(* ESP_DIVerify of a disc, file by file.                                   *)
(***************************************************************************)

Title == verify.disc.title
Replies == verify' = NoVerify
Verifies(s) == verify' = [verify EXCEPT !.at = s]
\* All but the UID, TitleID and the files.
Untouched == UNCHANGED <<hardware, ppc, asked, lost, starts, asks>>

DIVerify(d) ==
  /\ Idle /\ Requests
  /\ verify' = [at |-> "load", unread |-> FALSE, disc |-> d]
  /\ UNCHANGED <<Card, hardware, boot, uid, ppc, parted, amiss, Hist>>

\* Mutant of LoadOldTMD: the TMD is replaced whatever its version is.
LoadOldTMD_any ==
  /\ verify.at = "load"
  /\ Verifies("write")
  /\ UNCHANGED <<Card, boot, uid, verified, parted, amiss>> /\ Untouched

\* The TMD on the card stays if it is no older; it is replaced if it cannot be loaded.
LoadOldTMD ==
  /\ verify.at = "load"
  /\ \/ /\ Title \in DOMAIN tmds
        /\ Verifies(IF tmds[Title].version < verify.disc.version THEN "write" ELSE "uid")
     \/ verify' = [verify EXCEPT !.at = "write", !.unread = Title \in DOMAIN tmds]
  /\ UNCHANGED <<Card, boot, uid, verified, parted, amiss>> /\ Untouched

\* The rename finds the old TMD in its way, and deletes it.
DropTMD ==
  /\ verify.at = "write" /\ Title \in DOMAIN tmds
  /\ tmds' = [t \in DOMAIN tmds \ {Title} |-> tmds[t]]
  /\ Verifies("move")
  /\ UNCHANGED <<launch, disc, boot, uid, verified, parted, amiss>> /\ Untouched

\* An error may be answered though the TMD is in its place.
MoveTMD ==
  /\ verify.at \in {"write", "move"} /\ Title \notin DOMAIN tmds
  /\ tmds' = [t \in DOMAIN tmds \cup {Title} |->
       IF t \in DOMAIN tmds THEN tmds[t]
       ELSE [ios |-> verify.disc.ios, version |-> verify.disc.version, modules |-> <<>>]]
  /\ Verifies("uid") \/ Replies
  /\ UNCHANGED <<launch, disc, boot, uid, verified, parted, amiss>> /\ Untouched

\* The TMD is not written, with an error or, before the rename, without one.
LeaveTMD ==
  /\ \/ verify.at = "write" /\ Verifies("uid")
     \/ verify.at \in {"write", "move"} /\ Replies
  /\ UNCHANGED <<Card, boot, uid, verified, parted, amiss>> /\ Untouched

\* Mutant of MakeUid: TitleID is set before the UID is made.
MakeUid_early ==
  /\ verify.at = "uid"
  /\ boot' = [boot EXCEPT !.title = Title]
  /\ \/ uid' = Title /\ Verifies("gid")
     \/ uid' = uid /\ Replies
  /\ UNCHANGED <<Card, verified, parted, amiss>> /\ Untouched

\* The key and the UID: made and set, or the answer is an error.
MakeUid ==
  /\ verify.at = "uid"
  /\ \/ uid' = Title /\ Verifies("gid")
     \/ uid' = uid /\ Replies
  /\ UNCHANGED <<Card, boot, verified, parted, amiss>> /\ Untouched

\* The group is set, TitleID is the disc's, and launch.sys goes; or the answer is an
\* error, with the new UID and the old TitleID.
SetGid ==
  /\ verify.at = "gid"
  /\ \/ /\ boot' = [boot EXCEPT !.title = Title] /\ parted' = FALSE
        /\ LaunchGoes /\ Verifies("disc")
     \/ parted' = (boot.title # Title) /\ Replies /\ UNCHANGED <<boot, launch, amiss>>
  /\ UNCHANGED <<tmds, disc, uid, verified>> /\ Untouched

\* disc.sys is written as the TMD was, with a result nobody looks at.
DropDisc ==
  /\ verify.at = "disc" /\ disc # None /\ disc' = None
  /\ UNCHANGED <<tmds, launch, boot, uid, verify, verified, parted, amiss>> /\ Untouched

WriteDisc ==
  /\ verify.at = "disc"
  /\ \/ disc = None /\ disc' = Title /\ amiss' = (launch # None)
     \/ disc' = disc /\ amiss' = TRUE
  /\ verified' = Title /\ Replies
  /\ UNCHANGED <<tmds, launch, boot, uid, parted>> /\ Untouched

ESP_DIVerify ==
  \/ LoadOldTMD \/ DropTMD \/ MoveTMD \/ LeaveTMD \/ MakeUid \/ SetGid \/ DropDisc \/ WriteDisc

-----------------------------------------------------------------------------
PowerOff ==
  /\ Starts
  /\ Restarts
  /\ lost' = (lost \/ ppc = None)
  /\ UNCHANGED <<Card, hardware, asked, amiss>>

LAInit ==
  /\ tmds = Installed /\ launch = None
  /\ disc \in {None} \cup {d.title : d \in Discs}
  /\ hardware \in Consoles
  /\ boot = At("check") /\ uid = None /\ ppc = None
  /\ verify = NoVerify /\ parted = FALSE
  /\ asked = MENU /\ lost = FALSE /\ verified = None /\ amiss = FALSE
  /\ starts = 0 /\ asks = 0

LANext ==
  \/ ES_BootSystem
  \/ \E t \in Wanted : LaunchTitle(t) \/ SetTitleUID(t)
  \/ LaunchGC
  \/ \E d \in Discs : DIVerify(d)
  \/ ESP_DIVerify
  \/ PowerOff

LAFairness == WF_lavars(ES_BootSystem) /\ WF_lavars(ESP_DIVerify)

LASpec == LAInit /\ [][LANext]_lavars /\ LAFairness

-----------------------------------------------------------------------------
(***************************************************************************)
(* Properties.                                                             *)
(***************************************************************************)

\* What starts to run is what was asked for, and for each request once: after
\* that, and when the power went off before, the menu runs.  It may be something
\* else only if launch.sys or disc.sys could not be written, deleted or read.
RunsWhatWasAsked ==
  [][(ppc' # ppc /\ ppc' # None) =>
       ppc' = asked \/ (ppc' = MENU /\ lost) \/ amiss]_lavars

\* Between two requests the PowerPC's UID is that of the title ES_GetTitleID names,
\* whether ES_DIVerify failed before it set the UID or came to its end; it has none
\* only when a disc was just started.  The two part in one that fails to set the
\* group, and in an ES_SetUID that fails, until the next that does not.
UidIsTitle == (Idle /\ uid # None /\ ~ parted) => uid = boot.title

\* Nothing of a request is left once a title runs: what a reset then starts is
\* the menu, unless a file could not be written or deleted.
NothingLeft == (Idle /\ verified = None /\ ~ amiss) => launch = None /\ disc = None

\* A title's TMD leaves the card only to make room for that of a newer disc, or if
\* it could not be loaded; and it never gets older in place.  (It is gone for good
\* if the power goes off, or the rename fails, right then.)
NoDowngrade ==
  [][\A t \in DOMAIN tmds :
       \/ t \in DOMAIN tmds' /\ tmds'[t].version >= tmds[t].version
       \/ /\ verify.at = "write" /\ t = Title
          /\ verify.unread \/ tmds[t].version < verify.disc.version]_lavars

\* A start comes to an end, and so does ES_DIVerify.
Ended == boot.at \in {"running", "panic", "hung", "nothing", "gc"} /\ verify.at = "none"
StartEnds == ~ Ended ~> Ended

\* No title is started but the one that was asked for last.
LaunchRight == UidIsTitle /\ NothingLeft
=============================================================================
