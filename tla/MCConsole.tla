------------------------------ MODULE MCConsole -------------------------------
(***************************************************************************)
(* What ES does beside importing titles and the menu: it starts titles,    *)
(* dumps discs, opens and lists contents, sets the region, and serves      *)
(* requests.  The parts share no state that matters here; in a behaviour   *)
(* only `part' moves.                                                      *)
(***************************************************************************)
EXTENDS ESLaunch, Dump, ESContent, ESConfig,
        ESServer, ESChannels, TLC

VARIABLE part
consolevars == <<part, lavars, duvars, contentvars, configvars,
                 servervars, channelvars>>

\* The menu runs on IOS 30, a stub; the game asks for 9, which 35 stands for.
TMD(ios, v, ms) == [ios |-> ios, version |-> v, modules |-> ms]
SomeTitles ==
  2 :> TMD(30, 1, <<>>) @@ 30 :> TMD(0, 1, <<"kernel", "own", "own">>)
  @@ 35 :> TMD(0, 1, <<"di", "sd">>)
  @@ 1000 :> TMD(9, 1, <<>>) @@ 9 :> TMD(0, 1, <<>>)
SomeDiscs ==
  [title : {2000}, ios : {35}, version : {1}]
  \cup [title : {2001}, ios : {35}, version : {1, 2}]
Console(w, d, u, g) == [wiiu |-> w, dibin |-> d, usb |-> u, gc |-> g]
SomeConsoles == {Console(FALSE, TRUE, FALSE, TRUE), Console(TRUE, TRUE, TRUE, FALSE)}

\* Discs of one and of two parts; file tables in and out of the order of the
\* offsets, with files that cross clusters, are empty, or share an offset.
SomeSectors == "gc" :> 2 @@ "wii" :> 4 @@ "wii2" :> 5
F(o, n) == [offset |-> o, size |-> n]
SomeFsts == {<<F(5, 4), F(1, 4)>>, <<F(2, 5), F(13, 6), F(9, 1)>>, <<F(4, 2), F(4, 0)>>,
             <<F(3, 3), F(10, 2)>>}

\* Contents of a title's own and shared ones, one of them in both titles.
Cont(i, n, s) == [index |-> i, id |-> n, shared |-> s]
SomeTmds ==
  1 :> {<<Cont(0, 1, FALSE), Cont(2, 2, TRUE)>>,
        <<Cont(0, 1, FALSE), Cont(2, 2, TRUE), Cont(1, 3, FALSE)>>}
  @@ 2 :> {<<Cont(1, 4, TRUE), Cont(0, 2, TRUE)>>}

\* A part that does not move is where nothing is left to do.
LaunchRests ==
  /\ tmds = Installed /\ launch = None /\ disc = None
  /\ hardware = [wiiu |-> FALSE, dibin |-> TRUE, usb |-> FALSE, gc |-> FALSE]
  /\ boot = At("running") /\ uid = None /\ ppc = None
  /\ verify = NoVerify /\ parted = FALSE
  /\ asked = MENU /\ lost = FALSE /\ verified = None /\ amiss = FALSE
  /\ starts = 0 /\ asks = 0
DumpRests ==
  /\ drive = Nothing /\ fst = <<>>
  /\ DVDStatus = 0 /\ DVDType = Nothing /\ DVDError = FALSE /\ DVDOffset = 0
  /\ DVDErrorRetry = 0 /\ DVDErrorSkip = FALSE /\ buffer = Zero /\ handle = NoPart
  /\ parts = [p \in {0, 1} |-> <<>>]
  /\ settings = [extract |-> FALSE, skip |-> FALSE]
  /\ ex = [on |-> FALSE, old |-> 0, got |-> <<>>, count |-> 0]
  /\ clean = TRUE /\ swaps = 0 /\ dumps = 0

ConfigRests ==
  /\ region = "EUR" /\ setting = [text |-> TextOf(region), coded |-> TRUE]
  /\ SettingsBuf = Unread /\ turn = NoTurn
  /\ unopened = 0 /\ configcuts = 0 /\ systems = 0

ChannelsRest ==
  /\ installed = {} /\ cnlcache = {} /\ channelCache = {} /\ running = FALSE
  /\ atStart = {} /\ came = FALSE /\ went = FALSE
  /\ moves = 0 /\ unlisted = 0 /\ losses = 0

ConsoleInit ==
  /\ part \in {"launch", "dump", "content", "config", "server", "channels"}
  /\ IF part = "launch" THEN LAInit ELSE LaunchRests
  /\ IF part = "dump" THEN DUInit ELSE DumpRests
  /\ ContentInit
  /\ IF part = "config" THEN ConfigInit ELSE ConfigRests
  /\ ServerInit
  /\ IF part = "channels" THEN ChannelsInit ELSE ChannelsRest

ConsoleNext ==
  /\ UNCHANGED part
  /\ IF part = "launch" THEN LANext ELSE UNCHANGED lavars
  /\ IF part = "dump" THEN DUNext ELSE UNCHANGED duvars
  /\ IF part = "content" THEN ContentNext ELSE UNCHANGED contentvars
  /\ IF part = "config" THEN ConfigNext ELSE UNCHANGED configvars
  /\ IF part = "server" THEN ServerNext ELSE UNCHANGED servervars
  /\ IF part = "channels" THEN ChannelsNext ELSE UNCHANGED channelvars

ConsoleFairness ==
  /\ WF_lavars(part = "launch" /\ ES_BootSystem)
  /\ WF_lavars(part = "launch" /\ ESP_DIVerify)
  /\ WF_duvars(part = "dump" /\ DumpDoTick)
  /\ WF_servervars(part = "server" /\ Loop)
  /\ WF_servervars(part = "server" /\ MenuLoads)
  /\ SF_servervars(part = "server" /\ DriverAsks)

ConsoleSpec == ConsoleInit /\ [][ConsoleNext]_consolevars /\ ConsoleFairness

\* What was asked for happens: the title that was launched runs, an IOS is not
\* replaced by an older one, a start and a dump come to an end, every request is
\* answered and the SD slot finds its card.
ConsoleRuns ==
  /\ RunsWhatWasAsked /\ NoDowngrade /\ StartEnds
  /\ DumpEnds /\ ExtractEnds /\ RequestsAnswered /\ SlotFound
===============================================================================
