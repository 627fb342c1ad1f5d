------------------------------- MODULE ESServer -------------------------------
(***************************************************************************)
(* The loop of ES (es/main.c): it serves one message at a time, requests   *)
(* of clients and ticks of its own timer, for which it draws the menu.     *)
(* The SD slot that ES shows to the PowerPC (SDI.c) is served here too:    *)
(* its registers are memory, and only raw sectors go to the file server.   *)
(*                                                                         *)
(* What the calls of /dev/es do is in the other modules of ES; here they   *)
(* return.  A launched title starts ES anew.                               *)
(***************************************************************************)
EXTENDS Naturals, Sequences

CONSTANT MaxRuns   \* bound: starts of ES

ASSUME ESServerAssumption == MaxRuns \in Nat

VARIABLES
  title,        \* what runs: "menu" or "game"
  inbox,        \* the message queue, which holds one message
  serving,      \* the message that is being served
  timer,        \* whether the timer runs
  StartTimer,
  found,        \* whether the code that SMenuFindOffsets looks for is in memory
  SDStatus,     \* whether a card is in, and mounted
  HCR,          \* registers of the host controller: clock, reset
  client,       \* what the PowerPC does, and whether it waits for an answer
  runs

servervars == <<title, inbox, serving, timer, StartTimer, found, SDStatus, HCR, client, runs>>

Asks(call, arg) == [call |-> call, arg |-> arg]
NoMessage == Asks("none", "none")
Tick == Asks("tick", "timer")
Search == Asks("search", "timer")
Resting == [does |-> "closed", waits |-> FALSE]

LoopKept == <<title, timer, StartTimer, found, runs>>
SlotRegs == <<SDStatus, HCR>>

-----------------------------------------------------------------------------
\* The menu needs a font; the timer is started for every title.
Started(t, font) ==
  /\ title' = t /\ timer' = font /\ StartTimer' = TRUE /\ found' = FALSE
  /\ SDStatus' = [in |-> t = "menu", mounted |-> FALSE]
  /\ HCR' = [clock |-> {}, reset |-> FALSE]
  /\ inbox' = <<>> /\ serving' = NoMessage /\ client' = Resting

ServerInit ==
  /\ title = "off" /\ timer = FALSE /\ StartTimer = TRUE /\ found = FALSE
  /\ SDStatus = [in |-> FALSE, mounted |-> FALSE]
  /\ HCR = [clock |-> {}, reset |-> FALSE]
  /\ inbox = <<>> /\ serving = NoMessage /\ client = Resting
  /\ runs = 0

ServerStart ==
  /\ title = "off" /\ runs < MaxRuns /\ runs' = runs + 1
  /\ \E t \in {"menu", "game"}, font \in BOOLEAN : Started(t, font)

-----------------------------------------------------------------------------
(***************************************************************************)
(* The PowerPC.  Its driver of the SD slot resets the controller and sets  *)
(* the clock, each time until it reads that it is done, and then looks for *)
(* a card; between its steps it may ask for something else.                *)
(***************************************************************************)

NextStep(does) ==
  CASE does = "closed"   -> Asks("open", "sdio")
    [] does = "opened"   -> Asks("SetHCRegister", "reset")
    [] does = "reset"    -> Asks("GetHCRegister", "reset")
    [] does = "clocked"  -> Asks("SetHCRegister", "clock")
    [] does = "waits"    -> Asks("GetHCRegister", "clock")
    [] does = "ready"    -> Asks("Reset", "card")
    [] does = "card"     -> Asks("GetStatus", "card")

\* Of /dev/es, and of the slot a command, which may read or write sectors.
OtherCalls == {Asks("ioctlv", "es"), Asks("other", "es"), Asks("Command", "card")}

Puts(asked) ==
  /\ title # "off" /\ ~client.waits /\ inbox = <<>>
  /\ inbox' = <<asked>> /\ client' = [client EXCEPT !.waits = TRUE]
  /\ UNCHANGED <<serving, LoopKept, SlotRegs>>

DriverAsks == client.does \notin {"up", "no card"} /\ Puts(NextStep(client.does))
OthersAsk ==
  \/ client.does = "up" /\ Puts(Asks("Unmount", "card"))
  \/ \E asked \in OtherCalls : Puts(asked)

\* The code of the System Menu reaches the memory that ES looks through.
MenuLoads ==
  /\ title = "menu" /\ ~found /\ found' = TRUE
  /\ UNCHANGED <<title, inbox, serving, timer, StartTimer, client, runs, SlotRegs>>

\* The timer sends its message again and again until it is stopped; one that
\* finds the queue full is lost.
TimerFires ==
  /\ timer /\ inbox = <<>> /\ inbox' = <<Tick>>
  /\ UNCHANGED <<serving, client, LoopKept, SlotRegs>>

\* A title is launched, or the power goes off.
Leaves ==
  /\ title # "off" /\ title' = "off" /\ timer' = FALSE
  /\ inbox' = <<>> /\ serving' = NoMessage /\ client' = Resting
  /\ UNCHANGED <<StartTimer, found, runs, SlotRegs>>

-----------------------------------------------------------------------------
(***************************************************************************)
(* The loop.                                                               *)
(***************************************************************************)

Receive ==
  /\ serving = NoMessage /\ inbox # <<>> /\ serving' = Head(inbox) /\ inbox' = <<>>
  /\ UNCHANGED <<client, LoopKept, SlotRegs>>

\* Mutant of Restarted: the timer is left stopped after the search.
Restarted_not == timer' = (serving = Tick) /\ serving' = NoMessage

\* The menu is drawn, and the timer runs again.
Restarted == timer' = TRUE /\ serving' = NoMessage

\* The first tick looks for the menu, without end, if there is one to look for.
FirstTimer ==
  /\ serving = Tick /\ StartTimer /\ StartTimer' = FALSE /\ timer' = FALSE
  /\ serving' = IF title = "menu" THEN Search ELSE NoMessage
  /\ UNCHANGED <<title, inbox, found, client, runs, SlotRegs>>

SMenuFindOffsets ==
  /\ serving = Search /\ found /\ Restarted
  /\ UNCHANGED <<title, inbox, StartTimer, found, client, runs, SlotRegs>>

Drawn ==
  /\ serving = Tick /\ ~StartTimer /\ Restarted
  /\ UNCHANGED <<title, inbox, StartTimer, found, client, runs, SlotRegs>>

\* The driver goes on to its next step when the answer is the one it waits for.
GoesOn(call, arg, val) ==
  CASE call = "open" /\ arg = "sdio" -> "opened"
    [] call = "SetHCRegister" -> IF arg = "reset" THEN "reset" ELSE "waits"
    [] call = "GetHCRegister" ->
         IF arg = "reset" THEN (IF val THEN "reset" ELSE "clocked")
                          ELSE IF val THEN "ready" ELSE "waits"
    [] call = "Reset"     -> "card"
    [] call = "GetStatus" -> IF val THEN "up" ELSE "no card"
    [] call = "Unmount"   -> "no card"
    [] OTHER -> client.does

\* What the answers say matters only where the driver waits for it.
mqueue_ack(val) ==
  /\ client' = [does |-> GoesOn(serving.call, serving.arg, val), waits |-> FALSE]
  /\ serving' = NoMessage

\* A reset is over and a clock is stable at once.
SetHCRegister(reg) ==
  HCR' = IF reg = "reset" THEN [HCR EXCEPT !.reset = FALSE]
         ELSE [HCR EXCEPT !.clock = {"on", "stable"}]

SD_Ioctl ==
  \/ /\ serving.call = "SetHCRegister" /\ SetHCRegister(serving.arg)
     /\ mqueue_ack(FALSE) /\ UNCHANGED SDStatus
  \/ /\ serving = Asks("GetHCRegister", "reset") /\ mqueue_ack(HCR.reset)
     /\ UNCHANGED SlotRegs
  \/ /\ serving = Asks("GetHCRegister", "clock") /\ mqueue_ack("stable" \in HCR.clock)
     /\ UNCHANGED SlotRegs
  \/ /\ serving.call \in {"Reset", "Unmount"}
     /\ SDStatus' = [SDStatus EXCEPT !.mounted = serving.call = "Reset"]
     /\ mqueue_ack(FALSE) /\ UNCHANGED HCR
  \/ /\ serving.call = "GetStatus" /\ mqueue_ack(SDStatus.in /\ SDStatus.mounted)
     /\ UNCHANGED SlotRegs
  \/ /\ serving.call = "Command" /\ mqueue_ack(FALSE) /\ UNCHANGED SlotRegs

Refused == mqueue_ack(FALSE)

\* Calls that do not depend on the device, those of /dev/es, and those that the
\* device does not have.
ES_Request ==
  /\ serving.arg \in {"es", "sdio"} /\ UNCHANGED SlotRegs
  /\ \/ serving.call \in {"open", "ioctlv"} /\ mqueue_ack(FALSE)
     \/ serving.call = "other" /\ Refused

Serve ==
  /\ serving \notin {NoMessage, Search, Tick}
  /\ SD_Ioctl \/ ES_Request
  /\ UNCHANGED <<inbox, LoopKept>>

Loop == Receive \/ FirstTimer \/ SMenuFindOffsets \/ Drawn \/ Serve

ServerNext ==
  \/ ServerStart \/ DriverAsks \/ OthersAsk
  \/ MenuLoads \/ TimerFires \/ Leaves
  \/ Loop

\* ES has a thread of its own, the System Menu is loaded without ES, and a
\* driver goes on as long as the queue has room again and again.
ServerFairness ==
  WF_servervars(Loop) /\ WF_servervars(MenuLoads) /\ SF_servervars(DriverAsks)

ServerSpec == ServerInit /\ [][ServerNext]_servervars /\ ServerFairness

-----------------------------------------------------------------------------
(***************************************************************************)
(* Properties.                                                             *)
(***************************************************************************)

\* Every request is answered, or ES is left: also one that comes while ES looks
\* for the menu in memory.
RequestsAnswered == client.waits ~> ~client.waits

\* A driver of the SD slot that has reset the controller finds a card or none,
\* or ES is left: it does not wait for a register that never changes, whatever
\* else is asked and drawn in between.
SlotFound == client.does = "opened" ~> client.does \in {"up", "no card", "closed"}

\* Once it has been started for the System Menu, the timer that draws the menu
\* is never lost: it runs whenever ES serves no tick.
MenuRuns ==
  title = "menu" /\ ~StartTimer /\ serving \notin {Tick, Search} => timer
===============================================================================
