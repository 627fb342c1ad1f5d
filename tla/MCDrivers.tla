------------------------------- MODULE MCDrivers -------------------------------
(***************************************************************************)
(* The drivers under the file servers and the boot loader, each by itself: *)
(* they share no state, and in a behaviour only `part' moves.              *)
(***************************************************************************)
EXTENDS SDCard, MiniBoot, USBStorage, EHCI

VARIABLE part
drvars == <<part, sdvars, bootvars, usbvars, ehcivars>>

\* The NAND chips boot2 is loaded from, and how a page of them is misread.
Map(g, bad) == [sig |-> TRUE, gen |-> g, bad |-> bad]
MapPages ==
  {<<NoMap, NoMap, NoMap>>, <<Map(1, {}), Map(1, {}), NoMap>>,
   <<Map(2, {1}), NoMap, Map(2, {1})>>, <<Map(1, {}), Map(2, {2}), Map(2, {2})>>}
\* No two pages are alike.
Numbered == [p \in Pages |-> {{i \in Address : (p \div 2^i) % 2 = 1}}]
SmallChips ==
  [maps : [1 .. BOOT2_END -> MapPages], heads : {{1}, {2}}, size : {1, 3}, pages : {Numbered}]
OneOrTwo ==
  {[data |-> {{0, 1}}, code |-> {}], [data |-> {}, code |-> {<<"odd", 1>>}],
   [data |-> {{}, {0, 2}}, code |-> {}], [data |-> {{1}}, code |-> {<<"even", 0>>}]}

\* Offset in a page and length of the buffers of the USB transfers.
SomeBuffers == {<<0, 0>>, <<0, 21>>, <<3, 34>>}

\* A part that does not move is where nothing is left to do.
SDRests ==
  /\ build = "polled" /\ slot = "none" /\ line = FreeLine /\ power = FALSE /\ pend = {}
  /\ hp = [intr |-> {}, read |-> {}, status |-> {}]
  /\ card = NoCard /\ cmd = NoCommand
  /\ call = [op |-> "none", direct |-> FALSE, answer |-> "none"]
  /\ carried = FALSE /\ unheard = FALSE /\ hasty = FALSE /\ events = 0
BootRests ==
  /\ chip = (CHOOSE c \in Chips : TRUE)
  /\ nand = [page |-> -1, irq |-> FALSE] /\ irq_flag = FALSE /\ waiting = "no"
  /\ buffer = [page |-> -1, data |-> {}, ecc |-> {}]
  /\ pc = "failed" /\ load = StartLoad(0) /\ boot2 = <<>> /\ flips = 0
USBRests ==
  /\ user = "di" /\ handle = Closed /\ toggles = [p \in Pipes |-> 0]
  /\ unit = Silent /\ ready = [l \in {0} |-> "no_medium"]
  /\ cyc = NoCycle /\ job = NoJob
  /\ told = FALSE /\ halves = FALSE /\ long = FALSE /\ faults = 0 /\ requests = 0
EHCIRests ==
  /\ urb = NoUrb /\ queue = <<>> /\ linked = FALSE /\ hc = AtHead /\ sts_int = FALSE
  /\ tog = [d \in Dirs |-> 0] /\ dtog = [d \in Dirs |-> 0]
  /\ moved = 0 /\ gaveup = FALSE /\ leftover = FALSE /\ late = FALSE
  /\ ports = [p \in 0 .. NumPorts - 1 |-> "empty"]
  /\ found = [AtPort(0) EXCEPT !.at = "failed"]
  /\ troubles = 0

DRInit ==
  \/ part = "sd" /\ SDInit /\ BootRests /\ USBRests /\ EHCIRests
  \/ part = "boot" /\ BootInit /\ SDRests /\ USBRests /\ EHCIRests
  \/ part = "usb" /\ USBInit /\ SDRests /\ BootRests /\ EHCIRests
  \/ part = "ehci" /\ EHCIInit /\ SDRests /\ BootRests /\ USBRests

DRNext ==
  /\ UNCHANGED part
  /\ \/ part = "sd" /\ SDNext /\ UNCHANGED <<bootvars, usbvars, ehcivars>>
     \/ part = "boot" /\ BootNext /\ UNCHANGED <<sdvars, usbvars, ehcivars>>
     \/ part = "usb" /\ USBNext /\ UNCHANGED <<sdvars, bootvars, ehcivars>>
     \/ part = "ehci" /\ EHCINext /\ UNCHANGED <<sdvars, bootvars, usbvars>>

DRFairness ==
  /\ WF_sdvars(part = "sd" /\ Driver) /\ WF_sdvars(part = "sd" /\ Hardware)
  /\ WF_bootvars(part = "boot" /\ Boot2Load) /\ WF_bootvars(part = "boot" /\ PageRead)
  /\ WF_usbvars(part = "usb" /\ UsbDriver)
  /\ WF_ehcivars(part = "ehci" /\ UrbDriver) /\ WF_ehcivars(part = "ehci" /\ Discovers)

DRSpec == DRInit /\ [][DRNext]_drvars /\ DRFairness

\* Whatever the hardware does, each driver ends what it began: calls to the SD
\* card, the loading of boot2, requests to a disk, transfers, and the search for
\* a disk, which finds one that is there.
DriversEnd == CallsEnd /\ LoadEnds /\ RequestsEnd /\ UrbEnds /\ DiskFound
===============================================================================
