------------------------------ MODULE USBStorage ------------------------------
(***************************************************************************)
(* USB mass storage in FFS-USB and DI (usbstorage.c and usb.c, included by *)
(* ehci.c, and diskio.c): finding a logical unit and moving sectors by the *)
(* bulk-only protocol, a command block (CBW), the data and a status block  *)
(* (CSW), with resets and retries.  A message is one step here; the host   *)
(* controller driver below, one thread that waits for it, is modelled by   *)
(* what ehci_bulk_message and ehci_control_message return.                 *)
(***************************************************************************)
EXTENDS Integers, Sequences

CONSTANTS
  Lengths,      \* sectors of a request
  LengthWord,   \* wLength, a u16, counts sectors modulo this (128)
  Retries,      \* USBSTORAGE_CYCLE_RETRIES
  MaxLuns,      \* what GET_MAX_LUN may answer: the number of the last unit
  MaxFaults,    \* bound on what goes wrong on the bus
  MaxRequests   \* bound on the requests of the file system

ASSUME USBStorageAssumption ==
  /\ Lengths \subseteq Nat \ {0} /\ LengthWord \in Nat \ {0, 1}
  /\ Retries \in Nat /\ MaxLuns \subseteq Nat
  /\ MaxFaults \in Nat /\ MaxRequests \in Nat

VARIABLES
  user,     \* which diskio.c: "fsusb" or "di"
  handle,   \* __usbfd, __mounted, __lun
  toggles,  \* ehci_device.toggles: the data toggle of each bulk pipe
  unit,     \* the device (external): its toggles, its phase, what it stored
  ready,    \* the device's logical units (external)
  cyc,      \* __cycle and the message that is next
  job,      \* what is being done, and the answer of disk_read or disk_write
  told,     \* history: the device said that the last command failed
  halves,   \* history: a pipe was cleared while the driver's toggle was 1
  long,     \* history: a request was longer than a message can be
  faults, requests

usbvars == <<user, handle, toggles, unit, ready, cyc, job, told, halves, long,
             faults, requests>>

Pipes == {"in", "out"}
NoCycle == [op |-> "none", n |-> 0, at |-> "idle", len |-> 0, have |-> <<>>,
            tries |-> 0, ret |-> "OK", status |-> 0]
Closed == [mounted |-> FALSE, lun |-> 0, max_lun |-> 0, tag |-> 0]
Silent == [phase |-> "cbw", tog |-> [p \in Pipes |-> 0], tag |-> 0, op |-> "none",
           left |-> 0, status |-> 0, wrote |-> <<>>]
NoJob  == [op |-> "none", step |-> "none", n |-> 0, lun |-> 0, answer |-> "none",
           right |-> TRUE]

USBInit ==
  /\ user \in {"fsusb", "di"}
  /\ handle = Closed
  /\ toggles = [p \in Pipes |-> 0]
  /\ unit = Silent
  /\ \E m \in MaxLuns : ready \in [0 .. m -> {"ready", "attention", "no_medium"}]
  /\ cyc = NoCycle
  /\ job = [NoJob EXCEPT !.op = "init", !.step = "open"]
  /\ told = FALSE /\ halves = FALSE /\ long = FALSE
  /\ faults = 0 /\ requests = 0

Fault == faults < MaxFaults /\ faults' = faults + 1

\* The first n sectors of a request.
Run(n) == [i \in 1 .. n |-> i]

\* The toggle of a pipe after n packets of a sector or less.
Flip(t, p, n) == [t EXCEPT ![p] = (@ + n) % 2]

\* Mutant of set_toggle: the toggle changes with every message.
set_toggle_message(p, n) == Flip(toggles, p, 1)

\* The driver keeps the toggle the controller ends a message with.
set_toggle(p, n) == Flip(toggles, p, n)

\* A packet with the other toggle is taken for one sent again, acknowledged
\* and thrown away.
InStep(p) == toggles[p] = unit.tog[p]

-----------------------------------------------------------------------------
(***************************************************************************)
(* Messages of __cycle, and the device that answers them.                  *)
(***************************************************************************)

\* A command or status block that times out ends the cycle; any other failure,
\* and every failure of the data, a time-out included, resets the device first.
Failed(c, ret) ==
  [c EXCEPT !.ret = ret,
            !.at = IF ret = "ETIMEDOUT" /\ c.at # "data" THEN "over" ELSE "reset"]

\* A message fails: the device does not answer, as it must when it is in
\* another phase, or the controller is gone (-ENODEV).
MessageFails(other, gone) ==
  \E r \in {"ETIMEDOUT", "ENODEV"} :
    /\ IF other /\ r = "ETIMEDOUT" THEN UNCHANGED faults ELSE Fault
    /\ cyc' = Failed(cyc, IF r = "ENODEV" THEN gone ELSE r)
    /\ UNCHANGED <<toggles, unit>>

\* How a device may end a command: the sectors it moves and its status.
Ends(c) ==
  IF c.len # c.n THEN {<<0, 2>>}                 \* not the command's length
  ELSE CASE c.op = "test" -> {<<0, IF ready[job.lun] = "ready" THEN 0 ELSE 1>>}
         [] c.op = "read" -> {<<c.len, 0>>} \cup ((0 .. c.len) \X {1})
         [] c.op = "write" -> {<<c.len, 0>>, <<c.len, 1>>}
         [] OTHER -> {<<c.len, 0>>}

DataPhase(c) == IF c.len = 0 THEN "csw"
                ELSE IF c.op = "write" THEN "data_out" ELSE "data_in"

__send_cbw ==
  /\ cyc.at = "cbw"
  /\ \/ /\ unit.phase = "cbw"
        /\ toggles' = set_toggle("out", 1)
        /\ IF ~ InStep("out") THEN UNCHANGED unit
           ELSE \E e \in Ends(cyc) :
                  unit' = [unit EXCEPT !.tag = handle.tag, !.op = cyc.op,
                             !.tog = Flip(@, "out", 1), !.wrote = <<>>,
                             !.left = e[1], !.status = e[2],
                             !.phase = DataPhase(cyc)]
        /\ cyc' = [cyc EXCEPT !.at = IF cyc.len > 0 THEN "data" ELSE "csw"]
        /\ UNCHANGED faults
     \/ MessageFails(unit.phase # "cbw", "ENODEV")
  /\ UNCHANGED <<user, handle, ready, job, told, halves, long, requests>>

\* The length of a message is cut to 16 bits.
wLength(len) == len % LengthWord

DataOut(w) ==
  /\ cyc.at = "data" /\ cyc.op = "write"
  /\ \/ /\ unit.phase = "data_out"
        /\ unit' = [unit EXCEPT !.tog = Flip(@, "out", IF w = 0 THEN 1 ELSE w),
                      !.wrote = Run(w),
                      !.phase = IF w = unit.left THEN "csw" ELSE @]
        /\ toggles' = set_toggle("out", IF w = 0 THEN 1 ELSE w)
        /\ cyc' = IF w = cyc.len THEN [cyc EXCEPT !.at = "csw", !.len = 0]
                  ELSE Failed(cyc, "EDATARESIDUE")
        /\ UNCHANGED faults
     \/ MessageFails(unit.phase # "data_out", "EDATARESIDUE")
  /\ UNCHANGED <<user, handle, ready, job, told, halves, long, requests>>

\* What the device does not send in one message is more than the next one,
\* for the CSW, expects.  Out of step the first sector is lost and the CSW
\* comes in its place.
DataIn(w) ==
  /\ cyc.at = "data" /\ cyc.op # "write"
  /\ \/ /\ unit.phase = "data_in" /\ w > 0 /\ InStep("in")
        /\ LET k == IF unit.left < w THEN unit.left ELSE w
               packets == IF k < w THEN k + 1 ELSE k
           IN  /\ unit' = [unit EXCEPT !.tog = Flip(@, "in", packets),
                             !.phase = IF w < unit.left THEN @ ELSE "csw"]
               /\ toggles' = set_toggle("in", packets)
               /\ cyc' = [cyc EXCEPT !.at = "csw", !.have = Run(k), !.len = @ - k]
               /\ told' = (told \/ (k < w))
        /\ UNCHANGED faults
     \/ /\ unit.phase = "data_in" /\ w > 0 /\ ~ InStep("in")
        /\ unit' = [unit EXCEPT !.tog = Flip(@, "in", unit.left + 1), !.phase = "cbw"]
        /\ toggles' = set_toggle("in", unit.left)
        /\ cyc' = [cyc EXCEPT !.at = "csw", !.have = Tail(Run(unit.left + 1))]
        /\ UNCHANGED <<faults, told>>
     \/ MessageFails(unit.phase # "data_in" \/ w = 0, "ENODEV") /\ UNCHANGED told
  /\ UNCHANGED <<user, handle, ready, job, halves, long, requests>>

\* A CSW is short, has another tag, or no signature: then BUG() does not return.
__read_csw ==
  /\ cyc.at = "csw"
  /\ \/ /\ unit.phase = "csw" /\ InStep("in")
        /\ unit' = [unit EXCEPT !.tog = Flip(@, "in", 1), !.phase = "cbw"]
        /\ toggles' = set_toggle("in", 1)
        /\ \/ /\ unit.tag = handle.tag
              /\ cyc' = [cyc EXCEPT !.at = "over", !.ret = "OK", !.status = unit.status]
              \* the tag counts modulo 2^32, here modulo 2
              /\ handle' = [handle EXCEPT !.tag = (@ + 1) % 2]
              /\ told' = (told \/ unit.status # 0)
              /\ UNCHANGED faults
           \/ /\ Fault
              /\ \/ cyc' = Failed(cyc, "ESHORTREAD")
                 \/ cyc' = [Failed(cyc, "ETAG") EXCEPT !.status = unit.status]
                 \/ cyc' = [cyc EXCEPT !.at = "hung"]
              /\ UNCHANGED <<handle, told>>
     \/ /\ unit.phase = "csw" /\ ~ InStep("in")
        /\ unit' = [unit EXCEPT !.tog = Flip(@, "in", 1), !.phase = "cbw"]
        /\ cyc' = Failed(cyc, "ETIMEDOUT")
        /\ UNCHANGED <<toggles, handle, told, faults>>
     \/ MessageFails(unit.phase # "csw", "ENODEV") /\ UNCHANGED <<handle, told>>
  /\ UNCHANGED <<user, ready, job, halves, long, requests>>

-----------------------------------------------------------------------------
(***************************************************************************)
(* __usbstorage_reset: the reset and the two halts, control messages.      *)
(***************************************************************************)

\* After a reset the command is sent again, with the length that is left; in
\* the end the device is reset once more.  A time-out is not tried again.
Again(c) ==
  IF c.ret = "ETIMEDOUT" THEN [c EXCEPT !.at = "over"]
  ELSE IF c.tries > 0 THEN [c EXCEPT !.at = "cbw", !.tries = @ - 1]
  ELSE IF c.tries = 0 THEN [c EXCEPT !.at = "reset", !.tries = @ - 1]
  ELSE [c EXCEPT !.at = "over"]

\* A reset that times out ends the cycle, one that fails otherwise does not.
ResetFails ==
  /\ Fault
  /\ cyc' \in {[cyc EXCEPT !.at = "over", !.ret = "ETIMEDOUT"], Again(cyc)}
  /\ UNCHANGED unit

\* What the device makes of a cleared pipe; dev->toggles is left as it is.
HaltCleared(p) == [unit EXCEPT !.tog[p] = 0]

__usbstorage_reset ==
  /\ \/ /\ cyc.at = "reset"
        /\ \/ /\ unit' = [unit EXCEPT !.phase = "cbw"]
              /\ cyc' = [cyc EXCEPT !.at = "halt_in"]
              /\ UNCHANGED faults
           \/ ResetFails
        /\ UNCHANGED halves
     \/ /\ cyc.at = "halt_in"
        /\ \/ /\ unit' = HaltCleared("in")
              /\ cyc' = [cyc EXCEPT !.at = "halt_out"]
              /\ halves' = (halves \/ toggles["in"] = 1)
              /\ UNCHANGED faults
           \/ ResetFails /\ UNCHANGED halves
     \/ /\ cyc.at = "halt_out"
        /\ \/ /\ unit' = HaltCleared("out")
              /\ cyc' = Again(cyc)
              /\ halves' = (halves \/ toggles["out"] = 1)
              /\ UNCHANGED faults
           \/ ResetFails /\ UNCHANGED halves
  /\ UNCHANGED <<user, handle, toggles, ready, job, told, long, requests>>

-----------------------------------------------------------------------------
(***************************************************************************)
(* Finding a unit: USBStorage_Init, USBStorage_Try_Device and what they    *)
(* call, one cycle after the other.                                        *)
(***************************************************************************)

Cycle(op, n) == [NoCycle EXCEPT !.op = op, !.n = n, !.at = "cbw", !.len = n,
                                !.tries = Retries]
Step(s, op, n) == job' = [job EXCEPT !.step = s] /\ cyc' = Cycle(op, n)
InitOver == job' = [NoJob EXCEPT !.answer = "initialised"] /\ cyc' = NoCycle

LastUnit == CHOOSE m \in DOMAIN ready : \A k \in DOMAIN ready : m >= k

\* The number of the last unit is taken for the number of units.
MaxLun == IF LastUnit = 0 THEN 1 ELSE LastUnit

\* The device has descriptors with a bulk-only interface, a configuration is
\* set and the pipes are cleared, or it is not used; without an answer to
\* GET_MAX_LUN one unit is assumed.
USBStorage_Open ==
  /\ job.step = "open"
  /\ \/ /\ \/ handle' = [handle EXCEPT !.max_lun = MaxLun] /\ UNCHANGED faults
           \/ handle' = [handle EXCEPT !.max_lun = 1] /\ Fault
        /\ Step("test", "test", 0)
     \/ Fault /\ InitOver /\ UNCHANGED handle
  /\ UNCHANGED <<user, toggles, unit, ready, told, halves, long, requests>>

Next_lun ==
  IF job.lun + 1 < handle.max_lun
  THEN /\ job' = [job EXCEPT !.lun = @ + 1, !.step = "test"]
       /\ cyc' = Cycle("test", 0)
       /\ UNCHANGED handle
  ELSE InitOver /\ UNCHANGED handle

\* After a time-out the device is reset once more, which nothing depends on, and
\* closed: nothing is asked of it again.
GivenUp == InitOver /\ handle' = Closed

Mount == handle' = [handle EXCEPT !.mounted = TRUE, !.lun = job.lun] /\ InitOver

NotReady == ready[job.lun] = "no_medium"

\* USBStorage_MountLUN does not look at how the inquiry went.
USBStorage_MountLUN ==
  /\ job.op = "init" /\ cyc.at = "over"
  /\ CASE job.step # "inquiry" /\ cyc.ret = "ETIMEDOUT" -> GivenUp
       [] job.step # "inquiry" /\ cyc.ret \notin {"OK", "ETIMEDOUT"} -> Next_lun
       [] job.step = "test" /\ cyc.ret = "OK" /\ cyc.status # 0 ->
            Step("sense", "sense", 1) /\ UNCHANGED handle
       [] job.step = "sense" /\ cyc.ret = "OK" /\ NotReady -> Next_lun
       [] job.step = "inquiry" -> Step("capacity", "capacity", 1) /\ UNCHANGED handle
       [] job.step = "capacity" /\ cyc.ret = "OK" -> Mount
       [] OTHER -> Step("inquiry", "inquiry", 1) /\ UNCHANGED handle
  /\ UNCHANGED <<user, toggles, unit, ready, told, halves, long, faults, requests>>

-----------------------------------------------------------------------------
(***************************************************************************)
(* diskio.c.                                                               *)
(***************************************************************************)

\* DI does not look at the outcome of a transfer.
DiskResult(ok) == IF ok \/ user = "di" THEN "RES_OK" ELSE "RES_ERROR"

disk_read_or_write(op, n) ==
  /\ job.op = "none" /\ requests < MaxRequests
  /\ requests' = requests + 1
  /\ told' = FALSE
  /\ long' = (long \/ n >= LengthWord)
  /\ IF handle.mounted
     THEN job' = [NoJob EXCEPT !.op = op, !.n = n] /\ cyc' = Cycle(op, n)
     ELSE /\ job' = [NoJob EXCEPT !.answer = DiskResult(FALSE), !.right = FALSE, !.n = n]
          /\ UNCHANGED cyc
  /\ UNCHANGED <<user, handle, toggles, unit, ready, halves, faults>>

\* The status of the CSW would count if __cycle returned more than 0, which
\* it does not; after a time-out the device is given up.
TransferOver ==
  /\ job.op \in {"read", "write"} /\ cyc.at = "over"
  /\ handle' = IF cyc.ret = "ETIMEDOUT" THEN Closed ELSE handle
  /\ job' = [NoJob EXCEPT !.answer = DiskResult(cyc.ret = "OK"), !.n = job.n,
               !.right = (IF job.op = "read" THEN cyc.have ELSE unit.wrote) = Run(job.n)]
  /\ cyc' = NoCycle
  /\ UNCHANGED <<user, toggles, unit, ready, told, halves, long, faults, requests>>

UsbDriver ==
  \/ __send_cbw \/ DataOut(wLength(cyc.len)) \/ DataIn(wLength(cyc.len)) \/ __read_csw
  \/ __usbstorage_reset \/ USBStorage_Open \/ USBStorage_MountLUN \/ TransferOver

USBNext ==
  \/ UsbDriver
  \/ \E op \in {"read", "write"}, n \in Lengths : disk_read_or_write(op, n)

USBFairness == WF_usbvars(UsbDriver)

-----------------------------------------------------------------------------
(***************************************************************************)
(* Properties.                                                             *)
(***************************************************************************)

\* In FFS-USB disk_read and disk_write answer RES_OK only when every sector
\* was moved, whatever was lost, reset and sent again on the way, unless the
\* device itself said in the CSW or by a short transfer that it had failed.
DiskReadRight ==
  user = "fsusb" /\ job.answer = "RES_OK" /\ ~ told => job.right

\* On a bus without faults a request fails only after one that is longer than
\* a message can be, or when no unit was ready.
CausedError ==
  job.answer = "RES_ERROR" /\ faults = 0 =>
    long \/ \A l \in 0 .. MaxLun - 1 : ready[l] = "no_medium"

\* The unit in use has a medium, and without faults it is the first such unit
\* of those that are tried.
MountedIsReady ==
  handle.mounted => /\ ready[handle.lun] # "no_medium"
                    /\ faults = 0 => \A l \in 0 .. handle.lun - 1 : ready[l] = "no_medium"

\* UsbDriver and device agree on the data toggles whenever a command is sent, as
\* long as no pipe was cleared while its toggle was 1: USB_ClearHalt resets
\* the toggle of the device and not that of the driver.
TogglesAgree == cyc.at = "cbw" /\ ~ halves => \A p \in Pipes : InStep(p)

\* Start-up and every request end, unless a CSW without signature stops it.
RequestsEnd == job.op # "none" ~> job.op = "none" \/ cyc.at = "hung"

\* What is reported of the disk and its sectors is so, and driver and device agree on
\* what is to come.
StorageRight ==
  /\ DiskReadRight
  /\ CausedError
  /\ MountedIsReady
  /\ TogglesAgree
===============================================================================
