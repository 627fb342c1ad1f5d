--------------------------------- MODULE EHCI ---------------------------------
(***************************************************************************)
(* The USB host controller driver of DI (ehci.c, ehci-mem.c): one transfer *)
(* (urb) at a time is cut into transfer descriptors (qtds), queued, waited *)
(* for with a time-out and taken back, while the controller walks its      *)
(* schedule; and the search for a drive at the four ports.                 *)
(* Lengths are counted in units of which Packet make a packet of 512 and   *)
(* Page a page of 4096 bytes.                                              *)
(***************************************************************************)
EXTENDS Integers, Sequences

CONSTANTS
  Page, Packet,
  MaxQtd,       \* EHCI_MAX_QTD
  Buffers,      \* transfers: <<offset in the page, length>>
  NumPorts,     \* ehci->num_port
  PortTries,    \* seconds a port is given
  MaxTroubles   \* bound: devices that stop answering, or answer less or in error

ASSUME EHCIAssumption ==
  /\ Packet \in Nat \ {0} /\ Page \in Nat \ {0} /\ Page % Packet = 0
  /\ MaxQtd \in Nat /\ NumPorts \in Nat /\ PortTries \in Nat /\ MaxTroubles \in Nat
  /\ Buffers \subseteq (0 .. Page - 1) \X Nat

VARIABLES
  urb,      \* the transfer and where ehci_do_urb is
  queue,    \* the qtds of asyncqh, in memory
  linked,   \* the head of the schedule points to asyncqh
  hc,       \* the controller (external): where it is in the schedule
  sts_int,  \* STS_INT of the status register
  tog,      \* dev->toggles
  dtog,     \* the device's toggles (external)
  moved,    \* history: what the device moved for this urb
  gaveup,   \* history: a transfer was given up with the controller in its queue
  leftover, \* history: a transfer began with an interrupt of an earlier one pending
  late,     \* history: a queue was written anew with the controller in it
  ports,    \* the ports (external): empty, disk, owner (of the other controller)
  found,    \* ehci_discover: the port it is at, seconds left
  troubles

ehcivars == <<urb, queue, linked, hc, sts_int, tog, dtog, moved, gaveup, leftover, late, ports,
              found, troubles>>

Dirs == {"in", "out"}
NoUrb == [at |-> "idle", control |-> FALSE, dir |-> "in", len |-> 0,
          answer |-> "none", count |-> 0]
AtHead == [at |-> "head", i |-> 0]
Trouble == troubles < MaxTroubles /\ troubles' = troubles + 1

-----------------------------------------------------------------------------
(***************************************************************************)
(* The queue of a transfer.                                                *)
(***************************************************************************)

Smaller(a, b) == IF a < b THEN a ELSE b

\* qtd_fill: the rest of the first page and four more; a descriptor that is
\* not the last ends with a whole packet.
qtd_fill(buf, len) ==
  LET room == (Page - (buf % Page)) + 4 * Page IN
  IF len <= room THEN len ELSE room - (room % Packet)

\* alt: where the controller goes on after a short packet.  It is copied from
\* the queue head, which was cleared before, so "zero" is the address 0; the
\* last data descriptor says "end".
Qtd(pid, n) == [pid |-> pid, len |-> n, left |-> n, alt |-> "zero",
                active |-> TRUE, halted |-> FALSE, ioc |-> FALSE]

\* The sum of a list of lengths.
Total(s) ==
  LET sum[k \in 0 .. Len(s)] == IF k = 0 THEN 0 ELSE sum[k - 1] + s[k]
  IN  sum[Len(s)]

\* The lengths of the data descriptors, from buf on: one more as long as
\* something is left.
NextPiece(pieces, buf, len) ==
  LET done == Total(pieces)
  IN  IF done = len THEN pieces ELSE Append(pieces, qtd_fill(buf + done, len - done))

Pieces(buf, len) ==
  LET cut[k \in 0 .. len] ==
        IF k = 0 THEN <<qtd_fill(buf, len)>> ELSE NextPiece(cut[k - 1], buf, len)
  IN  cut[len]

LastData(q) == [q EXCEPT ![Len(q)].alt = "end"]

Interrupting(q) == [q EXCEPT ![Len(q)].ioc = TRUE]

qh_urb_transaction(control, dir, buf, len) ==
  LET pieces == Pieces(buf, len)
      pid == IF control /\ len = 0 THEN "in" ELSE dir
      data == LastData([i \in 1 .. Len(pieces) |-> Qtd(pid, pieces[i])])
      status == Qtd(IF dir = "in" THEN "out" ELSE "in", 0)
  IN  Interrupting((IF control THEN <<Qtd("setup", Packet)>> ELSE <<>>) \o data
                   \o (IF control /\ len # 0 THEN <<status>> ELSE <<>>))

-----------------------------------------------------------------------------
(***************************************************************************)
(* ehci_do_urb.                                                            *)
(***************************************************************************)

\* BUG_ON(ehci->qtd_used >= EHCI_MAX_QTD).
TooMany == Len(queue) > MaxQtd

\* The queue head and the descriptors are written anew; asyncqh is linked.
Submit(control, dir, buf, len) ==
  /\ urb.at = "idle"
  /\ queue' = qh_urb_transaction(control, dir, buf, len)
  /\ urb' = [NoUrb EXCEPT !.at = IF TooMany' THEN "dead" ELSE "wait",
                           !.control = control, !.dir = dir, !.len = len]
  /\ linked' = TRUE
  /\ moved' = 0
  /\ late' = (late \/ hc.at # "head")
  /\ leftover' = (leftover \/ sts_int)
  /\ UNCHANGED <<hc, sts_int, tog, dtog, gaveup, ports, found, troubles>>

\* The toggle the controller left in the queue head.
Toggle == dtog[urb.dir]

\* After the wait asyncqh is unlinked, STS_INT acknowledged and the toggle of
\* the pipe read back from the queue head.
TakenBack(next, ret) ==
  /\ urb' = [urb EXCEPT !.at = next, !.answer = ret]
  /\ linked' = FALSE
  /\ sts_int' = FALSE
  /\ tog' = IF urb.control THEN tog ELSE [tog EXCEPT ![urb.dir] = Toggle]
  /\ UNCHANGED <<queue, hc, dtog, moved, leftover, late, ports, found, troubles>>

GivesUp == gaveup' = (gaveup \/ hc.at # "head")

HandshakeDone ==
  urb.at = "wait" /\ sts_int /\ TakenBack("stopping", "none") /\ UNCHANGED gaveup

HandshakeTimeout ==
  urb.at = "wait" /\ ~ sts_int /\ TakenBack("ending", "ETIMEDOUT") /\ GivesUp

\* Mutant of WaitStopped: the controller may still be in the queue.
WaitStopped_not ==
  /\ urb.at = "stopping"
  /\ urb' = [urb EXCEPT !.at = "ending"]
  /\ UNCHANGED <<queue, linked, hc, sts_int, tog, dtog, moved, gaveup, leftover, late, ports,
                 found, troubles>>

\* A transfer that was answered is over when the controller has left asyncqh
\* or does not in time; one that timed out does not wait for that.
WaitStopped ==
  /\ urb.at = "stopping"
  /\ urb' = [urb EXCEPT !.at = "ending",
                        !.answer = IF hc.at = "head" THEN @ ELSE "ETIMEDOUT"]
  /\ GivesUp
  /\ UNCHANGED <<queue, linked, hc, sts_int, tog, dtog, moved, leftover, late, ports, found,
                 troubles>>

Actual(q) == Total([i \in 1 .. Len(q) |->
                      IF q[i].pid = "setup" THEN 0 ELSE q[i].len - q[i].left])
Halted(q) == \E i \in DOMAIN q : q[i].halted

\* The descriptors are free again; a controller that is still among them has
\* gone astray.  When one halted, the code follows the pointer its loop ended
\* with, which is 0: it ends the process or changes nothing here.
qh_end_transfer ==
  /\ urb.at = "ending"
  /\ \/ Halted(queue) /\ urb' = [urb EXCEPT !.at = "dead"]
     \/ urb' = [urb EXCEPT !.at = "idle", !.count = Actual(queue),
                   !.answer = IF @ = "none" THEN "moved" ELSE @]
  /\ queue' = <<>>
  /\ hc' = IF hc.at = "head" THEN hc ELSE [at |-> "astray", i |-> 0]
  /\ UNCHANGED <<linked, sts_int, tog, dtog, moved, gaveup, leftover, late, ports, found,
                 troubles>>

-----------------------------------------------------------------------------
(***************************************************************************)
(* The controller and the device behind it (external).                     *)
(***************************************************************************)

Enter ==
  /\ hc.at = "head" /\ linked
  /\ \E i \in DOMAIN queue :
       /\ queue[i].active /\ \A j \in 1 .. i - 1 : ~ queue[j].active
       /\ hc' = [at |-> "queue", i |-> i]
  /\ UNCHANGED <<urb, queue, linked, sts_int, tog, dtog, moved, gaveup, leftover, late, ports, found,
                 troubles>>

\* It is at a descriptor that it may still execute.
Working == hc.at = "queue" /\ hc.i \in DOMAIN queue

\* The queue head no longer leads to these descriptors.
Stopped(q) == [i \in DOMAIN q |-> [q[i] EXCEPT !.active = FALSE]]

\* It goes on to the head after every descriptor, and when it is not answered.
Leave ==
  /\ hc.at = "queue"
  /\ hc' = AtHead
  /\ UNCHANGED <<urb, queue, linked, sts_int, tog, dtog, moved, gaveup, leftover, late, ports, found,
                 troubles>>

Packets(n) == IF n = 0 THEN 1 ELSE (n + Packet - 1) \div Packet

Moves(n, after) ==
  LET d == queue[hc.i] IN
  /\ queue' = [after EXCEPT ![hc.i].left = d.len - n, ![hc.i].active = FALSE]
  /\ moved' = IF d.pid = "setup" THEN moved ELSE moved + n
  /\ dtog' = IF urb.control THEN dtog
             ELSE [dtog EXCEPT ![d.pid] = (@ + Packets(n)) % 2]

Executes ==
  /\ Working
  /\ Moves(queue[hc.i].len, queue)
  /\ sts_int' = (sts_int \/ queue[hc.i].ioc)
  /\ hc' = [hc EXCEPT !.i = @ + 1]
  /\ UNCHANGED <<urb, linked, tog, gaveup, leftover, late, ports, found, troubles>>

\* A short packet interrupts, and the queue goes on at alt, or with the next
\* descriptor: what is at address 0 is not active.
Short ==
  /\ Working /\ queue[hc.i].pid = "in" /\ Trouble
  /\ \E n \in {0, 1, Packet} \cap (0 .. queue[hc.i].len - 1) :
       Moves(n, IF queue[hc.i].alt = "zero" THEN Stopped(queue) ELSE queue)
  /\ sts_int' = TRUE
  /\ hc' = [hc EXCEPT !.i = IF queue[hc.i].alt = "zero" THEN Len(queue) + 1 ELSE @ + 1]
  /\ UNCHANGED <<urb, linked, tog, gaveup, leftover, late, ports, found>>

\* An error halts the queue and sets another bit of the status register.
Stalls ==
  /\ Working /\ Trouble
  /\ queue' = [Stopped(queue) EXCEPT ![hc.i].halted = TRUE]
  /\ hc' = AtHead
  /\ UNCHANGED <<urb, linked, sts_int, tog, dtog, moved, gaveup, leftover, late, ports, found>>

\* It finishes what it had read of a queue that is no longer one.
Strays ==
  /\ hc.at = "astray"
  /\ sts_int' \in {sts_int, TRUE}
  /\ hc' = AtHead
  /\ UNCHANGED <<urb, queue, linked, tog, dtog, moved, gaveup, leftover, late, ports, found, troubles>>

-----------------------------------------------------------------------------
(***************************************************************************)
(* The ports: ehci_release_ports when the driver starts, then ehci_discover*)
(* as often as it finds nothing.                                           *)
(***************************************************************************)

AtPort(p) == [at |-> "look", port |-> p, left |-> PortTries]

\* A port without a device, and always port 2, goes to the other controller.
Released(p) == ports[p] # "disk" \/ p = 2

ehci_release_ports ==
  /\ found.at = "start"
  /\ ports' = [p \in DOMAIN ports |-> IF Released(p) THEN "owner" ELSE ports[p]]
  /\ found' = AtPort(0)
  /\ UNCHANGED <<urb, queue, linked, hc, sts_int, tog, dtog, moved, gaveup, leftover, late, troubles>>

Seen == ports[found.port] = "disk"

NextPort == IF found.port + 1 < NumPorts THEN AtPort(found.port + 1) ELSE AtPort(0)

\* A second later the port is looked at again; the last look does not count.
PortWait ==
  /\ \/ found.at = "look" /\ ~ Seen
     \/ found.at = "wait"
  /\ IF found.left > 0
     THEN /\ found' = [found EXCEPT !.left = @ - 1,
                 !.at = IF Seen /\ found.left > 1 THEN "reset" ELSE "wait"]
          /\ UNCHANGED ports
     ELSE /\ ports' = [ports EXCEPT ![found.port] = "owner"]
          /\ found' = NextPort
  /\ UNCHANGED <<urb, queue, linked, hc, sts_int, tog, dtog, moved, gaveup, leftover, late, troubles>>

PortSeen ==
  /\ found.at = "look" /\ Seen
  /\ found' = [found EXCEPT !.at = "reset"]
  /\ UNCHANGED <<urb, queue, linked, hc, sts_int, tog, dtog, moved, gaveup, leftover, late, ports,
                 troubles>>

\* The reset, the descriptor and the address: the first port that is reset
\* ends ehci_discover, with a device or without.
ehci_reset_port ==
  /\ found.at = "reset"
  /\ \/ found' = [found EXCEPT !.at = "found"] /\ UNCHANGED troubles
     \/ found' = [found EXCEPT !.at = "failed"] /\ Trouble
  /\ UNCHANGED <<urb, queue, linked, hc, sts_int, tog, dtog, moved, gaveup, leftover, late, ports>>

PluggedIn(p) ==
  /\ ports[p] = "empty" /\ found.at # "found"
  /\ ports' = [ports EXCEPT ![p] = "disk"]
  /\ Trouble
  /\ UNCHANGED <<urb, queue, linked, hc, sts_int, tog, dtog, moved, gaveup, leftover, late, found>>

Discovers == ehci_release_ports \/ PortWait \/ PortSeen \/ ehci_reset_port

-----------------------------------------------------------------------------
EHCIInit ==
  /\ urb = NoUrb /\ queue = <<>> /\ linked = FALSE /\ hc = AtHead /\ sts_int = FALSE
  /\ tog = [d \in Dirs |-> 0] /\ dtog = [d \in Dirs |-> 0]
  /\ moved = 0 /\ gaveup = FALSE /\ leftover = FALSE /\ late = FALSE
  /\ ports \in [0 .. NumPorts - 1 -> {"empty", "disk"}]
  /\ found = [AtPort(0) EXCEPT !.at = "start"]
  /\ troubles = 0

Transfer ==
  /\ found.at = "found"
  /\ \E c \in BOOLEAN, d \in Dirs, b \in Buffers : Submit(c, d, b[1], b[2])

UrbDriver == HandshakeDone \/ HandshakeTimeout \/ WaitStopped \/ qh_end_transfer
Schedule == Enter \/ Leave \/ Executes \/ Short \/ Stalls \/ Strays

EHCINext ==
  \/ Transfer \/ UrbDriver \/ Schedule \/ Discovers
  \/ \E p \in DOMAIN ports : PluggedIn(p)

EHCIFairness == WF_ehcivars(UrbDriver) /\ WF_ehcivars(Discovers)

-----------------------------------------------------------------------------
(***************************************************************************)
(* Properties.                                                             *)
(***************************************************************************)

\* The descriptors of a transfer cover it, are not more than there are, and
\* only the last one of the data may end in the middle of a packet.
IsData(i) == queue[i].pid # "setup" /\ ~ (urb.control /\ i = Len(queue) /\ urb.len # 0)
QueueCovers ==
  urb.at # "idle" /\ queue # <<>> =>
    LET data == {i \in DOMAIN queue : IsData(i)} IN
    /\ Len(queue) <= MaxQtd
    /\ Total([i \in 1 .. Len(queue) |->
                IF queue[i].pid = "setup" THEN 0 ELSE queue[i].len]) = urb.len
    /\ \A i \in data : i + 1 \in data => queue[i].len % Packet = 0

\* A transfer that is answered with a length has moved that much.
OkIsMoved == urb.at = "idle" /\ urb.answer = "moved" => urb.count = moved

\* Between the transfers the driver's toggles are those of the device.  Two
\* things break this: a transfer given up with the controller in its queue, and
\* the status stage of a control transfer that ends after the interrupt of its
\* short data was acknowledged.  The interrupt that is left is then taken for
\* that of the next transfer.
Undisturbed == ~ gaveup /\ ~ leftover
ToggleKept == urb.at = "idle" /\ Undisturbed => tog = dtog

\* The queue is written anew with the controller still in it only after a
\* transfer was given up.
ReuseIsSafe == late => gaveup

\* Every transfer ends, if the process does not.
UrbEnds == urb.at # "idle" ~> urb.at \in {"idle", "dead"}

\* A disk that is there when the driver starts is found, or its reset fails.
DiskFound ==
  (found.at = "start" /\ \E p \in DOMAIN ports \ {2} : ports[p] = "disk")
    ~> found.at \in {"found", "failed"}

\* A transfer is queued whole, reported as it went, and given up only when the
\* controller has left it.
TransferRight == QueueCovers /\ OkIsMoved /\ ToggleKept /\ ReuseIsSafe
===============================================================================
