------------------------------- MODULE SDCard -------------------------------
(***************************************************************************)
(* The SD card driver: sdhc.c (commands, transfers, interrupts), sdmmc.c   *)
(* (finding the card, sectors) and diskio.c (what FatFs calls).  It exists *)
(* twice: FFS-SD polls the host controller ("polled"), mini takes its      *)
(* interrupts ("irq"), and they answer differently when a transfer never   *)
(* ends.  The caller is one thread, so one request is at work at a time.   *)
(***************************************************************************)
EXTENDS Naturals, Sequences

CONSTANTS
  Tries,     \* how often the card is asked whether it has powered up (100)
  MaxEvents  \* bound: late or missing answers, DMA boundaries, exchanges of the card

ASSUME SDAssumption == Tries \in Nat

VARIABLES
  build,    \* which of the two drivers
  slot,     \* the state of the card, "none" without one (external)
  line,     \* the command the controller works at (external)
  power,    \* bus power and clock
  pend,     \* SDHC_NINTR_STATUS
  hp,       \* sc_host.intr_status, and what sdhc_wait_intr has read of it
  card,     \* struct sdmmc_card
  cmd,      \* the command in sdhc_exec_command
  call,     \* what FatFs called last, and what it was answered
  carried,  \* history: the sectors of the call have been transferred
  unheard,  \* history: the polled driver took the end of the data phase of the
             \* call for its success, though the sectors were not reported
  hasty,    \* history: the driver gave a command up that was not over
  events

sdvars == <<build, slot, line, power, pend, hp, card, cmd, call, carried, unheard, hasty, events>>

FreeLine == [st |-> "free", op |-> "none", mine |-> FALSE]
NoCommand == [op |-> "none", at |-> "none", left |-> 0]
NoCard == [inserted |-> FALSE, selected |-> FALSE, new |-> FALSE, sized |-> FALSE]

\* The commands of sdmmc_needs_discover.
Discovery == <<"GO_IDLE", "IF_COND", "OP_COND", "CID", "RCA", "CSD", "SELECT", "BLOCKLEN">>

SDInit ==
  /\ build \in {"polled", "irq"}
  /\ slot \in {"none", "idle"}
  /\ line = FreeLine
  /\ power = FALSE
  /\ pend = {}
  /\ hp = [intr |-> {}, read |-> {}, status |-> {}]
  /\ card = NoCard
  /\ cmd = NoCommand
  /\ call = [op |-> "attach", direct |-> FALSE, answer |-> "none"]
  /\ carried = FALSE /\ unheard = FALSE
  /\ hasty = FALSE
  /\ events = 0

Event == events < MaxEvents /\ events' = events + 1

-----------------------------------------------------------------------------
(* The card, its slot and the controller (external).                       *)

\* A card answers a command only in some states; a command changes the state.
Understands(op) ==
  /\ power
  /\ CASE op \in {"GO_IDLE", "IF_COND", "OP_COND"} -> slot # "none"
       [] op = "CID" -> slot = "ready"
       [] op = "RCA" -> slot \in {"ident", "stby"}
       [] op \in {"CSD", "SELECT"} -> slot = "stby"
       [] OTHER -> slot = "tran"

After(op) ==
  CASE op = "GO_IDLE" -> {"idle"}
    [] op = "OP_COND" -> {"idle", "ready"}
    [] op = "CID" -> {"ident"}
    [] op = "RCA" -> {"stby"}
    [] op = "SELECT" -> {"tran"}
    [] OTHER -> {slot}

CardAnswers ==
  /\ line.st = "command" /\ Understands(line.op)
  /\ slot' \in After(line.op)
  /\ pend' = pend \cup {"COMMAND"}
  /\ line' = IF line.op \in {"READ", "WRITE"} THEN [line EXCEPT !.st = "data"] ELSE FreeLine
  /\ UNCHANGED <<build, power, hp, card, cmd, call, carried, unheard, hasty, events>>

CardMoves ==
  /\ line.st = "data" /\ slot = "tran"
  /\ pend' = pend \cup {"TRANSFER"}
  /\ line' = FreeLine
  /\ carried' = (carried \/ line.mine)
  /\ UNCHANGED <<build, slot, power, hp, card, cmd, call, unheard, hasty, events>>

\* The buffer reaches a DMA boundary: the controller waits for its address.
DmaBoundary ==
  /\ line.st = "data" /\ slot = "tran" /\ Event
  /\ pend' = pend \cup {"DMA"}
  /\ line' = [line EXCEPT !.st = "boundary"]
  /\ UNCHANGED <<build, slot, power, hp, card, cmd, call, carried, unheard, hasty>>

\* No answer, and none to come: the controller reports its own time-out.
CardSilent ==
  /\ \/ line.st = "command" /\ ~Understands(line.op)
     \/ line.st = "data" /\ slot # "tran"
  /\ pend' = pend \cup {"TIMEOUT"}
  /\ line' = FreeLine
  /\ UNCHANGED <<build, slot, power, hp, card, cmd, call, carried, unheard, hasty, events>>

\* A damaged answer or block, or a controller that says no more.
LineFails ==
  /\ line.st \in {"command", "data"} /\ Event
  /\ \/ \E e \in {"TIMEOUT", "CRC"} : pend' = pend \cup {e} /\ line' = FreeLine
     \/ pend' = pend /\ line' = [line EXCEPT !.st = "dead"]
  /\ UNCHANGED <<build, slot, power, hp, card, cmd, call, carried, unheard, hasty>>

CardExchanged ==
  /\ Event
  /\ slot' = IF slot = "none" THEN "idle" ELSE "none"
  /\ UNCHANGED <<build, line, power, pend, hp, card, cmd, call, carried, unheard, hasty>>

Hardware == CardAnswers \/ CardMoves \/ CardSilent
Troubles == DmaBoundary \/ LineFails \/ CardExchanged

-----------------------------------------------------------------------------
(* Interrupts and the wait for them.                                       *)

Errors == {"TIMEOUT", "CRC"}

Waiting == cmd.at \in {"command", "transfer"}

\* In the polled driver the waiting loop calls it, until it brings something.
sdhc_intr ==
  /\ pend # {}
  /\ build = "polled" => Waiting /\ hp.intr = {}
  /\ pend' = {}
  /\ line' = IF pend \cap Errors # {} THEN FreeLine ELSE line
  /\ hp' = [hp EXCEPT !.intr = IF pend = {"CRC"} THEN @ ELSE @ \cup pend]
  /\ UNCHANGED <<build, slot, power, card, cmd, call, carried, unheard, hasty, events>>

Mask == IF cmd.at = "command" THEN {"COMMAND"} ELSE {"TRANSFER", "DMA"}

\* The loop of sdhc_wait_intr ends with the first interrupt, whichever it is.
Interrupted ==
  /\ Waiting /\ hp.intr # {}
  /\ hp' = [hp EXCEPT !.read = hp.intr, !.status = hp.intr \cap (Mask \cup Errors)]
  /\ cmd' = [cmd EXCEPT !.at = IF @ = "command" THEN "command_read" ELSE "transfer_read"]
  /\ UNCHANGED <<build, slot, line, power, pend, card, call, carried, unheard, hasty, events>>

\* Mutant of TimedOut: the loop only ends with an interrupt.
TimedOut_never == Waiting /\ hp.intr = {} /\ UNCHANGED sdvars

\* It also ends when the time is over; the line is then not reset.
TimedOut ==
  /\ Waiting /\ hp.intr = {}
  /\ IF line.st \in {"free", "dead", "boundary"} /\ pend = {} THEN UNCHANGED events ELSE Event
  /\ hp' = [hp EXCEPT !.read = {}, !.status = {}]
  /\ cmd' = [cmd EXCEPT !.at = IF @ = "command" THEN "command_read" ELSE "transfer_read"]
  /\ UNCHANGED <<build, slot, line, power, pend, card, call, carried, unheard, hasty>>

\* What the wait returns, and the bits it leaves: an interrupt handler that ran
\* since they were read is overwritten.
Status == IF hp.status \cap Errors # {} THEN {} ELSE hp.status
Cleared == [hp EXCEPT !.intr = hp.read \ hp.status, !.read = {}, !.status = {}]
ResetLine == IF hp.status \cap Errors # {} THEN FreeLine ELSE line

-----------------------------------------------------------------------------
(* Commands.                                                               *)

Command(op) == [op |-> op, at |-> "start", left |-> IF op = "OP_COND" THEN Tries ELSE 0]

sdhc_exec_command(op) ==
  /\ cmd' = Command(op)
  /\ hp' = [hp EXCEPT !.intr = {}]

sdhc_start_command ==
  /\ cmd.at = "start" /\ line.st = "free"
  /\ line' = [st |-> "command", op |-> cmd.op, mine |-> TRUE]
  /\ cmd' = [cmd EXCEPT !.at = "command"]
  /\ UNCHANGED <<build, slot, power, pend, hp, card, call, carried, unheard, hasty, events>>

\* sdhc_wait_state: the line has not become free.
Inhibited ==
  /\ cmd.at = "start" /\ line.st # "free"
  /\ cmd' = [cmd EXCEPT !.at = "failed"]
  /\ UNCHANGED <<build, slot, line, power, pend, hp, card, call, carried, unheard, hasty, events>>

\* The controller is still at the command, or has something to say of it.
NotOver == ResetLine.st # "free" \/ pend # {}

CommandPhaseEnds ==
  /\ cmd.at = "command_read"
  /\ hp' = Cleared
  /\ line' = ResetLine
  /\ hasty' = (hasty \/ ("COMMAND" \notin Status /\ NotOver))
  /\ cmd' = [cmd EXCEPT !.at = IF "COMMAND" \notin Status THEN "failed"
                               ELSE IF cmd.op \in {"READ", "WRITE"} THEN "transfer"
                               ELSE "done"]
  /\ UNCHANGED <<build, slot, power, pend, card, call, carried, unheard, events>>

\* Mutant of sdhc_transfer_data: neither driver looks at how the data phase ended.
sdhc_transfer_data_untold ==
  /\ cmd.at = "transfer_read"
  /\ hp' = Cleared
  /\ line' = IF line.st = "boundary" /\ Status = {"DMA"} THEN [line EXCEPT !.st = "data"] ELSE ResetLine
  /\ hasty' = (hasty \/ (Status = {} /\ NotOver))
  /\ unheard' = (Status = {} /\ build = "polled")
  /\ cmd' = [cmd EXCEPT !.at = IF Status = {"DMA"} THEN "transfer" ELSE "done"]
  /\ UNCHANGED <<build, slot, power, pend, card, call, carried, events>>

\* A data phase that ends without one of its two interrupts -- an error the
\* controller reported as much as no interrupt in time -- is an error of mini's
\* driver; the polled one throws the result away and leaves c_error alone.
sdhc_transfer_data ==
  /\ cmd.at = "transfer_read"
  /\ hp' = Cleared
  /\ \/ /\ Status = {}
        /\ cmd' = [cmd EXCEPT !.at = IF build = "polled" THEN "done" ELSE "failed"]
        /\ line' = ResetLine
        /\ hasty' = (hasty \/ NotOver)
        /\ unheard' = (build = "polled")
     \/ /\ "TRANSFER" \in Status
        /\ cmd' = [cmd EXCEPT !.at = "done"]
        /\ UNCHANGED <<line, unheard, hasty>>
     \/ /\ Status = {"DMA"}
        /\ cmd' = [cmd EXCEPT !.at = "transfer"]
        /\ line' = IF line.st = "boundary" THEN [line EXCEPT !.st = "data"] ELSE line
        /\ UNCHANGED <<unheard, hasty>>
  /\ UNCHANGED <<build, slot, power, pend, card, call, carried, events>>

-----------------------------------------------------------------------------
(* Finding the card.                                                       *)

Done(answer) ==
  /\ cmd' = NoCommand
  /\ call' = [call EXCEPT !.op = "none", !.answer = answer]

sdmmc_attach ==
  /\ call.op = "attach" /\ cmd.at = "none"
  /\ \/ /\ slot = "none"                            \* sdhc_card_detect
        /\ Done("nocard")
        /\ UNCHANGED <<power, card, hp>>
     \/ /\ slot # "none"
        /\ card' = [card EXCEPT !.new = TRUE]
        /\ power' = TRUE
        /\ sdhc_exec_command("GO_IDLE")
        /\ UNCHANGED call
  /\ UNCHANGED <<build, slot, line, pend, carried, unheard, hasty, events>>

\* Power or clock are not there: the labels out and out_power.
PowerFails ==
  /\ call.op = "attach" /\ cmd.at = "none" /\ slot # "none" /\ Event
  /\ card' = [card EXCEPT !.new = TRUE]
  /\ Done("nocard")
  /\ UNCHANGED <<build, slot, line, power, pend, hp, carried, unheard, hasty>>

Following(op) == Discovery[1 + CHOOSE i \in DOMAIN Discovery : Discovery[i] = op]

\* The command has succeeded, or its failure does not matter.
FoundBy(op) ==
  CASE op = "RCA" -> [card EXCEPT !.selected = FALSE, !.inserted = TRUE]
    [] op = "CSD" -> [card EXCEPT !.sized = TRUE]
    [] op = "SELECT" -> [card EXCEPT !.selected = @ \/ cmd.at = "done"]
    [] OTHER -> card

\* OP_COND is repeated until the card is ready.
Ready == cmd.op = "OP_COND" => cmd.at = "done" /\ slot = "ready"

Discover ==
  /\ call.op = "attach"
  /\ \/ cmd.at = "done" /\ Ready
     \/ cmd.at = "failed" /\ cmd.op \in {"IF_COND", "SELECT"}
  /\ card' = FoundBy(cmd.op)
  /\ IF cmd.op = "BLOCKLEN" THEN Done("found") /\ UNCHANGED hp
     ELSE sdhc_exec_command(Following(cmd.op)) /\ UNCHANGED call
  /\ UNCHANGED <<build, slot, line, power, pend, carried, unheard, hasty, events>>

AskAgain ==
  /\ call.op = "attach" /\ cmd.op = "OP_COND" /\ cmd.at \in {"done", "failed"} /\ ~Ready
  /\ cmd.left > 1
  /\ cmd' = [cmd EXCEPT !.at = "start", !.left = @ - 1]
  /\ hp' = [hp EXCEPT !.intr = {}]
  /\ UNCHANGED <<build, slot, line, power, pend, card, call, carried, unheard, hasty, events>>

\* What the failure of the last command changes in the card.
Forgotten ==
  IF cmd.op = "BLOCKLEN" THEN [card EXCEPT !.inserted = FALSE, !.selected = FALSE] ELSE card

\* out_clock and out_power: the host is reset and the card left without power.
NotFound ==
  /\ call.op = "attach"
  /\ \/ cmd.at = "failed" /\ cmd.op \notin {"IF_COND", "SELECT", "OP_COND"}
     \/ cmd.op = "OP_COND" /\ cmd.at \in {"done", "failed"} /\ ~Ready /\ cmd.left <= 1
  /\ card' = Forgotten
  /\ power' = FALSE
  /\ line' = FreeLine
  /\ pend' = {}
  /\ Done("nocard")
  /\ UNCHANGED <<build, slot, hp, carried, unheard, hasty, events>>

-----------------------------------------------------------------------------
(* What FatFs calls.                                                       *)

Call(op, direct) == [op |-> op, direct |-> direct, answer |-> "none"]

disk_initialize ==
  /\ call.op = "none"
  /\ card' = [card EXCEPT !.new = @ /\ ~card.inserted]
  /\ call' = [Call("none", FALSE) EXCEPT !.answer = IF card.inserted THEN "mounted" ELSE "NOINIT"]
  /\ UNCHANGED <<build, slot, line, power, pend, hp, cmd, carried, unheard, hasty, events>>

\* disk_read into memory the card cannot reach goes through a buffer, as does
\* every write and every transfer of mini's driver.
Begin(op, direct) ==
  /\ call.op = "none"
  /\ direct => build = "polled" /\ op = "READ"
  /\ carried' = FALSE /\ unheard' = FALSE
  /\ line' = [line EXCEPT !.mine = FALSE]
  /\ call' = Call(op, direct)
  /\ UNCHANGED <<build, slot, power, pend, hp, card, cmd, hasty, events>>

Result(ok) == Done(IF ok \/ call.direct THEN "OK" ELSE "ERROR")

\* sdmmc_read and sdmmc_write.
Sectors ==
  /\ call.op \in {"READ", "WRITE"}
  /\ \/ /\ cmd.at = "none"
        /\ \/ ~card.inserted /\ Result(FALSE) /\ UNCHANGED hp
           \/ card.inserted /\ ~card.selected /\ sdhc_exec_command("SELECT") /\ UNCHANGED call
           \/ card.inserted /\ card.selected /\ card.new /\ Result(FALSE) /\ UNCHANGED hp
           \/ card.inserted /\ card.selected /\ ~card.new /\ sdhc_exec_command(call.op)
              /\ UNCHANGED call
        /\ card' = card
     \/ /\ cmd.op = "SELECT" /\ cmd.at = "done"
        /\ card' = [card EXCEPT !.selected = TRUE]
        /\ cmd' = NoCommand
        /\ UNCHANGED <<call, hp>>
     \/ /\ cmd.at = "failed" \/ (cmd.op # "SELECT" /\ cmd.at = "done")
        /\ Result(cmd.at = "done")
        /\ UNCHANGED <<card, hp>>
  /\ UNCHANGED <<build, slot, line, power, pend, carried, unheard, hasty, events>>

Driver ==
  \/ sdhc_intr \/ Interrupted \/ TimedOut
  \/ sdhc_start_command \/ Inhibited \/ CommandPhaseEnds \/ sdhc_transfer_data
  \/ sdmmc_attach \/ Discover \/ AskAgain \/ NotFound \/ Sectors

FileSystem ==
  \/ disk_initialize
  \/ \E op \in {"READ", "WRITE"}, direct \in BOOLEAN : Begin(op, direct)

SDNext == Driver \/ PowerFails \/ Hardware \/ Troubles \/ FileSystem

SDFairness == WF_sdvars(Driver) /\ WF_sdvars(Hardware)

-----------------------------------------------------------------------------
(* Properties.                                                             *)

\* disk_read and disk_write through a buffer answer RES_OK only for sectors that
\* were transferred.  Two exceptions, both of the code: the polled driver says so
\* of every data phase that ended without the sectors, by an error the controller
\* reported or by time-out; and once either driver has given a command up that the
\* controller was still at, an interrupt may be taken for that of the next one.
DoneIsDone ==
  call.answer = "OK" /\ ~call.direct /\ ~hasty => carried \/ (build = "polled" /\ unheard)

\* A card the driver reports as inserted, with its size read, has power: a later
\* failure of sdmmc_needs_discover that switches it off also forgets the card.
\* (Before its size is read it does not: a first discovery whose CSD cannot be
\* read leaves an inserted card without power.)
InsertedHasPower == cmd.at = "none" /\ card.inserted /\ card.sized => power

\* Every call ends, whatever the card, the slot and the controller do.
CallsEnd == call.op # "none" ~> call.op = "none"

\* What the driver reports of the card and its sectors is so.
CardRight == DoneIsDone /\ InsertedHasPower
=============================================================================
