----------------------------- MODULE DriversProofs -----------------------------
(***************************************************************************)
(* Theorems about what is next to the hardware: the SD card (SDCard), USB  *)
(* mass storage (USBStorage), the loading of boot2 from the NAND chip with *)
(* its error correction (MiniBoot) and the transfers of the USB host       *)
(* controller (EHCI), for every value of the constants and whatever the    *)
(* hardware does.                                                          *)
(***************************************************************************)
EXTENDS SDCard, USBStorage, MiniBoot, EHCI, Counting, Integers, TLAPS

-----------------------------------------------------------------------------
(***************************************************************************)
(* The SD card.                                                            *)
(***************************************************************************)

Transfers == {"READ", "WRITE"}
Early == {"GO_IDLE", "IF_COND", "OP_COND", "CID", "RCA", "CSD"}
Ops == Early \cup {"SELECT", "BLOCKLEN"} \cup Transfers
Signals == {"COMMAND", "TRANSFER", "DMA", "TIMEOUT", "CRC"}
Phases == {"none", "start", "command", "command_read", "transfer", "transfer_read",
           "done", "failed"}

Lines == [st : {"free", "command", "data", "boundary", "dead"},
          op : Ops \cup {"none"}, mine : BOOLEAN]
Hosts == [intr : SUBSET Signals, read : SUBSET Signals, status : SUBSET Signals]
Cards == [inserted : BOOLEAN, selected : BOOLEAN, new : BOOLEAN, sized : BOOLEAN]
Commands == [op : Ops \cup {"none"}, at : Phases, left : Nat]
Calls == [op : {"none", "attach"} \cup Transfers, direct : BOOLEAN,
          answer : {"none", "nocard", "found", "mounted", "NOINIT", "OK", "ERROR"}]

SDTyped ==
  /\ line \in Lines /\ pend \in SUBSET Signals /\ hp \in Hosts /\ card \in Cards
  /\ cmd \in Commands /\ call \in Calls /\ carried \in BOOLEAN /\ unheard \in BOOLEAN /\ hasty \in BOOLEAN

\* The host works at a command; it has read of what the controller reported.
AtWork == cmd.at \in {"command", "command_read", "transfer", "transfer_read"}
Reading == cmd.at \in {"command_read", "transfer_read"}
Raised == hp.intr \cup hp.read

\* While no command was given up that was not over, an interrupt is of the
\* command at work: there is none without a command, and a last one leaves the
\* line free, so that none comes after it.
LineInv ==
  /\ ~ AtWork => line.st = "free" /\ pend = {}
  /\ cmd.at = "start" => hp.intr = {}
  /\ line.st # "free" => line.mine /\ line.op = cmd.op
  /\ AtWork /\ "TRANSFER" \in pend \cup Raised => carried /\ line.st = "free"
  /\ AtWork /\ "TRANSFER" \in Raised => pend = {}
  /\ AtWork /\ cmd.op \notin Transfers /\ "COMMAND" \in pend \cup Raised => line.st = "free"
  /\ AtWork /\ cmd.op \notin Transfers /\ "COMMAND" \in Raised => pend = {}
  /\ cmd.at = "done" /\ cmd.op \in Transfers => carried \/ (build = "polled" /\ unheard)

\* Of which call the command is, and what sdhc_wait_intr keeps.
CommandInv ==
  /\ ~ Reading => hp.read = {} /\ hp.status = {}
  /\ hp.status \subseteq hp.read
  /\ cmd.at # "none" => cmd.op # "none"
  /\ call.op = "none" => cmd.at = "none"
  /\ call.op \in Transfers /\ cmd.at # "none" => cmd.op \in {"SELECT", call.op}

\* The card is sized late in the discovery, and then keeps its power unless it
\* is forgotten.
PowerInv ==
  /\ call.op = "attach" /\ cmd.at = "none" => ~ card.sized
  /\ call.op = "attach" /\ cmd.at # "none" =>
       /\ power
       /\ cmd.op \in Early => ~ card.sized
  /\ call.op = "attach" => cmd.op \notin Transfers
  /\ call.op # "attach" /\ card.inserted /\ card.sized => power

SDInv == SDTyped /\ (~ hasty => LineInv) /\ CommandInv /\ PowerInv /\ DoneIsDone

-----------------------------------------------------------------------------
LEMMA SDFollowing ==
  /\ Following("GO_IDLE") = "IF_COND" /\ Following("IF_COND") = "OP_COND"
  /\ Following("OP_COND") = "CID" /\ Following("CID") = "RCA"
  /\ Following("RCA") = "CSD" /\ Following("CSD") = "SELECT"
  /\ Following("SELECT") = "BLOCKLEN"
<1>1. /\ DOMAIN Discovery = 1 .. 8
      /\ Discovery[1] = "GO_IDLE" /\ Discovery[2] = "IF_COND" /\ Discovery[3] = "OP_COND"
      /\ Discovery[4] = "CID" /\ Discovery[5] = "RCA" /\ Discovery[6] = "CSD"
      /\ Discovery[7] = "SELECT" /\ Discovery[8] = "BLOCKLEN"
  BY DEF Discovery
<1>2. \A i \in DOMAIN Discovery : i = 1 \/ i = 2 \/ i = 3 \/ i = 4 \/ i = 5 \/ i = 6 \/ i = 7 \/ i = 8
  BY <1>1
<1>3. /\ (CHOOSE i \in DOMAIN Discovery : Discovery[i] = "GO_IDLE") = 1
      /\ (CHOOSE i \in DOMAIN Discovery : Discovery[i] = "IF_COND") = 2
      /\ (CHOOSE i \in DOMAIN Discovery : Discovery[i] = "OP_COND") = 3
      /\ (CHOOSE i \in DOMAIN Discovery : Discovery[i] = "CID") = 4
      /\ (CHOOSE i \in DOMAIN Discovery : Discovery[i] = "RCA") = 5
      /\ (CHOOSE i \in DOMAIN Discovery : Discovery[i] = "CSD") = 6
      /\ (CHOOSE i \in DOMAIN Discovery : Discovery[i] = "SELECT") = 7
  BY <1>1, <1>2
<1> QED
  BY <1>1, <1>3 DEF Following

LEMMA SDRecords ==
  /\ FreeLine \in Lines /\ NoCommand \in Commands /\ NoCard \in Cards
  /\ FreeLine.st = "free" /\ NoCommand.op = "none" /\ NoCommand.at = "none"
<1>1. FreeLine \in Lines /\ FreeLine.st = "free"
  BY DEF FreeLine, Lines
<1>2. NoCommand \in Commands /\ NoCommand.op = "none" /\ NoCommand.at = "none"
  BY DEF NoCommand, Commands, Phases
<1>3. NoCard \in Cards
  BY DEF NoCard, Cards
<1> QED
  BY <1>1, <1>2, <1>3

LEMMA SDInitInv == SDInit => SDInv
<1> SUFFICES ASSUME SDInit PROVE SDInv
  OBVIOUS
<1>1. hp \in Hosts /\ hp.intr = {} /\ hp.read = {} /\ hp.status = {}
  BY DEF SDInit, Hosts
<1>2. call \in Calls /\ call.op = "attach" /\ call.answer = "none"
  BY DEF SDInit, Calls
<1>3. ~ card.sized
  BY DEF SDInit, NoCard
<1>4. /\ line = FreeLine /\ pend = {} /\ card = NoCard /\ cmd = NoCommand /\ carried = FALSE
      /\ unheard = FALSE /\ hasty = FALSE
  BY DEF SDInit
<1>5. SDTyped
  BY <1>1, <1>2, <1>4, SDRecords DEF SDTyped
<1>6. LineInv
  BY <1>1, <1>2, <1>4, SDRecords DEF LineInv, AtWork
<1>7. CommandInv /\ PowerInv /\ DoneIsDone
  BY <1>1, <1>2, <1>3, <1>4, SDRecords DEF CommandInv, PowerInv, DoneIsDone, Transfers, Early
<1> QED
  BY <1>5, <1>6, <1>7 DEF SDInv

\* A step that leaves the driver alone and the line no busier than it was.
LEMMA SDControllerStep ==
  ASSUME SDInv, line' \in Lines, pend' \in SUBSET Signals,
         carried' \in BOOLEAN, carried => carried',
         UNCHANGED <<power, hp, card, cmd, call, build, unheard, hasty>>,
         ~ hasty => /\ line.st = "free" => pend' = pend /\ line'.st = "free"
                    /\ line'.st # "free" => line'.mine = line.mine /\ line'.op = line.op
                    /\ "TRANSFER" \in pend' => carried' /\ line'.st = "free"
                    /\ cmd.op \notin Transfers /\ "COMMAND" \in pend' => line'.st = "free"
  PROVE  SDInv'
<1>1. SDTyped'
  BY DEF SDInv, SDTyped
<1>2. ~ hasty => LineInv'
  BY DEF SDInv, LineInv, AtWork, Raised
<1>3. CommandInv' /\ PowerInv' /\ DoneIsDone'
  BY DEF SDInv, SDTyped, CommandInv, PowerInv, DoneIsDone, Reading
<1> QED
  BY <1>1, <1>2, <1>3 DEF SDInv

LEMMA SDHardware ==
  ASSUME SDInv, Hardware \/ Troubles
  PROVE  SDInv'
<1>0. /\ line \in Lines /\ pend \in SUBSET Signals /\ carried \in BOOLEAN
      /\ ~ hasty => LineInv
  BY DEF SDInv, SDTyped
<1>1. CASE CardAnswers
  <2>1. /\ line.st = "command" /\ pend' = pend \cup {"COMMAND"} /\ carried' = carried
        /\ UNCHANGED <<power, hp, card, cmd, call, build, unheard, hasty>>
        /\ line' = IF line.op \in Transfers THEN [line EXCEPT !.st = "data"] ELSE FreeLine
    BY <1>1 DEF CardAnswers, Transfers
  <2>2. /\ line' \in Lines
        /\ line'.st # "free" =>
             line'.mine = line.mine /\ line'.op = line.op /\ line.op \in Transfers
    <3>1. CASE line.op \in Transfers
      <4>1. line' = [line EXCEPT !.st = "data"]
        BY <2>1, <3>1
      <4> QED
        BY <1>0, <3>1, <4>1 DEF Lines
    <3>2. CASE line.op \notin Transfers
      BY <2>1, <3>2, SDRecords
    <3> QED
      BY <3>1, <3>2
  <2>3. pend' \in SUBSET Signals
    BY <1>0, <2>1 DEF Signals
  <2>4. ~ hasty => /\ line.st = "free" => pend' = pend /\ line'.st = "free"
                   /\ line'.st # "free" => line'.mine = line.mine /\ line'.op = line.op
                   /\ "TRANSFER" \in pend' => carried' /\ line'.st = "free"
                   /\ cmd.op \notin Transfers /\ "COMMAND" \in pend' => line'.st = "free"
    BY <1>0, <2>1, <2>2 DEF LineInv, AtWork
  <2> QED
    BY <1>0, <2>1, <2>2, <2>3, <2>4, SDControllerStep
<1>2. CASE CardMoves
  <2>1. /\ line.st = "data" /\ pend' = pend \cup {"TRANSFER"} /\ line' = FreeLine
        /\ UNCHANGED <<power, hp, card, cmd, call, build, unheard, hasty>>
        /\ carried' = (carried \/ line.mine)
    BY <1>2 DEF CardMoves
  <2>2. line' \in Lines /\ line'.st = "free" /\ pend' \in SUBSET Signals
    BY <1>0, <2>1, SDRecords DEF Signals
  <2>3. carried' \in BOOLEAN /\ (carried => carried') /\ (line.mine => carried')
    BY <2>1
  <2>4. ~ hasty => carried'
    BY <1>0, <2>1, <2>3 DEF LineInv
  <2> QED
    BY <2>1, <2>2, <2>3, <2>4, SDControllerStep
<1>3. CASE CardSilent \/ (LineFails /\ line' = FreeLine)
  <2>1. /\ line.st \in {"command", "data"}
        /\ pend' = pend \cup {"TIMEOUT"} \/ pend' = pend \cup {"CRC"}
        /\ line' = FreeLine
        /\ UNCHANGED <<power, hp, card, cmd, call, build, carried, unheard, hasty>>
    BY <1>3, <1>0, SDRecords DEF CardSilent, LineFails, Lines
  <2>2. line' \in Lines /\ line'.st = "free" /\ pend' \in SUBSET Signals
    BY <1>0, <2>1, SDRecords DEF Signals
  <2>3. ~ hasty => ("TRANSFER" \in pend' => carried')
    <3>1. "TRANSFER" \in pend' => "TRANSFER" \in pend
      BY <2>1
    <3> QED
      BY <1>0, <2>1, <3>1 DEF LineInv, AtWork
  <2> QED
    BY <1>0, <2>1, <2>2, <2>3, SDControllerStep
<1>4. CASE DmaBoundary \/ (LineFails /\ line' # FreeLine)
  <2>1. /\ line.st \in {"command", "data"}
        /\ pend' = pend \cup {"DMA"} \/ pend' = pend
        /\ line' = [line EXCEPT !.st = "boundary"] \/ line' = [line EXCEPT !.st = "dead"]
        /\ UNCHANGED <<power, hp, card, cmd, call, build, carried, unheard, hasty>>
    BY <1>4 DEF DmaBoundary, LineFails
  <2>2. line' \in Lines /\ line'.mine = line.mine /\ line'.op = line.op
    BY <1>0, <2>1 DEF Lines
  <2>3. pend' \in SUBSET Signals
    BY <1>0, <2>1 DEF Signals
  <2>4. ~ hasty => /\ "TRANSFER" \notin pend'
                   /\ cmd.op \notin Transfers => "COMMAND" \notin pend'
    <3>1. /\ "TRANSFER" \in pend' => "TRANSFER" \in pend
          /\ "COMMAND" \in pend' => "COMMAND" \in pend
          /\ line.st # "free"
      BY <2>1
    <3> QED
      BY <1>0, <3>1 DEF LineInv, AtWork
  <2> QED
    BY <1>0, <2>1, <2>2, <2>3, <2>4, SDControllerStep
<1>5. CASE CardExchanged
  <2>1. UNCHANGED <<line, pend, carried, power, hp, card, cmd, call, build, unheard, hasty>>
    BY <1>5 DEF CardExchanged
  <2>2. ~ hasty => /\ "TRANSFER" \in pend => carried /\ line.st = "free"
                   /\ cmd.op \notin Transfers /\ "COMMAND" \in pend => line.st = "free"
    BY <1>0 DEF LineInv, AtWork
  <2> QED
    BY <1>0, <2>1, <2>2, SDControllerStep
<1>6. LineFails => line' = FreeLine \/ line' # FreeLine
  OBVIOUS
<1> QED
  BY <1>1, <1>2, <1>3, <1>4, <1>5, <1>6, Zenon DEF Hardware, Troubles

LEMMA SDWait ==
  ASSUME SDInv, sdhc_intr \/ Interrupted \/ TimedOut
  PROVE  SDInv'
<1>0. SDTyped /\ (~ hasty => LineInv) /\ CommandInv /\ PowerInv /\ DoneIsDone
  BY DEF SDInv
<1>1. CASE sdhc_intr
  <2>1. /\ pend # {} /\ pend' = {}
        /\ line' = FreeLine \/ line' = line
        /\ UNCHANGED <<power, card, cmd, call, build, carried, unheard, hasty>>
    BY <1>1 DEF sdhc_intr
  <2>2. /\ hp'.read = hp.read /\ hp'.status = hp.status
        /\ hp'.intr \subseteq hp.intr \cup pend /\ hp' \in Hosts
    BY <1>0, <1>1 DEF sdhc_intr, SDTyped, Hosts
  <2>0. line' \in Lines /\ (line' = line \/ line'.st = "free") /\ pend' \in SUBSET Signals
    BY <1>0, <2>1, SDRecords DEF SDTyped
  <2>3. SDTyped'
    BY <1>0, <2>0, <2>1, <2>2 DEF SDTyped
  <2>4. ~ hasty => LineInv'
    <3> SUFFICES ASSUME ~ hasty PROVE LineInv'
      OBVIOUS
    <3>1. LineInv /\ AtWork /\ AtWork'
      BY <1>0, <2>1 DEF LineInv, AtWork
    <3>2. Raised' \subseteq pend \cup Raised
      BY <2>2 DEF Raised
    <3>3. line.st = "free" => line'.st = "free"
      BY <2>0
    <3>4. line'.st # "free" => line'.mine /\ line'.op = cmd'.op
      BY <2>0, <2>1, <3>1 DEF LineInv
    <3>5. /\ "TRANSFER" \in pend' \cup Raised' => carried' /\ line'.st = "free"
          /\ cmd'.op \notin Transfers /\ "COMMAND" \in pend' \cup Raised' => line'.st = "free"
      BY <2>1, <3>1, <3>2, <3>3 DEF LineInv
    <3>6. cmd'.at \notin {"start", "done"}
      BY <2>1, <3>1 DEF AtWork
    <3> QED
      BY <2>1, <3>1, <3>4, <3>5, <3>6 DEF LineInv
  <2>5. CommandInv' /\ PowerInv' /\ DoneIsDone'
    BY <1>0, <2>1, <2>2 DEF CommandInv, PowerInv, DoneIsDone, Reading
  <2> QED
    BY <2>1, <2>3, <2>4, <2>5 DEF SDInv
<1>2. CASE Interrupted \/ TimedOut
  <2>1. /\ \/ cmd.at = "command" /\ cmd'.at = "command_read"
           \/ cmd.at = "transfer" /\ cmd'.at = "transfer_read"
        /\ cmd' \in Commands /\ cmd'.op = cmd.op
        /\ UNCHANGED <<line, pend, power, card, call, build, carried, unheard, hasty>>
    <3>1. /\ cmd.at \in {"command", "transfer"}
          /\ cmd' = [cmd EXCEPT !.at = IF @ = "command" THEN "command_read" ELSE "transfer_read"]
          /\ UNCHANGED <<line, pend, power, card, call, build, carried, unheard, hasty>>
      BY <1>2 DEF Interrupted, TimedOut, Waiting
    <3>2. CASE cmd.at = "command"
      <4>1. cmd' = [cmd EXCEPT !.at = "command_read"]
        BY <3>1, <3>2
      <4> QED
        BY <1>0, <3>1, <3>2, <4>1 DEF SDTyped, Commands, Phases
    <3>3. CASE cmd.at = "transfer"
      <4>1. cmd' = [cmd EXCEPT !.at = "transfer_read"]
        BY <3>1, <3>3
      <4> QED
        BY <1>0, <3>1, <3>3, <4>1 DEF SDTyped, Commands, Phases
    <3> QED
      BY <3>1, <3>2, <3>3
  <2>2. /\ hp'.intr = hp.intr /\ hp'.read \subseteq hp.intr /\ hp'.status \subseteq hp'.read
        /\ hp' \in Hosts
    BY <1>0, <1>2 DEF Interrupted, TimedOut, SDTyped, Hosts
  <2>3. SDTyped'
    BY <1>0, <2>1, <2>2 DEF SDTyped
  <2>4. ~ hasty => LineInv'
    BY <1>0, <2>1, <2>2 DEF LineInv, AtWork, Raised
  <2>5. CommandInv' /\ PowerInv' /\ DoneIsDone'
    BY <1>0, <2>1, <2>2 DEF CommandInv, PowerInv, DoneIsDone, Reading
  <2> QED
    BY <2>1, <2>3, <2>4, <2>5 DEF SDInv
<1> QED
  BY <1>1, <1>2

LEMMA SDCommands ==
  ASSUME SDInv, sdhc_start_command \/ Inhibited \/ CommandPhaseEnds \/ sdhc_transfer_data
  PROVE  SDInv'
<1>0. /\ SDTyped /\ (~ hasty => LineInv) /\ CommandInv /\ PowerInv /\ DoneIsDone
      /\ cmd \in Commands /\ line \in Lines /\ hp \in Hosts /\ hasty \in BOOLEAN
  BY DEF SDInv, SDTyped
<1>1. CASE sdhc_start_command
  <2>1. /\ cmd.at = "start" /\ line.st = "free"
        /\ line' = [st |-> "command", op |-> cmd.op, mine |-> TRUE]
        /\ cmd' = [cmd EXCEPT !.at = "command"]
        /\ UNCHANGED <<hp, pend, power, card, call, build, carried, unheard, hasty>>
    BY <1>1 DEF sdhc_start_command
  <2>2. cmd' \in Commands /\ cmd'.op = cmd.op /\ cmd'.at = "command"
    BY <1>0, <2>1 DEF Commands, Phases
  <2>3. line' \in Lines /\ line'.st = "command" /\ line'.op = cmd.op /\ line'.mine
    BY <1>0, <2>1 DEF Commands, Lines
  <2>4. SDTyped'
    BY <1>0, <2>1, <2>2, <2>3 DEF SDTyped
  <2>5. ~ hasty => LineInv'
    BY <1>0, <2>1, <2>2, <2>3 DEF LineInv, AtWork, Raised, CommandInv, Reading
  <2>6. CommandInv' /\ PowerInv' /\ DoneIsDone'
    BY <1>0, <2>1, <2>2 DEF CommandInv, PowerInv, DoneIsDone, Reading
  <2> QED
    BY <2>1, <2>4, <2>5, <2>6 DEF SDInv
<1>2. CASE Inhibited
  <2>1. /\ cmd.at = "start" /\ line.st # "free"
        /\ cmd' = [cmd EXCEPT !.at = "failed"]
        /\ UNCHANGED <<hp, line, pend, power, card, call, build, carried, unheard, hasty>>
    BY <1>2 DEF Inhibited
  <2>2. cmd' \in Commands /\ cmd'.op = cmd.op /\ cmd'.at = "failed"
    BY <1>0, <2>1 DEF Commands, Phases
  <2>3. SDTyped'
    BY <1>0, <2>1, <2>2 DEF SDTyped
  <2>4. hasty
    BY <1>0, <2>1 DEF LineInv, AtWork
  <2>5. CommandInv' /\ PowerInv' /\ DoneIsDone'
    BY <1>0, <2>1, <2>2 DEF CommandInv, PowerInv, DoneIsDone, Reading
  <2> QED
    BY <2>1, <2>3, <2>4, <2>5 DEF SDInv
<1>3. CASE CommandPhaseEnds \/ sdhc_transfer_data
  <2>1. /\ hp' = [hp EXCEPT !.intr = hp.read \ hp.status, !.read = {}, !.status = {}]
        /\ Reading
        /\ UNCHANGED <<pend, power, card, call, build, carried>>
    BY <1>3 DEF CommandPhaseEnds, sdhc_transfer_data, Cleared, Reading
  <2>2. hp' \in Hosts /\ hp'.intr \subseteq hp.read /\ hp'.read = {} /\ hp'.status = {}
    BY <1>0, <2>1 DEF Hosts
  <2>3. /\ cmd' \in Commands /\ cmd'.op = cmd.op
        /\ cmd'.at \in {"failed", "transfer", "done"}
    BY <1>0, <1>3 DEF CommandPhaseEnds, sdhc_transfer_data, Commands, Phases
  <2>0. /\ unheard' \in BOOLEAN
        /\ build = "polled" /\ unheard => unheard'
    <3>1. unheard' = unheard \/ unheard' = (build = "polled")
      BY <1>3 DEF CommandPhaseEnds, sdhc_transfer_data
    <3> QED
      BY <1>0, <3>1 DEF SDTyped
  <2>4. /\ line' \in Lines
        /\ \/ line'.st = "free" \/ line' = line
           \/ line.st = "boundary" /\ line'.op = line.op /\ line'.mine = line.mine
    <3>1. \/ line' = line \/ line' = FreeLine
          \/ line.st = "boundary" /\ line' = [line EXCEPT !.st = "data"]
      BY <1>3 DEF CommandPhaseEnds, sdhc_transfer_data, ResetLine
    <3>2. [line EXCEPT !.st = "data"] \in Lines /\ [line EXCEPT !.st = "data"].op = line.op
          /\ [line EXCEPT !.st = "data"].mine = line.mine
      BY <1>0 DEF Lines
    <3> QED
      BY <1>0, <3>1, <3>2, SDRecords
  <2>5. hasty' \in BOOLEAN /\ (hasty => hasty')
    BY <1>0, <1>3 DEF CommandPhaseEnds, sdhc_transfer_data
  <2>6. ~ hasty' =>
          \/ line'.st = "free" /\ pend = {} /\ cmd'.at = "failed"
          \/ /\ "COMMAND" \in hp.status /\ line' = line /\ cmd.at = "command_read"
             /\ \/ cmd.op \in Transfers /\ cmd'.at = "transfer"
                \/ cmd.op \notin Transfers /\ cmd'.at = "done"
          \/ /\ line'.st = "free" /\ pend = {} /\ cmd'.at = "done"
             /\ build = "polled" /\ unheard'
          \/ "TRANSFER" \in hp.status /\ cmd'.at = "done" /\ line' = line
          \/ cmd'.at = "transfer"
    <3>1. CASE CommandPhaseEnds
      <4>1. CASE "COMMAND" \notin Status
        <5>1. cmd'.at = "failed" /\ (~ hasty' => line'.st = "free" /\ pend = {})
          BY <1>0, <3>1, <4>1 DEF CommandPhaseEnds, Commands, NotOver
        <5> QED
          BY <5>1
      <4>2. CASE "COMMAND" \in Status
        <5>1. "COMMAND" \in hp.status /\ hp.status \cap Errors = {}
          BY <4>2 DEF Status
        <5>2. /\ line' = line /\ cmd.at = "command_read"
              /\ \/ cmd.op \in Transfers /\ cmd'.at = "transfer"
                 \/ cmd.op \notin Transfers /\ cmd'.at = "done"
          BY <1>0, <3>1, <4>2, <5>1 DEF CommandPhaseEnds, Commands, ResetLine, Transfers
        <5> QED
          BY <5>1, <5>2
      <4> QED
        BY <4>1, <4>2
    <3>2. CASE sdhc_transfer_data
      <4>1. CASE Status = {}
        <5>1. /\ cmd' = [cmd EXCEPT !.at = IF build = "polled" THEN "done" ELSE "failed"]
              /\ line' = ResetLine /\ hasty' = (hasty \/ NotOver)
              /\ unheard' = (build = "polled")
          BY <3>2, <4>1, Zenon DEF sdhc_transfer_data
        <5>2. ~ hasty' => line'.st = "free" /\ pend = {}
          BY <5>1 DEF NotOver
        <5>3. cmd'.at = IF build = "polled" THEN "done" ELSE "failed"
          BY <1>0, <5>1 DEF Commands
        <5> QED
          BY <5>1, <5>2, <5>3
      <4>2. CASE "TRANSFER" \in Status
        <5>1. "TRANSFER" \in hp.status
          BY <4>2 DEF Status
        <5>2. cmd' = [cmd EXCEPT !.at = "done"] /\ line' = line
          <6>1. Status # {} /\ Status # {"DMA"}
            BY <4>2
          <6> QED
            BY <3>2, <6>1, Zenon DEF sdhc_transfer_data
        <5>3. cmd'.at = "done"
          BY <1>0, <5>2 DEF Commands
        <5> QED
          BY <5>1, <5>2, <5>3
      <4>3. CASE Status = {"DMA"}
        <5>1. cmd'.at = "transfer"
          BY <1>0, <3>2, <4>3 DEF sdhc_transfer_data, Commands
        <5> QED
          BY <5>1
      <4> QED
        BY <3>2, <4>1, <4>2, <4>3 DEF sdhc_transfer_data
    <3> QED
      BY <1>3, <3>1, <3>2
  <2>7. SDTyped'
    BY <1>0, <2>0, <2>1, <2>2, <2>3, <2>4, <2>5 DEF SDTyped
  <2>8. ~ hasty' => LineInv'
    <3> SUFFICES ASSUME ~ hasty' PROVE LineInv'
      OBVIOUS
    <3>1. /\ LineInv /\ hp.status \subseteq hp.read /\ AtWork
      BY <1>0, <2>1, <2>5 DEF CommandInv, Reading, AtWork
    <3>2. /\ line'.st = "free" \/ ("TRANSFER" \notin pend \cup Raised /\ line'.mine /\ line'.op = cmd.op)
          /\ cmd.op \notin Transfers /\ "COMMAND" \in pend \cup Raised => line'.st = "free"
      BY <2>4, <3>1 DEF LineInv
    <3>3. cmd'.at = "done" =>
            /\ line'.st = "free" /\ pend = {}
            /\ cmd.op \in Transfers => carried \/ (build = "polled" /\ unheard')
      BY <2>6, <3>1 DEF LineInv, Raised
    <3>4. cmd'.at = "failed" => line'.st = "free" /\ pend = {}
      BY <2>6
    <3> QED
      BY <2>1, <2>2, <2>3, <3>1, <3>2, <3>3, <3>4 DEF LineInv, AtWork, Raised
  <2>9. CommandInv' /\ PowerInv'
    BY <1>0, <2>1, <2>2, <2>3 DEF CommandInv, PowerInv, Reading
  <2>10. DoneIsDone'
    BY <1>0, <2>0, <2>1, <2>5 DEF DoneIsDone
  <2> QED
    BY <2>7, <2>8, <2>9, <2>10 DEF SDInv
<1> QED
  BY <1>1, <1>2, <1>3

\* Another command is begun when none is at work.
LEMMA SDBegins ==
  ASSUME SDInv, Tries \in Nat, ~ AtWork, NEW op \in Ops, sdhc_exec_command(op),
         card' \in Cards, call' \in Calls, UNCHANGED <<line, pend, build, carried, unheard, hasty>>
  PROVE  /\ SDTyped' /\ (~ hasty' => LineInv')
         /\ cmd'.op = op /\ cmd'.at = "start" /\ hp'.read = {} /\ hp'.status = {}
<1>0. hp \in Hosts /\ CommandInv /\ (~ hasty => LineInv)
  BY DEF SDInv, SDTyped
<1>1. cmd' \in Commands /\ cmd'.op = op /\ cmd'.at = "start"
  BY DEF sdhc_exec_command, Command, Commands, Phases
<1>2. hp' \in Hosts /\ hp'.intr = {} /\ hp'.read = hp.read /\ hp'.status = hp.status
  BY <1>0 DEF sdhc_exec_command, Hosts
<1>3. hp.read = {} /\ hp.status = {}
  BY <1>0 DEF CommandInv, AtWork, Reading
<1>4. SDTyped'
  BY <1>1, <1>2 DEF SDInv, SDTyped
<1>5. ~ hasty => LineInv'
  BY <1>0, <1>1, <1>2 DEF LineInv, AtWork
<1> QED
  BY <1>1, <1>2, <1>3, <1>4, <1>5

\* A command is over and its call with it.
LEMMA SDOver ==
  ASSUME SDInv, ~ AtWork, cmd' = NoCommand, card' \in Cards, call' \in Calls,
         line' \in Lines, line' = line \/ line'.st = "free",
         pend' \in {pend, {}}, UNCHANGED <<hp, build, carried, unheard, hasty>>
  PROVE  /\ SDTyped' /\ (~ hasty' => LineInv')
         /\ cmd'.op = "none" /\ cmd'.at = "none" /\ hp'.read = {} /\ hp'.status = {}
<1>0. hp \in Hosts /\ CommandInv /\ (~ hasty => LineInv)
  BY DEF SDInv, SDTyped
<1>1. cmd' \in Commands /\ cmd'.op = "none" /\ cmd'.at = "none"
  BY SDRecords
<1>3. hp.read = {} /\ hp.status = {}
  BY <1>0 DEF CommandInv, AtWork, Reading
<1>4. SDTyped'
  BY <1>1 DEF SDInv, SDTyped
<1>5. ~ hasty => LineInv'
  BY <1>0, <1>1 DEF LineInv, AtWork
<1> QED
  BY <1>1, <1>3, <1>4, <1>5

LEMMA SDFinding ==
  ASSUME SDInv, Tries \in Nat, sdmmc_attach \/ PowerFails \/ Discover \/ AskAgain \/ NotFound
  PROVE  SDInv'
<1>0. /\ SDTyped /\ (~ hasty => LineInv) /\ CommandInv /\ PowerInv /\ DoneIsDone
      /\ cmd \in Commands /\ card \in Cards /\ call \in Calls /\ line \in Lines /\ hp \in Hosts
  BY DEF SDInv, SDTyped
<1>1. ASSUME call.op = "attach", ~ AtWork, NEW op \in Ops, op \notin Transfers,
             sdhc_exec_command(op), card' \in Cards, power',
             op \in Early => ~ card'.sized,
             UNCHANGED <<call, line, pend, build, carried, unheard, hasty>>
      PROVE  SDInv'
  <2>1. /\ SDTyped' /\ (~ hasty' => LineInv')
        /\ cmd'.op = op /\ cmd'.at = "start" /\ hp'.read = {} /\ hp'.status = {}
    BY <1>0, <1>1, SDBegins
  <2>2. op # "none"
    BY DEF Ops, Early, Transfers
  <2>3. CommandInv' /\ PowerInv'
    BY <1>1, <2>1, <2>2 DEF CommandInv, PowerInv, Transfers
  <2>4. DoneIsDone'
    BY <1>0, <1>1 DEF DoneIsDone
  <2> QED
    BY <2>1, <2>3, <2>4 DEF SDInv
<1>2. ASSUME call.op = "attach", ~ AtWork, NEW answer \in {"nocard", "found"}, Done(answer),
             card' \in Cards, card'.inserted /\ card'.sized => power',
             line' \in Lines, line' = line \/ line'.st = "free",
             pend' \in {pend, {}}, UNCHANGED <<hp, build, carried, unheard, hasty>>
      PROVE  SDInv'
  <2>1. call' \in Calls /\ call'.op = "none" /\ call'.answer # "OK" /\ cmd' = NoCommand
    BY <1>0, <1>2 DEF Done, Calls
  <2>2. /\ SDTyped' /\ (~ hasty' => LineInv')
        /\ cmd'.op = "none" /\ cmd'.at = "none" /\ hp'.read = {} /\ hp'.status = {}
    BY <1>2, <2>1, SDOver
  <2>3. CommandInv' /\ PowerInv'
    BY <1>2, <2>1, <2>2 DEF CommandInv, PowerInv, Transfers
  <2>4. DoneIsDone'
    BY <2>1 DEF DoneIsDone
  <2> QED
    BY <2>2, <2>3, <2>4 DEF SDInv
<1>3. CASE sdmmc_attach
  <2>1. call.op = "attach" /\ cmd.at = "none" /\ ~ AtWork /\ ~ card.sized
        /\ UNCHANGED <<line, pend, build, carried, unheard, hasty>>
    BY <1>0, <1>3 DEF sdmmc_attach, AtWork, PowerInv
  <2>2. CASE Done("nocard") /\ UNCHANGED <<power, card, hp>>
    BY <1>0, <1>2, <2>1, <2>2
  <2>3. CASE /\ card' = [card EXCEPT !.new = TRUE] /\ power' = TRUE
             /\ sdhc_exec_command("GO_IDLE") /\ UNCHANGED call
    <3>1. card' \in Cards /\ card'.sized = card.sized
      BY <1>0, <2>3 DEF Cards
    <3>2. "GO_IDLE" \in Ops /\ "GO_IDLE" \notin Transfers
      BY DEF Ops, Early, Transfers
    <3>3. power'
      BY <2>3
    <3> QED
      BY <1>1, <2>1, <2>3, <3>1, <3>2, <3>3
  <2> QED
    BY <1>3, <2>2, <2>3 DEF sdmmc_attach
<1>4. CASE PowerFails
  <2>1. /\ call.op = "attach" /\ cmd.at = "none" /\ ~ AtWork /\ ~ card.sized
        /\ card' = [card EXCEPT !.new = TRUE] /\ Done("nocard")
        /\ UNCHANGED <<line, power, pend, hp, build, carried, unheard, hasty>>
    BY <1>0, <1>4 DEF PowerFails, AtWork, PowerInv
  <2>2. card' \in Cards /\ card'.sized = card.sized
    BY <1>0, <2>1 DEF Cards
  <2> QED
    BY <1>0, <1>2, <2>1, <2>2
<1>5. CASE Discover
  <2>1. /\ call.op = "attach" /\ cmd.at \in {"done", "failed"} /\ ~ AtWork /\ cmd.op # "none"
        /\ UNCHANGED <<line, power, pend, build, carried, unheard, hasty>>
        /\ card' = FoundBy(cmd.op)
    BY <1>0, <1>5 DEF Discover, AtWork, CommandInv
  <2>2. /\ power /\ cmd.op \in Early \cup {"SELECT", "BLOCKLEN"}
        /\ cmd.op \in Early => ~ card.sized
    BY <1>0, <2>1 DEF PowerInv, Commands, Ops
  <2>3. /\ card' \in Cards
        /\ cmd.op \in Early \ {"CSD"} => ~ card'.sized
    <3>1. CASE cmd.op = "RCA"
      <4>1. card' = [card EXCEPT !.selected = FALSE, !.inserted = TRUE]
        BY <2>1, <3>1 DEF FoundBy
      <4> QED
        BY <1>0, <2>2, <4>1 DEF Cards
    <3>2. CASE cmd.op = "CSD"
      <4>1. card' = [card EXCEPT !.sized = TRUE]
        BY <2>1, <3>2 DEF FoundBy
      <4> QED
        BY <1>0, <3>2, <4>1 DEF Cards
    <3>3. CASE cmd.op = "SELECT"
      <4>1. card' = [card EXCEPT !.selected = @ \/ cmd.at = "done"]
        BY <2>1, <3>3 DEF FoundBy
      <4> QED
        BY <1>0, <2>2, <3>3, <4>1 DEF Cards
    <3>4. CASE cmd.op \notin {"RCA", "CSD", "SELECT"}
      <4>1. card' = card
        BY <2>1, <3>4 DEF FoundBy
      <4> QED
        BY <1>0, <2>2, <4>1
    <3> QED
      BY <3>1, <3>2, <3>3, <3>4
  <2>4. CASE cmd.op = "BLOCKLEN"
    <3>1. Done("found") /\ UNCHANGED hp
      BY <1>5, <2>4 DEF Discover
    <3> QED
      BY <1>0, <1>2, <2>1, <2>2, <2>3, <3>1
  <2>5. CASE cmd.op # "BLOCKLEN"
    <3>1. sdhc_exec_command(Following(cmd.op)) /\ UNCHANGED call
      BY <1>5, <2>5 DEF Discover
    <3>2. /\ Following(cmd.op) \in Ops /\ Following(cmd.op) \notin Transfers
          /\ Following(cmd.op) \in Early => cmd.op \in Early \ {"CSD"}
      BY <2>2, <2>5, SDFollowing DEF Ops, Early, Transfers
    <3> QED
      BY <1>1, <2>1, <2>2, <2>3, <3>1, <3>2
  <2> QED
    BY <2>4, <2>5
<1>6. CASE AskAgain
  <2>1. /\ call.op = "attach" /\ cmd.at \in {"done", "failed"} /\ cmd.left > 1
        /\ cmd' = [cmd EXCEPT !.at = "start", !.left = @ - 1]
        /\ hp' = [hp EXCEPT !.intr = {}]
        /\ UNCHANGED <<line, power, pend, card, call, build, carried, unheard, hasty>>
    BY <1>6 DEF AskAgain
  <2>2. cmd' \in Commands /\ cmd'.op = cmd.op /\ cmd'.at = "start"
    <3>1. cmd.left \in Nat /\ cmd.left - 1 \in Nat
      BY <1>0, <2>1 DEF Commands
    <3> QED
      BY <1>0, <2>1, <3>1 DEF Commands, Phases
  <2>3. hp' \in Hosts /\ hp'.intr = {} /\ hp'.read = hp.read /\ hp'.status = hp.status
    BY <1>0, <2>1 DEF Hosts
  <2>4. SDTyped'
    BY <1>0, <2>1, <2>2, <2>3 DEF SDTyped
  <2>5. ~ hasty => LineInv'
    BY <1>0, <2>1, <2>2, <2>3 DEF LineInv, AtWork
  <2>6. CommandInv' /\ PowerInv' /\ DoneIsDone'
    BY <1>0, <2>1, <2>2, <2>3 DEF CommandInv, PowerInv, DoneIsDone, Reading
  <2> QED
    BY <2>1, <2>4, <2>5, <2>6 DEF SDInv
<1>7. CASE NotFound
  <2>1. /\ call.op = "attach" /\ cmd.at \in {"done", "failed"} /\ ~ AtWork
        /\ card' = Forgotten /\ line' = FreeLine /\ pend' = {} /\ Done("nocard")
        /\ cmd.op # "SELECT" /\ cmd.op # "none"
        /\ UNCHANGED <<hp, build, carried, unheard, hasty>>
    BY <1>0, <1>7 DEF NotFound, AtWork, CommandInv
  <2>2. cmd.op \in Early \cup {"BLOCKLEN"} /\ (cmd.op \in Early => ~ card.sized)
    BY <1>0, <2>1 DEF PowerInv, Commands, Ops
  <2>3. card' \in Cards /\ ~ (card'.inserted /\ card'.sized)
    <3>1. CASE cmd.op = "BLOCKLEN"
      <4>1. card' = [card EXCEPT !.inserted = FALSE, !.selected = FALSE]
        BY <2>1, <3>1 DEF Forgotten
      <4> QED
        BY <1>0, <4>1 DEF Cards
    <3>2. CASE cmd.op # "BLOCKLEN"
      BY <1>0, <2>1, <2>2, <3>2 DEF Forgotten
    <3> QED
      BY <3>1, <3>2
  <2> QED
    BY <1>0, <1>2, <2>1, <2>3, SDRecords
<1> QED
  BY <1>3, <1>4, <1>5, <1>6, <1>7

LEMMA SDCalls ==
  ASSUME SDInv, Tries \in Nat, FileSystem \/ Sectors
  PROVE  SDInv'
<1>0. /\ SDTyped /\ (~ hasty => LineInv) /\ CommandInv /\ PowerInv /\ DoneIsDone
      /\ cmd \in Commands /\ card \in Cards /\ call \in Calls /\ line \in Lines /\ hp \in Hosts
  BY DEF SDInv, SDTyped
<1>1. CASE disk_initialize
  <2>1. /\ call.op = "none" /\ card' = [card EXCEPT !.new = @ /\ ~ card.inserted]
        /\ \/ call' = [Call("none", FALSE) EXCEPT !.answer = "mounted"]
           \/ call' = [Call("none", FALSE) EXCEPT !.answer = "NOINIT"]
        /\ UNCHANGED <<line, power, pend, hp, cmd, build, carried, unheard, hasty>>
    BY <1>1 DEF disk_initialize
  <2>2. card' \in Cards /\ card'.inserted = card.inserted /\ card'.sized = card.sized
    BY <1>0, <2>1 DEF Cards
  <2>3. call' \in Calls /\ call'.op = "none" /\ call'.answer # "OK"
    BY <2>1 DEF Call, Calls
  <2>4. SDTyped'
    BY <1>0, <2>1, <2>2, <2>3 DEF SDTyped
  <2>5. ~ hasty => LineInv'
    BY <1>0, <2>1 DEF LineInv, AtWork, Raised
  <2>6. CommandInv' /\ PowerInv' /\ DoneIsDone'
    BY <1>0, <2>1, <2>2, <2>3 DEF CommandInv, PowerInv, DoneIsDone, Reading, Transfers
  <2> QED
    BY <2>1, <2>4, <2>5, <2>6 DEF SDInv
<1>2. ASSUME NEW op \in Transfers, NEW direct \in BOOLEAN, Begin(op, direct)
      PROVE  SDInv'
  <2>1. /\ call.op = "none" /\ carried' = FALSE /\ unheard' = FALSE /\ line' = [line EXCEPT !.mine = FALSE]
        /\ call' = Call(op, direct)
        /\ UNCHANGED <<power, pend, hp, card, cmd, build, hasty>>
    BY <1>2 DEF Begin
  <2>2. line' \in Lines /\ line'.st = line.st
    BY <1>0, <2>1 DEF Lines
  <2>3. call' \in Calls /\ call'.op = op /\ call'.answer = "none"
    BY <1>2, <2>1 DEF Call, Calls
  <2>4. cmd.at = "none"
    BY <1>0, <2>1 DEF CommandInv
  <2>5. SDTyped'
    BY <1>0, <2>1, <2>2, <2>3 DEF SDTyped
  <2>6. ~ hasty => LineInv'
    BY <1>0, <2>1, <2>2, <2>4 DEF LineInv, AtWork, Raised
  <2>7. CommandInv' /\ PowerInv' /\ DoneIsDone'
    BY <1>0, <1>2, <2>1, <2>3, <2>4 DEF CommandInv, PowerInv, DoneIsDone, Reading, Transfers
  <2> QED
    BY <2>1, <2>5, <2>6, <2>7 DEF SDInv
<1>3. CASE Sectors
  <2>0. call.op \in Transfers /\ UNCHANGED <<line, power, pend, build, carried, unheard, hasty>>
    BY <1>3 DEF Sectors, Transfers
  <2>1. ASSUME NEW ok \in BOOLEAN, Result(ok), ~ AtWork, card' \in Cards, card' = card,
               UNCHANGED hp, ok => cmd.at = "done" /\ cmd.op \in Transfers
        PROVE  SDInv'
    <3>1. /\ call' \in Calls /\ call'.op = "none" /\ cmd' = NoCommand
          /\ call'.direct = call.direct
          /\ call'.answer = "OK" => ok \/ call.direct
      BY <1>0, <2>1 DEF Result, Done, Calls
    <3>2. /\ SDTyped' /\ (~ hasty' => LineInv')
          /\ cmd'.op = "none" /\ cmd'.at = "none" /\ hp'.read = {} /\ hp'.status = {}
      BY <1>0, <2>0, <2>1, <3>1, SDOver
    <3>3. CommandInv' /\ PowerInv'
      BY <1>0, <2>0, <2>1, <3>1, <3>2 DEF CommandInv, PowerInv, Transfers
    <3>4. DoneIsDone'
      BY <1>0, <2>0, <2>1, <3>1 DEF DoneIsDone, LineInv
    <3> QED
      BY <3>2, <3>3, <3>4 DEF SDInv
  <2>2. ASSUME NEW op \in {"SELECT", call.op}, sdhc_exec_command(op), ~ AtWork, card' = card,
               UNCHANGED call
        PROVE  SDInv'
    <3>0. op \in Ops /\ op # "none"
      BY <2>0 DEF Ops, Transfers
    <3>1. /\ SDTyped' /\ (~ hasty' => LineInv')
          /\ cmd'.op = op /\ cmd'.at = "start" /\ hp'.read = {} /\ hp'.status = {}
      BY <1>0, <2>0, <2>2, <3>0, SDBegins
    <3>2. CommandInv' /\ PowerInv' /\ DoneIsDone'
      BY <1>0, <2>0, <2>2, <3>0, <3>1 DEF CommandInv, PowerInv, DoneIsDone, Transfers
    <3> QED
      BY <3>1, <3>2 DEF SDInv
  <2>3. CASE /\ cmd.op = "SELECT" /\ cmd.at = "done"
             /\ card' = [card EXCEPT !.selected = TRUE]
             /\ cmd' = NoCommand
             /\ UNCHANGED <<call, hp>>
    <3>1. card' \in Cards /\ card'.inserted = card.inserted /\ card'.sized = card.sized
      BY <1>0, <2>3 DEF Cards
    <3>2. ~ AtWork
      BY <2>3 DEF AtWork
    <3>3. /\ SDTyped' /\ (~ hasty' => LineInv')
          /\ cmd'.op = "none" /\ cmd'.at = "none" /\ hp'.read = {} /\ hp'.status = {}
      BY <1>0, <2>0, <2>3, <3>1, <3>2, SDOver
    <3>4. CommandInv' /\ PowerInv' /\ DoneIsDone'
      BY <1>0, <2>0, <2>3, <3>1, <3>3 DEF CommandInv, PowerInv, DoneIsDone, Transfers
    <3> QED
      BY <3>3, <3>4 DEF SDInv
  <2>4. \/ /\ cmd.at = "none" /\ card' = card
           /\ \/ Result(FALSE) /\ UNCHANGED hp
              \/ sdhc_exec_command("SELECT") /\ UNCHANGED call
              \/ sdhc_exec_command(call.op) /\ UNCHANGED call
        \/ /\ cmd.op = "SELECT" /\ cmd.at = "done"
           /\ card' = [card EXCEPT !.selected = TRUE]
           /\ cmd' = NoCommand
           /\ UNCHANGED <<call, hp>>
        \/ /\ cmd.at = "failed" \/ (cmd.op # "SELECT" /\ cmd.at = "done")
           /\ Result(cmd.at = "done") /\ card' = card /\ UNCHANGED hp
    BY <1>3, Zenon DEF Sectors
  <2>5. CASE /\ cmd.at = "none" /\ card' = card
             /\ \/ Result(FALSE) /\ UNCHANGED hp
                \/ sdhc_exec_command("SELECT") /\ UNCHANGED call
                \/ sdhc_exec_command(call.op) /\ UNCHANGED call
    <3>1. ~ AtWork /\ card' \in Cards
      BY <1>0, <2>5 DEF AtWork
    <3> QED
      BY <2>1, <2>2, <2>5, <3>1
  <2>6. CASE /\ cmd.at = "failed" \/ (cmd.op # "SELECT" /\ cmd.at = "done")
             /\ Result(cmd.at = "done") /\ card' = card /\ UNCHANGED hp
    <3>1. ~ AtWork /\ card' \in Cards /\ (cmd.at = "done") \in BOOLEAN
      BY <1>0, <2>6 DEF AtWork
    <3>2. cmd.at = "done" => cmd.op \in Transfers
      BY <1>0, <2>0, <2>6 DEF CommandInv
    <3> QED
      BY <2>1, <2>6, <3>1, <3>2
  <2> QED
    BY <2>3, <2>4, <2>5, <2>6
<1> QED
  BY <1>1, <1>2, <1>3 DEF FileSystem, Transfers

LEMMA SDStays ==
  ASSUME SDInv, UNCHANGED sdvars
  PROVE  SDInv'
<1>1. UNCHANGED <<line, power, pend, hp, card, cmd, call, build, carried, unheard, hasty>>
  BY DEF sdvars
<1>2. SDTyped' /\ CommandInv' /\ PowerInv' /\ DoneIsDone'
  BY <1>1 DEF SDInv, SDTyped, CommandInv, PowerInv, DoneIsDone, Reading
<1>3. ~ hasty' => LineInv'
  BY <1>1 DEF SDInv, LineInv, AtWork, Raised
<1> QED
  BY <1>2, <1>3 DEF SDInv

LEMMA SDNextInv ==
  ASSUME SDInv, [SDNext]_sdvars
  PROVE  SDInv'
BY SDAssumption, SDHardware, SDWait, SDCommands, SDFinding, SDCalls, SDStays
   DEF SDNext, Driver, FileSystem

LEMMA SDInvRight == SDInv => CardRight
<1> SUFFICES ASSUME SDInv PROVE CardRight
  OBVIOUS
<1>1. InsertedHasPower
  BY DEF SDInv, PowerInv, InsertedHasPower
<1> QED
  BY <1>1 DEF SDInv, CardRight

(***************************************************************************)
(* A read or write of the SD card that is answered RES_OK through a buffer *)
(* has been transferred, as long as no command was given up that the       *)
(* controller was still at -- always in mini's driver, and in the polled   *)
(* one unless its data phase ended without the sectors, which that driver  *)
(* does not hear of.  A card that is reported with its size has power.     *)
(* This holds whatever the card answers, whenever it is taken out or put   *)
(* in, and wherever the interrupts come.                                   *)
(***************************************************************************)
THEOREM SDCardIsRight == SDInit /\ [][SDNext]_sdvars => []CardRight
<1>1. SDInv /\ [SDNext]_sdvars => SDInv'
  BY SDNextInv
<1> QED
  BY <1>1, SDInitInv, SDInvRight, PTL
-----------------------------------------------------------------------------
(***************************************************************************)
(* USB storage.                                                            *)
(***************************************************************************)

Orders == {"none", "test", "sense", "inquiry", "capacity", "read", "write"}
Returns == {"OK", "ETIMEDOUT", "ENODEV", "EDATARESIDUE", "ESHORTREAD", "ETAG"}
Resetting == {"reset", "halt_in", "halt_out"}
Moments == {"idle", "cbw", "data", "csw", "over", "hung"} \cup Resetting

Toggles == [Pipes -> {0, 1}]
Handles == [mounted : BOOLEAN, lun : Nat, max_lun : Nat, tag : {0, 1}]
Units == [phase : {"cbw", "data_in", "data_out", "csw"}, tog : Toggles, tag : {0, 1},
          op : Orders, left : Nat, status : {0, 1, 2}, wrote : Seq(Nat)]
Cycles == [op : Orders, n : Nat, at : Moments, len : Nat, have : Seq(Nat), tries : Int,
           ret : Returns, status : {0, 1, 2}]
Jobs == [op : {"none", "init", "read", "write"},
         step : {"none", "open", "test", "sense", "inquiry", "capacity"},
         n : Nat, lun : Nat,
         answer : {"none", "initialised", "RES_OK", "RES_ERROR"}, right : BOOLEAN]

USBTyped ==
  /\ user \in {"fsusb", "di"} /\ handle \in Handles /\ toggles \in Toggles
  /\ unit \in Units /\ cyc \in Cycles /\ job \in Jobs
  /\ told \in BOOLEAN /\ halves \in BOOLEAN /\ long \in BOOLEAN
  /\ faults \in Nat
  /\ \E m \in Nat : ready \in [0 .. m -> {"ready", "attention", "no_medium"}]

\* The toggles of driver and device only part when a pipe is cleared.
ToggleInv == ~ halves => toggles = unit.tog

\* What the cycle is for.
JobInv ==
  /\ job.op = "none" <=> cyc.at = "idle" /\ job.step # "open"
  /\ job.op = "init" <=> job.step # "none"
  /\ job.step = "open" => cyc.at = "idle" /\ unit.phase = "cbw" /\ job.lun = 0
  /\ job.op = "init" /\ job.step # "open" => cyc.op = job.step /\ cyc.at # "idle"
  /\ job.step = "test" => cyc.n = 0
  /\ job.step \in {"sense", "inquiry", "capacity"} => cyc.n = 1
  /\ job.op \in {"read", "write"} => cyc.op = job.op /\ cyc.n = job.n /\ cyc.n > 0
  /\ job.op # "none" => job.answer = "none"
  /\ job.op = "init" => ~ handle.mounted /\ ~ long
  /\ cyc.len <= cyc.n
  /\ ~ long => cyc.n < LengthWord

\* The sectors of a command were moved.
Moved ==
  /\ cyc.op = "read" => cyc.have = Run(cyc.n)
  /\ cyc.op = "write" => unit.wrote = Run(cyc.n)

\* A device that took the command is about to move what it has to move; a
\* command for a part of the sectors, sent again, it refuses.
UnitInv ==
  /\ cyc.at = "data" /\ unit.phase # "cbw" =>
       /\ unit.left <= cyc.len
       /\ unit.status = 0 => unit.left = cyc.n /\ cyc.len = cyc.n
  /\ cyc.at = "data" => unit.phase # "csw" /\ cyc.len > 0
  /\ cyc.at = "csw" /\ unit.phase = "csw" /\ unit.status = 0 =>
       /\ ~ told => Moved
       /\ cyc.op = "test" => ready[job.lun] = "ready"

\* A cycle that went well.
OverInv ==
  /\ cyc.at = "over" /\ cyc.ret = "OK" =>
       /\ ~ told => Moved
       /\ cyc.op = "test" /\ cyc.status = 0 => ready[job.lun] = "ready"
  /\ cyc.at \in Resetting => cyc.ret # "OK"

\* A unit that is mounted, or will be, has a medium.
FoundInv ==
  /\ job.step \in {"inquiry", "capacity"} => ready[job.lun] # "no_medium"
  /\ handle.mounted => ready[handle.lun] # "no_medium"

\* Without faults the device does what the driver expects.
InTime ==
  /\ ~ halves
  /\ cyc.at \in {"idle", "cbw", "data", "csw", "over"}
  /\ cyc.at = "over" => cyc.ret = "OK"
  /\ cyc.at \in {"idle", "cbw", "over"} => unit.phase = "cbw"
  /\ cyc.at = "cbw" => cyc.len = cyc.n
  /\ cyc.at = "data" =>
       /\ unit.phase = IF cyc.op = "write" THEN "data_out" ELSE "data_in"
       /\ cyc.op = "write" => unit.left = cyc.len
       /\ unit.tag = handle.tag
  /\ cyc.at = "csw" => unit.phase = "csw" /\ unit.tag = handle.tag

NoMedium(n) == \A l \in 0 .. n - 1 : ready[l] = "no_medium"

SyncInv == faults = 0 /\ ~ long => InTime

\* Without faults the units are tried one after the other.
TriedInv ==
  faults = 0 =>
    /\ job.op = "init" => NoMedium(job.lun)
    /\ job.op = "init" /\ job.step # "open" => handle.max_lun = MaxLun /\ job.lun < MaxLun
    /\ handle.mounted => NoMedium(handle.lun)
    /\ job.op # "init" /\ ~ long => handle.mounted \/ NoMedium(MaxLun)

USBInv ==
  /\ USBTyped /\ ToggleInv /\ JobInv /\ UnitInv /\ OverInv /\ FoundInv /\ SyncInv
  /\ TriedInv /\ DiskReadRight /\ CausedError

-----------------------------------------------------------------------------
LEMMA USBRecords ==
  /\ Closed \in Handles /\ ~ Closed.mounted
  /\ NoCycle \in Cycles /\ NoCycle.at = "idle" /\ NoCycle.n = 0 /\ NoCycle.len = 0
  /\ NoCycle.op = "none"
  /\ Silent \in Units /\ Silent.phase = "cbw" /\ Silent.tog = [p \in Pipes |-> 0]
  /\ NoJob \in Jobs /\ NoJob.op = "none" /\ NoJob.step = "none" /\ NoJob.lun = 0
  /\ NoJob.answer = "none" /\ NoJob.n = 0
<1>0. <<>> \in Seq(Nat)
  OBVIOUS
<1>1. Closed \in Handles /\ ~ Closed.mounted
  BY DEF Closed, Handles
<1>2. /\ NoCycle \in Cycles /\ NoCycle.at = "idle" /\ NoCycle.n = 0 /\ NoCycle.len = 0
      /\ NoCycle.op = "none"
  BY <1>0 DEF NoCycle, Cycles, Orders, Moments, Returns
<1>3. Silent \in Units /\ Silent.phase = "cbw" /\ Silent.tog = [p \in Pipes |-> 0]
  BY <1>0 DEF Silent, Units, Orders, Toggles, Pipes
<1>4. /\ NoJob \in Jobs /\ NoJob.op = "none" /\ NoJob.step = "none" /\ NoJob.lun = 0
      /\ NoJob.answer = "none" /\ NoJob.n = 0
  BY DEF NoJob, Jobs
<1> QED
  BY <1>1, <1>2, <1>3, <1>4

LEMMA USBRuns ==
  /\ \A n \in Nat : Run(n) \in Seq(Nat)
  /\ \A n \in Nat : Tail(Run(n + 1)) \in Seq(Nat)
<1>1. ASSUME NEW n \in Nat PROVE Run(n) \in Seq(Nat) /\ Len(Run(n)) = n
  BY DEF Run
<1>2. ASSUME NEW n \in Nat PROVE Tail(Run(n + 1)) \in Seq(Nat)
  <2>1. Run(n + 1) \in Seq(Nat) /\ Len(Run(n + 1)) = n + 1
    BY <1>1
  <2>2. Run(n + 1) # <<>>
    BY <2>1
  <2> QED
    BY <2>1, <2>2
<1> QED
  BY <1>1, <1>2

\* The toggle of a pipe is 0 or 1.
LEMMA USBFlip ==
  ASSUME NEW t \in Toggles, NEW p \in Pipes, NEW n \in Nat
  PROVE  Flip(t, p, n) \in Toggles
<1>1. (t[p] + n) % 2 \in {0, 1}
  BY DEF Toggles
<1> QED
  BY <1>1 DEF Flip, Toggles

\* The number of units that are tried.
LEMMA USBMaxLun ==
  ASSUME USBTyped
  PROVE  MaxLun \in Nat /\ MaxLun > 0
<1>1. PICK m \in Nat : ready \in [0 .. m -> {"ready", "attention", "no_medium"}]
  BY DEF USBTyped
<1>2. DOMAIN ready = 0 .. m
  BY <1>1
<1>3. m \in DOMAIN ready /\ \A k \in DOMAIN ready : m >= k
  BY <1>2
<1>4. LastUnit \in DOMAIN ready
  BY <1>3 DEF LastUnit
<1> QED
  BY <1>2, <1>4 DEF MaxLun

LEMMA USBInitInv == USBInit => USBInv
<1> SUFFICES ASSUME USBInit PROVE USBInv
  OBVIOUS
<1>1. /\ user \in {"fsusb", "di"} /\ handle = Closed /\ toggles = [p \in Pipes |-> 0]
      /\ unit = Silent /\ cyc = NoCycle /\ job = [NoJob EXCEPT !.op = "init", !.step = "open"]
      /\ told = FALSE /\ halves = FALSE /\ long = FALSE /\ faults = 0
      /\ \E m \in MaxLuns : ready \in [0 .. m -> {"ready", "attention", "no_medium"}]
  BY DEF USBInit
<1>2. \E m \in Nat : ready \in [0 .. m -> {"ready", "attention", "no_medium"}]
  BY <1>1, USBStorageAssumption
<1>3. job \in Jobs /\ job.op = "init" /\ job.step = "open" /\ job.lun = 0 /\ job.answer = "none"
  BY <1>1, USBRecords DEF Jobs
<1>4. toggles \in Toggles
  BY <1>1 DEF Toggles
<1>5. USBTyped
  BY <1>1, <1>2, <1>3, <1>4, USBRecords DEF USBTyped
<1>6. ToggleInv
  BY <1>1, USBRecords DEF ToggleInv
<1>7. JobInv
  <2>1. /\ cyc.at = "idle" /\ cyc.n = 0 /\ cyc.len = 0 /\ cyc.op = "none"
        /\ unit.phase = "cbw" /\ ~ handle.mounted /\ ~ long
    BY <1>1, USBRecords
  <2>2. 0 < LengthWord
    BY USBStorageAssumption
  <2> QED
    BY <1>3, <2>1, <2>2 DEF JobInv
<1>8. UnitInv /\ OverInv /\ FoundInv
  BY <1>1, <1>3, USBRecords DEF UnitInv, OverInv, FoundInv, Resetting
<1>9. SyncInv
  BY <1>1, USBRecords DEF SyncInv, InTime
<1>10. TriedInv
  <2>1. ~ handle.mounted
    BY <1>1, USBRecords
  <2>2. NoMedium(job.lun)
    <3>1. \A l \in 0 .. 0 - 1 : FALSE
      OBVIOUS
    <3> QED
      BY <1>3, <3>1 DEF NoMedium
  <2> QED
    BY <1>3, <2>1, <2>2 DEF TriedInv
<1>11. DiskReadRight /\ CausedError
  BY <1>3 DEF DiskReadRight, CausedError
<1> QED
  BY <1>5, <1>6, <1>7, <1>8, <1>9, <1>10, <1>11 DEF USBInv

\* A step of a message.
LEMMA USBMessage ==
  ASSUME USBInv, handle' \in Handles, toggles' \in Toggles, unit' \in Units, cyc' \in Cycles,
         told' \in BOOLEAN, halves' \in BOOLEAN, told => told',
         faults' \in {faults, faults + 1},
         cyc.at \notin {"idle"}, cyc'.at \notin {"idle"},
         cyc'.op = cyc.op, cyc'.n = cyc.n, cyc'.len <= cyc.len,
         handle'.mounted <=> handle.mounted, handle'.lun = handle.lun,
         handle'.max_lun = handle.max_lun,
         UNCHANGED <<user, ready, job, long>>,
         ToggleInv', UnitInv', OverInv', faults' = faults /\ faults = 0 /\ ~ long => InTime'
  PROVE  USBInv'
<1>0. /\ USBTyped /\ JobInv /\ FoundInv /\ TriedInv /\ DiskReadRight /\ CausedError
      /\ faults \in Nat /\ cyc \in Cycles
  BY DEF USBInv, USBTyped
<1>1. USBTyped'
  <2>1. user' \in {"fsusb", "di"} /\ job' \in Jobs /\ long' \in BOOLEAN
    BY <1>0, UNCHANGED <<user, job, long>>, Zenon DEF USBTyped
  <2>3. faults' \in Nat
    BY <1>0
  <2>2. \E m \in Nat : ready' \in [0 .. m -> {"ready", "attention", "no_medium"}]
    BY <1>0, ready' = ready DEF USBTyped
  <2> QED
    BY <2>1, <2>2, <2>3 DEF USBTyped
<1>2. cyc.len <= cyc.n /\ cyc.len \in Nat /\ cyc.n \in Nat /\ cyc'.len \in Nat
  BY <1>0 DEF JobInv, Cycles
<1>3. JobInv'
  BY <1>0, <1>2 DEF JobInv
<1>4. FoundInv'
  BY <1>0 DEF FoundInv
<1>5. faults' = 0 => faults = 0 /\ faults' = faults
  BY <1>0
<1>6. SyncInv'
  BY <1>5 DEF SyncInv
<1>7. MaxLun' = MaxLun
  BY DEF MaxLun, LastUnit
<1>8. TriedInv'
  BY <1>0, <1>5, <1>7 DEF TriedInv, NoMedium
<1>9. job.answer = "none"
  BY <1>0, <1>2 DEF JobInv
<1>10. DiskReadRight' /\ CausedError'
  BY <1>9 DEF DiskReadRight, CausedError
<1> QED
  BY <1>1, <1>3, <1>4, <1>6, <1>8, <1>10 DEF USBInv

\* What a message that fails leaves.
LEMMA USBFails ==
  ASSUME USBInv, NEW other \in BOOLEAN, NEW gone \in {"ENODEV", "EDATARESIDUE"},
         cyc.at \in {"cbw", "data", "csw"},
         MessageFails(other, gone), UNCHANGED <<user, handle, ready, job, long, told, halves>>,
         other => ~ (faults = 0 /\ ~ long)
  PROVE  USBInv'
<1>0. /\ USBTyped /\ ToggleInv /\ handle \in Handles /\ toggles \in Toggles /\ unit \in Units
      /\ cyc \in Cycles /\ told \in BOOLEAN /\ halves \in BOOLEAN /\ faults \in Nat
  BY DEF USBInv, USBTyped
<1>1. PICK r \in {"ETIMEDOUT", "ENODEV"} :
        /\ IF other /\ r = "ETIMEDOUT" THEN UNCHANGED faults ELSE Fault
        /\ cyc' = Failed(cyc, IF r = "ENODEV" THEN gone ELSE r)
        /\ UNCHANGED <<toggles, unit>>
  BY DEF MessageFails
<1>2. PICK ret \in {"ETIMEDOUT", "ENODEV", "EDATARESIDUE"} : cyc' = Failed(cyc, ret)
  BY <1>1
<1>3. /\ cyc' \in Cycles /\ cyc'.at \in {"over", "reset"} /\ cyc'.ret # "OK"
      /\ cyc'.op = cyc.op /\ cyc'.n = cyc.n /\ cyc'.len = cyc.len
  <2>1. PICK at \in {"over", "reset"} : cyc' = [cyc EXCEPT !.ret = ret, !.at = at]
    BY <1>2 DEF Failed
  <2> QED
    BY <1>0, <2>1 DEF Cycles, Moments, Returns, Resetting
<1>4. faults' \in {faults, faults + 1} /\ (faults' = faults => other)
  BY <1>0, <1>1 DEF Fault
<1>5. ToggleInv'
  BY <1>0, <1>1 DEF ToggleInv
<1>6. UnitInv' /\ OverInv'
  BY <1>3 DEF UnitInv, OverInv
<1>7. cyc'.len <= cyc.len
  BY <1>0, <1>3 DEF Cycles
<1> QED
  BY <1>0, <1>1, <1>3, <1>4, <1>5, <1>6, <1>7, USBMessage

\* A command is taken, or thrown away by a device that is out of step.
LEMMA USBSend ==
  ASSUME USBInv, __send_cbw
  PROVE  USBInv'
<1>0. /\ USBTyped /\ ToggleInv /\ JobInv /\ UnitInv /\ OverInv /\ SyncInv
      /\ handle \in Handles /\ toggles \in Toggles /\ unit \in Units
      /\ cyc \in Cycles /\ told \in BOOLEAN /\ halves \in BOOLEAN /\ faults \in Nat
  BY DEF USBInv, USBTyped
<1>1. /\ cyc.at = "cbw" /\ UNCHANGED <<user, handle, ready, job, told, halves, long>>
      /\ cyc.len \in Nat /\ cyc.n \in Nat
  BY <1>0 DEF __send_cbw, Cycles
<1>2. CASE MessageFails(unit.phase # "cbw", "ENODEV")
  <2>1. unit.phase # "cbw" => ~ (faults = 0 /\ ~ long)
    BY <1>0, <1>1 DEF SyncInv, InTime
  <2>2. (unit.phase # "cbw") \in BOOLEAN
    OBVIOUS
  <2> QED
    BY <1>1, <1>2, <2>1, <2>2, USBFails
<1>3. CASE /\ unit.phase = "cbw"
           /\ toggles' = set_toggle("out", 1)
           /\ IF ~ InStep("out") THEN UNCHANGED unit
              ELSE \E e \in Ends(cyc) :
                     unit' = [unit EXCEPT !.tag = handle.tag, !.op = cyc.op,
                                !.tog = Flip(@, "out", 1), !.wrote = <<>>,
                                !.left = e[1], !.status = e[2],
                                !.phase = DataPhase(cyc)]
           /\ cyc' = [cyc EXCEPT !.at = IF cyc.len > 0 THEN "data" ELSE "csw"]
           /\ UNCHANGED faults
  <2>1. toggles' \in Toggles /\ toggles' = Flip(toggles, "out", 1)
    BY <1>0, <1>3, USBFlip DEF set_toggle, Pipes
  <2>2. /\ cyc' \in Cycles /\ cyc'.at = (IF cyc.len > 0 THEN "data" ELSE "csw")
        /\ cyc'.op = cyc.op /\ cyc'.n = cyc.n /\ cyc'.len = cyc.len /\ cyc'.ret = cyc.ret
    <3>1. PICK at \in {"data", "csw"} : /\ at = (IF cyc.len > 0 THEN "data" ELSE "csw")
                                        /\ cyc' = [cyc EXCEPT !.at = at]
      BY <1>3
    <3> QED
      BY <1>0, <3>1 DEF Cycles, Moments
  <2>6. cyc'.at # "idle" /\ cyc'.len <= cyc.len
    BY <1>1, <2>2
  <2>3. OverInv'
    BY <2>2 DEF OverInv, Resetting
  <2>4. CASE ~ InStep("out")
    <3>1. unit' = unit /\ unit.phase = "cbw"
      BY <1>3, <2>4
    <3>2. halves
      BY <1>0, <2>4 DEF ToggleInv, InStep
    <3>3. ToggleInv' /\ UnitInv'
      BY <1>1, <2>2, <3>1, <3>2 DEF ToggleInv, UnitInv
    <3>4. ~ (faults = 0 /\ ~ long)
      BY <1>0, <3>2 DEF SyncInv, InTime
    <3> QED
      BY <1>0, <1>1, <1>3, <2>1, <2>2, <2>3, <2>6, <3>1, <3>3, <3>4, USBMessage
  <2>5. CASE InStep("out")
    <3>1. PICK e \in Ends(cyc) :
            unit' = [unit EXCEPT !.tag = handle.tag, !.op = cyc.op,
                                !.tog = Flip(@, "out", 1), !.wrote = <<>>,
                                !.left = e[1], !.status = e[2],
                                !.phase = DataPhase(cyc)]
      BY <1>3, <2>5
    <3>2. /\ e[1] \in Nat /\ e[1] <= cyc.len /\ e[2] \in {0, 1, 2}
          /\ e[2] = 0 => cyc.len = cyc.n /\ e[1] = cyc.len
          /\ cyc.op = "write" /\ cyc.len = cyc.n => e[1] = cyc.len
          /\ e[2] = 0 /\ cyc.op = "test" /\ cyc.n = 0 => ready[job.lun] = "ready"
      <4>1. cyc.len # cyc.n => e = <<0, 2>>
        BY DEF Ends
      <4>2. cyc.len = cyc.n /\ cyc.op = "test" => e = <<0, IF ready[job.lun] = "ready" THEN 0 ELSE 1>>
        <5>1. CASE ready[job.lun] = "ready"
          BY <5>1 DEF Ends
        <5>2. CASE ready[job.lun] # "ready"
          BY <5>2 DEF Ends
        <5> QED
          BY <5>1, <5>2
      <4>3. cyc.len = cyc.n /\ cyc.op = "read" =>
              e = <<cyc.len, 0>> \/ (\E k \in 0 .. cyc.len : e = <<k, 1>>)
        BY <1>1 DEF Ends
      <4>4. cyc.len = cyc.n /\ cyc.op = "write" => e = <<cyc.len, 0>> \/ e = <<cyc.len, 1>>
        BY DEF Ends
      <4>5. cyc.len = cyc.n /\ cyc.op \notin {"test", "read", "write"} => e = <<cyc.len, 0>>
        BY DEF Ends
      <4>6. cyc.op = "test" => cyc.n = 0
        <5>1. job.op \in {"none", "init", "read", "write"}
          BY <1>0 DEF USBTyped, Jobs
        <5> QED
          BY <1>0, <1>1, <5>1 DEF JobInv
      <4>7. CASE cyc.len # cyc.n
        BY <1>1, <4>1, <4>7
      <4>8. CASE cyc.len = cyc.n /\ cyc.op = "test"
        <5>1. PICK s \in {0, 1} : e = <<0, s>> /\ (s = 0 => ready[job.lun] = "ready")
          BY <4>2, <4>8
        <5> QED
          BY <1>1, <4>6, <4>8, <5>1
      <4>9. CASE cyc.len = cyc.n /\ cyc.op = "read"
        BY <1>1, <4>3, <4>9
      <4>10. CASE cyc.len = cyc.n /\ cyc.op = "write"
        BY <1>1, <4>4, <4>10
      <4>11. CASE cyc.len = cyc.n /\ cyc.op \notin {"test", "read", "write"}
        BY <1>1, <4>5, <4>11
      <4> QED
        BY <4>7, <4>8, <4>9, <4>10, <4>11
    <3>3. Flip(unit.tog, "out", 1) \in Toggles
      BY <1>0, USBFlip DEF Units, Pipes
    <3>4. DataPhase(cyc) \in {"csw", "data_in", "data_out"}
      BY DEF DataPhase
    <3>5. /\ unit' \in Units /\ unit'.tag = handle.tag /\ unit'.tog = Flip(unit.tog, "out", 1)
          /\ unit'.left = e[1] /\ unit'.status = e[2] /\ unit'.phase = DataPhase(cyc)
          /\ unit'.wrote = <<>>
      <4>1. handle.tag \in {0, 1} /\ cyc.op \in Orders /\ <<>> \in Seq(Nat)
        BY <1>0 DEF Handles, Cycles
      <4> HIDE DEF DataPhase
      <4> QED
        BY <1>0, <3>1, <3>2, <3>3, <3>4, <4>1 DEF Units
    <3>6. ToggleInv'
      BY <1>0, <1>1, <2>1, <3>5 DEF ToggleInv
    <3>7. UnitInv'
      <4>1. CASE cyc.len > 0
        <5>1. cyc'.at = "data" /\ unit'.phase \in {"data_in", "data_out"}
          BY <2>2, <3>5, <4>1 DEF DataPhase
        <5> QED
          BY <1>1, <2>2, <3>2, <3>5, <4>1, <5>1 DEF UnitInv
      <4>2. CASE cyc.len = 0
        <5>1. cyc'.at = "csw"
          BY <2>2, <4>2
        <5>2. unit'.status = 0 => cyc.n = 0
          BY <3>2, <3>5, <4>2
        <5>3. cyc.n = 0 => cyc.op \notin {"read", "write"}
          <6>1. /\ job.op \in {"none", "init", "read", "write"}
                /\ job.step \in {"none", "open", "test", "sense", "inquiry", "capacity"}
            BY <1>0 DEF USBTyped, Jobs
          <6> QED
            BY <1>0, <1>1, <6>1 DEF JobInv
        <5> QED
          BY <1>1, <2>2, <3>2, <3>5, <5>1, <5>2, <5>3 DEF UnitInv, Moved
      <4> QED
        BY <1>1, <4>1, <4>2
    <3>8. faults = 0 /\ ~ long => InTime'
      <4>1. SUFFICES ASSUME InTime PROVE InTime'
        BY <1>0 DEF SyncInv
      <4>2. CASE cyc.len > 0
        <5>1. /\ cyc'.at = "data"
              /\ unit'.phase = IF cyc.op = "write" THEN "data_out" ELSE "data_in"
          BY <1>1, <2>2, <3>5, <4>2 DEF DataPhase
        <5> QED
          BY <1>1, <2>2, <3>2, <3>5, <4>1, <5>1 DEF InTime
      <4>3. CASE cyc.len = 0
        <5>1. cyc'.at = "csw" /\ unit'.phase = "csw"
          BY <2>2, <3>5, <4>3 DEF DataPhase
        <5> QED
          BY <1>1, <3>5, <4>1, <5>1 DEF InTime
      <4> QED
        BY <1>1, <4>2, <4>3
    <3> QED
      BY <1>0, <1>1, <1>3, <2>1, <2>2, <2>3, <3>5, <3>6, <3>7, <3>8, <2>6, USBMessage
  <2> QED
    BY <2>4, <2>5
<1> QED
  BY <1>2, <1>3 DEF __send_cbw

LEMMA USBDataOut ==
  ASSUME USBInv, DataOut(wLength(cyc.len))
  PROVE  USBInv'
<1> DEFINE w == wLength(cyc.len)
           k == IF w = 0 THEN 1 ELSE w
<1>0. /\ USBTyped /\ ToggleInv /\ JobInv /\ UnitInv /\ OverInv /\ SyncInv
      /\ handle \in Handles /\ toggles \in Toggles /\ unit \in Units
      /\ cyc \in Cycles /\ told \in BOOLEAN /\ halves \in BOOLEAN /\ faults \in Nat
  BY DEF USBInv, USBTyped
<1>1. /\ cyc.at = "data" /\ cyc.op = "write"
      /\ UNCHANGED <<user, handle, ready, job, told, halves, long>>
  BY DEF DataOut
<1>2. cyc.len \in Nat /\ cyc.n \in Nat /\ cyc.len <= cyc.n /\ unit.left \in Nat
  BY <1>0 DEF Cycles, JobInv, Units
<1>3. w \in Nat /\ k \in Nat /\ (~ long => w = cyc.len)
  BY <1>0, <1>2, USBStorageAssumption DEF wLength, JobInv
<1>4. CASE MessageFails(unit.phase # "data_out", "EDATARESIDUE")
  <2>1. unit.phase # "data_out" => ~ (faults = 0 /\ ~ long)
    BY <1>0, <1>1 DEF SyncInv, InTime
  <2>2. (unit.phase # "data_out") \in BOOLEAN
    OBVIOUS
  <2> QED
    BY <1>1, <1>4, <2>1, <2>2, USBFails
<1>5. CASE /\ unit.phase = "data_out"
           /\ unit' = [unit EXCEPT !.tog = Flip(@, "out", k), !.wrote = Run(w),
                         !.phase = IF w = unit.left THEN "csw" ELSE @]
           /\ toggles' = set_toggle("out", k)
           /\ cyc' = IF w = cyc.len THEN [cyc EXCEPT !.at = "csw", !.len = 0]
                     ELSE Failed(cyc, "EDATARESIDUE")
           /\ UNCHANGED faults
  <2> HIDE DEF w, k
  <2>1. toggles' \in Toggles /\ toggles' = Flip(toggles, "out", k)
    BY <1>0, <1>3, <1>5, USBFlip DEF set_toggle, Pipes
  <2>2. Run(w) \in Seq(Nat) /\ Flip(unit.tog, "out", k) \in Toggles
    BY <1>0, <1>3, USBRuns, USBFlip DEF Units, Pipes
  <2>3. /\ unit' \in Units /\ unit'.tog = Flip(unit.tog, "out", k) /\ unit'.wrote = Run(w)
        /\ unit'.left = unit.left /\ unit'.status = unit.status /\ unit'.tag = unit.tag
        /\ unit'.phase = (IF w = unit.left THEN "csw" ELSE "data_out")
    <3>1. PICK ph \in {"csw", "data_out"} :
            /\ ph = (IF w = unit.left THEN "csw" ELSE "data_out")
            /\ unit' = [unit EXCEPT !.tog = Flip(@, "out", k), !.wrote = Run(w), !.phase = ph]
      BY <1>5
    <3> QED
      BY <1>0, <2>2, <3>1 DEF Units
  <2>4. ToggleInv'
    BY <1>0, <1>1, <2>1, <2>3 DEF ToggleInv
  <2>5. CASE w = cyc.len
    <3>1. /\ cyc' \in Cycles /\ cyc'.at = "csw" /\ cyc'.len = 0
          /\ cyc'.op = cyc.op /\ cyc'.n = cyc.n
      <4>1. cyc' = [cyc EXCEPT !.at = "csw", !.len = 0]
        BY <1>5, <2>5
      <4> QED
        BY <1>0, <4>1 DEF Cycles, Moments
    <3>2. OverInv'
      BY <3>1 DEF OverInv, Resetting
    <3>3. UnitInv'
      <4>1. unit.status = 0 => unit.left = cyc.n /\ cyc.len = cyc.n
        BY <1>0, <1>1, <1>5 DEF UnitInv
      <4>2. unit'.status = 0 => unit'.wrote = Run(cyc'.n)
        BY <2>3, <2>5, <3>1, <4>1
      <4> QED
        BY <1>1, <3>1, <4>2 DEF UnitInv, Moved
    <3>4. faults = 0 /\ ~ long => InTime'
      <4>1. SUFFICES ASSUME InTime PROVE InTime'
        BY <1>0 DEF SyncInv
      <4> QED
        BY <1>1, <2>3, <2>5, <3>1, <1>0, <4>1 DEF InTime, SyncInv
    <3>5. cyc'.len <= cyc.len
      BY <1>2, <3>1
    <3> QED
      BY <1>0, <1>1, <1>5, <2>1, <2>3, <2>4, <3>1, <3>2, <3>3, <3>4, <3>5, USBMessage
  <2>6. CASE w # cyc.len
    <3>1. /\ cyc' \in Cycles /\ cyc'.at = "reset" /\ cyc'.len = cyc.len /\ cyc'.ret # "OK"
          /\ cyc'.op = cyc.op /\ cyc'.n = cyc.n
      <4>1. cyc' = [cyc EXCEPT !.ret = "EDATARESIDUE", !.at = "reset"]
        BY <1>5, <2>6 DEF Failed
      <4> QED
        BY <1>0, <4>1 DEF Cycles, Moments, Resetting, Returns
    <3>2. OverInv' /\ UnitInv'
      BY <3>1 DEF OverInv, UnitInv
    <3>3. long
      BY <1>3, <2>6
    <3>4. cyc'.len <= cyc.len
      BY <1>2, <3>1
    <3> QED
      BY <1>0, <1>1, <1>5, <2>1, <2>3, <2>4, <3>1, <3>2, <3>3, <3>4, USBMessage
  <2> QED
    BY <2>5, <2>6
<1> QED
  BY <1>4, <1>5 DEF DataOut

LEMMA USBDataIn ==
  ASSUME USBInv, DataIn(wLength(cyc.len))
  PROVE  USBInv'
<1> DEFINE w == wLength(cyc.len)
           k == IF unit.left < w THEN unit.left ELSE w
           packets == IF k < w THEN k + 1 ELSE k
<1>0. /\ USBTyped /\ ToggleInv /\ JobInv /\ UnitInv /\ OverInv /\ SyncInv
      /\ handle \in Handles /\ toggles \in Toggles /\ unit \in Units
      /\ cyc \in Cycles /\ told \in BOOLEAN /\ halves \in BOOLEAN /\ faults \in Nat
  BY DEF USBInv, USBTyped
<1>1. /\ cyc.at = "data" /\ cyc.op # "write"
      /\ UNCHANGED <<user, handle, ready, job, halves, long>>
  BY DEF DataIn
<1>2. /\ cyc.len \in Nat /\ cyc.n \in Nat /\ cyc.len <= cyc.n /\ unit.left \in Nat
      /\ cyc.len > 0
  BY <1>0, <1>1 DEF Cycles, JobInv, Units, UnitInv
<1>3. w \in Nat /\ w <= cyc.len /\ (~ long => w = cyc.len)
  BY <1>0, <1>2, USBStorageAssumption DEF wLength, JobInv
<1>4. k \in Nat /\ k <= w /\ k <= unit.left /\ packets \in Nat /\ cyc.len - k \in Nat
  BY <1>2, <1>3
<1>5. CASE MessageFails(unit.phase # "data_in" \/ w = 0, "ENODEV") /\ UNCHANGED told
  <2>1. unit.phase # "data_in" \/ w = 0 => ~ (faults = 0 /\ ~ long)
    BY <1>0, <1>1, <1>2, <1>3 DEF SyncInv, InTime
  <2>2. (unit.phase # "data_in" \/ w = 0) \in BOOLEAN
    OBVIOUS
  <2> QED
    BY <1>1, <1>5, <2>1, <2>2, USBFails
<1>6. CASE /\ unit.phase = "data_in" /\ w > 0 /\ InStep("in")
           /\ unit' = [unit EXCEPT !.tog = Flip(@, "in", packets),
                             !.phase = IF w < unit.left THEN @ ELSE "csw"]
           /\ toggles' = set_toggle("in", packets)
           /\ cyc' = [cyc EXCEPT !.at = "csw", !.have = Run(k), !.len = @ - k]
           /\ told' = (told \/ (k < w))
           /\ UNCHANGED faults
  <2> HIDE DEF w, k, packets
  <2>1. toggles' \in Toggles /\ toggles' = Flip(toggles, "in", packets)
    BY <1>0, <1>4, <1>6, USBFlip DEF set_toggle, Pipes
  <2>2. Run(k) \in Seq(Nat) /\ Flip(unit.tog, "in", packets) \in Toggles
    BY <1>0, <1>4, USBRuns, USBFlip DEF Units, Pipes
  <2>3. /\ unit' \in Units /\ unit'.tog = Flip(unit.tog, "in", packets)
        /\ unit'.left = unit.left /\ unit'.status = unit.status /\ unit'.tag = unit.tag
        /\ unit'.phase = (IF w < unit.left THEN "data_in" ELSE "csw")
    <3>1. PICK ph \in {"csw", "data_in"} :
            /\ ph = (IF w < unit.left THEN "data_in" ELSE "csw")
            /\ unit' = [unit EXCEPT !.tog = Flip(@, "in", packets), !.phase = ph]
      BY <1>6
    <3> QED
      BY <1>0, <2>2, <3>1 DEF Units
  <2>4. ToggleInv'
    BY <1>0, <1>1, <2>1, <2>3 DEF ToggleInv
  <2>5. /\ cyc' \in Cycles /\ cyc'.at = "csw" /\ cyc'.have = Run(k) /\ cyc'.len = cyc.len - k
        /\ cyc'.op = cyc.op /\ cyc'.n = cyc.n
    BY <1>0, <1>4, <1>6, <2>2 DEF Cycles, Moments
  <2>6. told' \in BOOLEAN /\ (told => told') /\ (k < w => told')
    BY <1>6
  <2>7. OverInv'
    BY <2>5 DEF OverInv, Resetting
  <2>8. UnitInv'
    <3>1. /\ unit.left <= cyc.len
          /\ unit.status = 0 => unit.left = cyc.n /\ cyc.len = cyc.n
      BY <1>0, <1>1, <1>6 DEF UnitInv
    <3>2. unit'.phase = "csw" => unit.left <= w
      BY <1>2, <1>3, <2>3
    <3>3. unit'.phase = "csw" /\ unit.status = 0 => k = cyc.n
      BY <1>2, <1>3, <3>1, <3>2 DEF k
    <3>4. cyc.op = "test" => FALSE
      <4>1. job.op \in {"none", "init", "read", "write"}
        BY <1>0 DEF USBTyped, Jobs
      <4> QED
        BY <1>0, <1>1, <1>2, <4>1 DEF JobInv
    <3> QED
      BY <1>1, <2>3, <2>5, <3>3, <3>4 DEF UnitInv, Moved
  <2>9. faults = 0 /\ ~ long => InTime'
    <3> SUFFICES ASSUME faults = 0 /\ ~ long PROVE InTime'
      OBVIOUS
    <3>1. InTime /\ w = cyc.len /\ unit.left <= cyc.len
      BY <1>0, <1>1, <1>3, <1>6 DEF SyncInv, UnitInv
    <3>2. unit'.phase = "csw"
      BY <1>2, <2>3, <3>1
    <3>3. unit.tag = handle.tag
      BY <1>0, <1>1, <1>6, <3>1 DEF InTime
    <3> QED
      BY <1>1, <2>3, <2>5, <3>1, <3>2, <3>3 DEF InTime
  <2>10. cyc'.len <= cyc.len
    BY <1>2, <1>4, <2>5
  <2> QED
    BY <1>0, <1>1, <1>6, <2>1, <2>3, <2>4, <2>5, <2>6, <2>7, <2>8, <2>9, <2>10, USBMessage
<1>7. CASE /\ unit.phase = "data_in" /\ w > 0 /\ ~ InStep("in")
           /\ unit' = [unit EXCEPT !.tog = Flip(@, "in", unit.left + 1), !.phase = "cbw"]
           /\ toggles' = set_toggle("in", unit.left)
           /\ cyc' = [cyc EXCEPT !.at = "csw", !.have = Tail(Run(unit.left + 1))]
           /\ UNCHANGED <<faults, told>>
  <2>1. toggles' \in Toggles
    BY <1>0, <1>2, <1>7, USBFlip DEF set_toggle, Pipes
  <2>2. Tail(Run(unit.left + 1)) \in Seq(Nat) /\ Flip(unit.tog, "in", unit.left + 1) \in Toggles
    <3>1. unit.left + 1 \in Nat /\ unit.tog \in Toggles /\ "in" \in Pipes
      BY <1>0, <1>2 DEF Units, Pipes
    <3>2. Tail(Run(unit.left + 1)) \in Seq(Nat)
      BY <1>2, USBRuns
    <3> QED
      BY <3>1, <3>2, USBFlip
  <2>3. unit' \in Units /\ unit'.phase = "cbw"
    BY <1>0, <1>7, <2>2 DEF Units
  <2>4. halves
    BY <1>0, <1>7 DEF ToggleInv, InStep
  <2>5. /\ cyc' \in Cycles /\ cyc'.at = "csw" /\ cyc'.len = cyc.len
        /\ cyc'.op = cyc.op /\ cyc'.n = cyc.n
    BY <1>0, <1>7, <2>2 DEF Cycles, Moments
  <2>6. OverInv' /\ UnitInv' /\ ToggleInv'
    BY <1>1, <2>3, <2>4, <2>5 DEF OverInv, UnitInv, ToggleInv, Resetting
  <2>7. ~ (faults = 0 /\ ~ long)
    BY <1>0, <2>4 DEF SyncInv, InTime
  <2>8. cyc'.len <= cyc.len
    BY <1>2, <2>5
  <2> QED
    BY <1>0, <1>1, <1>7, <2>1, <2>3, <2>5, <2>6, <2>7, <2>8, USBMessage
<1> QED
  BY <1>5, <1>6, <1>7 DEF DataIn

LEMMA USBReadCsw ==
  ASSUME USBInv, __read_csw
  PROVE  USBInv'
<1>0. /\ USBTyped /\ ToggleInv /\ JobInv /\ UnitInv /\ OverInv /\ SyncInv
      /\ handle \in Handles /\ toggles \in Toggles /\ unit \in Units
      /\ cyc \in Cycles /\ told \in BOOLEAN /\ halves \in BOOLEAN /\ faults \in Nat
  BY DEF USBInv, USBTyped
<1>1. /\ cyc.at = "csw" /\ UNCHANGED <<user, ready, job, halves, long>> /\ cyc.len \in Nat
  BY <1>0 DEF __read_csw, Cycles
<1>2. CASE MessageFails(unit.phase # "csw", "ENODEV") /\ UNCHANGED <<handle, told>>
  <2>1. unit.phase # "csw" => ~ (faults = 0 /\ ~ long)
    BY <1>0, <1>1 DEF SyncInv, InTime
  <2>2. (unit.phase # "csw") \in BOOLEAN
    OBVIOUS
  <2> QED
    BY <1>1, <1>2, <2>1, <2>2, USBFails
<1>3. ASSUME unit.phase = "csw", unit' = [unit EXCEPT !.tog = Flip(@, "in", 1), !.phase = "cbw"]
      PROVE  /\ unit' \in Units /\ unit'.phase = "cbw" /\ unit'.tog = Flip(unit.tog, "in", 1)
             /\ unit'.wrote = unit.wrote
  <2>1. Flip(unit.tog, "in", 1) \in Toggles
    BY <1>0, USBFlip DEF Units, Pipes
  <2> QED
    BY <1>0, <1>3, <2>1 DEF Units
<1>4. CASE /\ unit.phase = "csw" /\ ~ InStep("in")
           /\ unit' = [unit EXCEPT !.tog = Flip(@, "in", 1), !.phase = "cbw"]
           /\ cyc' = Failed(cyc, "ETIMEDOUT")
           /\ UNCHANGED <<toggles, handle, told, faults>>
  <2>1. halves
    BY <1>0, <1>4 DEF ToggleInv, InStep
  <2>2. /\ cyc' \in Cycles /\ cyc'.at = "over" /\ cyc'.ret # "OK"
        /\ cyc'.op = cyc.op /\ cyc'.n = cyc.n /\ cyc'.len = cyc.len
    <3>1. cyc' = [cyc EXCEPT !.ret = "ETIMEDOUT", !.at = "over"]
      BY <1>1, <1>4 DEF Failed
    <3> QED
      BY <1>0, <3>1 DEF Cycles, Moments, Returns
  <2>3. ToggleInv' /\ UnitInv' /\ OverInv'
    BY <1>1, <2>1, <2>2 DEF ToggleInv, UnitInv, OverInv, Resetting
  <2>4. ~ (faults = 0 /\ ~ long) /\ cyc'.len <= cyc.len
    BY <1>0, <1>1, <2>1, <2>2 DEF SyncInv, InTime
  <2> QED
    BY <1>0, <1>1, <1>3, <1>4, <2>2, <2>3, <2>4, USBMessage
<1>5. CASE /\ unit.phase = "csw" /\ InStep("in")
           /\ unit' = [unit EXCEPT !.tog = Flip(@, "in", 1), !.phase = "cbw"]
           /\ toggles' = set_toggle("in", 1)
           /\ \/ /\ unit.tag = handle.tag
                 /\ cyc' = [cyc EXCEPT !.at = "over", !.ret = "OK", !.status = unit.status]
                 /\ handle' = [handle EXCEPT !.tag = (@ + 1) % 2]
                 /\ told' = (told \/ unit.status # 0)
                 /\ UNCHANGED faults
              \/ /\ Fault
                 /\ \/ cyc' = Failed(cyc, "ESHORTREAD")
                    \/ cyc' = [Failed(cyc, "ETAG") EXCEPT !.status = unit.status]
                    \/ cyc' = [cyc EXCEPT !.at = "hung"]
                 /\ UNCHANGED <<handle, told>>
  <2>1. toggles' \in Toggles /\ toggles' = Flip(toggles, "in", 1)
    BY <1>0, <1>5, USBFlip DEF set_toggle, Pipes
  <2>2. unit' \in Units /\ unit'.phase = "cbw" /\ unit'.tog = Flip(unit.tog, "in", 1)
        /\ unit'.wrote = unit.wrote
    BY <1>3, <1>5
  <2>3. ToggleInv' /\ unit.status \in {0, 1, 2}
    BY <1>0, <1>1, <2>1, <2>2 DEF ToggleInv, Units
  <2>4. CASE /\ unit.tag = handle.tag
             /\ cyc' = [cyc EXCEPT !.at = "over", !.ret = "OK", !.status = unit.status]
             /\ handle' = [handle EXCEPT !.tag = (@ + 1) % 2]
             /\ told' = (told \/ unit.status # 0)
             /\ UNCHANGED faults
    <3>1. /\ cyc' \in Cycles /\ cyc'.at = "over" /\ cyc'.ret = "OK" /\ cyc'.status = unit.status
          /\ cyc'.op = cyc.op /\ cyc'.n = cyc.n /\ cyc'.len = cyc.len /\ cyc'.have = cyc.have
      BY <1>0, <2>3, <2>4 DEF Cycles, Moments, Returns
    <3>2. /\ handle' \in Handles /\ (handle'.mounted <=> handle.mounted)
          /\ handle'.lun = handle.lun /\ handle'.max_lun = handle.max_lun
      <4>1. handle.tag \in {0, 1} /\ (handle.tag + 1) % 2 \in {0, 1}
        BY <1>0 DEF Handles
      <4> QED
        BY <1>0, <2>4, <4>1 DEF Handles
    <3>3. told' \in BOOLEAN /\ (told => told') /\ (~ told' => ~ told /\ unit.status = 0)
      BY <2>4
    <3>4. UnitInv' /\ OverInv'
      <4>1. unit.status = 0 =>
              /\ ~ told => Moved
              /\ cyc.op = "test" => ready[job.lun] = "ready"
        BY <1>0, <1>1, <1>5 DEF UnitInv
      <4> QED
        BY <1>1, <2>2, <3>1, <3>3, <4>1 DEF UnitInv, OverInv, Moved, Resetting
    <3>5. faults = 0 /\ ~ long => InTime'
      BY <1>0, <1>1, <2>2, <3>1 DEF SyncInv, InTime
    <3>6. cyc'.len <= cyc.len
      BY <1>1, <3>1
    <3> QED
      BY <1>0, <1>1, <2>1, <2>2, <2>3, <2>4, <3>1, <3>2, <3>3, <3>4, <3>5, <3>6, USBMessage
  <2>5. CASE /\ Fault
             /\ \/ cyc' = Failed(cyc, "ESHORTREAD")
                \/ cyc' = [Failed(cyc, "ETAG") EXCEPT !.status = unit.status]
                \/ cyc' = [cyc EXCEPT !.at = "hung"]
             /\ UNCHANGED <<handle, told>>
    <3>1. /\ cyc' \in Cycles
          /\ cyc'.at = "hung" \/ (cyc'.at = "reset" /\ cyc'.ret # "OK")
          /\ cyc'.op = cyc.op /\ cyc'.n = cyc.n /\ cyc'.len = cyc.len
      <4>1. CASE cyc' = [cyc EXCEPT !.at = "hung"]
        BY <1>0, <4>1 DEF Cycles, Moments
      <4>2. CASE cyc' = Failed(cyc, "ESHORTREAD")
        <5>1. cyc' = [cyc EXCEPT !.ret = "ESHORTREAD", !.at = "reset"]
          BY <4>2 DEF Failed
        <5> QED
          BY <1>0, <5>1 DEF Cycles, Moments, Returns, Resetting
      <4>3. CASE cyc' = [Failed(cyc, "ETAG") EXCEPT !.status = unit.status]
        <5>1. Failed(cyc, "ETAG") = [cyc EXCEPT !.ret = "ETAG", !.at = "reset"]
          BY DEF Failed
        <5>2. /\ Failed(cyc, "ETAG") \in Cycles /\ Failed(cyc, "ETAG").at = "reset"
              /\ Failed(cyc, "ETAG").ret = "ETAG" /\ Failed(cyc, "ETAG").op = cyc.op
              /\ Failed(cyc, "ETAG").n = cyc.n /\ Failed(cyc, "ETAG").len = cyc.len
          BY <1>0, <5>1 DEF Cycles, Moments, Returns, Resetting
        <5> QED
          BY <2>3, <4>3, <5>2 DEF Cycles
      <4> QED
        BY <2>5, <4>1, <4>2, <4>3
    <3>2. UnitInv' /\ OverInv'
      BY <3>1 DEF UnitInv, OverInv, Resetting
    <3>3. faults' = faults + 1 /\ faults' # faults
      BY <1>0, <2>5 DEF Fault
    <3>4. cyc'.len <= cyc.len /\ cyc'.at # "idle"
      BY <1>1, <3>1
    <3> QED
      BY <1>0, <1>1, <2>1, <2>2, <2>3, <2>5, <3>1, <3>2, <3>3, <3>4, USBMessage
  <2> QED
    BY <1>5, <2>4, <2>5
<1> QED
  BY <1>2, <1>4, <1>5 DEF __read_csw

LEMMA USBAgain ==
  ASSUME NEW c \in Cycles
  PROVE  /\ Again(c) \in Cycles
         /\ Again(c).at = "cbw" \/ (Again(c).at \in {"reset", "over"} /\ Again(c).ret = c.ret)
         /\ Again(c).op = c.op /\ Again(c).n = c.n /\ Again(c).len = c.len
<1>0. c.tries \in Int
  BY DEF Cycles
<1>1. CASE c.ret # "ETIMEDOUT" /\ c.tries > 0
  <2>1. Again(c) = [c EXCEPT !.at = "cbw", !.tries = c.tries - 1] /\ c.tries - 1 \in Int
    BY <1>0, <1>1 DEF Again
  <2> QED
    BY <2>1 DEF Cycles, Moments
<1>2. CASE c.ret # "ETIMEDOUT" /\ c.tries = 0
  <2>1. Again(c) = [c EXCEPT !.at = "reset", !.tries = c.tries - 1] /\ c.tries - 1 \in Int
    BY <1>0, <1>2 DEF Again
  <2> QED
    BY <2>1 DEF Cycles, Moments, Resetting
<1>3. CASE c.ret = "ETIMEDOUT" \/ (~ (c.tries > 0) /\ c.tries # 0)
  <2>1. Again(c) = [c EXCEPT !.at = "over"]
    BY <1>0, <1>3 DEF Again
  <2> QED
    BY <2>1 DEF Cycles, Moments
<1> QED
  BY <1>1, <1>2, <1>3

LEMMA USBReset ==
  ASSUME USBInv, __usbstorage_reset
  PROVE  USBInv'
<1>0. /\ USBTyped /\ ToggleInv /\ JobInv /\ UnitInv /\ OverInv /\ SyncInv
      /\ handle \in Handles /\ toggles \in Toggles /\ unit \in Units
      /\ cyc \in Cycles /\ told \in BOOLEAN /\ halves \in BOOLEAN /\ faults \in Nat
  BY DEF USBInv, USBTyped
<1>1. /\ cyc.at \in Resetting /\ UNCHANGED <<user, handle, toggles, ready, job, told, long>>
      /\ cyc.len \in Nat /\ cyc.ret # "OK"
  BY <1>0 DEF __usbstorage_reset, Cycles, Resetting, OverInv
<1>2. ~ (faults = 0 /\ ~ long) /\ cyc.at # "idle"
  BY <1>0, <1>1 DEF SyncInv, InTime, Resetting
<1>3. ASSUME unit' \in Units, halves' \in BOOLEAN, ToggleInv', faults' \in {faults, faults + 1},
             cyc' \in Cycles, cyc'.at \in Resetting \cup {"cbw", "over"},
             cyc'.at # "cbw" => cyc'.ret # "OK",
             cyc'.op = cyc.op, cyc'.n = cyc.n, cyc'.len = cyc.len
      PROVE  USBInv'
  <2>1. UnitInv' /\ OverInv'
    BY <1>3 DEF UnitInv, OverInv, Resetting
  <2>2. cyc'.at # "idle" /\ cyc'.len <= cyc.len
    BY <1>1, <1>3 DEF Resetting
  <2> QED
    BY <1>0, <1>1, <1>2, <1>3, <2>1, <2>2, USBMessage
<1>4. CASE ResetFails /\ UNCHANGED halves
  <2>1. /\ unit' = unit /\ faults' = faults + 1
        /\ cyc' = [cyc EXCEPT !.at = "over", !.ret = "ETIMEDOUT"] \/ cyc' = Again(cyc)
    BY <1>4 DEF ResetFails, Fault
  <2>2. ToggleInv'
    BY <1>0, <1>1, <1>4, <2>1 DEF ToggleInv
  <2>3. /\ cyc' \in Cycles /\ cyc'.at \in Resetting \cup {"cbw", "over"}
        /\ cyc'.at # "cbw" => cyc'.ret # "OK"
        /\ cyc'.op = cyc.op /\ cyc'.n = cyc.n /\ cyc'.len = cyc.len
    <3>1. CASE cyc' = Again(cyc)
      BY <1>0, <1>1, <3>1, USBAgain DEF Resetting
    <3>2. CASE cyc' = [cyc EXCEPT !.at = "over", !.ret = "ETIMEDOUT"]
      BY <1>0, <3>2 DEF Cycles, Moments, Returns
    <3> QED
      BY <2>1, <3>1, <3>2
  <2> QED
    BY <1>0, <1>3, <1>4, <2>1, <2>2, <2>3
<1>5. CASE /\ cyc.at = "reset" /\ unit' = [unit EXCEPT !.phase = "cbw"]
           /\ cyc' = [cyc EXCEPT !.at = "halt_in"] /\ UNCHANGED <<faults, halves>>
  <2>1. unit' \in Units /\ unit'.tog = unit.tog
    BY <1>0, <1>5 DEF Units
  <2>2. ToggleInv'
    BY <1>0, <1>1, <1>5, <2>1 DEF ToggleInv
  <2>3. /\ cyc' \in Cycles /\ cyc'.at = "halt_in" /\ cyc'.ret = cyc.ret
        /\ cyc'.op = cyc.op /\ cyc'.n = cyc.n /\ cyc'.len = cyc.len
    BY <1>0, <1>5 DEF Cycles, Moments, Resetting
  <2> QED
    BY <1>0, <1>1, <1>3, <1>5, <2>1, <2>2, <2>3 DEF Resetting
<1>6. ASSUME NEW p \in Pipes, unit' = HaltCleared(p), halves' = (halves \/ toggles[p] = 1)
      PROVE  unit' \in Units /\ ToggleInv' /\ halves' \in BOOLEAN
  <2>1. unit.tog \in Toggles /\ toggles[p] \in {0, 1}
    BY <1>0 DEF Units, Toggles
  <2>2. [unit.tog EXCEPT ![p] = 0] \in Toggles
    BY <2>1 DEF Toggles
  <2>3. unit' = [unit EXCEPT !.tog = [unit.tog EXCEPT ![p] = 0]]
    BY <1>6 DEF HaltCleared
  <2>4. unit' \in Units /\ unit'.tog = [unit.tog EXCEPT ![p] = 0]
    BY <1>0, <2>2, <2>3 DEF Units
  <2>5. ~ halves' => ~ halves /\ toggles[p] = 0
    BY <1>6, <2>1
  <2>6. toggles[p] = 0 => [toggles EXCEPT ![p] = 0] = toggles
    BY <1>0 DEF Toggles
  <2>7. ToggleInv'
    BY <1>0, <1>1, <2>4, <2>5, <2>6 DEF ToggleInv
  <2>8. halves' \in BOOLEAN
    BY <1>6
  <2> QED
    BY <2>4, <2>7, <2>8
<1>7. CASE /\ cyc.at = "halt_in" /\ unit' = HaltCleared("in")
           /\ cyc' = [cyc EXCEPT !.at = "halt_out"]
           /\ halves' = (halves \/ toggles["in"] = 1) /\ UNCHANGED faults
  <2>1. unit' \in Units /\ ToggleInv' /\ halves' \in BOOLEAN
    BY <1>6, <1>7 DEF Pipes
  <2>2. /\ cyc' \in Cycles /\ cyc'.at = "halt_out" /\ cyc'.ret = cyc.ret
        /\ cyc'.op = cyc.op /\ cyc'.n = cyc.n /\ cyc'.len = cyc.len
    BY <1>0, <1>7 DEF Cycles, Moments, Resetting
  <2> QED
    BY <1>0, <1>1, <1>3, <1>7, <2>1, <2>2 DEF Resetting
<1>8. CASE /\ cyc.at = "halt_out" /\ unit' = HaltCleared("out")
           /\ cyc' = Again(cyc)
           /\ halves' = (halves \/ toggles["out"] = 1) /\ UNCHANGED faults
  <2>1. unit' \in Units /\ ToggleInv' /\ halves' \in BOOLEAN
    BY <1>6, <1>8 DEF Pipes
  <2> QED
    BY <1>0, <1>1, <1>3, <1>8, <2>1, USBAgain DEF Resetting
<1> QED
  BY <1>4, <1>5, <1>7, <1>8 DEF __usbstorage_reset

LEMMA USBCycle ==
  ASSUME NEW op \in Orders, NEW n \in Nat
  PROVE  /\ Cycle(op, n) \in Cycles /\ Cycle(op, n).op = op /\ Cycle(op, n).n = n
         /\ Cycle(op, n).at = "cbw" /\ Cycle(op, n).len = n
<1>1. Retries \in Int /\ NoCycle \in Cycles
  BY USBStorageAssumption, USBRecords
<1> QED
  BY <1>1 DEF Cycle, Cycles, Moments

\* Without a cycle that is over, and with the device waiting for a command.
LEMMA USBFresh ==
  ASSUME USBInv, cyc' \in Cycles, cyc'.at \in {"cbw", "idle"}, cyc'.len = cyc'.n,
         cyc.at \in {"over", "idle"}, long => long',
         UNCHANGED <<toggles, unit, halves>>, faults' = faults \/ faults' = faults + 1
  PROVE  ToggleInv' /\ UnitInv' /\ OverInv' /\ SyncInv'
<1>1. ToggleInv' /\ UnitInv' /\ OverInv'
  BY DEF USBInv, ToggleInv, UnitInv, OverInv, Resetting
<1>2. faults' = 0 => faults = 0
  BY DEF USBInv, USBTyped
<1>3. SyncInv'
  BY <1>2 DEF USBInv, SyncInv, InTime
<1> QED
  BY <1>1, <1>3

\* The first cycle, or the next one, of the search for a unit.
LEMMA USBSearches ==
  ASSUME USBInv, job.op = "init", job.step = "open" \/ cyc.at = "over",
         NEW s \in {"test", "sense", "inquiry", "capacity"}, NEW l \in Nat, NEW n \in Nat,
         s = "test" => n = 0, s # "test" => n = 1, cyc' = Cycle(s, n),
         job' \in Jobs, job'.op = "init", job'.step = s, job'.lun = l,
         job'.answer = job.answer,
         handle' \in Handles, ~ handle'.mounted,
         s \in {"inquiry", "capacity"} => ready[l] # "no_medium",
         faults' = 0 => NoMedium(l) /\ handle'.max_lun = MaxLun /\ l < MaxLun,
         faults' = faults \/ faults' = faults + 1,
         UNCHANGED <<user, toggles, unit, ready, told, halves, long>>
  PROVE  USBInv'
<1>0. /\ USBTyped /\ JobInv /\ OverInv /\ FoundInv /\ SyncInv /\ TriedInv
      /\ cyc \in Cycles /\ job \in Jobs /\ unit \in Units /\ faults \in Nat
  BY DEF USBInv, USBTyped
<1>2. s \in Orders
  BY DEF Orders
<1>3. /\ cyc' \in Cycles /\ cyc'.op = s /\ cyc'.n = n /\ cyc'.at = "cbw" /\ cyc'.len = n
  BY <1>2, USBCycle
<1>4. /\ job' \in Jobs /\ job'.op = "init" /\ job'.step = s /\ job'.lun = l
      /\ job'.answer = job.answer
  OBVIOUS
<1>5. cyc.at \in {"over", "idle"} /\ ~ long /\ job.answer = "none"
  BY <1>0 DEF JobInv
<1>6. ToggleInv' /\ UnitInv' /\ OverInv' /\ SyncInv'
  <2>1. cyc'.at \in {"cbw", "idle"} /\ cyc'.len = cyc'.n /\ long' = long
    BY <1>3
  <2> QED
    BY <1>3, <1>5, <2>1, USBFresh
<1>7. USBTyped'
  <2>1. faults' \in Nat
    BY <1>0
  <2>2. /\ user' \in {"fsusb", "di"} /\ toggles' \in Toggles /\ unit' \in Units
        /\ told' \in BOOLEAN /\ halves' \in BOOLEAN /\ long' \in BOOLEAN
    BY <1>0 DEF USBTyped
  <2>3. \E m \in Nat : ready' \in [0 .. m -> {"ready", "attention", "no_medium"}]
    BY <1>0, ready' = ready DEF USBTyped
  <2> QED
    BY <1>3, <1>4, <2>1, <2>2, <2>3 DEF USBTyped
<1>8. JobInv'
  <2>1. 1 < LengthWord
    BY USBStorageAssumption
  <2>2. n < LengthWord /\ (s = "test" => n = 0) /\ (s # "test" => n = 1) /\ n <= n
    BY <2>1, USBStorageAssumption
  <2> QED
    BY <1>0, <1>3, <1>4, <1>5, <2>2 DEF JobInv
<1>9. FoundInv'
  BY <1>4 DEF FoundInv
<1>10. MaxLun' = MaxLun
  BY DEF MaxLun, LastUnit
<1>11. TriedInv'
  BY <1>4, <1>10 DEF TriedInv, NoMedium
<1>12. DiskReadRight' /\ CausedError'
  BY <1>4, <1>5 DEF DiskReadRight, CausedError
<1> QED
  BY <1>6, <1>7, <1>8, <1>9, <1>11, <1>12 DEF USBInv

\* The search is over, with or without a unit.
LEMMA USBFoundOrNot ==
  ASSUME USBInv, job.op = "init", job.step = "open" \/ cyc.at = "over", InitOver,
         handle' \in Handles,
         handle'.mounted => ready[handle'.lun] # "no_medium",
         faults' = 0 /\ handle'.mounted => NoMedium(handle'.lun),
         faults' = 0 => handle'.mounted \/ NoMedium(MaxLun),
         faults' = faults \/ faults' = faults + 1,
         UNCHANGED <<user, toggles, unit, ready, told, halves, long>>
  PROVE  USBInv'
<1>0. /\ USBTyped /\ JobInv /\ OverInv /\ FoundInv /\ SyncInv /\ TriedInv
      /\ cyc \in Cycles /\ job \in Jobs /\ unit \in Units /\ faults \in Nat
  BY DEF USBInv, USBTyped
<1>1. /\ cyc' = NoCycle /\ cyc' \in Cycles /\ cyc'.at = "idle" /\ cyc'.len = 0 /\ cyc'.n = 0
      /\ cyc'.op = "none"
  BY USBRecords DEF InitOver
<1>2. /\ job' \in Jobs /\ job'.op = "none" /\ job'.step = "none"
      /\ job'.answer = "initialised"
  BY USBRecords DEF InitOver, Jobs
<1>3. cyc.at \in {"over", "idle"} /\ ~ long
  BY <1>0 DEF JobInv
<1>4. ToggleInv' /\ UnitInv' /\ OverInv' /\ SyncInv'
  BY <1>1, <1>3, USBFresh
<1>5. USBTyped'
  <2>1. faults' \in Nat
    BY <1>0
  <2>2. /\ user' \in {"fsusb", "di"} /\ toggles' \in Toggles /\ unit' \in Units
        /\ told' \in BOOLEAN /\ halves' \in BOOLEAN /\ long' \in BOOLEAN
    BY <1>0 DEF USBTyped
  <2>3. \E m \in Nat : ready' \in [0 .. m -> {"ready", "attention", "no_medium"}]
    BY <1>0, ready' = ready DEF USBTyped
  <2> QED
    BY <1>1, <1>2, <2>1, <2>2, <2>3 DEF USBTyped
<1>6. JobInv'
  <2>1. 0 < LengthWord
    BY USBStorageAssumption
  <2> QED
    BY <1>1, <1>2, <2>1 DEF JobInv
<1>7. FoundInv'
  BY <1>2 DEF FoundInv
<1>8. MaxLun' = MaxLun
  BY DEF MaxLun, LastUnit
<1>9. TriedInv'
  BY <1>2, <1>8 DEF TriedInv, NoMedium
<1>10. DiskReadRight' /\ CausedError'
  BY <1>2 DEF DiskReadRight, CausedError
<1> QED
  BY <1>4, <1>5, <1>6, <1>7, <1>9, <1>10 DEF USBInv

LEMMA USBOpen ==
  ASSUME USBInv, USBStorage_Open
  PROVE  USBInv'
<1>0. /\ USBTyped /\ JobInv /\ TriedInv
      /\ handle \in Handles /\ job \in Jobs /\ faults \in Nat
  BY DEF USBInv, USBTyped
<1>1. /\ job.step = "open" /\ job.op = "init" /\ job.lun = 0 /\ ~ handle.mounted
      /\ UNCHANGED <<user, toggles, unit, ready, told, halves, long>>
  BY <1>0 DEF USBStorage_Open, JobInv
<1>2. MaxLun \in Nat /\ 0 < MaxLun
  BY <1>0, USBMaxLun
<1>3. NoMedium(0)
  <2>1. \A l \in 0 .. 0 - 1 : FALSE
    OBVIOUS
  <2> QED
    BY <2>1 DEF NoMedium
<1>4. CASE /\ \/ handle' = [handle EXCEPT !.max_lun = MaxLun] /\ UNCHANGED faults
              \/ handle' = [handle EXCEPT !.max_lun = 1] /\ Fault
           /\ Step("test", "test", 0)
  <2>1. handle' \in Handles /\ ~ handle'.mounted
    BY <1>0, <1>1, <1>2, <1>4 DEF Handles
  <2>2. faults' = 0 => handle'.max_lun = MaxLun
    BY <1>0, <1>2, <1>4 DEF Handles, Fault
  <2>3. faults' = faults \/ faults' = faults + 1
    BY <1>4 DEF Fault
  <2>4. cyc' = Cycle("test", 0) /\ job' = [job EXCEPT !.step = "test"]
    BY <1>4 DEF Step
  <2>5. /\ job' \in Jobs /\ job'.op = "init" /\ job'.step = "test" /\ job'.lun = 0
        /\ job'.answer = job.answer
    BY <1>0, <1>1, <2>4 DEF Jobs
  <2>6. /\ "test" \in {"test", "sense", "inquiry", "capacity"} /\ 0 \in Nat
        /\ "test" # "test" => 0 = 1
        /\ "test" \in {"inquiry", "capacity"} => ready[0] # "no_medium"
    OBVIOUS
  <2>7. faults' = 0 => NoMedium(0) /\ handle'.max_lun = MaxLun /\ 0 < MaxLun
    BY <1>2, <1>3, <2>2
  <2> QED
    BY <1>1, <2>1, <2>3, <2>4, <2>5, <2>6, <2>7, USBSearches
<1>5. CASE Fault /\ InitOver /\ UNCHANGED handle
  <2>1. faults' = faults + 1 /\ faults' # 0
    BY <1>0, <1>5 DEF Fault
  <2> QED
    BY <1>0, <1>1, <1>5, <2>1, USBFoundOrNot
<1> QED
  BY <1>4, <1>5 DEF USBStorage_Open

\* One cycle of the search, and what follows from its outcome.
LEMMA USBMountLUN ==
  ASSUME USBInv, USBStorage_MountLUN
  PROVE  USBInv'
<1>0. /\ USBTyped /\ JobInv /\ OverInv /\ FoundInv /\ SyncInv /\ TriedInv
      /\ handle \in Handles /\ cyc \in Cycles /\ job \in Jobs /\ faults \in Nat
  BY DEF USBInv, USBTyped
<1>1. /\ job.op = "init" /\ cyc.at = "over" /\ job.step # "open" /\ ~ handle.mounted /\ ~ long
      /\ cyc.op = job.step /\ job.lun \in Nat
      /\ UNCHANGED <<user, toggles, unit, ready, told, halves, long, faults>>
  BY <1>0 DEF USBStorage_MountLUN, JobInv, Jobs
<1>2. /\ faults = 0 => cyc.ret = "OK" /\ NoMedium(job.lun)
      /\ faults = 0 => handle.max_lun = MaxLun /\ job.lun < MaxLun
  BY <1>0, <1>1 DEF SyncInv, InTime, TriedInv
<1>3. MaxLun \in Nat
  BY <1>0, USBMaxLun
\* The next cycle of the search, of this unit.
<1>4. ASSUME NEW s \in {"sense", "inquiry", "capacity"}, Step(s, s, 1), UNCHANGED handle,
             s # "sense" => ready[job.lun] # "no_medium"
      PROVE  USBInv'
  <2>1. cyc' = Cycle(s, 1) /\ job' = [job EXCEPT !.step = s]
    BY <1>4 DEF Step
  <2>2. /\ job' \in Jobs /\ job'.op = "init" /\ job'.step = s /\ job'.lun = job.lun
        /\ job'.answer = job.answer
    BY <1>0, <1>1, <2>1 DEF Jobs
  <2>3. /\ s \in {"test", "sense", "inquiry", "capacity"} /\ 1 \in Nat
        /\ s = "test" => 1 = 0
        /\ s \in {"inquiry", "capacity"} => ready[job.lun] # "no_medium"
    BY <1>4
  <2>4. handle' \in Handles /\ ~ handle'.mounted /\ handle'.max_lun = handle.max_lun
    BY <1>0, <1>1, <1>4
  <2>5. faults' = 0 => NoMedium(job.lun) /\ handle'.max_lun = MaxLun /\ job.lun < MaxLun
    BY <1>1, <1>2, <2>4
  <2> QED
    BY <1>1, <2>1, <2>2, <2>3, <2>4, <2>5, USBSearches
\* The next unit, when this one has no medium or there was an error.
<1>5. ASSUME Next_lun, faults = 0 => ready[job.lun] = "no_medium"
      PROVE  USBInv'
  <2>1. faults = 0 => NoMedium(job.lun + 1)
    <3>1. ASSUME faults = 0, NEW l \in 0 .. (job.lun + 1) - 1
          PROVE  ready[l] = "no_medium"
      <4>1. l = job.lun \/ l \in 0 .. job.lun - 1
        BY <1>1
      <4> QED
        BY <1>2, <1>5, <3>1, <4>1 DEF NoMedium
    <3> QED
      BY <3>1 DEF NoMedium
  <2>2. CASE job.lun + 1 < handle.max_lun
    <3>1. /\ job' = [job EXCEPT !.lun = job.lun + 1, !.step = "test"]
          /\ cyc' = Cycle("test", 0) /\ handle' = handle /\ job.lun + 1 \in Nat
      BY <1>1, <1>5, <2>2 DEF Next_lun
    <3>2. /\ job' \in Jobs /\ job'.op = "init" /\ job'.step = "test" /\ job'.lun = job.lun + 1
          /\ job'.answer = job.answer
      BY <1>0, <1>1, <3>1 DEF Jobs
    <3>3. /\ "test" \in {"test", "sense", "inquiry", "capacity"} /\ 0 \in Nat
          /\ "test" # "test" => 0 = 1
          /\ "test" \in {"inquiry", "capacity"} => ready[job.lun + 1] # "no_medium"
      OBVIOUS
    <3>4. handle' \in Handles /\ ~ handle'.mounted
      BY <1>0, <1>1, <3>1
    <3>5. /\ faults' = 0 => NoMedium(job.lun + 1) /\ handle'.max_lun = MaxLun
          /\ faults' = 0 => job.lun + 1 < MaxLun
      BY <1>1, <1>2, <2>1, <2>2, <3>1
    <3> QED
      BY <1>1, <3>1, <3>2, <3>3, <3>4, <3>5, USBSearches
  <2>3. CASE ~ (job.lun + 1 < handle.max_lun)
    <3>1. InitOver /\ handle' = handle
      BY <1>5, <2>3 DEF Next_lun
    <3>2. faults = 0 => NoMedium(MaxLun)
      <4>1. faults = 0 => job.lun + 1 = MaxLun
        BY <1>1, <1>2, <1>3, <2>3
      <4> QED
        BY <2>1, <4>1
    <3> QED
      BY <1>0, <1>1, <3>1, <3>2, USBFoundOrNot
  <2> QED
    BY <2>2, <2>3
<1>6. CASE GivenUp /\ cyc.ret = "ETIMEDOUT"
  <2>1. InitOver /\ handle' = Closed /\ faults # 0
    BY <1>2, <1>6 DEF GivenUp
  <2> QED
    BY <1>1, <2>1, USBRecords, USBFoundOrNot
<1>7. CASE Next_lun /\ cyc.ret # "OK"
  BY <1>2, <1>5, <1>7
<1>8. CASE Next_lun /\ NotReady
  BY <1>5, <1>8 DEF NotReady
<1>9. CASE Step("sense", "sense", 1) /\ UNCHANGED handle
  BY <1>4, <1>9
<1>10. CASE job.step = "inquiry" /\ Step("capacity", "capacity", 1) /\ UNCHANGED handle
  BY <1>0, <1>4, <1>10 DEF FoundInv
<1>11. CASE Step("inquiry", "inquiry", 1) /\ UNCHANGED handle /\ ready[job.lun] # "no_medium"
  BY <1>4, <1>11
<1>12. CASE job.step = "capacity" /\ Mount
  <2>1. InitOver /\ handle' = [handle EXCEPT !.mounted = TRUE, !.lun = job.lun]
    BY <1>12 DEF Mount
  <2>2. handle' \in Handles /\ handle'.mounted /\ handle'.lun = job.lun
    BY <1>0, <1>1, <2>1 DEF Handles
  <2>3. ready[job.lun] # "no_medium"
    BY <1>0, <1>12 DEF FoundInv
  <2> QED
    BY <1>1, <1>2, <2>1, <2>2, <2>3, USBFoundOrNot
<1>13. job.step \in {"test", "sense", "inquiry", "capacity"}
  BY <1>0, <1>1 DEF Jobs, JobInv
<1>14. \/ GivenUp /\ cyc.ret = "ETIMEDOUT"
       \/ Next_lun /\ cyc.ret # "OK"
       \/ Next_lun /\ NotReady
       \/ Step("sense", "sense", 1) /\ UNCHANGED handle
       \/ job.step = "inquiry" /\ Step("capacity", "capacity", 1) /\ UNCHANGED handle
       \/ job.step = "capacity" /\ Mount
       \/ /\ Step("inquiry", "inquiry", 1) /\ UNCHANGED handle
          /\ ready[job.lun] # "no_medium"
  <2>1. cyc.ret \in Returns /\ cyc.status \in {0, 1, 2}
    BY <1>0 DEF Cycles
  <2>2. job.step = "test" /\ cyc.ret = "OK" /\ cyc.status = 0 => ready[job.lun] = "ready"
    BY <1>0, <1>1 DEF OverInv
  <2>3. CASE cyc.ret = "ETIMEDOUT" /\ job.step # "inquiry"
    BY <1>13, <2>3 DEF USBStorage_MountLUN
  <2>4. CASE cyc.ret \notin {"OK", "ETIMEDOUT"} /\ job.step # "inquiry"
    BY <1>13, <2>4 DEF USBStorage_MountLUN
  <2>5. CASE job.step = "inquiry"
    BY <2>5 DEF USBStorage_MountLUN
  <2>6. CASE cyc.ret = "OK" /\ job.step = "capacity"
    BY <2>6 DEF USBStorage_MountLUN
  <2>7. CASE cyc.ret = "OK" /\ job.step = "sense"
    BY <2>7 DEF USBStorage_MountLUN, NotReady
  <2>8. CASE cyc.ret = "OK" /\ job.step = "test"
    BY <2>2, <2>8 DEF USBStorage_MountLUN
  <2> QED
    BY <1>13, <2>3, <2>4, <2>5, <2>6, <2>7, <2>8
<1> QED
  BY <1>6, <1>7, <1>8, <1>9, <1>10, <1>11, <1>12, <1>14

\* A request of the file system begins.
LEMMA USBBegins ==
  ASSUME USBInv, NEW op \in {"read", "write"}, NEW n \in Lengths, disk_read_or_write(op, n)
  PROVE  USBInv'
<1>0. /\ USBTyped /\ JobInv /\ OverInv /\ FoundInv /\ SyncInv /\ TriedInv /\ CausedError
      /\ handle \in Handles /\ cyc \in Cycles /\ job \in Jobs /\ faults \in Nat
  BY DEF USBInv, USBTyped
<1>1. /\ job.op = "none" /\ told' = FALSE /\ long' = (long \/ n >= LengthWord)
      /\ n \in Nat /\ 0 < n /\ LengthWord \in Nat
      /\ UNCHANGED <<user, handle, toggles, unit, ready, halves, faults>>
  BY USBStorageAssumption DEF disk_read_or_write
<1>2. cyc.at = "idle" /\ job.step = "none" /\ (long => long') /\ long' \in BOOLEAN
  BY <1>0, <1>1 DEF JobInv, Jobs
<1>3. ~ long' => n < LengthWord /\ ~ long
  <2>1. n < LengthWord \/ n >= LengthWord
    BY <1>1
  <2> QED
    BY <1>1, <2>1, Zenon
<1>4. USBTyped' \/ ~ (cyc' \in Cycles /\ job' \in Jobs)
  <2>1. \E m \in Nat : ready' \in [0 .. m -> {"ready", "attention", "no_medium"}]
    BY <1>0, <1>1 DEF USBTyped
  <2>2. /\ user' \in {"fsusb", "di"} /\ toggles' \in Toggles /\ unit' \in Units
        /\ told' \in BOOLEAN /\ halves' \in BOOLEAN /\ handle' \in Handles /\ faults' \in Nat
    BY <1>0, <1>1 DEF USBTyped
  <2> QED
    BY <1>2, <2>1, <2>2 DEF USBTyped
<1>5. MaxLun' = MaxLun
  BY <1>1 DEF MaxLun, LastUnit
<1>6. CASE handle.mounted
  <2>1. job' = [NoJob EXCEPT !.op = op, !.n = n] /\ cyc' = Cycle(op, n)
    BY <1>6 DEF disk_read_or_write
  <2>2. op \in Orders
    BY DEF Orders
  <2>3. /\ cyc' \in Cycles /\ cyc'.op = op /\ cyc'.n = n /\ cyc'.at = "cbw" /\ cyc'.len = n
    BY <1>1, <2>1, <2>2, USBCycle
  <2>4. /\ job' \in Jobs /\ job'.op = op /\ job'.step = "none" /\ job'.answer = "none"
        /\ job'.n = n
    BY <1>1, <2>1, USBRecords DEF Jobs
  <2>5. ToggleInv' /\ UnitInv' /\ OverInv' /\ SyncInv'
    <3>1. cyc'.at \in {"cbw", "idle"} /\ cyc.at \in {"over", "idle"} /\ cyc'.len = cyc'.n
          /\ faults' = faults
      BY <1>1, <1>2, <2>3
    <3> QED
      BY <1>1, <1>2, <2>3, <3>1, USBFresh
  <2>6. JobInv'
    BY <1>1, <1>3, <2>3, <2>4 DEF JobInv
  <2>7. FoundInv'
    BY <1>0, <1>1, <2>4 DEF FoundInv
  <2>8. TriedInv'
    BY <1>0, <1>1, <1>5, <1>6, <2>4 DEF TriedInv, NoMedium
  <2>9. DiskReadRight' /\ CausedError'
    BY <2>4 DEF DiskReadRight, CausedError
  <2> QED
    BY <1>4, <2>3, <2>4, <2>5, <2>6, <2>7, <2>8, <2>9 DEF USBInv
<1>7. CASE ~ handle.mounted
  <2>1. /\ job' = [NoJob EXCEPT !.answer = DiskResult(FALSE), !.right = FALSE, !.n = n]
        /\ cyc' = cyc
    BY <1>7 DEF disk_read_or_write
  <2>2. DiskResult(FALSE) = (IF user = "di" THEN "RES_OK" ELSE "RES_ERROR")
    BY DEF DiskResult
  <2>3. /\ job' \in Jobs /\ job'.op = "none" /\ job'.step = "none" /\ job'.n = n
        /\ job'.answer = DiskResult(FALSE)
    BY <1>1, <2>1, <2>2, USBRecords DEF Jobs
  <2>4. ToggleInv' /\ UnitInv' /\ OverInv' /\ SyncInv'
    <3>1. /\ ToggleInv' /\ UnitInv' /\ OverInv'
      BY <1>1, <1>2, <2>1 DEF USBInv, ToggleInv, UnitInv, OverInv, Resetting
    <3>2. SyncInv'
      BY <1>0, <1>1, <1>2, <1>3, <2>1 DEF SyncInv, InTime
    <3> QED
      BY <3>1, <3>2
  <2>5. JobInv'
    BY <1>0, <1>1, <1>2, <1>3, <2>1, <2>3 DEF JobInv
  <2>6. FoundInv'
    BY <1>0, <1>1, <2>3 DEF FoundInv
  <2>7. TriedInv'
    BY <1>0, <1>1, <1>2, <1>3, <1>5, <2>3 DEF TriedInv, NoMedium
  <2>8. DiskReadRight'
    BY <1>1, <2>2, <2>3 DEF DiskReadRight
  <2>9. CausedError'
    BY <1>0, <1>1, <1>3, <1>5, <1>7 DEF CausedError, TriedInv, NoMedium
  <2> QED
    BY <1>0, <1>4, <2>1, <2>3, <2>4, <2>5, <2>6, <2>7, <2>8, <2>9 DEF USBInv
<1> QED
  BY <1>6, <1>7

\* A request of the file system ends.
LEMMA USBTransferOver ==
  ASSUME USBInv, TransferOver
  PROVE  USBInv'
<1>0. /\ USBTyped /\ JobInv /\ OverInv /\ FoundInv /\ SyncInv /\ TriedInv
      /\ handle \in Handles /\ cyc \in Cycles /\ job \in Jobs /\ faults \in Nat
  BY DEF USBInv, USBTyped
<1>1. /\ job.op \in {"read", "write"} /\ cyc.at = "over" /\ cyc' = NoCycle
      /\ handle' = IF cyc.ret = "ETIMEDOUT" THEN Closed ELSE handle
      /\ UNCHANGED <<user, toggles, unit, ready, told, halves, long, faults>>
      /\ job.step = "none" /\ cyc.op = job.op /\ cyc.n = job.n /\ job.n \in Nat
  BY <1>0 DEF TransferOver, JobInv, Jobs
<1>2. PICK r \in BOOLEAN, a \in {"RES_OK", "RES_ERROR"} :
        /\ r <=> (IF job.op = "read" THEN cyc.have ELSE unit.wrote) = Run(job.n)
        /\ a = DiskResult(cyc.ret = "OK")
        /\ job' = [NoJob EXCEPT !.answer = a, !.n = job.n, !.right = r]
  <2>1. DiskResult(cyc.ret = "OK") \in {"RES_OK", "RES_ERROR"}
    BY DEF DiskResult
  <2> QED
    BY <2>1 DEF TransferOver
<1>3. /\ job' \in Jobs /\ job'.op = "none" /\ job'.step = "none" /\ job'.answer = a
      /\ job'.n = job.n /\ (job'.right <=> r)
  BY <1>1, <1>2, USBRecords DEF Jobs
<1>4. /\ cyc' \in Cycles /\ cyc'.at = "idle" /\ cyc'.len = 0 /\ cyc'.n = 0
  BY <1>1, USBRecords
<1>5. handle' \in Handles /\ (handle'.mounted => handle' = handle)
  BY <1>0, <1>1, USBRecords
<1>6. ToggleInv' /\ UnitInv' /\ OverInv' /\ SyncInv'
  BY <1>1, <1>4, USBFresh
<1>7. USBTyped'
  <2>1. /\ user' \in {"fsusb", "di"} /\ toggles' \in Toggles /\ unit' \in Units
        /\ told' \in BOOLEAN /\ halves' \in BOOLEAN /\ long' \in BOOLEAN /\ faults' \in Nat
    BY <1>0, <1>1 DEF USBTyped
  <2>2. \E m \in Nat : ready' \in [0 .. m -> {"ready", "attention", "no_medium"}]
    BY <1>0, <1>1 DEF USBTyped
  <2> QED
    BY <1>3, <1>4, <1>5, <2>1, <2>2 DEF USBTyped
<1>8. JobInv'
  <2>1. 0 < LengthWord
    BY USBStorageAssumption
  <2> QED
    BY <1>3, <1>4, <2>1 DEF JobInv
<1>9. FoundInv'
  BY <1>0, <1>1, <1>3, <1>5 DEF FoundInv
<1>10. MaxLun' = MaxLun
  BY <1>1 DEF MaxLun, LastUnit
<1>11. faults = 0 /\ ~ long => cyc.ret = "OK"
  BY <1>0, <1>1 DEF SyncInv, InTime
<1>12. TriedInv'
  <2>1. faults = 0 /\ ~ long => handle' = handle
    BY <1>1, <1>11
  <2>2. job.op # "init"
    BY <1>1
  <2> QED
    BY <1>0, <1>1, <1>3, <1>5, <1>10, <2>1, <2>2 DEF TriedInv, NoMedium
<1>13. DiskReadRight'
  <2>1. user = "fsusb" /\ a = "RES_OK" => cyc.ret = "OK"
    BY <1>2 DEF DiskResult
  <2>2. cyc.ret = "OK" /\ ~ told => r
    <3>1. cyc.ret = "OK" /\ ~ told => Moved
      BY <1>0, <1>1 DEF OverInv
    <3> QED
      BY <1>1, <1>2, <3>1 DEF Moved
  <2> QED
    BY <1>1, <1>3, <2>1, <2>2 DEF DiskReadRight
<1>14. CausedError'
  <2>1. cyc.ret = "OK" => a = "RES_OK"
    BY <1>2 DEF DiskResult
  <2> QED
    BY <1>1, <1>3, <1>11, <2>1 DEF CausedError
<1> QED
  BY <1>6, <1>7, <1>8, <1>9, <1>12, <1>13, <1>14 DEF USBInv

LEMMA USBNextInv ==
  ASSUME USBInv, [USBNext]_usbvars
  PROVE  USBInv'
<1>1. ASSUME UNCHANGED usbvars PROVE USBInv'
  <2>1. UNCHANGED <<user, handle, toggles, unit, ready, cyc, job, told, halves, long, faults>>
    BY <1>1 DEF usbvars
  <2>2. USBTyped'
    BY <2>1 DEF USBInv, USBTyped
  <2>3. ToggleInv' /\ JobInv' /\ FoundInv' /\ DiskReadRight'
    BY <2>1 DEF USBInv, ToggleInv, JobInv, FoundInv, DiskReadRight
  <2>4. UnitInv' /\ OverInv'
    BY <2>1 DEF USBInv, UnitInv, OverInv, Moved
  <2>5. SyncInv'
    BY <2>1 DEF USBInv, SyncInv, InTime
  <2>6. MaxLun' = MaxLun
    BY <2>1 DEF MaxLun, LastUnit
  <2>7. TriedInv' /\ CausedError'
    BY <2>1, <2>6 DEF USBInv, TriedInv, NoMedium, CausedError
  <2> QED
    BY <2>2, <2>3, <2>4, <2>5, <2>7 DEF USBInv
<1>2. cyc \in Cycles
  BY DEF USBInv, USBTyped
<1>3. wLength(cyc.len) \in Nat /\ wLength(cyc.len) = cyc.len % LengthWord
  BY <1>2, USBStorageAssumption DEF wLength, Cycles
<1>4. CASE __send_cbw
  BY <1>4, USBSend
<1>5. CASE DataOut(wLength(cyc.len))
  BY <1>5, USBDataOut
<1>6. CASE DataIn(wLength(cyc.len))
  BY <1>6, USBDataIn
<1>7. CASE __read_csw
  BY <1>7, USBReadCsw
<1>8. CASE __usbstorage_reset
  BY <1>8, USBReset
<1>9. CASE USBStorage_Open
  BY <1>9, USBOpen
<1>10. CASE USBStorage_MountLUN
  BY <1>10, USBMountLUN
<1>11. CASE TransferOver
  BY <1>11, USBTransferOver
<1>12. CASE \E op \in {"read", "write"}, n \in Lengths : disk_read_or_write(op, n)
  BY <1>12, USBBegins
<1> QED
  BY <1>1, <1>4, <1>5, <1>6, <1>7, <1>8, <1>9, <1>10, <1>11, <1>12 DEF USBNext, UsbDriver

\* Of every device and every bus: FFS-USB reports a transfer as done only when
\* every sector was moved or the device itself said otherwise, a request fails
\* without a fault on the bus only when it is too long or no unit has a medium, the
\* unit in use has one, and driver and device agree on the toggles of the pipes
\* until a pipe is cleared half way (usbstorage.c, diskio.c).
THEOREM USBStorageIsRight == USBInit /\ [][USBNext]_usbvars => []StorageRight
<1>1. USBInv => StorageRight
  <2> SUFFICES ASSUME USBInv PROVE StorageRight
    OBVIOUS
  <2>1. /\ ToggleInv /\ JobInv /\ FoundInv /\ TriedInv /\ DiskReadRight /\ CausedError
    BY DEF USBInv
  <2>2. MountedIsReady
    BY <2>1 DEF MountedIsReady, FoundInv, TriedInv, NoMedium
  <2>3. TogglesAgree
    BY <2>1 DEF TogglesAgree, ToggleInv, InStep
  <2> QED
    BY <2>1, <2>2, <2>3 DEF StorageRight
<1>2. USBInv /\ [USBNext]_usbvars => USBInv'
  BY USBNextInv
<1> QED
  BY <1>1, <1>2, USBInitInv, PTL

-----------------------------------------------------------------------------
(***************************************************************************)
(* mini's error correction: for codes of any width above 2, one wrong bit  *)
(* of data or code is put right, and of two the page is refused.           *)
(***************************************************************************)

LEMMA ECCSets ==
  /\ IsFiniteSet(Bits) /\ IsFiniteSet(CodeBits)
  /\ 0 \in Address /\ 1 \in Address /\ 2 \in Address
<1>1. IsFiniteSet(Address)
  BY FS_Interval, BootAssumption DEF Address
<1>2. IsFiniteSet(Bits)
  BY <1>1, FS_SUBSET DEF Bits
<1>3. IsFiniteSet({"odd", "even"})
  <2>1. IsFiniteSet({"odd"} \cup {"even"})
    BY FS_Singleton, FS_AddElement
  <2>2. {"odd", "even"} = {"odd"} \cup {"even"}
    OBVIOUS
  <2> QED
    BY <2>1, <2>2
<1>4. IsFiniteSet(CodeBits)
  BY <1>1, <1>3, FS_Product DEF CodeBits
<1>5. 0 \in Address /\ 1 \in Address /\ 2 \in Address
  BY BootAssumption DEF Address
<1> QED
  BY <1>2, <1>4, <1>5

\* The bits of the code that a bit of data counts in.
LEMMA ECCOfBit ==
  ASSUME NEW b
  PROVE  /\ CodeOfBit(b) \subseteq CodeBits
         /\ \A i \in Address : <<"odd", i>> \in CodeOfBit(b) <=> i \in b
         /\ \A i \in Address : <<"even", i>> \in CodeOfBit(b) <=> i \notin b
<1>1. ASSUME NEW c \in CodeOfBit(b) PROVE c \in CodeBits
  <2>1. PICK i \in Address : c = <<IF i \in b THEN "odd" ELSE "even", i>>
    BY <1>1 DEF CodeOfBit
  <2> QED
    BY <2>1 DEF CodeBits
<1>2. ASSUME NEW i \in Address PROVE <<"odd", i>> \in CodeOfBit(b) <=> i \in b
  <2>1. ASSUME i \in b PROVE <<"odd", i>> \in CodeOfBit(b)
    BY <2>1 DEF CodeOfBit
  <2>2. ASSUME <<"odd", i>> \in CodeOfBit(b) PROVE i \in b
    <3>1. PICK k \in Address : <<"odd", i>> = <<IF k \in b THEN "odd" ELSE "even", k>>
      BY <2>2 DEF CodeOfBit
    <3> QED
      BY <3>1
  <2> QED
    BY <2>1, <2>2
<1>3. ASSUME NEW i \in Address PROVE <<"even", i>> \in CodeOfBit(b) <=> i \notin b
  <2>1. ASSUME i \notin b PROVE <<"even", i>> \in CodeOfBit(b)
    BY <2>1 DEF CodeOfBit
  <2>2. ASSUME <<"even", i>> \in CodeOfBit(b) PROVE i \notin b
    <3>1. PICK k \in Address : <<"even", i>> = <<IF k \in b THEN "odd" ELSE "even", k>>
      BY <2>2 DEF CodeOfBit
    <3> QED
      BY <3>1
  <2> QED
    BY <2>1, <2>2
<1> QED
  BY <1>1, <1>2, <1>3

LEMMA ECCParity ==
  ASSUME NEW n \in Nat, NEW m \in Nat, m = n + 1 \/ n = m + 1
  PROVE  m % 2 = 1 <=> ~ (n % 2 = 1)
  OBVIOUS

\* Who adds or takes a bit changes the bits of the code it counts in.
LEMMA ECCChange ==
  ASSUME NEW D \in SUBSET Bits, NEW b \in Bits
  PROVE  /\ Code(Xor(D, {b})) = Xor(Code(D), CodeOfBit(b))
         /\ Xor(D, {b}) \in SUBSET Bits
<1>1. Xor(D, {b}) \in SUBSET Bits
  BY DEF Xor
<1>2. ASSUME NEW c \in CodeBits
      PROVE  c \in Code(Xor(D, {b})) <=> c \in Xor(Code(D), CodeOfBit(b))
  <2> DEFINE S == {x \in D : c \in CodeOfBit(x)}
             T == {x \in Xor(D, {b}) : c \in CodeOfBit(x)}
  <2>1. c \in Code(D) <=> Cardinality(S) % 2 = 1
    BY <1>2 DEF Code
  <2>2. c \in Code(Xor(D, {b})) <=> Cardinality(T) % 2 = 1
    BY <1>2 DEF Code
  <2>3. IsFiniteSet(S) /\ IsFiniteSet(T)
    <3>1. S \in SUBSET Bits /\ T \in SUBSET Bits
      BY <1>1
    <3> QED
      BY <3>1, ECCSets, FS_Subset
  <2>4. Cardinality(S) \in Nat
    BY <2>3, FS_CardinalityType
  <2>5. c \notin CodeOfBit(b) => T = S
    BY DEF Xor
  <2>6. c \in CodeOfBit(b) /\ b \in D => T = S \ {b} /\ b \in S
    BY DEF Xor
  <2>7. c \in CodeOfBit(b) /\ b \notin D => T = S \cup {b} /\ b \notin S
    BY DEF Xor
  <2> HIDE DEF S, T
  <2>8. Cardinality(S \ {b}) = IF b \in S THEN Cardinality(S) - 1 ELSE Cardinality(S)
    BY <2>3, FS_RemoveElement
  <2>9. Cardinality(S \cup {b}) = IF b \in S THEN Cardinality(S) ELSE Cardinality(S) + 1
    BY <2>3, FS_AddElement
  <2>10. c \in CodeOfBit(b) => (Cardinality(T) % 2 = 1 <=> ~ (Cardinality(S) % 2 = 1))
    <3> SUFFICES ASSUME c \in CodeOfBit(b)
                 PROVE  Cardinality(T) % 2 = 1 <=> ~ (Cardinality(S) % 2 = 1)
      OBVIOUS
    <3>1. Cardinality(T) \in Nat
      BY <2>3, FS_CardinalityType
    <3>2. Cardinality(T) = Cardinality(S) + 1 \/ Cardinality(S) = Cardinality(T) + 1
      <4>1. CASE b \in D
        <5>1. T = S \ {b} /\ b \in S
          BY <2>6, <4>1
        <5>2. Cardinality(T) = Cardinality(S) - 1
          BY <2>8, <5>1
        <5> QED
          BY <2>4, <5>2
      <4>2. CASE b \notin D
        <5>1. T = S \cup {b} /\ b \notin S
          BY <2>7, <4>2
        <5>2. Cardinality(T) = Cardinality(S) + 1
          BY <2>9, <5>1
        <5> QED
          BY <5>2
      <4> QED
        BY <4>1, <4>2
    <3> QED
      BY <2>4, <3>1, <3>2, ECCParity
  <2> QED
    BY <2>1, <2>2, <2>5, <2>10 DEF Xor
<1>3. Code(Xor(D, {b})) \subseteq CodeBits /\ Code(D) \subseteq CodeBits
  BY DEF Code
<1>4. Xor(Code(D), CodeOfBit(b)) \subseteq CodeBits
  BY <1>3, ECCOfBit DEF Xor
<1> QED
  BY <1>1, <1>2, <1>3, <1>4

\* A set of at most two things.
LEMMA ECCSmall ==
  ASSUME NEW S, IsFiniteSet(S), Cardinality(S) <= 2
  PROVE  \/ S = {} /\ Cardinality(S) = 0
         \/ \E x \in S : S = {x} /\ Cardinality(S) = 1
         \/ \E x, y \in S : x # y /\ S = {x, y} /\ Cardinality(S) = 2
<1>1. Cardinality(S) \in Nat /\ Cardinality(S) \in {0, 1, 2}
  BY FS_CardinalityType
<1>2. CASE Cardinality(S) = 0
  BY <1>2, FS_EmptySet
<1>3. CASE Cardinality(S) = 1
  BY <1>3, FS_Singleton
<1>4. CASE Cardinality(S) = 2
  <2>1. PICK x : x \in S
    BY <1>4, FS_EmptySet
  <2>2. IsFiniteSet(S \ {x}) /\ Cardinality(S \ {x}) = 1
    BY <1>4, <2>1, FS_RemoveElement
  <2>3. PICK y : S \ {x} = {y}
    BY <2>2, FS_Singleton
  <2>4. y \in S /\ x # y /\ S = {x, y}
    BY <2>1, <2>3
  <2> QED
    BY <1>4, <2>1, <2>4
<1> QED
  BY <1>1, <1>2, <1>3, <1>4

\* Three different things are not two.
LEMMA ECCThree ==
  ASSUME NEW S, IsFiniteSet(S), Cardinality(S) <= 2,
         NEW x \in S, NEW y \in S, NEW z \in S, x # y, y # z, x # z
  PROVE  FALSE
<1>1. \/ S = {}
      \/ \E u \in S : S = {u}
      \/ \E u, v \in S : S = {u, v}
  BY ECCSmall
<1> QED
  BY <1>1

\* What nand_correct says of a page.
LEMMA ECCSays ==
  ASSUME NEW page, NEW s, s = Xor(page.ecc, Code(page.data))
  PROVE  /\ s = {} \/ Cardinality(s) = 1 =>
              nand_correct(page).ok /\ nand_correct(page).data = page.data
         /\ ~ (s = {} \/ Cardinality(s) = 1) =>
              /\ nand_correct(page).ok <=>
                   \A i \in Address : <<"odd", i>> \in s <=> <<"even", i>> \notin s
              /\ nand_correct(page).ok =>
                   \A b \in SUBSET Address :
                     (\A i \in Address : <<"odd", i>> \in s <=> i \in b) =>
                       nand_correct(page).data = Xor(page.data, {b})
<1>1. CASE s = {} \/ Cardinality(s) = 1
  <2>1. nand_correct(page) = [ok |-> TRUE, data |-> page.data]
    BY <1>1 DEF nand_correct
  <2> QED
    BY <1>1, <2>1
<1>2. CASE /\ ~ (s = {} \/ Cardinality(s) = 1)
           /\ \A i \in Address : <<"odd", i>> \in s <=> <<"even", i>> \notin s
  <2>1. PICK x : x = Xor(page.data, {{i \in Address : <<"odd", i>> \in s}})
    OBVIOUS
  <2>2. nand_correct(page) = [ok |-> TRUE, data |-> x]
    BY <1>2, <2>1, Zenon DEF nand_correct
  <2>3. nand_correct(page).ok /\ nand_correct(page).data = x
    BY <2>2
  <2>4. ASSUME NEW b \in SUBSET Address,
               \A i \in Address : <<"odd", i>> \in s <=> i \in b
        PROVE  x = Xor(page.data, {b})
    <3>1. {i \in Address : <<"odd", i>> \in s} = b
      BY <2>4
    <3> QED
      BY <2>1, <3>1, Zenon
  <2> QED
    BY <1>2, <2>3, <2>4, Zenon
<1>3. CASE /\ ~ (s = {} \/ Cardinality(s) = 1)
           /\ ~ (\A i \in Address : <<"odd", i>> \in s <=> <<"even", i>> \notin s)
  <2>1. nand_correct(page) = [ok |-> FALSE, data |-> page.data]
    BY <1>3, Zenon DEF nand_correct
  <2>2. ~ nand_correct(page).ok
    BY <2>1
  <2> QED
    BY <1>3, <2>2, Zenon
<1> QED
  BY <1>1, <1>2, <1>3, Zenon

\* A code of a page as it is stored, and a page with at most two bits that were
\* read wrongly: what is not refused is as it was.
LEMMA ECCRight ==
  ASSUME NEW D \in SUBSET Bits, NEW wd \in SUBSET Bits, NEW wc \in SUBSET CodeBits,
         Cardinality(wd) + Cardinality(wc) <= 2,
         NEW page, page.data = Xor(D, wd), page.ecc = Xor(Code(D), wc)
  PROVE  /\ nand_correct(page).ok => nand_correct(page).data = D
         /\ wd = {} /\ wc = {} => nand_correct(page).ok
<1>1. IsFiniteSet(wd) /\ IsFiniteSet(wc)
  BY ECCSets, FS_Subset
<1>2. Cardinality(wd) \in Nat /\ Cardinality(wc) \in Nat
  BY <1>1, FS_CardinalityType
<1>3. PICK s : s = Xor(page.ecc, Code(page.data))
  OBVIOUS
<1>4. /\ s = {} \/ Cardinality(s) = 1 =>
           nand_correct(page).ok /\ nand_correct(page).data = page.data
      /\ ~ (s = {} \/ Cardinality(s) = 1) =>
           /\ nand_correct(page).ok <=>
                \A i \in Address : <<"odd", i>> \in s <=> <<"even", i>> \notin s
           /\ nand_correct(page).ok =>
                \A b \in SUBSET Address :
                  (\A i \in Address : <<"odd", i>> \in s <=> i \in b) =>
                    nand_correct(page).data = Xor(page.data, {b})
  BY <1>3, ECCSays
<1>5. Code(D) \subseteq CodeBits
  BY DEF Code
<1>6. \A u, v : u \in s /\ v \in s /\ u # v => ~ (s = {} \/ Cardinality(s) = 1)
  <2>1. s \subseteq CodeBits
    BY <1>3, <1>5 DEF Xor, Code
  <2>2. IsFiniteSet(s)
    BY <2>1, ECCSets, FS_Subset
  <2>3. Cardinality(s) = 1 => \E x : s = {x}
    BY <2>2, FS_Singleton
  <2> QED
    BY <2>3
\* The page is refused when both or none of the bits of an address bit are wrong.
<1>7. ASSUME NEW i \in Address, <<"odd", i>> \in s <=> <<"even", i>> \in s,
             ~ (s = {} \/ Cardinality(s) = 1)
      PROVE  ~ nand_correct(page).ok
  BY <1>4, <1>7, Zenon
<1>8. CASE wd = {}
  <2>1. page.data = D /\ s = wc
    BY <1>3, <1>8 DEF Xor
  <2>2. wc = {} => nand_correct(page).ok
    BY <1>4, <2>1
  <2>3. CASE s = {} \/ Cardinality(s) = 1
    BY <1>4, <2>1, <2>2, <2>3
  <2>4. CASE ~ (s = {} \/ Cardinality(s) = 1)
    <3>1. ASSUME nand_correct(page).ok PROVE FALSE
      <4>1. \A i \in Address : <<"odd", i>> \in s <=> <<"even", i>> \notin s
        BY <1>4, <2>4, <3>1, Zenon
      <4>2. \A i \in Address : \E x \in {"odd", "even"} : <<x, i>> \in s
        BY <4>1
      <4>3. PICK x0 \in {"odd", "even"} : <<x0, 0>> \in s
        BY <4>2, ECCSets
      <4>4. PICK x1 \in {"odd", "even"} : <<x1, 1>> \in s
        BY <4>2, ECCSets
      <4>5. PICK x2 \in {"odd", "even"} : <<x2, 2>> \in s
        BY <4>2, ECCSets
      <4>6. <<x0, 0>> # <<x1, 1>> /\ <<x1, 1>> # <<x2, 2>> /\ <<x0, 0>> # <<x2, 2>>
        OBVIOUS
      <4>7. Cardinality(s) <= 2 /\ IsFiniteSet(s)
        BY <1>1, <1>2, <2>1
      <4> QED
        BY <4>3, <4>4, <4>5, <4>6, <4>7, ECCThree
    <3> QED
      BY <2>2, <3>1
  <2> QED
    BY <2>3, <2>4
<1>9. ASSUME NEW b \in Bits, wd = {b}, Cardinality(wd) = 1
      PROVE  nand_correct(page).ok => nand_correct(page).data = D
  <2>1. Code(page.data) = Xor(Code(D), CodeOfBit(b))
    BY <1>9, ECCChange
  <2>2. s = Xor(wc, CodeOfBit(b))
    BY <1>3, <2>1 DEF Xor
  <2>3. b \subseteq Address
    BY DEF Bits
  <2>4. CASE wc = {}
    <3>1. s = CodeOfBit(b)
      BY <2>2, <2>4 DEF Xor
    <3>2. \A i \in Address : (<<"odd", i>> \in s <=> i \in b) /\ (<<"even", i>> \in s <=> i \notin b)
      BY <3>1, ECCOfBit
    <3>3. ~ (s = {} \/ Cardinality(s) = 1)
      <4>1. PICK x0 \in {"odd", "even"} : <<x0, 0>> \in s
        BY <3>2, ECCSets
      <4>2. PICK x1 \in {"odd", "even"} : <<x1, 1>> \in s
        BY <3>2, ECCSets
      <4>3. <<x0, 0>> # <<x1, 1>>
        OBVIOUS
      <4> QED
        BY <1>6, <4>1, <4>2, <4>3
    <3>4. nand_correct(page).ok => nand_correct(page).data = Xor(page.data, {b})
      BY <1>4, <2>3, <3>2, <3>3
    <3>5. Xor(page.data, {b}) = D
      BY <1>9 DEF Xor
    <3> QED
      BY <3>4, <3>5
  <2>5. CASE wc # {}
    <3>1. PICK c \in wc : wc = {c}
      <4>1. Cardinality(wc) <= 1 /\ Cardinality(wc) <= 2
        BY <1>2, <1>9
      <4>2. Cardinality(wc) # 2
        BY <1>2, <4>1
      <4> QED
        BY <1>1, <2>5, <4>1, <4>2, ECCSmall
    <3>2. PICK e \in {"odd", "even"}, j \in Address : c = <<e, j>>
      BY <3>1 DEF CodeBits
    <3>3. \A i \in Address : (<<"odd", i>> \in CodeOfBit(b) <=> i \in b)
                          /\ (<<"even", i>> \in CodeOfBit(b) <=> i \notin b)
      BY ECCOfBit
    <3>4. <<"odd", j>> \in s <=> <<"even", j>> \in s
      BY <2>2, <3>1, <3>2, <3>3 DEF Xor
    <3>5. ASSUME NEW i \in Address, i # j
          PROVE  \E x \in {"odd", "even"} : <<x, i>> \in s
      BY <2>2, <3>1, <3>2, <3>3, <3>5 DEF Xor
    <3>6. ~ (s = {} \/ Cardinality(s) = 1)
      <4>1. PICK k \in Address, l \in Address : k # j /\ l # j /\ k # l
        BY ECCSets
      <4>2. PICK x0 \in {"odd", "even"} : <<x0, k>> \in s
        BY <3>5, <4>1
      <4>3. PICK x1 \in {"odd", "even"} : <<x1, l>> \in s
        BY <3>5, <4>1
      <4>4. <<x0, k>> # <<x1, l>>
        BY <4>1
      <4> QED
        BY <1>6, <4>2, <4>3, <4>4
    <3> QED
      BY <1>7, <3>4, <3>6
  <2> QED
    BY <2>4, <2>5
<1>10. ASSUME NEW b \in Bits, NEW d \in Bits, b # d, wd = {b, d}, Cardinality(wd) = 2
       PROVE  ~ nand_correct(page).ok
  <2>1. wc = {}
    <3>1. Cardinality(wc) = 0
      BY <1>2, <1>10
    <3> QED
      BY <1>1, <3>1, FS_EmptySet
  <2>2. page.data = Xor(Xor(D, {b}), {d})
    BY <1>10 DEF Xor
  <2>3. Code(page.data) = Xor(Xor(Code(D), CodeOfBit(b)), CodeOfBit(d))
    BY <2>2, ECCChange
  <2>4. s = Xor(CodeOfBit(b), CodeOfBit(d))
    BY <1>3, <2>1, <2>3 DEF Xor
  <2>5. PICK j \in Address : ~ (j \in b <=> j \in d)
    BY <1>10 DEF Bits
  <2>6. <<"odd", j>> \in s /\ <<"even", j>> \in s
    BY <2>4, <2>5, ECCOfBit DEF Xor
  <2>7. <<"odd", j>> # <<"even", j>>
    OBVIOUS
  <2>8. ~ (s = {} \/ Cardinality(s) = 1)
    BY <1>6, <2>6, <2>7
  <2> QED
    BY <1>7, <2>6, <2>8
<1>11. Cardinality(wd) <= 2
  BY <1>2
<1>12. \/ wd = {}
       \/ \E b \in wd : wd = {b} /\ Cardinality(wd) = 1
       \/ \E b, d \in wd : b # d /\ wd = {b, d} /\ Cardinality(wd) = 2
  BY <1>1, <1>11, ECCSmall
<1> QED
  BY <1>8, <1>9, <1>10, <1>12

-----------------------------------------------------------------------------
(***************************************************************************)
(* Where the pages of boot2 are.                                           *)
(***************************************************************************)

LEMMA BootTimes ==
  ASSUME NEW a \in Nat, NEW b \in Nat, a <= b, NEW c \in Nat
  PROVE  a * c <= b * c /\ a * c \in Nat /\ b * c \in Nat
<1>1. PICK d \in Nat : b = a + d
  <2>1. b - a \in Nat /\ b = a + (b - a)
    OBVIOUS
  <2> QED
    BY <2>1
<1>2. b * c = a * c + d * c /\ d * c \in Nat /\ a * c \in Nat
  BY <1>1
<1> QED
  BY <1>2

\* The loop that lists the blocks that are not bad defines a list of blocks.
LEMMA BootBlocks ==
  ASSUME NEW map, NEW copy
  PROVE  boot2_blocks(map, copy) \in Seq(BlockNos)
<1> DEFINE Body(g, b) ==
             IF b = 0 THEN <<>>
             ELSE IF b \in map.bad THEN g[b - 1]
             ELSE IF copy = 0 THEN Append(g[b - 1], b) ELSE <<b>> \o g[b - 1]
           To(n) == {g \in [0 .. n -> Seq(BlockNos)] : \A b \in 0 .. n : g[b] = Body(g, b)}
           Good == {n \in Nat : n <= BOOT2_END => To(n) # {}}
<1>0. BOOT2_END \in Nat /\ BlockNos = 1 .. BOOT2_END
  BY BootAssumption DEF BlockNos
<1>1. 0 \in Good
  <2>1. [b \in 0 .. 0 |-> <<>>] \in To(0)
    OBVIOUS
  <2> QED
    BY <2>1
<1>2. ASSUME NEW n \in Nat, n \in Good PROVE n + 1 \in Good
  <2> SUFFICES ASSUME n + 1 <= BOOT2_END PROVE To(n + 1) # {}
    OBVIOUS
  <2>1. PICK g \in [0 .. n -> Seq(BlockNos)] : \A b \in 0 .. n : g[b] = Body(g, b)
    BY <1>0, <1>2
  <2> DEFINE h == [b \in 0 .. n + 1 |-> IF b = n + 1 THEN Body(g, n + 1) ELSE g[b]]
  <2>2. Body(g, n + 1) \in Seq(BlockNos)
    <3>1. g[(n + 1) - 1] \in Seq(BlockNos) /\ n + 1 \in BlockNos
      BY <1>0
    <3>2. Append(g[(n + 1) - 1], n + 1) \in Seq(BlockNos)
      BY <3>1
    <3>3. <<n + 1>> \o g[(n + 1) - 1] \in Seq(BlockNos)
      <4>1. <<n + 1>> \in Seq(BlockNos)
        BY <3>1
      <4> QED
        BY <3>1, <4>1
    <3>4. <<>> \in Seq(BlockNos)
      OBVIOUS
    <3> QED
      BY <3>1, <3>2, <3>3, <3>4
  <2>3. h \in [0 .. n + 1 -> Seq(BlockNos)]
    BY <2>1, <2>2
  <2>4. ASSUME NEW b \in 0 .. n + 1 PROVE h[b] = Body(h, b)
    <3>1. CASE b = n + 1
      <4>1. h[(n + 1) - 1] = g[(n + 1) - 1] /\ h[n + 1] = Body(g, n + 1)
        OBVIOUS
      <4>2. Body(h, n + 1) = Body(g, n + 1)
        BY <4>1
      <4> QED
        BY <3>1, <4>1, <4>2
    <3>2. CASE b # n + 1
      <4>0. b \in 0 .. n
        BY <3>2
      <4>1. b \in 0 .. n /\ h[b] = g[b] /\ g[b] = Body(g, b)
        <5>1. g[b] = Body(g, b)
          BY <2>1, <4>0, Zenon
        <5>2. h[b] = g[b]
          <6> HIDE DEF Body
          <6> QED
            BY <3>2
        <5> QED
          BY <4>0, <5>1, <5>2, Zenon
      <4>2. b # 0 => h[b - 1] = g[b - 1]
        BY <4>1
      <4>3. Body(h, b) = Body(g, b)
        BY <4>2
      <4> QED
        BY <4>1, <4>3
    <3> QED
      BY <3>1, <3>2
  <2> HIDE DEF h, Body
  <2> QED
    BY <2>3, <2>4
<1>3. To(BOOT2_END) # {}
  <2> HIDE DEF Good, To
  <2>1. \A n \in Nat : n \in Good
    BY <1>1, <1>2, NatInduct
  <2> QED
    BY <1>0, <2>1 DEF Good
<1>4. PICK g \in [0 .. BOOT2_END -> Seq(BlockNos)] : \A b \in 0 .. BOOT2_END : g[b] = Body(g, b)
  BY <1>3
<1>5. g = [b \in 0 .. BOOT2_END |-> Body(g, b)]
  BY <1>4, SMTT(30)
<1> DEFINE f == CHOOSE f : f = [b \in 0 .. BOOT2_END |-> Body(f, b)]
<1>6. f = [b \in 0 .. BOOT2_END |-> Body(f, b)]
  BY <1>5
<1>7. boot2_blocks(map, copy) = f[BOOT2_END]
  BY DEF boot2_blocks
<1>8. \A b \in 0 .. BOOT2_END : f[b] = Body(f, b)
  <2> HIDE DEF f
  <2> QED
    BY <1>6
<1> DEFINE Typed == {n \in Nat : n <= BOOT2_END => f[n] \in Seq(BlockNos)}
<1> HIDE DEF f
<1>9. 0 \in Typed
  <2>1. f[0] = <<>>
    <3>1. 0 \in 0 .. BOOT2_END
      BY <1>0
    <3>2. f[0] = Body(f, 0)
      BY <1>8, <3>1, Zenon
    <3> QED
      BY <3>2, Zenon
  <2>2. 0 \in Nat /\ f[0] \in Seq(BlockNos)
    BY <2>1
  <2> QED
    BY <2>2
<1>10. ASSUME NEW n \in Nat, n \in Typed PROVE n + 1 \in Typed
  <2> SUFFICES ASSUME n + 1 <= BOOT2_END PROVE f[n + 1] \in Seq(BlockNos)
    OBVIOUS
  <2>1. f[(n + 1) - 1] \in Seq(BlockNos) /\ n + 1 \in BlockNos
    BY <1>0, <1>10
  <2>2. Append(f[(n + 1) - 1], n + 1) \in Seq(BlockNos)
    BY <2>1
  <2>3. <<n + 1>> \o f[(n + 1) - 1] \in Seq(BlockNos)
    <3>1. <<n + 1>> \in Seq(BlockNos)
      BY <2>1
    <3> QED
      BY <2>1, <3>1
  <2>4. f[n + 1] = Body(f, n + 1)
    BY <1>8
  <2> QED
    BY <2>1, <2>2, <2>3, <2>4
<1>11. BOOT2_END \in Typed
  <2> HIDE DEF Typed
  <2> QED
    BY <1>0, <1>9, <1>10, NatInduct
<1> QED
  BY <1>0, <1>7, <1>11

\* A page of boot2 is in the block of the list it belongs to.
LEMMA BootPage ==
  ASSUME NEW blocks \in Seq(BlockNos), NEW p \in Nat, p < Len(blocks) * BLOCK_SIZE
  PROVE  boot2_page_translate(blocks, p) \in Pages
<1>0. /\ BLOCK_SIZE \in Nat /\ BLOCK_SIZE > 0 /\ BOOT2_END \in Nat /\ Len(blocks) \in Nat
      /\ BlockNos = 1 .. BOOT2_END
  BY BootAssumption DEF BlockNos
<1>1. PICK q \in Nat : q = p \div BLOCK_SIZE
  BY <1>0
<1>9. PICK r \in Nat : r = p % BLOCK_SIZE /\ r < BLOCK_SIZE
  <2>1. p % BLOCK_SIZE \in Nat /\ p % BLOCK_SIZE < BLOCK_SIZE
    BY <1>0
  <2> QED
    BY <2>1
<1>10. p = q * BLOCK_SIZE + r
  <2>1. p = (p \div BLOCK_SIZE) * BLOCK_SIZE + (p % BLOCK_SIZE)
    BY <1>0
  <2> QED
    BY <1>1, <1>9, <2>1
<1>2. q < Len(blocks)
  <2> SUFFICES ASSUME q >= Len(blocks) PROVE FALSE
    BY <1>0
  <2>1. Len(blocks) * BLOCK_SIZE <= q * BLOCK_SIZE /\ q * BLOCK_SIZE \in Nat
    BY <1>0, BootTimes
  <2> QED
    BY <1>0, <1>9, <1>10, <2>1
<1>3. blocks[1 + q] \in BlockNos
  BY <1>0, <1>2
<1>4. PICK b \in Nat : b = blocks[1 + q] /\ b <= BOOT2_END
  BY <1>0, <1>3
<1>5. b * BLOCK_SIZE <= BOOT2_END * BLOCK_SIZE /\ b * BLOCK_SIZE \in Nat
  BY <1>0, <1>4, BootTimes
<1>6. (BOOT2_END + 1) * BLOCK_SIZE = BOOT2_END * BLOCK_SIZE + BLOCK_SIZE
  BY <1>0
<1>7. BOOT2_END * BLOCK_SIZE \in Nat
  BY <1>0
<1>8. b * BLOCK_SIZE + r \in 0 .. (BOOT2_END + 1) * BLOCK_SIZE - 1
  BY <1>0, <1>5, <1>6, <1>7, <1>9, SMTT(30)
<1> QED
  BY <1>1, <1>4, <1>8, <1>9 DEF boot2_page_translate, Pages

\* So is the last page of each block, which holds the maps.
LEMMA BootMapPage ==
  ASSUME NEW b \in BlockNos
  PROVE  (b + 1) * BLOCK_SIZE - 1 \in Pages
<1>0. /\ BLOCK_SIZE \in Nat /\ BLOCK_SIZE > 0 /\ BOOT2_END \in Nat
      /\ b \in Nat /\ b <= BOOT2_END
  BY BootAssumption DEF BlockNos
<1>1. /\ (b + 1) * BLOCK_SIZE <= (BOOT2_END + 1) * BLOCK_SIZE
      /\ (b + 1) * BLOCK_SIZE \in Nat /\ (BOOT2_END + 1) * BLOCK_SIZE \in Nat
  BY <1>0, BootTimes
<1>2. (b + 1) * BLOCK_SIZE = b * BLOCK_SIZE + BLOCK_SIZE /\ b * BLOCK_SIZE \in Nat
  BY <1>0
<1> QED
  BY <1>0, <1>1, <1>2 DEF Pages

-----------------------------------------------------------------------------
(***************************************************************************)
(* boot2_load.                                                             *)
(***************************************************************************)

Loads == [copy : {0, 1}, block : Nat, best : Maps, found : BOOLEAN, blocks : Seq(BlockNos),
          pages_read : Nat, goal : Nat, page : Nat]
MapPcs == {"maps", "maps_wait"}
ReadPcs == {"read", "read_wait", "loaded"}

BootTyped ==
  /\ chip \in Chips /\ irq_flag \in BOOLEAN /\ flips \in Nat
  /\ nand \in [page : Pages \cup {-1}, irq : BOOLEAN]
  /\ pc \in MapPcs \cup ReadPcs \cup {"failed"}
  /\ load \in Loads /\ boot2 \in Seq(SUBSET Bits)

\* The page in memory is as it is stored, or is refused.
BufferRight ==
  /\ nand_correct(buffer).ok => nand_correct(buffer).data = Stored(buffer.page)
  /\ flips = 0 => nand_correct(buffer).ok

\* The page that is waited for is being read, or it is there and either the
\* interrupt or the flag says so; and there is no page that is not waited for.
PageInv ==
  /\ Waits =>
       /\ load.page \in Pages
       /\ \/ nand.page = load.page /\ ~ nand.irq /\ ~ irq_flag
          \/ /\ nand.page = -1 /\ buffer.page = load.page /\ BufferRight
             /\ nand.irq <=> ~ irq_flag
  /\ ~ Waits => nand.page = -1 /\ ~ nand.irq

\* The maps of a block that agree are no newer than the best one.
Known(b) ==
  \A i, j \in 1 .. 3 :
    i # j /\ chip.maps[b][i] = chip.maps[b][j] /\ chip.maps[b][i].sig =>
      chip.maps[b][i].gen <= load.best.gen

MapInv ==
  /\ pc \in MapPcs => load.block > 0 /\ load.pages_read = 0
  /\ pc = "maps_wait" => load.block <= BOOT2_END
  /\ pc \in MapPcs /\ flips = 0 => \A b \in BlockNos : b < load.block => Known(b)
  /\ pc \in ReadPcs /\ flips = 0 => \A b \in BlockNos : Known(b)

\* What was loaded is in the order of the blocks, and no counter wraps.
LoadInv ==
  /\ pc \in ReadPcs =>
       /\ Len(boot2) = load.pages_read
       /\ \A i \in 1 .. Len(boot2) :
            boot2[i] = Stored(boot2_page_translate(load.blocks, i - 1))
       /\ load.pages_read <= load.goal /\ load.goal < PageWord
  /\ pc = "read_wait" =>
       /\ load.pages_read < load.goal
       /\ load.page = boot2_page_translate(load.blocks, load.pages_read)

BootInv == BootTyped /\ PageInv /\ MapInv /\ LoadInv

LEMMA BootStart ==
  ASSUME NEW copy \in {0, 1}
  PROVE  /\ StartLoad(copy) \in Loads /\ StartLoad(copy).block = 1
         /\ StartLoad(copy).pages_read = 0
<1>1. NoMap \in Maps /\ <<>> \in Seq(BlockNos)
  BY DEF NoMap, Maps
<1> QED
  BY <1>1 DEF StartLoad, Loads

LEMMA BootInitInv == BootInit => BootInv
<1> SUFFICES ASSUME BootInit PROVE BootInv
  OBVIOUS
<1>1. /\ chip \in Chips /\ nand = [page |-> -1, irq |-> FALSE] /\ irq_flag = FALSE
      /\ pc = "maps" /\ load = StartLoad(0) /\ boot2 = <<>> /\ flips = 0
  BY DEF BootInit
<1>2. load \in Loads /\ load.block = 1 /\ load.pages_read = 0
  BY <1>1, BootStart
<1>3. BootTyped
  <2>1. nand \in [page : Pages \cup {-1}, irq : BOOLEAN]
    BY <1>1
  <2>2. boot2 \in Seq(SUBSET Bits)
    BY <1>1
  <2>3. pc \in MapPcs \cup ReadPcs \cup {"failed"}
    BY <1>1 DEF MapPcs
  <2> QED
    BY <1>1, <1>2, <2>1, <2>2, <2>3 DEF BootTyped
<1>4. PageInv
  BY <1>1 DEF PageInv, Waits
<1>5. MapInv
  BY <1>1, <1>2 DEF MapInv, MapPcs, ReadPcs, BlockNos
<1>6. LoadInv
  BY <1>1 DEF LoadInv, ReadPcs
<1> QED
  BY <1>3, <1>4, <1>5, <1>6 DEF BootInv

\* A step that leaves the search, the list and what was loaded as they are.
LEMMA BootQuiet ==
  ASSUME BootInv, UNCHANGED <<chip, pc, load, boot2>>, flips' \in Nat, flips' = 0 => flips = 0
  PROVE  MapInv' /\ LoadInv'
<1>1. MapInv'
  BY DEF BootInv, MapInv, Known
<1>2. LoadInv'
  BY DEF BootInv, LoadInv, Stored
<1> QED
  BY <1>1, <1>2

LEMMA BootPageRead ==
  ASSUME BootInv, PageRead
  PROVE  BootInv'
<1>1. /\ nand.page # -1 /\ nand' = [page |-> -1, irq |-> TRUE]
      /\ UNCHANGED <<chip, irq_flag, waiting, pc, load, boot2>>
  BY DEF PageRead
<1>2. PICK wrong \in {[data |-> {}, code |-> {}]} \cup Misreads :
        /\ flips' = flips + Cardinality(wrong.data) + Cardinality(wrong.code)
        /\ buffer' = [page |-> nand.page, data |-> Xor(Stored(nand.page), wrong.data),
                      ecc |-> Xor(Code(Stored(nand.page)), wrong.code)]
  BY DEF PageRead
<1>3. /\ Waits /\ nand.page = load.page /\ load.page \in Pages /\ ~ irq_flag
  BY <1>1 DEF BootInv, PageInv
<1>4. Stored(nand.page) \in SUBSET Bits
  <2>1. chip \in Chips
    BY DEF BootInv, BootTyped
  <2>2. chip.pages \in [Pages -> SUBSET Bits]
    BY <2>1, BootAssumption
  <2> QED
    BY <1>3, <2>2 DEF Stored
<1>5. PICK wd \in SUBSET Bits, wc \in SUBSET CodeBits :
        wd = wrong.data /\ wc = wrong.code /\ Cardinality(wd) + Cardinality(wc) <= 2
  <2>1. CASE wrong = [data |-> {}, code |-> {}]
    <3>1. wrong.data = {} /\ wrong.code = {} /\ Cardinality({}) = 0
      BY <2>1, FS_EmptySet
    <3>2. {} \in SUBSET Bits /\ {} \in SUBSET CodeBits /\ Cardinality({}) + Cardinality({}) <= 2
      BY <3>1
    <3> QED
      BY <3>1, <3>2
  <2>2. CASE wrong \in Misreads
    BY <2>2, BootAssumption
  <2> QED
    BY <1>2, <2>1, <2>2
<1>6. Cardinality(wd) \in Nat /\ Cardinality(wc) \in Nat
  BY ECCSets, FS_Subset, FS_CardinalityType
<1>7. /\ nand_correct(buffer').ok => nand_correct(buffer').data = Stored(nand.page)
      /\ wd = {} /\ wc = {} => nand_correct(buffer').ok
  <2>1. PICK D \in SUBSET Bits : D = Stored(nand.page)
    BY <1>4
  <2>2. PICK page : page = buffer'
    OBVIOUS
  <2>3. page.data = Xor(D, wd) /\ page.ecc = Xor(Code(D), wc)
    BY <1>2, <1>5, <2>1, <2>2
  <2>4. /\ nand_correct(page).ok => nand_correct(page).data = D
        /\ wd = {} /\ wc = {} => nand_correct(page).ok
    BY <1>5, <2>3, ECCRight
  <2> QED
    BY <2>1, <2>2, <2>4
<1>8. flips \in Nat /\ flips' \in Nat /\ (flips' = 0 => flips = 0)
  BY <1>2, <1>5, <1>6 DEF BootInv, BootTyped
<1>9. flips' = 0 => wd = {} /\ wc = {}
  <2>1. flips' = 0 => Cardinality(wd) = 0 /\ Cardinality(wc) = 0
    BY <1>2, <1>5, <1>6, <1>8
  <2>2. IsFiniteSet(wd) /\ IsFiniteSet(wc)
    BY ECCSets, FS_Subset
  <2> QED
    BY <2>1, <2>2, FS_EmptySet
<1>10. Stored(buffer.page)' = Stored(nand.page)
  BY <1>1, <1>2 DEF Stored
<1>11. BufferRight'
  BY <1>7, <1>9, <1>10 DEF BufferRight
<1>12. BootTyped'
  BY <1>1, <1>8 DEF BootInv, BootTyped
<1>13. PageInv'
  BY <1>1, <1>2, <1>3, <1>11 DEF PageInv, Waits
<1> QED
  BY <1>1, <1>8, <1>12, <1>13, BootQuiet DEF BootInv

LEMMA BootIrq ==
  ASSUME BootInv, nand_irq \/ nand_wait
  PROVE  BootInv'
<1>1. CASE nand_irq
  <2>1. /\ nand.irq /\ nand' = [nand EXCEPT !.irq = FALSE] /\ irq_flag' = TRUE
        /\ UNCHANGED <<chip, waiting, buffer, pc, load, boot2, flips>>
    BY <1>1 DEF nand_irq
  <2>2. BootTyped'
    BY <2>1 DEF BootInv, BootTyped
  <2>3. nand'.page = nand.page /\ nand'.irq = FALSE
    BY <2>1 DEF BootInv, BootTyped
  <2>4. BufferRight => BufferRight'
    BY <2>1 DEF BufferRight, Stored
  <2>5. PageInv'
    BY <2>1, <2>3, <2>4 DEF BootInv, PageInv, Waits
  <2> QED
    BY <2>1, <2>2, <2>5, BootQuiet DEF BootInv, BootTyped
<1>2. CASE nand_wait
  <2>1. UNCHANGED <<chip, nand, irq_flag, buffer, pc, load, boot2, flips>>
    BY <1>2 DEF nand_wait
  <2>2. BootTyped'
    BY <2>1 DEF BootInv, BootTyped
  <2>3. BufferRight => BufferRight'
    BY <2>1 DEF BufferRight, Stored
  <2>4. PageInv'
    BY <2>1, <2>3 DEF BootInv, PageInv, Waits
  <2> QED
    BY <2>1, <2>2, <2>4, BootQuiet DEF BootInv, BootTyped
<1> QED
  BY <1>1, <1>2

\* What a page that is there says.
LEMMA BootThere ==
  ASSUME BootInv, Waits, WaitOver
  PROVE  /\ nand.page = -1 /\ ~ nand.irq /\ buffer.page = load.page /\ BufferRight
BY DEF BootInv, PageInv, WaitOver

LEMMA BootReadMap ==
  ASSUME BootInv, ReadMap
  PROVE  BootInv'
<1>0. load \in Loads /\ nand \in [page : Pages \cup {-1}, irq : BOOLEAN] /\ BOOT2_END \in Nat
  BY BootAssumption DEF BootInv, BootTyped
<1>1. /\ pc = "maps" /\ load.block <= BOOT2_END /\ pc' = "maps_wait" /\ irq_flag' = FALSE
      /\ UNCHANGED <<chip, waiting, buffer, boot2, flips>> /\ load.block \in BlockNos
  BY <1>0 DEF ReadMap, nand_read_page, BootInv, MapInv, MapPcs, Loads, BlockNos
<1>2. PICK page \in Pages : /\ nand' = [nand EXCEPT !.page = page]
                            /\ load' = [load EXCEPT !.page = page]
  <2>1. (load.block + 1) * BLOCK_SIZE - 1 \in Pages
    BY <1>1, BootMapPage
  <2> QED
    BY <2>1 DEF ReadMap, nand_read_page
<1>3. page \in Nat
  BY DEF Pages
<1>4. /\ load' \in Loads /\ load'.page = page /\ load'.block = load.block
      /\ load'.pages_read = load.pages_read /\ load'.best = load.best
  BY <1>0, <1>2, <1>3 DEF Loads
<1>5. /\ nand' \in [page : Pages \cup {-1}, irq : BOOLEAN] /\ nand'.page = page /\ ~ nand'.irq
  BY <1>0, <1>1, <1>2 DEF BootInv, PageInv, Waits
<1>6. BootTyped'
  BY <1>1, <1>4, <1>5 DEF BootInv, BootTyped, MapPcs
<1>7. PageInv'
  BY <1>1, <1>4, <1>5 DEF PageInv, Waits
<1>8. MapInv'
  BY <1>1, <1>4 DEF BootInv, MapInv, MapPcs, ReadPcs, Known
<1>9. LoadInv'
  BY <1>1 DEF LoadInv, ReadPcs
<1> QED
  BY <1>6, <1>7, <1>8, <1>9 DEF BootInv

\* find_valid_map finds two maps that are equal, if there are.
LEMMA BootOffered ==
  ASSUME NEW m \in [1 .. 3 -> Maps]
  PROVE  /\ find_valid_map(m) \in {0, 1, 2}
         /\ \A i, j \in 1 .. 3 :
              i # j /\ m[i] = m[j] /\ m[i].sig =>
                find_valid_map(m) # 0 /\ m[find_valid_map(m)] = m[i]
<1>1. find_valid_map(m) \in {0, 1, 2}
  BY DEF find_valid_map
<1>2. ASSUME NEW i \in 1 .. 3, NEW j \in 1 .. 3, i # j, m[i] = m[j], m[i].sig
      PROVE  find_valid_map(m) # 0 /\ m[find_valid_map(m)] = m[i]
  <2>1. CASE m[1].sig /\ (m[1] = m[2] \/ m[1] = m[3])
    <3>1. find_valid_map(m) = 1
      BY <2>1 DEF find_valid_map
    <3>2. m[1] = m[i]
      BY <1>2, <2>1
    <3> QED
      BY <3>1, <3>2
  <2>2. CASE ~ (m[1].sig /\ (m[1] = m[2] \/ m[1] = m[3]))
    <3>1. m[2].sig /\ m[2] = m[3] /\ m[i] = m[2]
      BY <1>2, <2>2
    <3>2. find_valid_map(m) = 2
      BY <2>2, <3>1 DEF find_valid_map
    <3> QED
      BY <3>1, <3>2
  <2> QED
    BY <2>1, <2>2
<1> QED
  BY <1>1, <1>2

LEMMA BootTakeMap ==
  ASSUME BootInv, TakeMap
  PROVE  BootInv'
<1>0. load \in Loads /\ chip \in Chips /\ BOOT2_END \in Nat /\ flips \in Nat
  BY BootAssumption DEF BootInv, BootTyped
<1>1. /\ pc = "maps_wait" /\ WaitOver /\ pc' = "maps" /\ Waits
      /\ UNCHANGED <<chip, nand, irq_flag, waiting, buffer, boot2, flips>>
  BY DEF TakeMap, Waits
<1>2. /\ load.block > 0 /\ load.block <= BOOT2_END /\ load.block \in BlockNos /\ load.block \in Nat
      /\ load.pages_read = 0
  BY <1>0, <1>1 DEF BootInv, MapInv, MapPcs, Loads, BlockNos
<1>3. nand.page = -1 /\ ~ nand.irq /\ (flips = 0 => nand_correct(buffer).ok)
  BY <1>1, BootThere DEF BufferRight
<1> DEFINE new == {m \in Offered(load.block) : Better(m)}
<1>4. PICK taken \in {new, {}} :
        /\ taken = new \/ ~ nand_correct(buffer).ok
        /\ load' = [load EXCEPT !.block = @ + 1, !.found = @ \/ taken # {},
                                !.best = IF taken = {} THEN @ ELSE CHOOSE m \in taken : TRUE]
  <2>1. PICK t \in (IF nand_correct(buffer).ok THEN {new} ELSE {new, {}}) :
          load' = [load EXCEPT !.block = @ + 1, !.found = @ \/ t # {},
                               !.best = IF t = {} THEN @ ELSE CHOOSE m \in t : TRUE]
    BY DEF TakeMap
  <2>2. t \in {new, {}} /\ (t = new \/ ~ nand_correct(buffer).ok)
    BY <2>1
  <2> QED
    BY <2>1, <2>2
<1>5. PICK maps \in [1 .. 3 -> Maps] : maps = chip.maps[load.block]
  BY <1>0, <1>2, BootAssumption
<1>6. PICK v \in {0, 1, 2} : v = find_valid_map(maps)
  BY BootOffered
<1>7. /\ v = 0 => Offered(load.block) = {}
      /\ v # 0 => Offered(load.block) = {maps[v]} /\ maps[v] \in Maps
  BY <1>5, <1>6 DEF Offered
\* The best map is as it was, or it is the one of this block, which is no older.
<1>8. \/ /\ load' = [load EXCEPT !.block = load.block + 1, !.found = load.found \/ FALSE,
                                 !.best = load.best]
         /\ flips = 0 /\ v # 0 => ~ (maps[v].gen >= load.best.gen)
      \/ /\ load' = [load EXCEPT !.block = load.block + 1, !.found = load.found \/ TRUE,
                                 !.best = maps[v]]
         /\ v # 0 /\ maps[v].gen >= load.best.gen
  <2>1. CASE taken = {}
    <3>1. taken # {} <=> FALSE
      BY <2>1
    <3>2. load' = [load EXCEPT !.block = load.block + 1, !.found = load.found \/ FALSE,
                               !.best = load.best]
      BY <1>4, <2>1
    <3>3. ASSUME flips = 0, v # 0 PROVE ~ (maps[v].gen >= load.best.gen)
      <4>1. new = {}
        BY <1>3, <1>4, <2>1, <3>3
      <4> QED
        BY <1>7, <3>3, <4>1 DEF Better
    <3> QED
      BY <3>2, <3>3
  <2>2. CASE taken # {}
    <3>1. taken = new
      BY <1>4, <2>2
    <3>2. v # 0 /\ taken = {maps[v]} /\ Better(maps[v])
      BY <1>7, <2>2, <3>1
    <3>3. (CHOOSE m \in taken : TRUE) = maps[v]
      BY <3>2
    <3>4. load' = [load EXCEPT !.block = load.block + 1, !.found = load.found \/ TRUE,
                               !.best = maps[v]]
      BY <1>4, <2>2, <3>3
    <3> QED
      BY <3>2, <3>4 DEF Better
  <2> QED
    BY <2>1, <2>2
<1> HIDE DEF new
<1>9. PICK best \in Maps, f \in BOOLEAN :
        /\ load' = [load EXCEPT !.block = load.block + 1, !.found = f, !.best = best]
        /\ best.gen >= load.best.gen
        /\ flips = 0 /\ v # 0 => best.gen >= maps[v].gen
  <2>0. load.best \in Maps /\ load.best.gen \in Nat /\ load.found \in BOOLEAN
    BY <1>0 DEF Loads, Maps
  <2>1. v # 0 => maps[v] \in Maps /\ maps[v].gen \in Nat
    BY <1>7 DEF Maps
  <2>2. CASE /\ load' = [load EXCEPT !.block = load.block + 1, !.found = load.found \/ FALSE,
                                     !.best = load.best]
             /\ flips = 0 /\ v # 0 => ~ (maps[v].gen >= load.best.gen)
    <3>1. (load.found \/ FALSE) \in BOOLEAN
      OBVIOUS
    <3>2. load.best.gen >= load.best.gen
      BY <2>0
    <3>3. flips = 0 /\ v # 0 => load.best.gen >= maps[v].gen
      BY <2>0, <2>1, <2>2
    <3> QED
      BY <2>0, <2>2, <3>1, <3>2, <3>3, Zenon
  <2>3. CASE /\ load' = [load EXCEPT !.block = load.block + 1, !.found = load.found \/ TRUE,
                                     !.best = maps[v]]
             /\ v # 0 /\ maps[v].gen >= load.best.gen
    <3>1. (load.found \/ TRUE) \in BOOLEAN
      OBVIOUS
    <3>2. maps[v].gen >= maps[v].gen
      BY <2>1, <2>3
    <3> QED
      BY <2>1, <2>3, <3>1, <3>2, Zenon
  <2> QED
    BY <1>8, <2>2, <2>3
<1>10. /\ load' \in Loads /\ load'.block = load.block + 1 /\ load'.best = best
       /\ load'.pages_read = load.pages_read
  <2>1. load.block + 1 \in Nat
    BY <1>2
  <2> QED
    BY <1>0, <1>9, <2>1 DEF Loads
<1>11. BootTyped'
  BY <1>1, <1>10 DEF BootInv, BootTyped, MapPcs
<1>12. PageInv'
  BY <1>1, <1>3 DEF PageInv, Waits
<1>13. MapInv'
  <2>1. ASSUME flips' = 0, NEW b \in BlockNos, b < load'.block PROVE Known(b)'
    <3>1. best.gen \in Nat /\ load.best.gen \in Nat /\ chip' = chip
      BY <1>0, <1>1 DEF Loads, Maps
    <3>2. CASE b = load.block
      <4>1. ASSUME NEW i \in 1 .. 3, NEW j \in 1 .. 3, i # j, maps[i] = maps[j], maps[i].sig
            PROVE  maps[i].gen <= best.gen
        <5>1. v # 0 /\ maps[v] = maps[i]
          BY <1>6, <4>1, BootOffered
        <5>2. maps[i].gen \in Nat
          BY DEF Maps
        <5> QED
          BY <1>1, <1>9, <2>1, <3>1, <5>1, <5>2
      <4> QED
        BY <1>5, <1>10, <3>1, <3>2, <4>1 DEF Known
    <3>3. CASE b # load.block
      <4>1. b < load.block
        BY <1>2, <1>10, <2>1, <3>3 DEF BlockNos
      <4>2. Known(b)
        BY <1>1, <2>1, <4>1 DEF BootInv, MapInv, MapPcs
      <4>3. PICK ms \in [1 .. 3 -> Maps] : ms = chip.maps[b]
        BY <1>0, BootAssumption
      <4>4. \A i \in 1 .. 3 : ms[i].gen \in Nat
        BY DEF Maps
      <4>5. \A i, j \in 1 .. 3 : i # j /\ ms[i] = ms[j] /\ ms[i].sig => ms[i].gen <= best.gen
        BY <1>9, <3>1, <4>2, <4>3, <4>4 DEF Known
      <4> QED
        BY <1>10, <3>1, <4>3, <4>5 DEF Known
    <3> QED
      BY <3>2, <3>3
  <2> QED
    BY <1>1, <1>2, <1>10, <2>1 DEF MapInv, MapPcs, ReadPcs
<1>14. LoadInv'
  BY <1>1 DEF LoadInv, ReadPcs
<1> QED
  BY <1>11, <1>12, <1>13, <1>14 DEF BootInv

\* The other copy is tried from the start.
LEMMA BootFail ==
  ASSUME BootInv, Fail, nand.page = -1, ~ nand.irq
  PROVE  BootInv'
<1>1. /\ load' = StartLoad(1) /\ boot2' = <<>> /\ pc' \in {"maps", "failed"}
      /\ UNCHANGED <<chip, nand, irq_flag, waiting, buffer, flips>>
  BY DEF Fail
<1>2. load' \in Loads /\ load'.block = 1 /\ load'.pages_read = 0
  BY <1>1, BootStart
<1>3. BootTyped'
  <2>1. boot2' \in Seq(SUBSET Bits)
    BY <1>1
  <2> QED
    BY <1>1, <1>2, <2>1 DEF BootInv, BootTyped, MapPcs
<1>4. PageInv'
  BY <1>1 DEF PageInv, Waits
<1>5. MapInv'
  <2>1. \A b \in BlockNos : ~ (b < 1)
    BY DEF BlockNos
  <2> QED
    BY <1>1, <1>2, <2>1 DEF MapInv, MapPcs, ReadPcs
<1>6. LoadInv'
  BY <1>1 DEF LoadInv, ReadPcs
<1> QED
  BY <1>3, <1>4, <1>5, <1>6 DEF BootInv

LEMMA BootCollect ==
  ASSUME BootInv, Collect
  PROVE  BootInv'
<1>0. load \in Loads /\ pc = "maps" /\ load.block > BOOT2_END /\ BOOT2_END \in Nat
      /\ chip \in Chips
  BY BootAssumption DEF BootInv, BootTyped, Collect
<1>1. nand.page = -1 /\ ~ nand.irq
  BY <1>0 DEF BootInv, PageInv, Waits
<1>2. CASE Fail
  BY <1>1, <1>2, BootFail
<1>3. CASE /\ load' = [load EXCEPT !.blocks = boot2_blocks(load.best, load.copy), !.goal = 1]
           /\ boot2' = <<>> /\ pc' = "read"
           /\ UNCHANGED <<chip, nand, irq_flag, waiting, buffer, flips>>
  <2>1. PICK blocks \in Seq(BlockNos) : blocks = boot2_blocks(load.best, load.copy)
    BY BootBlocks
  <2>2. /\ load' \in Loads /\ load'.goal = 1 /\ load'.pages_read = load.pages_read
        /\ load'.best = load.best
    BY <1>0, <1>3, <2>1 DEF Loads
  <2>3. load.pages_read = 0
    BY <1>0 DEF BootInv, MapInv, MapPcs
  <2>4. BootTyped'
    <3>1. boot2' \in Seq(SUBSET Bits)
      BY <1>3
    <3> QED
      BY <1>3, <2>2, <3>1 DEF BootInv, BootTyped, ReadPcs
  <2>5. PageInv'
    BY <1>1, <1>3 DEF PageInv, Waits
  <2>6. MapInv'
    <3>1. \A b \in BlockNos : b < load.block
      BY <1>0 DEF BlockNos, Loads
    <3>2. flips = 0 => \A b \in BlockNos : Known(b)
      BY <1>0, <3>1 DEF BootInv, MapInv, MapPcs
    <3>3. flips' = 0 => \A b \in BlockNos : Known(b)'
      BY <1>3, <2>2, <3>2 DEF Known
    <3> QED
      BY <1>3, <3>3 DEF MapInv, MapPcs, ReadPcs
  <2>7. LoadInv'
    <3>1. 1 < PageWord
      BY <1>0, BootAssumption
    <3> QED
      BY <1>3, <2>2, <2>3, <3>1 DEF LoadInv, ReadPcs
  <2> QED
    BY <2>4, <2>5, <2>6, <2>7 DEF BootInv
<1> QED
  BY <1>2, <1>3 DEF Collect

LEMMA BootReadPage ==
  ASSUME BootInv, ReadPage
  PROVE  BootInv'
<1>0. load \in Loads /\ nand \in [page : Pages \cup {-1}, irq : BOOLEAN]
  BY DEF BootInv, BootTyped
<1>1. /\ pc = "read" /\ pc' = "read_wait" /\ irq_flag' = FALSE
      /\ load.goal <= Len(load.blocks) * BLOCK_SIZE /\ load.pages_read < load.goal
      /\ UNCHANGED <<chip, waiting, buffer, boot2, flips>>
  BY DEF ReadPage, nand_read_page
<1>2. PICK page \in Pages : /\ page = boot2_page_translate(load.blocks, load.pages_read)
                            /\ nand' = [nand EXCEPT !.page = page]
                            /\ load' = [load EXCEPT !.page = page]
  <2>1. PICK blocks \in Seq(BlockNos) : blocks = load.blocks
    BY <1>0 DEF Loads
  <2>2. PICK p \in Nat : p = load.pages_read /\ p < Len(blocks) * BLOCK_SIZE
    <3>1. load.pages_read \in Nat /\ load.goal \in Nat /\ Len(blocks) * BLOCK_SIZE \in Nat
      BY <1>0, BootAssumption DEF Loads
    <3> QED
      BY <1>1, <2>1, <3>1
  <2>3. boot2_page_translate(blocks, p) \in Pages
    BY <2>2, BootPage
  <2> QED
    BY <2>1, <2>2, <2>3 DEF ReadPage, nand_read_page
<1>3. page \in Nat
  BY DEF Pages
<1>4. /\ load' \in Loads /\ load'.page = page /\ load'.goal = load.goal
      /\ load'.pages_read = load.pages_read /\ load'.best = load.best
      /\ load'.blocks = load.blocks
  BY <1>0, <1>2, <1>3 DEF Loads
<1>5. /\ nand' \in [page : Pages \cup {-1}, irq : BOOLEAN] /\ nand'.page = page /\ ~ nand'.irq
  BY <1>0, <1>1, <1>2 DEF BootInv, PageInv, Waits
<1>6. BootTyped'
  BY <1>1, <1>4, <1>5 DEF BootInv, BootTyped, ReadPcs
<1>7. PageInv'
  BY <1>1, <1>4, <1>5 DEF PageInv, Waits
<1>8. MapInv'
  BY <1>1, <1>4 DEF BootInv, MapInv, MapPcs, ReadPcs, Known
<1>9. LoadInv'
  BY <1>1, <1>2, <1>4 DEF BootInv, LoadInv, ReadPcs, Stored
<1> QED
  BY <1>6, <1>7, <1>8, <1>9 DEF BootInv

LEMMA BootMod ==
  ASSUME NEW n \in Nat, NEW m \in Nat, n < m
  PROVE  n % m = n
  OBVIOUS

LEMMA BootTakePage ==
  ASSUME BootInv, TakePage
  PROVE  BootInv'
<1>0. /\ load \in Loads /\ boot2 \in Seq(SUBSET Bits) /\ chip \in Chips
      /\ PageWord \in Nat /\ 0 < PageWord
  BY BootAssumption DEF BootInv, BootTyped
<1>1. pc = "read_wait" /\ WaitOver /\ Waits
  BY DEF TakePage, Waits
<1>2. /\ nand.page = -1 /\ ~ nand.irq /\ buffer.page = load.page
      /\ nand_correct(buffer).ok => nand_correct(buffer).data = Stored(load.page)
  BY <1>1, BootThere DEF BufferRight
<1>3. CASE Fail
  BY <1>2, <1>3, BootFail
<1>4. CASE /\ nand_correct(buffer).ok
           /\ boot2' = Append(boot2, nand_correct(buffer).data)
           /\ load' = [load EXCEPT !.pages_read = (@ + 1) % PageWord]
           /\ pc' = "read"
           /\ UNCHANGED <<chip, nand, irq_flag, waiting, buffer, flips>>
  <2>1. /\ Len(boot2) = load.pages_read /\ load.pages_read < load.goal /\ load.goal < PageWord
        /\ load.page = boot2_page_translate(load.blocks, load.pages_read)
        /\ \A i \in 1 .. Len(boot2) :
             boot2[i] = Stored(boot2_page_translate(load.blocks, i - 1))
        /\ load.page \in Pages
    BY <1>1 DEF BootInv, LoadInv, PageInv, ReadPcs
  <2>2. load.pages_read \in Nat /\ load.goal \in Nat
    BY <1>0 DEF Loads
  <2>3. (load.pages_read + 1) % PageWord = load.pages_read + 1
    <3>1. load.pages_read + 1 \in Nat /\ load.pages_read + 1 < PageWord
      BY <1>0, <2>1, <2>2
    <3> QED
      BY <1>0, <3>1, BootMod
  <2>4. /\ load' \in Loads /\ load'.pages_read = load.pages_read + 1 /\ load'.goal = load.goal
        /\ load'.blocks = load.blocks /\ load'.best = load.best
    <3>1. load' = [load EXCEPT !.pages_read = load.pages_read + 1]
      BY <1>4, <2>3
    <3> QED
      BY <1>0, <2>2, <3>1, SMTT(30) DEF Loads
  <2>5. PICK d \in SUBSET Bits : d = Stored(load.page) /\ boot2' = Append(boot2, d)
    <3>1. chip.pages \in [Pages -> SUBSET Bits]
      BY <1>0, BootAssumption
    <3>2. Stored(load.page) \in SUBSET Bits
      BY <2>1, <3>1 DEF Stored
    <3> QED
      BY <1>2, <1>4, <3>2
  <2>6. /\ boot2' \in Seq(SUBSET Bits) /\ Len(boot2') = Len(boot2) + 1
        /\ boot2'[Len(boot2) + 1] = d /\ \A i \in 1 .. Len(boot2) : boot2'[i] = boot2[i]
    BY <1>0, <2>5
  <2>7. BootTyped'
    BY <1>4, <2>4, <2>6 DEF BootInv, BootTyped, ReadPcs
  <2>8. PageInv'
    BY <1>2, <1>4 DEF PageInv, Waits
  <2>9. MapInv'
    BY <1>1, <1>4, <2>4 DEF BootInv, MapInv, MapPcs, ReadPcs, Known
  <2>10. LoadInv'
    <3>1. ASSUME NEW i \in 1 .. Len(boot2')
          PROVE  boot2'[i] = Stored(boot2_page_translate(load.blocks, i - 1))
      <4>1. CASE i = Len(boot2) + 1
        <5>1. i - 1 = load.pages_read
          BY <2>1, <2>2, <4>1
        <5> QED
          BY <2>1, <2>5, <2>6, <4>1, <5>1
      <4>2. CASE i # Len(boot2) + 1
        <5>1. i \in 1 .. Len(boot2)
          BY <1>0, <2>6, <4>2
        <5> QED
          BY <2>1, <2>6, <5>1
      <4> QED
        BY <4>1, <4>2
    <3>3. \A i \in 1 .. Len(boot2') :
            boot2'[i] = Stored(boot2_page_translate(load.blocks, i - 1))'
      BY <1>4, <2>4, <3>1 DEF Stored
    <3>4. /\ Len(boot2') = load'.pages_read /\ load'.pages_read <= load'.goal
          /\ load'.goal < PageWord
      BY <2>1, <2>2, <2>4, <2>6
    <3> QED
      BY <1>4, <3>3, <3>4 DEF LoadInv
  <2> QED
    BY <2>7, <2>8, <2>9, <2>10 DEF BootInv
<1> QED
  BY <1>3, <1>4 DEF TakePage

LEMMA BootNextGoal ==
  ASSUME BootInv, NextGoal
  PROVE  BootInv'
<1>0. load \in Loads /\ chip \in Chips /\ pc = "read" /\ load.pages_read >= load.goal
  BY DEF BootInv, BootTyped, NextGoal
<1>1. nand.page = -1 /\ ~ nand.irq
  BY <1>0 DEF BootInv, PageInv, Waits
<1>2. CASE Fail
  BY <1>1, <1>2, BootFail
<1>3. CASE /\ load.goal = 1 /\ chip.size > 1 /\ load' = [load EXCEPT !.goal = chip.size]
           /\ UNCHANGED <<chip, nand, irq_flag, waiting, buffer, pc, boot2, flips>>
  <2>1. chip.size \in Nat /\ chip.size < PageWord
    BY <1>0, BootAssumption
  <2>2. /\ load' \in Loads /\ load'.pages_read = load.pages_read /\ load'.goal = chip.size
        /\ load'.blocks = load.blocks /\ load'.best = load.best
    BY <1>0, <1>3, <2>1 DEF Loads
  <2>3. BootTyped'
    BY <1>3, <2>2 DEF BootInv, BootTyped
  <2>4. PageInv'
    BY <1>0, <1>1, <1>3 DEF PageInv, Waits
  <2>5. MapInv'
    BY <1>0, <1>3, <2>2 DEF BootInv, MapInv, MapPcs, ReadPcs, Known
  <2>6. LoadInv'
    <3>1. load.pages_read <= 1
      BY <1>0, <1>3 DEF BootInv, LoadInv, ReadPcs
    <3>2. load.pages_read <= chip.size
      BY <1>0, <1>3, <2>1, <3>1 DEF Loads
    <3> QED
      BY <1>0, <1>3, <2>1, <2>2, <3>2 DEF BootInv, LoadInv, ReadPcs, Stored
  <2> QED
    BY <2>3, <2>4, <2>5, <2>6 DEF BootInv
<1>4. CASE /\ pc' = "loaded"
           /\ UNCHANGED <<chip, nand, irq_flag, waiting, buffer, load, boot2, flips>>
  <2>1. BootTyped'
    BY <1>4 DEF BootInv, BootTyped, ReadPcs
  <2>2. PageInv'
    BY <1>1, <1>4 DEF PageInv, Waits
  <2>3. MapInv'
    BY <1>0, <1>4 DEF BootInv, MapInv, MapPcs, ReadPcs, Known
  <2>4. LoadInv'
    BY <1>0, <1>4 DEF BootInv, LoadInv, ReadPcs, Stored
  <2> QED
    BY <2>1, <2>2, <2>3, <2>4 DEF BootInv
<1> QED
  BY <1>2, <1>3, <1>4 DEF NextGoal

LEMMA BootNextInv ==
  ASSUME BootInv, [BootNext]_bootvars
  PROVE  BootInv'
<1>1. CASE UNCHANGED bootvars
  <2>1. UNCHANGED <<chip, nand, irq_flag, waiting, buffer, pc, load, boot2, flips>>
    BY <1>1 DEF bootvars
  <2>2. BufferRight => BufferRight'
    BY <2>1 DEF BufferRight, Stored
  <2>3. BootTyped' /\ PageInv'
    BY <2>1, <2>2 DEF BootInv, BootTyped, PageInv, Waits
  <2> QED
    BY <2>1, <2>3, BootQuiet DEF BootInv, BootTyped
<1>2. CASE read_to
  <2>1. nand.page = -1 /\ ~ nand.irq /\ Fail
    BY <1>2 DEF BootInv, PageInv, Waits, read_to
  <2> QED
    BY <2>1, BootFail
<1>3. CASE nand_irq \/ nand_wait
  BY <1>3, BootIrq
<1>4. CASE ReadMap
  BY <1>4, BootReadMap
<1>5. CASE TakeMap
  BY <1>5, BootTakeMap
<1>6. CASE Collect
  BY <1>6, BootCollect
<1>7. CASE ReadPage
  BY <1>7, BootReadPage
<1>8. CASE TakePage
  BY <1>8, BootTakePage
<1>9. CASE NextGoal
  BY <1>9, BootNextGoal
<1>10. CASE PageRead
  BY <1>10, BootPageRead
<1> QED
  BY <1>1, <1>2, <1>3, <1>4, <1>5, <1>6, <1>7, <1>8, <1>9, <1>10 DEF BootNext, Boot2Load

\* Of every NAND chip whose pages are never read with more than two wrong bits, codes
\* of any width above 2 and any number and size of blocks: a page is looked at only
\* when the chip has finished it, boot2 is loaded as it is stored, page for page in
\* the order of the block map, also when the first copy failed half-way, and the
\* map is the newest that two copies agree on (boot2_load, nand.c).
THEOREM BootIsRight == BootInit /\ [][BootNext]_bootvars => []BootRight
<1>1. BootInv => BootRight
  <2> SUFFICES ASSUME BootInv PROVE BootRight
    OBVIOUS
  <2>1. PageIsReady
    BY BootThere DEF PageIsReady, WaitOver
  <2>2. LoadedRight
    BY DEF LoadedRight, BootInv, LoadInv, ReadPcs
  <2>3. NewestMap
    BY DEF NewestMap, BootInv, MapInv, ReadPcs, Known
  <2> QED
    BY <2>1, <2>2, <2>3 DEF BootRight
<1>2. BootInv /\ [BootNext]_bootvars => BootInv'
  BY BootNextInv
<1> QED
  BY <1>1, <1>2, BootInitInv, PTL

-----------------------------------------------------------------------------
(***************************************************************************)
(* The transfers of the USB host controller.                               *)
(***************************************************************************)

\* g[k] takes values of S to values of S.
StepsIn(S, n, g) == \A k \in 1 .. n : \A x \in S : g[k][x] \in S
\* f begins with a and goes on by g.
Runs(f, S, n, a, g) ==
  f \in [0 .. n -> S] /\ f[0] = a /\ \A k \in 1 .. n : f[k] = g[k][f[k - 1]]

\* What goes on from value to value by a function defines a function.
LEMMA Steps ==
  ASSUME NEW S, NEW n \in Nat, NEW a \in S, NEW g, StepsIn(S, n, g)
  PROVE  \E f : Runs(f, S, n, a, g)
<1> DEFINE To(m) == {f \in [0 .. m -> S] :
                       f[0] = a /\ \A k \in 1 .. m : f[k] = g[k][f[k - 1]]}
           Good == {m \in Nat : m <= n => To(m) # {}}
<1>1. 0 \in Good
  <2>1. [k \in 0 .. 0 |-> a] \in To(0)
    OBVIOUS
  <2> QED
    BY <2>1
<1>2. ASSUME NEW m \in Nat, m \in Good PROVE m + 1 \in Good
  <2> SUFFICES ASSUME m + 1 <= n PROVE To(m + 1) # {}
    OBVIOUS
  <2>1. PICK f \in [0 .. m -> S] : f[0] = a /\ \A k \in 1 .. m : f[k] = g[k][f[k - 1]]
    BY <1>2
  <2> DEFINE h == [k \in 0 .. m + 1 |-> IF k = m + 1 THEN g[m + 1][f[m]] ELSE f[k]]
  <2>2. g[m + 1][f[m]] \in S
    <3>1. m + 1 \in 1 .. n /\ f[m] \in S
      BY <2>1
    <3> QED
      BY <3>1 DEF StepsIn
  <2>3. h \in [0 .. m + 1 -> S] /\ h[0] = a
    BY <2>1, <2>2
  <2>4. ASSUME NEW k \in 1 .. m + 1 PROVE h[k] = g[k][h[k - 1]]
    <3>1. CASE k = m + 1
      <4>1. k - 1 = m /\ h[m] = f[m] /\ h[m + 1] = g[m + 1][f[m]]
        BY <3>1
      <4> HIDE DEF h
      <4> QED
        BY <3>1, <4>1
    <3>2. CASE k # m + 1
      <4>1. k \in 1 .. m /\ k - 1 \in 0 .. m
        BY <3>2
      <4>2. h[k] = f[k] /\ h[k - 1] = f[k - 1]
        BY <4>1
      <4>3. f[k] = g[k][f[k - 1]]
        BY <2>1, <4>1
      <4> HIDE DEF h
      <4> QED
        BY <4>2, <4>3
    <3> QED
      BY <3>1, <3>2
  <2> HIDE DEF h
  <2> QED
    BY <2>3, <2>4
<1>3. To(n) # {}
  <2> HIDE DEF Good, To
  <2>1. \A m \in Nat : m \in Good
    BY <1>1, <1>2, NatInduct
  <2> QED
    BY <2>1 DEF Good
<1> QED
  BY <1>3 DEF Runs

-----------------------------------------------------------------------------
\* Total is the last of the partial sums.
LEMMA Sums ==
  ASSUME NEW s \in Seq(Int)
  PROVE  \E p \in [0 .. Len(s) -> Int] :
           /\ p[0] = 0 /\ Total(s) = p[Len(s)]
           /\ \A k \in 1 .. Len(s) : p[k] = p[k - 1] + s[k]
<1> DEFINE n == Len(s)
           f == CHOOSE f : f = [k \in 0 .. n |-> IF k = 0 THEN 0 ELSE f[k - 1] + s[k]]
<1>1. n \in Nat /\ \A k \in 1 .. n : s[k] \in Int
  OBVIOUS
<1>2. PICK g : g = [k \in 1 .. n |-> [x \in Int |-> x + s[k]]]
  OBVIOUS
<1>3. g \in [1 .. n -> [Int -> Int]]
  BY <1>1, <1>2
<1>4. PICK p \in [0 .. n -> Int] : p[0] = 0 /\ \A k \in 1 .. n : p[k] = g[k][p[k - 1]]
  <2>1. StepsIn(Int, n, g)
    BY <1>3 DEF StepsIn
  <2>2. 0 \in Int
    OBVIOUS
  <2> HIDE DEF n
  <2>3. \E p : Runs(p, Int, n, 0, g)
    BY <1>1, <2>1, <2>2, Steps
  <2> QED
    BY <2>3 DEF Runs
<1>5. \A k \in 1 .. n : p[k] = p[k - 1] + s[k]
  <2> TAKE k \in 1 .. n
  <2> HIDE DEF n
  <2>1. k - 1 \in 0 .. n /\ p[k - 1] \in Int
    BY <1>1, <1>4
  <2>2. g[k] = [x \in Int |-> x + s[k]]
    BY <1>2
  <2> QED
    BY <1>4, <2>1, <2>2
<1>6. p = [k \in 0 .. n |-> IF k = 0 THEN 0 ELSE p[k - 1] + s[k]]
  <2>1. \A k \in 0 .. n : p[k] = IF k = 0 THEN 0 ELSE p[k - 1] + s[k]
    BY <1>1, <1>4, <1>5
  <2> QED
    BY <1>4, <2>1
<1>7. f = [k \in 0 .. n |-> IF k = 0 THEN 0 ELSE f[k - 1] + s[k]]
  BY <1>6
<1>8. Total(s) = f[n]
  BY DEF Total
<1> HIDE DEF f, n
<1>9. f[0] = 0 /\ \A k \in 1 .. n : f[k] = f[k - 1] + s[k]
  BY <1>1, <1>7
<1>10. DEFINE Same == {k \in Nat : k <= n => f[k] = p[k]}
<1>11. 0 \in Same
  BY <1>4, <1>9
<1>12. ASSUME NEW k \in Nat, k \in Same PROVE k + 1 \in Same
  <2> SUFFICES ASSUME k + 1 <= n PROVE f[k + 1] = p[k + 1]
    OBVIOUS
  <2>1. f[k] = p[k] /\ k + 1 \in 1 .. n /\ (k + 1) - 1 = k
    BY <1>1, <1>12
  <2> QED
    BY <1>5, <1>9, <2>1
<1>13. f[n] = p[n]
  <2> HIDE DEF Same
  <2>1. \A k \in Nat : k \in Same
    BY <1>11, <1>12, NatInduct
  <2> QED
    BY <1>1, <2>1 DEF Same
<1> QED
  BY <1>4, <1>5, <1>8, <1>13 DEF n

LEMMA TotalInt == ASSUME NEW s \in Seq(Int) PROVE Total(s) \in Int
<1>1. PICK p \in [0 .. Len(s) -> Int] : Total(s) = p[Len(s)]
  BY Sums
<1> QED
  BY <1>1

\* Two lists of which one has the entries of the other, and zeros before and
\* behind them, have the same sum.
LEMMA TotalShift ==
  ASSUME NEW s \in Seq(Int), NEW t \in Seq(Int), NEW d \in Nat, d + Len(t) <= Len(s),
         \A i \in 1 .. Len(s) : s[i] = IF i > d /\ i <= d + Len(t) THEN t[i - d] ELSE 0
  PROVE  Total(s) = Total(t)
<1>1. PICK p \in [0 .. Len(s) -> Int] :
        /\ p[0] = 0 /\ Total(s) = p[Len(s)]
        /\ \A k \in 1 .. Len(s) : p[k] = p[k - 1] + s[k]
  BY Sums
<1>2. PICK q \in [0 .. Len(t) -> Int] :
        /\ q[0] = 0 /\ Total(t) = q[Len(t)]
        /\ \A k \in 1 .. Len(t) : q[k] = q[k - 1] + t[k]
  BY Sums
<1> DEFINE At(k) == IF k <= d THEN 0 ELSE IF k <= d + Len(t) THEN q[k - d] ELSE q[Len(t)]
           Same == {k \in Nat : k <= Len(s) => p[k] = At(k)}
<1>3. 0 \in Same
  BY <1>1
<1>4. ASSUME NEW k \in Nat, k \in Same PROVE k + 1 \in Same
  <2> SUFFICES ASSUME k + 1 <= Len(s) PROVE p[k + 1] = At(k + 1)
    OBVIOUS
  <2>1. k + 1 \in 1 .. Len(s) /\ (k + 1) - 1 = k /\ p[k] = At(k) /\ Len(t) \in Nat
    BY <1>4
  <2>2. p[k + 1] = At(k) + s[k + 1]
    BY <1>1, <2>1
  <2>3. CASE k + 1 <= d
    BY <2>1, <2>2, <2>3
  <2>4. CASE k + 1 > d /\ k + 1 <= d + Len(t)
    <3>1. PICK j \in 1 .. Len(t) : j = k + 1 - d
      BY <2>1, <2>4
    <3>2. s[k + 1] = t[j] /\ q[j] = q[j - 1] + t[j] /\ At(k + 1) = q[j]
      <4>1. k + 1 > d /\ k + 1 <= d + Len(t) /\ (k + 1) - d = j
        BY <2>1, <2>4, <3>1
      <4>2. s[k + 1] = t[j]
        <5>1. s[k + 1] = t[(k + 1) - d]
          BY <2>1, <4>1
        <5> QED
          BY <4>1, <5>1
      <4>3. At(k + 1) = q[j]
        <5>1. At(k + 1) = q[(k + 1) - d]
          BY <4>1
        <5> QED
          BY <4>1, <5>1
      <4> QED
        BY <1>2, <4>2, <4>3
    <3>3. At(k) = q[j - 1]
      <4>1. CASE k <= d
        BY <1>2, <2>1, <2>4, <3>1, <4>1
      <4>2. CASE k > d
        BY <1>2, <2>1, <2>4, <3>1, <4>2
      <4> QED
        BY <2>1, <4>1, <4>2
    <3> QED
      BY <2>2, <3>2, <3>3
  <2>5. CASE k + 1 > d + Len(t)
    <3>0. ~ (k + 1 <= d) /\ ~ (k + 1 <= d + Len(t))
      BY <2>1, <2>5
    <3>1. s[k + 1] = 0 /\ At(k + 1) = q[Len(t)] /\ q[Len(t)] \in Int
      <4>1. s[k + 1] = 0
        BY <2>1, <3>0
      <4>2. At(k + 1) = q[Len(t)]
        BY <3>0
      <4>3. q[Len(t)] \in Int
        <5>1. Len(t) \in 0 .. Len(t)
          BY <2>1
        <5> QED
          BY <5>1
      <4> QED
        BY <4>1, <4>2, <4>3
    <3>2. At(k) = q[Len(t)]
      BY <1>2, <2>1, <2>5
    <3> QED
      BY <2>2, <3>1, <3>2
  <2> QED
    BY <2>1, <2>3, <2>4, <2>5
<1>5. Len(s) \in Same
  <2>1. \A k \in Nat : k \in Same
    <3> HIDE DEF Same
    <3> QED
      BY <1>3, <1>4, NatInduct
  <2>2. Len(s) \in Nat
    OBVIOUS
  <2> HIDE DEF Same
  <2> QED
    BY <2>1, <2>2
<1>6. p[Len(s)] = q[Len(t)]
  <2>1. p[Len(s)] = At(Len(s)) /\ Len(s) \in Nat /\ Len(t) \in Nat
    BY <1>5
  <2> QED
    BY <1>2, <2>1
<1> QED
  BY <1>1, <1>2, <1>6

LEMMA TotalAppend ==
  ASSUME NEW s \in Seq(Int), NEW x \in Int
  PROVE  Total(Append(s, x)) = Total(s) + x
<1> DEFINE t == Append(s, x)
<1>0. /\ t \in Seq(Int) /\ Len(t) = Len(s) + 1 /\ t[Len(s) + 1] = x
      /\ \A i \in 1 .. Len(s) : t[i] = s[i]
  OBVIOUS
<1>1. PICK p \in [0 .. Len(s) -> Int] :
        /\ p[0] = 0 /\ Total(s) = p[Len(s)]
        /\ \A k \in 1 .. Len(s) : p[k] = p[k - 1] + s[k]
  BY Sums
<1> HIDE DEF t
<1>2. PICK q \in [0 .. Len(t) -> Int] :
        /\ q[0] = 0 /\ Total(t) = q[Len(t)]
        /\ \A k \in 1 .. Len(t) : q[k] = q[k - 1] + t[k]
  BY <1>0, Sums
<1> DEFINE Same == {k \in Nat : k <= Len(s) => p[k] = q[k]}
<1>3. 0 \in Same
  BY <1>1, <1>2
<1>4. ASSUME NEW k \in Nat, k \in Same PROVE k + 1 \in Same
  <2> SUFFICES ASSUME k + 1 <= Len(s) PROVE p[k + 1] = q[k + 1]
    OBVIOUS
  <2>1. k + 1 \in 1 .. Len(s) /\ (k + 1) - 1 = k /\ p[k] = q[k]
    BY <1>4
  <2> QED
    BY <1>0, <1>1, <1>2, <2>1
<1>5. Len(s) \in Same
  <2>1. \A k \in Nat : k \in Same
    <3> HIDE DEF Same
    <3> QED
      BY <1>3, <1>4, NatInduct
  <2>2. Len(s) \in Nat
    OBVIOUS
  <2> HIDE DEF Same
  <2> QED
    BY <2>1, <2>2
<1>6. Len(s) + 1 \in 1 .. Len(t) /\ (Len(s) + 1) - 1 = Len(s)
  BY <1>0
<1> QED
  BY <1>0, <1>1, <1>2, <1>5, <1>6 DEF t

\* What two sums have in common can be added to both.
LEMMA ShiftAlong ==
  \A x, y, d, e, m, n \in Int : y = x + d /\ m = x + e /\ n = y + e => n = m + d
  OBVIOUS

\* One entry of a list changes.
LEMMA TotalChange ==
  ASSUME NEW s \in Seq(Int), NEW t \in Seq(Int), Len(s) = Len(t), NEW i \in 1 .. Len(s),
         \A j \in 1 .. Len(s) : j # i => s[j] = t[j]
  PROVE  Total(t) = Total(s) + t[i] - s[i]
<1>1. PICK p \in [0 .. Len(s) -> Int] :
        /\ p[0] = 0 /\ Total(s) = p[Len(s)]
        /\ \A k \in 1 .. Len(s) : p[k] = p[k - 1] + s[k]
  BY Sums
<1>2. PICK q \in [0 .. Len(t) -> Int] :
        /\ q[0] = 0 /\ Total(t) = q[Len(t)]
        /\ \A k \in 1 .. Len(t) : q[k] = q[k - 1] + t[k]
  BY Sums
<1>3. s[i] \in Int /\ t[i] \in Int
  OBVIOUS
<1> DEFINE Same == {k \in Nat : k <= Len(s) => q[k] = p[k] + IF k < i THEN 0 ELSE t[i] - s[i]}
<1>4. 0 \in Same
  BY <1>1, <1>2
<1>5. ASSUME NEW k \in Nat, k \in Same PROVE k + 1 \in Same
  <2> SUFFICES ASSUME k + 1 <= Len(s)
               PROVE  q[k + 1] = p[k + 1] + IF k + 1 < i THEN 0 ELSE t[i] - s[i]
    OBVIOUS
  <2>1. k + 1 \in 1 .. Len(s) /\ (k + 1) - 1 = k /\ k \in 0 .. Len(s)
    OBVIOUS
  <2>0. q[k] = p[k] + IF k < i THEN 0 ELSE t[i] - s[i]
    BY <1>5, <2>1
  <2>2. /\ p[k + 1] = p[k] + s[k + 1] /\ q[k + 1] = q[k] + t[k + 1]
        /\ p[k] \in Int /\ q[k] \in Int /\ s[k + 1] \in Int /\ t[k + 1] \in Int
    <3>1. PICK m \in 1 .. Len(s) : m = k + 1
      BY <2>1
    <3>2. m \in 1 .. Len(t) /\ m - 1 = k /\ s[m] \in Int /\ t[m] \in Int
      BY <3>1
    <3>3. p[m] = p[k] + s[m] /\ q[m] = q[k] + t[m]
      BY <1>1, <1>2, <3>1, <3>2
    <3>4. p[k] \in Int /\ q[k] \in Int
      BY <2>1
    <3> QED
      BY <3>1, <3>2, <3>3, <3>4
  <2>3. k + 1 # i => s[k + 1] = t[k + 1]
    BY <2>1
  <2> QED
    <3>1. CASE k + 1 < i
      BY <1>3, <2>0, <2>1, <2>2, <2>3, <3>1
    <3>2. CASE k + 1 = i
      <4>1. q[k] = p[k] /\ s[k + 1] = s[i] /\ t[k + 1] = t[i]
        BY <2>0, <2>2, <3>2
      <4> QED
        BY <1>3, <2>2, <3>2, <4>1
    <3>3. CASE k + 1 > i
      <4>1. q[k] = p[k] + (t[i] - s[i]) /\ s[k + 1] = t[k + 1]
        BY <2>0, <2>3, <3>3
      <4>2. ~ (k + 1 < i)
        BY <3>3
      <4>3. q[k + 1] = p[k + 1] + (t[i] - s[i])
        <5>1. t[i] - s[i] \in Int
          BY <1>3
        <5> QED
          BY <2>2, <4>1, <5>1, ShiftAlong
      <4> QED
        BY <4>2, <4>3
    <3> QED
      BY <3>1, <3>2, <3>3
<1>6. Len(s) \in Same
  <2>1. \A k \in Nat : k \in Same
    <3> HIDE DEF Same
    <3> QED
      BY <1>4, <1>5, NatInduct
  <2> QED
    BY <2>1, SMTT(30)
<1> QED
  BY <1>1, <1>2, <1>3, <1>6

-----------------------------------------------------------------------------
LEMMA PageIsNat == Page \in Nat /\ Page > 0
BY EHCIAssumption

\* A descriptor takes all that is left, or at least four pages of whole packets.
LEMMA FillRight ==
  ASSUME NEW b \in Nat, NEW l \in Nat
  PROVE  \/ qtd_fill(b, l) = l
         \/ /\ qtd_fill(b, l) \in Nat /\ qtd_fill(b, l) < l
            /\ qtd_fill(b, l) >= 4 * Page /\ qtd_fill(b, l) % Packet = 0
<1> DEFINE room == (Page - (b % Page)) + 4 * Page
<1>1. Page \in Nat /\ Packet \in Nat \ {0} /\ Page % Packet = 0
  <2>1. Page % Packet = 0 /\ Packet \in Nat \ {0}
    BY EHCIAssumption
  <2> QED
    BY <2>1, PageIsNat
<1>2. room \in Nat /\ room >= 4 * Page
  BY <1>1, PageIsNat
<1> SUFFICES ASSUME ~ (l <= room)
             PROVE  /\ room - (room % Packet) \in Nat /\ room - (room % Packet) < l
                    /\ room - (room % Packet) >= 4 * Page /\ (room - (room % Packet)) % Packet = 0
  BY DEF qtd_fill
<1>3. PICK m : m = Page \div Packet
  OBVIOUS
<1>4. PICK q : q = room \div Packet
  OBVIOUS
<1>5. PICK r : r = room % Packet
  OBVIOUS
<1>6. /\ m \in Nat /\ Page = Packet * m
      /\ q \in Nat /\ r \in 0 .. Packet - 1 /\ room = Packet * q + r
  <2> HIDE DEF room
  <2> QED
    BY <1>1, <1>2, <1>3, <1>4, <1>5
<1>7. 4 * Page = (4 * m) * Packet /\ 4 * m \in Nat
  BY <1>1, <1>6
<1>8. q >= 4 * m
  <2>1. SUFFICES ASSUME q < 4 * m PROVE FALSE
    BY <1>6, <1>7
  <2>2. q + 1 \in Nat /\ q + 1 <= 4 * m
    BY <1>6, <1>7, <2>1
  <2>3. (q + 1) * Packet <= (4 * m) * Packet
    BY <1>1, <1>7, <2>2, BootTimes
  <2>4. (q + 1) * Packet = Packet * q + Packet /\ Packet * q \in Nat
    BY <1>1, <1>6
  <2> HIDE DEF room
  <2> QED
    BY <1>1, <1>2, <1>6, <1>7, <2>3, <2>4
<1>9. q * Packet >= (4 * m) * Packet /\ q * Packet \in Nat
  BY <1>1, <1>6, <1>7, <1>8, BootTimes
<1>10. room - r = q * Packet /\ (q * Packet) % Packet = 0
  <2> HIDE DEF room
  <2> QED
    BY <1>1, <1>2, <1>6
<1> HIDE DEF room
<1> QED
  BY <1>2, <1>5, <1>6, <1>7, <1>9, <1>10

\* The pieces of a buffer, as far as they were cut.
Cut(p, len) ==
  /\ p \in Seq(Nat) /\ p # <<>> /\ Total(p) \in Nat /\ Total(p) <= len
  /\ \A i \in 1 .. Len(p) : i < Len(p) \/ Total(p) < len => p[i] % Packet = 0
  /\ (Len(p) - 1) * (4 * Page) <= Total(p)
  /\ Total(p) < len => Len(p) * (4 * Page) <= Total(p)

LEMMA TotalOne == ASSUME NEW x \in Int PROVE Total(<<x>>) = x
<1>1. PICK s : s = <<>>
  OBVIOUS
<1>2. s \in Seq(Int) /\ Append(s, x) = <<x>> /\ Len(s) = 0
  BY <1>1
<1>3. Total(s) = 0
  BY <1>2, Sums
<1>4. Total(Append(s, x)) = Total(s) + x
  BY <1>2, TotalAppend
<1> QED
  BY <1>2, <1>3, <1>4

LEMMA FirstCut ==
  ASSUME NEW b \in Nat, NEW len \in Nat
  PROVE  Cut(<<qtd_fill(b, len)>>, len)
<1>1. PICK x : x = qtd_fill(b, len)
  OBVIOUS
<1>2. /\ x \in Nat /\ x <= len
      /\ x < len => x >= 4 * Page /\ x % Packet = 0
  BY <1>1, FillRight
<1>3. <<x>> \in Seq(Nat) /\ Len(<<x>>) = 1 /\ <<x>>[1] = x /\ <<x>> # <<>>
  BY <1>2
<1>4. Total(<<x>>) = x
  BY <1>2, TotalOne
<1>5. (1 - 1) * (4 * Page) = 0 /\ 1 * (4 * Page) = 4 * Page
  BY PageIsNat
<1> QED
  BY <1>1, <1>2, <1>3, <1>4, <1>5 DEF Cut

LEMMA NextCut ==
  ASSUME NEW b \in Nat, NEW len \in Nat, NEW p, Cut(p, len)
  PROVE  /\ Cut(NextPiece(p, b, len), len)
         /\ Total(p) < len => Len(NextPiece(p, b, len)) = Len(p) + 1
         /\ Total(p) = len => NextPiece(p, b, len) = p
<1>1. CASE Total(p) = len
  BY <1>1 DEF Cut, NextPiece
<1>2. CASE Total(p) # len
  <2>1. PICK d : d = Total(p)
    OBVIOUS
  <2>2. PICK x : x = qtd_fill(b + d, len - d)
    OBVIOUS
  <2>3. d \in Nat /\ d < len /\ p \in Seq(Nat) /\ Len(p) \in Nat /\ Len(p) > 0
    BY <1>2, <2>1 DEF Cut
  <2>4. /\ x \in Nat /\ x <= len - d
        /\ x < len - d => x >= 4 * Page /\ x % Packet = 0
    BY <2>2, <2>3, FillRight
  <2>5. PICK t : t = Append(p, x)
    OBVIOUS
  <2>6. NextPiece(p, b, len) = t
    BY <1>2, <2>1, <2>2, <2>5 DEF NextPiece
  <2>7. /\ t \in Seq(Nat) /\ Len(t) = Len(p) + 1 /\ t[Len(p) + 1] = x
        /\ \A i \in 1 .. Len(p) : t[i] = p[i]
    BY <2>3, <2>4, <2>5
  <2>8. Total(t) = d + x
    <3>1. p \in Seq(Int) /\ x \in Int
      BY <2>3, <2>4
    <3> QED
      BY <2>1, <2>5, <3>1, TotalAppend
  <2>9. PICK n : n = Len(p) * (4 * Page)
    OBVIOUS
  <2>10. n <= d /\ n \in Nat /\ (Len(p) + 1) * (4 * Page) = n + 4 * Page
    <3>1. n <= d
      BY <2>1, <2>3, <2>9 DEF Cut
    <3>2. 4 * Page \in Nat
      BY PageIsNat
    <3> QED
      BY <2>3, <2>9, <3>1, <3>2
  <2>11. \A i \in 1 .. Len(p) : p[i] % Packet = 0
    BY <2>1, <2>3 DEF Cut
  <2>12. \A i \in 1 .. Len(t) : i < Len(t) \/ Total(t) < len => t[i] % Packet = 0
    <3> SUFFICES ASSUME NEW i \in 1 .. Len(t), i < Len(t) \/ Total(t) < len
                 PROVE  t[i] % Packet = 0
      OBVIOUS
    <3>1. CASE i \in 1 .. Len(p)
      BY <2>7, <2>11, <3>1
    <3>2. CASE i = Len(p) + 1
      BY <2>3, <2>4, <2>7, <2>8, <3>2
    <3> QED
      BY <2>3, <2>7, <3>1, <3>2
  <2>13. (Len(t) - 1) * (4 * Page) = n /\ Len(t) * (4 * Page) = n + 4 * Page
    <3>1. Len(t) - 1 = Len(p)
      BY <2>3, <2>7
    <3> QED
      BY <2>7, <2>9, <2>10, <3>1
  <2>14. t # <<>>
    BY <2>3, <2>7
  <2>15. Total(t) < len => n + 4 * Page <= Total(t)
    BY <2>3, <2>4, <2>8, <2>10, PageIsNat
  <2>16. Cut(t, len)
    BY <2>3, <2>4, <2>7, <2>8, <2>10, <2>12, <2>13, <2>14, <2>15 DEF Cut
  <2> QED
    BY <1>2, <2>6, <2>7, <2>16
<1> QED
  BY <1>1, <1>2

\* The pieces make up the buffer, and all but the last are whole packets of at
\* least four pages.
LEMMA PiecesRight ==
  ASSUME NEW b \in Nat, NEW len \in Nat
  PROVE  /\ Pieces(b, len) \in Seq(Nat) /\ Pieces(b, len) # <<>>
         /\ Total(Pieces(b, len)) = len
         /\ \A i \in 1 .. Len(Pieces(b, len)) - 1 : Pieces(b, len)[i] % Packet = 0
         /\ Len(Pieces(b, len)) <= (len \div (4 * Page)) + 1
<1> DEFINE S == {p \in Seq(Nat) : Cut(p, len)}
           a == <<qtd_fill(b, len)>>
           g == [k \in 1 .. len |-> [p \in S |-> NextPiece(p, b, len)]]
           f == CHOOSE f : f = [k \in 0 .. len |-> IF k = 0 THEN a ELSE NextPiece(f[k - 1], b, len)]
<1>1. a \in S
  BY FirstCut DEF Cut
<1>2. StepsIn(S, len, g)
  <2>1. ASSUME NEW p \in S PROVE NextPiece(p, b, len) \in S
    BY NextCut, SMTT(30) DEF Cut
  <2> HIDE DEF S
  <2> QED
    BY <2>1 DEF StepsIn
<1>3. PICK h : Runs(h, S, len, a, g)
  <2> HIDE DEF S, a, g
  <2> QED
    BY <1>1, <1>2, Steps
<1>4. h \in [0 .. len -> S] /\ h[0] = a /\ \A k \in 1 .. len : h[k] = NextPiece(h[k - 1], b, len)
  <2>1. h \in [0 .. len -> S] /\ h[0] = a /\ \A k \in 1 .. len : h[k] = g[k][h[k - 1]]
    <3> HIDE DEF S, a, g
    <3> QED
      BY <1>3 DEF Runs
  <2> HIDE DEF S, a
  <2>2. ASSUME NEW k \in 1 .. len PROVE h[k] = NextPiece(h[k - 1], b, len)
    <3>1. h[k - 1] \in S
      BY <2>1
    <3> QED
      BY <2>1, <3>1
  <2> QED
    BY <2>1, <2>2
<1> HIDE DEF S, a, g
<1>5. h = [k \in 0 .. len |-> IF k = 0 THEN a ELSE NextPiece(h[k - 1], b, len)]
  <2>1. \A k \in 0 .. len : h[k] = IF k = 0 THEN a ELSE NextPiece(h[k - 1], b, len)
    BY <1>4
  <2> QED
    BY <1>4, <2>1
<1>6. f = [k \in 0 .. len |-> IF k = 0 THEN a ELSE NextPiece(f[k - 1], b, len)]
  BY <1>5
<1>7. Pieces(b, len) = f[len]
  BY DEF Pieces, a
<1> HIDE DEF f
<1>8. f[0] = a /\ \A k \in 1 .. len : f[k] = NextPiece(f[k - 1], b, len)
  BY <1>6
<1> DEFINE Good == {k \in Nat : k <= len =>
                      Cut(f[k], len) /\ (Total(f[k]) = len \/ Len(f[k]) = k + 1)}
<1>9. 0 \in Good
  <2>1. Cut(a, len) /\ Len(a) = 1
    BY FirstCut DEF a
  <2> QED
    BY <1>8, <2>1
<1>10. ASSUME NEW k \in Nat, k \in Good PROVE k + 1 \in Good
  <2> SUFFICES ASSUME k + 1 <= len
               PROVE  /\ Cut(f[k + 1], len)
                      /\ Total(f[k + 1]) = len \/ Len(f[k + 1]) = (k + 1) + 1
    OBVIOUS
  <2>1. Cut(f[k], len) /\ (Total(f[k]) = len \/ Len(f[k]) = k + 1)
    BY <1>10
  <2>2. f[k + 1] = NextPiece(f[k], b, len)
    <3>1. k + 1 \in 1 .. len /\ (k + 1) - 1 = k
      OBVIOUS
    <3> QED
      BY <1>8, <3>1
  <2>3. PICK p : p = f[k]
    OBVIOUS
  <2>4. Total(p) \in Nat /\ Total(p) <= len
    BY <2>1, <2>3 DEF Cut
  <2>5. /\ Cut(NextPiece(p, b, len), len)
        /\ Total(p) < len => Len(NextPiece(p, b, len)) = Len(p) + 1
        /\ Total(p) = len => NextPiece(p, b, len) = p
    BY <2>1, <2>3, NextCut
  <2> QED
    BY <2>1, <2>2, <2>3, <2>4, <2>5
<1>11. Cut(f[len], len) /\ (Total(f[len]) = len \/ Len(f[len]) = len + 1)
  <2>1. \A k \in Nat : k \in Good
    <3> HIDE DEF Good
    <3> QED
      BY <1>9, <1>10, NatInduct
  <2> QED
    BY <2>1
<1>12. PICK p : p = Pieces(b, len)
  OBVIOUS
<1>13. Cut(p, len) /\ (Total(p) = len \/ Len(p) = len + 1)
  BY <1>7, <1>11, <1>12
<1>14. p \in Seq(Nat) /\ p # <<>> /\ Total(p) \in Nat /\ Total(p) <= len /\ Len(p) \in Nat /\ Len(p) >= 1
  BY <1>13 DEF Cut
<1>15. 4 * Page \in Nat /\ 4 * Page >= 1
  BY PageIsNat
<1>16. Total(p) = len
  <2>1. SUFFICES ASSUME Total(p) < len PROVE FALSE
    BY <1>14
  <2>2. Len(p) = len + 1
    BY <1>13, <1>14, <2>1
  <2>3. Len(p) * (4 * Page) <= Total(p)
    BY <1>13, <2>1 DEF Cut
  <2>4. 1 * Len(p) <= (4 * Page) * Len(p)
    BY <1>14, <1>15, BootTimes
  <2>5. 1 * Len(p) = Len(p) /\ (4 * Page) * Len(p) = Len(p) * (4 * Page)
    BY <1>14, <1>15
  <2>6. Len(p) <= Total(p)
    <3>1. PICK m : m = Len(p) * (4 * Page)
      OBVIOUS
    <3>2. PICK c : c = 4 * Page
      OBVIOUS
    <3>3. m \in Nat /\ Len(p) <= m
      BY <1>14, <1>15, <2>4, <2>5, <3>1, <3>2
    <3> QED
      BY <1>14, <2>3, <3>1, <3>3
  <2> QED
    BY <1>14, <2>1, <2>2, <2>6
<1>17. Len(p) <= (len \div (4 * Page)) + 1
  <2>1. PICK q : q = len \div (4 * Page)
    OBVIOUS
  <2>2. PICK c : c = 4 * Page
    OBVIOUS
  <2>3. q \in Nat /\ len < (q + 1) * c /\ c \in Nat
    <3>1. c \in Nat \ {0} /\ q = len \div c
      BY <1>15, <2>1, <2>2
    <3>2. len = c * q + (len % c) /\ q \in Nat /\ len % c \in 0 .. c - 1
      BY <3>1
    <3>3. (q + 1) * c = c * q + c /\ c * q \in Nat
      BY <3>1, <3>2
    <3> QED
      BY <3>1, <3>2, <3>3
  <2>4. SUFFICES ASSUME q + 1 <= Len(p) - 1 PROVE FALSE
    BY <1>14, <2>1, <2>3
  <2>5. (q + 1) * c <= (Len(p) - 1) * c
    <3>1. q + 1 \in Nat /\ Len(p) - 1 \in Nat
      BY <1>14, <2>3
    <3> QED
      BY <2>3, <2>4, <3>1, BootTimes
  <2>6. (Len(p) - 1) * c <= len /\ (Len(p) - 1) * c \in Int /\ (q + 1) * c \in Int
    BY <1>13, <1>14, <1>16, <2>2, <2>3 DEF Cut
  <2> QED
    BY <2>3, <2>5, <2>6
<1>18. \A i \in 1 .. Len(p) - 1 : p[i] % Packet = 0
  BY <1>13, <1>14 DEF Cut
<1> QED
  BY <1>12, <1>14, <1>16, <1>17, <1>18

-----------------------------------------------------------------------------
Ats == {"idle", "wait", "stopping", "ending", "dead"}
Answers == {"none", "ETIMEDOUT", "moved"}
Urbs == [at : Ats, control : BOOLEAN, dir : Dirs, len : Nat, answer : Answers, count : Int]
Qtds == [pid : {"setup", "in", "out"}, len : Nat, left : Int, alt : {"zero", "end"},
         active : BOOLEAN, halted : BOOLEAN, ioc : BOOLEAN]
Places == [at : {"head", "queue", "astray"}, i : Nat]
Busy == {"wait", "stopping", "ending"}

ETyped ==
  /\ urb \in Urbs /\ queue \in Seq(Qtds) /\ hc \in Places
  /\ linked \in BOOLEAN /\ sts_int \in BOOLEAN /\ gaveup \in BOOLEAN
  /\ leftover \in BOOLEAN /\ late \in BOOLEAN
  /\ tog \in [Dirs -> Nat] /\ dtog \in [Dirs -> Nat] /\ moved \in Int

\* What a queue keeps while it is worked off.
ShapeInv ==
  /\ urb.at \in {"idle", "dead"} => queue = <<>> /\ hc.at # "queue"
  /\ urb.at \in Busy =>
       \A i \in 1 .. Len(queue) :
         /\ ~ urb.control => queue[i].pid = urb.dir
         /\ ~ urb.control /\ queue[i].alt = "end" => i = Len(queue)
         /\ queue[i].ioc => i = Len(queue)

\* The controller works from the first descriptor on.
OrderInv ==
  /\ hc.at = "queue" =>
       /\ hc.i \in 1 .. Len(queue) + 1
       /\ \A j \in 1 .. Len(queue) :
            IF j < hc.i THEN ~ queue[j].active ELSE queue[j].left = queue[j].len
  /\ \A j, k \in 1 .. Len(queue) : queue[j].active /\ k >= j => queue[k].left = queue[k].len

GoneInv ==
  /\ linked => urb.at = "wait"
  /\ hc.at = "astray" => gaveup
  /\ urb.at = "ending" /\ hc.at # "head" => gaveup
  /\ late => gaveup

MovedInv ==
  /\ urb.at \in Busy => moved = Actual(queue)
  /\ urb.at = "idle" /\ urb.answer = "moved" => urb.count = moved

\* Nothing of the queue is left to be done.
Through ==
  /\ \A j \in 1 .. Len(queue) : ~ queue[j].active
  /\ hc.at = "queue" => hc.i > Len(queue)

TogInv ==
  Undisturbed =>
    /\ urb.at \in {"idle", "stopping", "ending"} => tog = dtog
    /\ urb.at = "wait" => \A d \in Dirs : d # urb.dir \/ urb.control => tog[d] = dtog[d]
    /\ urb.at = "wait" /\ ~ urb.control /\ sts_int => Through
    /\ urb.at = "stopping" /\ ~ urb.control => Through

EInv == ETyped /\ ShapeInv /\ OrderInv /\ GoneInv /\ MovedInv /\ TogInv

\* The descriptors there are suffice for the transfers asked for.
BuffersFit == \A b \in Buffers : (b[2] \div (4 * Page)) + 3 <= MaxQtd

LEMMA QtdIn ==
  ASSUME NEW pid \in {"setup", "in", "out"}, NEW n \in Nat
  PROVE  /\ Qtd(pid, n) \in Qtds /\ Qtd(pid, n).pid = pid /\ Qtd(pid, n).len = n
         /\ Qtd(pid, n).left = n /\ Qtd(pid, n).alt = "zero" /\ ~ Qtd(pid, n).ioc
BY DEF Qtd, Qtds

\* A new queue: the setup descriptor, if there is one, those of the data and the
\* status.
Shaped(n, q, ps, c, d, len) ==
  /\ q \in Seq(Qtds) /\ Len(q) = n + Len(ps) + (IF c /\ len # 0 THEN 1 ELSE 0)
  /\ c <=> n = 1
  /\ \A i \in 1 .. Len(q) :
       /\ q[i].left = q[i].len /\ (q[i].ioc => i = Len(q))
       /\ i <= n => q[i].pid = "setup"
       /\ i > n => q[i].pid # "setup"
       /\ i > n /\ i <= n + Len(ps) =>
            q[i].len = ps[i - n] /\ (q[i].alt = "end" => i = n + Len(ps))
       /\ i > n + Len(ps) => q[i].len = 0
       /\ ~ c => q[i].pid = d

LEMMA QueueShape ==
  ASSUME NEW c \in BOOLEAN, NEW d \in Dirs, NEW b \in Nat, NEW len \in Nat,
         NEW ps, ps = Pieces(b, len), NEW q, q = qh_urb_transaction(c, d, b, len)
  PROVE  \E n \in {0, 1} : Shaped(n, q, ps, c, d, len)
<1>1. PICK pid : pid = IF c /\ len = 0 THEN "in" ELSE d
  OBVIOUS
<1>2. pid \in {"in", "out"} /\ (~ c => pid = d)
  BY <1>1 DEF Dirs
<1>3. PICK pre : pre = IF c THEN <<Qtd("setup", Packet)>> ELSE <<>>
  OBVIOUS
<1>4. PICK post : post = IF c /\ len # 0 THEN <<Qtd(IF d = "in" THEN "out" ELSE "in", 0)>> ELSE <<>>
  OBVIOUS
<1>5. PICK raw : raw = [i \in 1 .. Len(ps) |-> Qtd(pid, ps[i])]
  OBVIOUS
<1>6. PICK data : data = LastData(raw)
  OBVIOUS
<1>7. q = Interrupting(pre \o data \o post)
  BY <1>1, <1>3, <1>4, <1>5, <1>6 DEF qh_urb_transaction
<1>8. ps \in Seq(Nat) /\ Len(ps) \in Nat /\ Len(ps) > 0
  <2>1. ps \in Seq(Nat) /\ ps # <<>>
    BY PiecesRight
  <2> QED
    BY <2>1
<1>9. PICK n \in {0, 1} : c <=> n = 1
  OBVIOUS
<1>10. /\ pre \in Seq(Qtds) /\ Len(pre) = n
       /\ c => pre[1].pid = "setup" /\ pre[1].left = pre[1].len /\ ~ pre[1].ioc
  <2>1. Packet \in Nat
    BY EHCIAssumption
  <2>2. PICK s : s = Qtd("setup", Packet)
    OBVIOUS
  <2>3. s \in Qtds /\ s.pid = "setup" /\ s.left = s.len /\ ~ s.ioc
    BY <2>1, <2>2, QtdIn
  <2> QED
    BY <1>3, <1>9, <2>2, <2>3
<1>11. PICK m \in {0, 1} : m = IF c /\ len # 0 THEN 1 ELSE 0
  OBVIOUS
<1>12. /\ post \in Seq(Qtds) /\ Len(post) = m
       /\ m = 1 => post[1].pid # "setup" /\ post[1].left = 0 /\ post[1].len = 0 /\ ~ post[1].ioc
       /\ m = 1 => c
  <2>1. PICK o \in {"in", "out"} : o = IF d = "in" THEN "out" ELSE "in"
    OBVIOUS
  <2>2. PICK s : s = Qtd(o, 0)
    OBVIOUS
  <2>3. s \in Qtds /\ s.pid # "setup" /\ s.left = 0 /\ s.len = 0 /\ ~ s.ioc
    BY <2>1, <2>2, QtdIn
  <2> QED
    BY <1>4, <1>11, <2>1, <2>2, <2>3
<1>13. /\ raw \in Seq(Qtds) /\ Len(raw) = Len(ps)
       /\ \A i \in 1 .. Len(ps) :
            /\ raw[i] \in Qtds /\ raw[i].pid = pid /\ raw[i].len = ps[i] /\ raw[i].left = ps[i]
            /\ raw[i].alt = "zero" /\ ~ raw[i].ioc
  <2>1. ASSUME NEW i \in 1 .. Len(ps)
        PROVE  /\ raw[i] \in Qtds /\ raw[i].pid = pid /\ raw[i].len = ps[i] /\ raw[i].left = ps[i]
               /\ raw[i].alt = "zero" /\ ~ raw[i].ioc
    <3>1. PICK k \in Nat : k = ps[i]
      BY <1>8
    <3>2. raw[i] = Qtd(pid, k)
      BY <1>5, <3>1
    <3> QED
      BY <1>2, <3>1, <3>2, QtdIn
  <2> QED
    BY <1>5, <1>8, <2>1
<1>14. /\ data \in Seq(Qtds) /\ Len(data) = Len(ps)
       /\ \A i \in 1 .. Len(ps) :
            /\ data[i] \in Qtds /\ data[i].pid = pid /\ data[i].len = ps[i] /\ data[i].left = ps[i]
            /\ (data[i].alt = "end" => i = Len(ps)) /\ ~ data[i].ioc
  <2>1. data = [raw EXCEPT ![Len(ps)].alt = "end"]
    BY <1>6, <1>13 DEF LastData
  <2>2. PICK x : x = [raw[Len(ps)] EXCEPT !.alt = "end"]
    OBVIOUS
  <2>3. x \in Qtds /\ x.pid = pid /\ x.len = ps[Len(ps)] /\ x.left = ps[Len(ps)] /\ ~ x.ioc
    <3>1. PICK y \in Qtds : y = raw[Len(ps)]
      BY <1>8, <1>13
    <3>2. y.pid = pid /\ y.len = ps[Len(ps)] /\ y.left = ps[Len(ps)] /\ ~ y.ioc
      BY <1>8, <1>13, <3>1
    <3> QED
      BY <2>2, <3>1, <3>2 DEF Qtds
  <2>4. data = [raw EXCEPT ![Len(ps)] = x]
    BY <2>1, <2>2
  <2>5. /\ Len(data) = Len(ps) /\ data \in Seq(Qtds) /\ data[Len(ps)] = x
        /\ \A i \in 1 .. Len(ps) : i # Len(ps) => data[i] = raw[i]
    BY <1>8, <1>13, <2>3, <2>4
  <2> QED
    BY <1>8, <1>13, <2>3, <2>5
<1>15. PICK all : all = pre \o data \o post
  OBVIOUS
<1>16. /\ all \in Seq(Qtds) /\ Len(all) = n + Len(ps) + m
       /\ \A i \in 1 .. Len(all) :
            all[i] = IF i <= n THEN pre[i]
                     ELSE IF i <= n + Len(ps) THEN data[i - n] ELSE post[i - (n + Len(ps))]
  <2>1. PICK two : two = pre \o data
    OBVIOUS
  <2>2. /\ two \in Seq(Qtds) /\ Len(two) = n + Len(ps)
        /\ \A i \in 1 .. Len(two) : two[i] = IF i <= n THEN pre[i] ELSE data[i - n]
    BY <1>10, <1>14, <2>1
  <2>3. /\ all \in Seq(Qtds) /\ Len(all) = Len(two) + m
        /\ \A i \in 1 .. Len(all) : all[i] = IF i <= Len(two) THEN two[i] ELSE post[i - Len(two)]
    BY <1>12, <1>15, <2>1, <2>2
  <2> QED
    BY <1>8, <2>2, <2>3
<1>17. PICK z : z = n + Len(ps) + m
  OBVIOUS
<1>18. z \in Nat /\ z > 0 /\ z = Len(all) /\ q = [all EXCEPT ![z].ioc = TRUE]
  <2>1. z = Len(all) /\ z \in Nat /\ z > 0
    BY <1>8, <1>16, <1>17
  <2>2. q = Interrupting(all)
    BY <1>7, <1>15
  <2> QED
    BY <2>1, <2>2 DEF Interrupting
<1>19. PICK w : w = [all[z] EXCEPT !.ioc = TRUE]
  OBVIOUS
<1>20. /\ w \in Qtds /\ w.pid = all[z].pid /\ w.len = all[z].len /\ w.left = all[z].left
       /\ w.alt = all[z].alt
  <2>1. PICK y \in Qtds : y = all[z]
    BY <1>16, <1>18
  <2> QED
    BY <1>19, <2>1 DEF Qtds
<1>21. q = [all EXCEPT ![z] = w]
  BY <1>18, <1>19
<1>22. /\ q \in Seq(Qtds) /\ Len(q) = z /\ q[z] = w
       /\ \A i \in 1 .. z : i # z => q[i] = all[i]
  BY <1>16, <1>18, <1>20, <1>21
<1>23. ASSUME NEW i \in 1 .. z
       PROVE  /\ q[i].pid = all[i].pid /\ q[i].len = all[i].len /\ q[i].left = all[i].left
              /\ q[i].alt = all[i].alt
  BY <1>20, <1>22
<1>24. ASSUME NEW i \in 1 .. z
       PROVE  /\ all[i].left = all[i].len /\ ~ all[i].ioc
              /\ i <= n => all[i].pid = "setup"
              /\ i > n => all[i].pid # "setup"
              /\ i > n /\ i <= n + Len(ps) =>
                   all[i].len = ps[i - n] /\ (all[i].alt = "end" => i = n + Len(ps))
              /\ i > n + Len(ps) => all[i].len = 0
              /\ ~ c => all[i].pid = d
  <2>1. CASE i <= n
    <3>1. i = 1 /\ c /\ all[i] = pre[1]
      BY <1>9, <1>16, <1>18, <2>1
    <3> QED
      BY <1>8, <1>10, <2>1, <3>1
  <2>2. CASE i > n /\ i <= n + Len(ps)
    <3>1. PICK j \in 1 .. Len(ps) : j = i - n
      BY <1>8, <2>2
    <3>2. all[i] = data[j] /\ i = n + j
      BY <1>16, <1>18, <2>2, <3>1
    <3>3. /\ data[j].pid = pid /\ data[j].len = ps[j] /\ data[j].left = ps[j]
          /\ (data[j].alt = "end" => j = Len(ps)) /\ ~ data[j].ioc
      BY <1>14
    <3> QED
      BY <1>2, <1>8, <2>2, <3>1, <3>2, <3>3
  <2>3. CASE i > n + Len(ps)
    <3>1. m = 1 /\ i - (n + Len(ps)) = 1
      BY <1>8, <1>17, <2>3
    <3>2. all[i] = post[1]
      <4>1. ~ (i <= n) /\ ~ (i <= n + Len(ps))
        BY <1>8, <2>3
      <4>2. all[i] = post[i - (n + Len(ps))]
        BY <1>16, <1>18, <4>1
      <4> QED
        BY <3>1, <4>2
    <3> QED
      BY <1>8, <1>12, <2>3, <3>1, <3>2
  <2> QED
    BY <1>8, <2>1, <2>2, <2>3
<1>25. \A i \in 1 .. Len(q) :
         /\ q[i].left = q[i].len /\ (q[i].ioc => i = Len(q))
         /\ i <= n => q[i].pid = "setup"
         /\ i > n => q[i].pid # "setup"
         /\ i > n /\ i <= n + Len(ps) =>
              q[i].len = ps[i - n] /\ (q[i].alt = "end" => i = n + Len(ps))
         /\ i > n + Len(ps) => q[i].len = 0
         /\ ~ c => q[i].pid = d
  BY <1>22, <1>23, <1>24
<1>26. Len(q) = n + Len(ps) + (IF c /\ len # 0 THEN 1 ELSE 0)
  BY <1>11, <1>17, <1>22
<1> QED
  BY <1>9, <1>22, <1>25, <1>26 DEF Shaped

-----------------------------------------------------------------------------
\* The controller changes what is left of a descriptor and whether it and
\* others are active, and nothing else.
SameShape(q, r) ==
  /\ r \in Seq(Qtds) /\ Len(r) = Len(q)
  /\ \A j \in 1 .. Len(q) : /\ r[j].pid = q[j].pid /\ r[j].len = q[j].len
                            /\ r[j].alt = q[j].alt /\ r[j].ioc = q[j].ioc

LEMMA StoppedQ ==
  ASSUME NEW q \in Seq(Qtds), NEW r, r = Stopped(q)
  PROVE  /\ SameShape(q, r)
         /\ \A j \in 1 .. Len(q) : r[j].left = q[j].left /\ ~ r[j].active
<1>1. r = [j \in 1 .. Len(q) |-> [q[j] EXCEPT !.active = FALSE]]
  BY DEF Stopped
<1>2. ASSUME NEW j \in 1 .. Len(q)
      PROVE  /\ r[j] \in Qtds /\ r[j].pid = q[j].pid /\ r[j].len = q[j].len
             /\ r[j].alt = q[j].alt /\ r[j].ioc = q[j].ioc
             /\ r[j].left = q[j].left /\ ~ r[j].active
  <2>1. PICK y \in Qtds : y = q[j]
    OBVIOUS
  <2>2. r[j] = [y EXCEPT !.active = FALSE]
    BY <1>1, <2>1
  <2> QED
    BY <2>1, <2>2 DEF Qtds
<1>3. r \in Seq(Qtds) /\ Len(r) = Len(q)
  BY <1>1, <1>2
<1> QED
  BY <1>2, <1>3 DEF SameShape

\* The queue after n of descriptor i were moved, and after it halted.
AfterMove(q, a, i, n) == [a EXCEPT ![i].left = q[i].len - n, ![i].active = FALSE]
AfterHalt(q, i) == [Stopped(q) EXCEPT ![i].halted = TRUE]

LEMMA MovedQ ==
  ASSUME NEW q \in Seq(Qtds), NEW a, a = q \/ a = Stopped(q), NEW i \in 1 .. Len(q), NEW n \in Int,
         NEW r, r = AfterMove(q, a, i, n)
  PROVE  /\ SameShape(q, r) /\ r[i].left = q[i].len - n /\ ~ r[i].active
         /\ \A j \in 1 .. Len(q) :
              /\ j # i => r[j].left = q[j].left
              /\ r[j].active => q[j].active
              /\ a = Stopped(q) => ~ r[j].active
<1>1. SameShape(q, q)
  BY DEF SameShape
<1>2. /\ SameShape(q, a)
      /\ \A j \in 1 .. Len(q) : /\ a[j].left = q[j].left
                                /\ a[j].active => q[j].active
                                /\ a = Stopped(q) => ~ a[j].active
  BY <1>1, StoppedQ
<1>3. PICK l \in Int : l = q[i].len - n
  <2>1. q[i] \in Qtds
    OBVIOUS
  <2> QED
    BY <2>1 DEF Qtds
<1>4. PICK w : w = [a[i] EXCEPT !.left = l, !.active = FALSE]
  OBVIOUS
<1>5. a \in Seq(Qtds) /\ Len(a) = Len(q) /\ a[i] \in Qtds
  BY <1>2 DEF SameShape
<1>6. /\ w \in Qtds /\ w.pid = a[i].pid /\ w.len = a[i].len /\ w.alt = a[i].alt
      /\ w.ioc = a[i].ioc /\ w.left = l /\ w.active = FALSE
  <2>1. PICK y \in Qtds : y = a[i]
    BY <1>5
  <2> QED
    BY <1>4, <2>1 DEF Qtds
<1>7. r = [a EXCEPT ![i] = w]
  BY <1>3, <1>4, <1>5 DEF AfterMove
<1>8. /\ r \in Seq(Qtds) /\ Len(r) = Len(q) /\ r[i] = w
      /\ \A j \in 1 .. Len(q) : j # i => r[j] = a[j]
  <2>1. i \in 1 .. Len(a)
    BY <1>5
  <2>2. a \in Seq(Qtds) /\ w \in Qtds
    BY <1>5, <1>6
  <2>3. /\ r \in Seq(Qtds) /\ Len(r) = Len(a) /\ r[i] = w
        /\ \A j \in 1 .. Len(a) : j # i => r[j] = a[j]
    BY <1>7, <2>1, <2>2
  <2> QED
    BY <1>5, <2>3
<1>9. SameShape(q, r)
  BY <1>2, <1>6, <1>8 DEF SameShape
<1>10. ASSUME NEW j \in 1 .. Len(q)
       PROVE  /\ j # i => r[j].left = q[j].left
              /\ r[j].active => q[j].active
              /\ a = Stopped(q) => ~ r[j].active
  BY <1>2, <1>6, <1>8
<1> QED
  BY <1>3, <1>6, <1>8, <1>9, <1>10

LEMMA HaltedQ ==
  ASSUME NEW q \in Seq(Qtds), NEW i \in 1 .. Len(q),
         NEW r, r = AfterHalt(q, i)
  PROVE  /\ SameShape(q, r)
         /\ \A j \in 1 .. Len(q) : r[j].left = q[j].left /\ ~ r[j].active
<1>1. PICK a : a = Stopped(q)
  OBVIOUS
<1>2. SameShape(q, a) /\ \A j \in 1 .. Len(q) : a[j].left = q[j].left /\ ~ a[j].active
  BY <1>1, StoppedQ
<1>3. PICK w : w = [a[i] EXCEPT !.halted = TRUE]
  OBVIOUS
<1>4. a \in Seq(Qtds) /\ Len(a) = Len(q) /\ a[i] \in Qtds
  BY <1>2 DEF SameShape
<1>5. /\ w \in Qtds /\ w.pid = a[i].pid /\ w.len = a[i].len /\ w.alt = a[i].alt
      /\ w.ioc = a[i].ioc /\ w.left = a[i].left /\ w.active = a[i].active
  <2>1. PICK y \in Qtds : y = a[i]
    BY <1>4
  <2> QED
    BY <1>3, <2>1 DEF Qtds
<1>6. r = [a EXCEPT ![i] = w]
  BY <1>1, <1>3 DEF AfterHalt
<1>7. /\ r \in Seq(Qtds) /\ Len(r) = Len(q) /\ r[i] = w
      /\ \A j \in 1 .. Len(q) : j # i => r[j] = a[j]
  <2>1. i \in 1 .. Len(a)
    BY <1>4
  <2>2. a \in Seq(Qtds) /\ w \in Qtds
    BY <1>4, <1>5
  <2>3. /\ r \in Seq(Qtds) /\ Len(r) = Len(a) /\ r[i] = w
        /\ \A j \in 1 .. Len(a) : j # i => r[j] = a[j]
    BY <1>6, <2>1, <2>2
  <2> QED
    BY <1>4, <2>3
<1>8. ASSUME NEW j \in 1 .. Len(q)
      PROVE  /\ r[j].pid = q[j].pid /\ r[j].len = q[j].len
             /\ r[j].alt = q[j].alt /\ r[j].ioc = q[j].ioc
             /\ r[j].left = q[j].left /\ ~ r[j].active
  <2>1. /\ a[j].pid = q[j].pid /\ a[j].len = q[j].len
        /\ a[j].alt = q[j].alt /\ a[j].ioc = q[j].ioc
        /\ a[j].left = q[j].left /\ ~ a[j].active
    BY <1>2 DEF SameShape
  <2>2. CASE j = i
    BY <1>5, <1>7, <2>1, <2>2
  <2>3. CASE j # i
    BY <1>7, <2>1, <2>3
  <2> QED
    BY <2>2, <2>3
<1> QED
  BY <1>7, <1>8 DEF SameShape

\* What was moved grows by what is moved.
Gone(q) == [i \in 1 .. Len(q) |-> IF q[i].pid = "setup" THEN 0 ELSE q[i].len - q[i].left]

LEMMA GoneInts == ASSUME NEW q \in Seq(Qtds) PROVE Gone(q) \in Seq(Int) /\ Len(Gone(q)) = Len(q)
<1>1. ASSUME NEW i \in 1 .. Len(q) PROVE Gone(q)[i] \in Int
  <2>1. q[i].len \in Nat /\ q[i].left \in Int
    <3>1. q[i] \in Qtds
      OBVIOUS
    <3> QED
      BY <3>1 DEF Qtds
  <2> QED
    BY <2>1 DEF Gone
<1> QED
  BY <1>1 DEF Gone

LEMMA ActualSame ==
  ASSUME NEW q \in Seq(Qtds), NEW r, SameShape(q, r),
         \A j \in 1 .. Len(q) : r[j].left = q[j].left
  PROVE  Actual(r) = Actual(q)
<1>1. Gone(r) = Gone(q)
  BY DEF Gone, SameShape
<1> QED
  BY <1>1 DEF Gone, Actual

LEMMA ActualMoves ==
  ASSUME NEW q \in Seq(Qtds), NEW r, SameShape(q, r), NEW i \in 1 .. Len(q), NEW n \in Int,
         q[i].left = q[i].len, r[i].left = q[i].len - n,
         \A j \in 1 .. Len(q) : j # i => r[j].left = q[j].left
  PROVE  Actual(r) = Actual(q) + (IF q[i].pid = "setup" THEN 0 ELSE n)
<1>1. PICK s : s = Gone(q)
  OBVIOUS
<1>2. PICK t : t = Gone(r)
  OBVIOUS
<1>3. r \in Seq(Qtds) /\ Len(r) = Len(q)
  BY DEF SameShape
<1>4. s \in Seq(Int) /\ t \in Seq(Int) /\ Len(s) = Len(q) /\ Len(t) = Len(q)
  BY <1>1, <1>2, <1>3, GoneInts
<1>5. \A j \in 1 .. Len(s) : j # i => s[j] = t[j]
  BY <1>1, <1>2, <1>3, <1>4 DEF Gone, SameShape
<1>6. Total(t) = Total(s) + t[i] - s[i]
  BY <1>4, <1>5, TotalChange
<1>7. q[i].len \in Int /\ q[i].left \in Int
  <2>1. q[i] \in Qtds
    OBVIOUS
  <2> QED
    BY <2>1 DEF Qtds
<1>8. s[i] = 0 /\ t[i] = IF q[i].pid = "setup" THEN 0 ELSE n
  <2>1. s[i] = IF q[i].pid = "setup" THEN 0 ELSE q[i].len - q[i].left
    BY <1>1 DEF Gone
  <2>2. t[i] = IF r[i].pid = "setup" THEN 0 ELSE r[i].len - r[i].left
    BY <1>2, <1>3 DEF Gone
  <2>3. r[i].pid = q[i].pid /\ r[i].len = q[i].len
    BY DEF SameShape
  <2> QED
    BY <1>7, <2>1, <2>2, <2>3
<1>9. Actual(q) = Total(s) /\ Actual(r) = Total(t)
  BY <1>1, <1>2 DEF Gone, Actual
<1>10. Total(s) \in Int
  BY <1>4, TotalInt
<1> QED
  BY <1>6, <1>8, <1>9, <1>10

\* The invariant on the descriptors' lengths, for any queue.
DataOf(q, c, len) == {i \in 1 .. Len(q) : q[i].pid # "setup" /\ ~ (c /\ i = Len(q) /\ len # 0)}
Lengths1(q) == [i \in 1 .. Len(q) |-> IF q[i].pid = "setup" THEN 0 ELSE q[i].len]
Covers(q, c, len) ==
  /\ Len(q) <= MaxQtd /\ Total(Lengths1(q)) = len
  /\ \A i \in DataOf(q, c, len) : i + 1 \in DataOf(q, c, len) => q[i].len % Packet = 0

LEMMA CoversIs ==
  ASSUME queue \in Seq(Qtds)
  PROVE  QueueCovers <=> (urb.at # "idle" /\ queue # <<>> => Covers(queue, urb.control, urb.len))
<1>1. DOMAIN queue = 1 .. Len(queue)
  OBVIOUS
<1>2. {i \in DOMAIN queue : IsData(i)} = DataOf(queue, urb.control, urb.len)
  BY <1>1 DEF IsData, DataOf
<1> QED
  BY <1>2 DEF QueueCovers, Covers, Lengths1

LEMMA CoversIsNext ==
  ASSUME queue' \in Seq(Qtds)
  PROVE  QueueCovers' <=>
           (urb'.at # "idle" /\ queue' # <<>> => Covers(queue', urb'.control, urb'.len))
<1>1. DOMAIN queue' = 1 .. Len(queue')
  OBVIOUS
<1>2. {i \in DOMAIN queue' : IsData(i)'} = DataOf(queue', urb'.control, urb'.len)
  BY <1>1 DEF IsData, DataOf
<1> QED
  BY <1>2 DEF QueueCovers, Covers, Lengths1

LEMMA CoversSame ==
  ASSUME NEW q \in Seq(Qtds), NEW r, SameShape(q, r), NEW c, NEW len, Covers(q, c, len)
  PROVE  Covers(r, c, len)
<1>1. DataOf(r, c, len) = DataOf(q, c, len)
  BY DEF DataOf, SameShape
<1>2. Lengths1(r) = Lengths1(q)
  BY DEF Lengths1, SameShape
<1>3. \A i \in DataOf(q, c, len) : r[i].len = q[i].len
  BY DEF DataOf, SameShape
<1>4. Len(r) = Len(q)
  BY DEF SameShape
<1> QED
  BY <1>1, <1>2, <1>3, <1>4 DEF Covers

-----------------------------------------------------------------------------
EI == EInv /\ QueueCovers
EVars == <<urb, queue, linked, hc, sts_int, tog, dtog, moved, gaveup, leftover, late>>

\* The search for a drive and what is plugged in do not touch a transfer.
LEMMA EStutter == ASSUME EI, UNCHANGED EVars PROVE EI'
<1>1. ETyped' /\ ShapeInv' /\ OrderInv'
  BY DEF EI, EInv, EVars, ETyped, ShapeInv, OrderInv
<1>2. GoneInv'
  BY DEF EI, EInv, EVars, GoneInv
<1>3. MovedInv'
  BY DEF EI, EInv, EVars, MovedInv
<1>4. TogInv'
  BY DEF EI, EInv, EVars, TogInv, Through, Undisturbed
<1>5. QueueCovers'
  BY DEF EI, EVars, QueueCovers, IsData
<1> QED
  BY <1>1, <1>2, <1>3, <1>4, <1>5 DEF EI, EInv

LEMMA QueueSame ==
  ASSUME EI, UNCHANGED queue, urb.at \in Busy,
         urb'.control = urb.control, urb'.len = urb.len
  PROVE  QueueCovers'
BY DEF EI, QueueCovers, IsData, Busy

LEMMA ELeave == ASSUME EI, Leave PROVE EI'
<1>1. /\ hc.at = "queue" /\ hc' = AtHead /\ urb.at \in Busy
      /\ UNCHANGED <<urb, queue, linked, sts_int, tog, dtog, moved, gaveup, leftover, late>>
  BY DEF EI, EInv, ETyped, ShapeInv, Urbs, Ats, Busy, Leave
<1>2. hc'.at = "head" /\ hc' \in Places
  BY <1>1 DEF AtHead, Places
<1>3. ETyped' /\ ShapeInv' /\ OrderInv'
  BY <1>1, <1>2 DEF EI, EInv, ETyped, ShapeInv, OrderInv
<1>4. GoneInv' /\ MovedInv'
  BY <1>1, <1>2 DEF EI, EInv, GoneInv, MovedInv
<1>5. TogInv'
  BY <1>1, <1>2 DEF EI, EInv, TogInv, Through, Undisturbed
<1>6. QueueCovers'
  BY <1>1, QueueSame
<1> QED
  BY <1>3, <1>4, <1>5, <1>6 DEF EI, EInv

LEMMA EStrays == ASSUME EI, Strays PROVE EI'
<1>1. /\ hc.at = "astray" /\ hc' = AtHead /\ sts_int' \in BOOLEAN
      /\ UNCHANGED <<urb, queue, linked, tog, dtog, moved, gaveup, leftover, late>>
  BY DEF EI, EInv, ETyped, Strays
<1>2. hc'.at = "head" /\ hc' \in Places
  BY <1>1 DEF AtHead, Places
<1>3. gaveup /\ gaveup'
  BY <1>1 DEF EI, EInv, GoneInv
<1>4. ETyped' /\ ShapeInv' /\ OrderInv'
  BY <1>1, <1>2 DEF EI, EInv, ETyped, ShapeInv, OrderInv
<1>5. GoneInv' /\ MovedInv'
  BY <1>1, <1>2 DEF EI, EInv, GoneInv, MovedInv
<1>6. TogInv'
  BY <1>3 DEF TogInv, Undisturbed
<1>7. QueueCovers'
  BY <1>1 DEF EI, QueueCovers, IsData
<1> QED
  BY <1>4, <1>5, <1>6, <1>7 DEF EI, EInv

LEMMA EEnter == ASSUME EI, Enter PROVE EI'
<1>1. PICK i \in DOMAIN queue :
        /\ queue[i].active /\ \A j \in 1 .. i - 1 : ~ queue[j].active
        /\ hc' = [at |-> "queue", i |-> i]
  BY DEF Enter
<1>2. /\ hc.at = "head" /\ linked /\ urb.at = "wait"
      /\ UNCHANGED <<urb, queue, linked, sts_int, tog, dtog, moved, gaveup, leftover, late>>
  BY DEF EI, EInv, GoneInv, Enter
<1>3. i \in 1 .. Len(queue) /\ Len(queue) \in Nat
  BY <1>1 DEF EI, EInv, ETyped
<1>4. hc'.at = "queue" /\ hc'.i = i /\ hc' \in Places
  BY <1>1, <1>3 DEF Places
<1>5. ETyped' /\ ShapeInv'
  BY <1>2, <1>4 DEF EI, EInv, ETyped, ShapeInv
<1>6. OrderInv'
  <2>1. ASSUME NEW j \in 1 .. Len(queue)
        PROVE  IF j < i THEN ~ queue[j].active ELSE queue[j].left = queue[j].len
    BY <1>1, <1>3 DEF EI, EInv, OrderInv
  <2> QED
    BY <1>2, <1>3, <1>4, <2>1 DEF EI, EInv, OrderInv
<1>7. GoneInv' /\ MovedInv'
  BY <1>2, <1>4 DEF EI, EInv, GoneInv, MovedInv
<1>8. TogInv'
  <2>1. SUFFICES ASSUME Undisturbed PROVE TogInv'
    BY <1>2 DEF TogInv, Undisturbed
  <2>2. ~ Through
    BY <1>1, <1>3 DEF Through
  <2> QED
    BY <1>2, <2>1, <2>2 DEF EI, EInv, TogInv
<1>9. QueueCovers'
  BY <1>2, QueueSame DEF Busy
<1> QED
  BY <1>5, <1>6, <1>7, <1>8, <1>9 DEF EI, EInv

\* What is common to the two ways a transfer is taken back.
LEMMA ETaken ==
  ASSUME EI, urb.at = "wait", NEW next \in {"stopping", "ending"}, NEW ret \in {"none", "ETIMEDOUT"},
         TakenBack(next, ret)
  PROVE  /\ urb' \in Urbs /\ urb'.at = next /\ urb'.answer = ret
         /\ urb'.control = urb.control /\ urb'.dir = urb.dir /\ urb'.len = urb.len
         /\ linked' = FALSE /\ sts_int' = FALSE
         /\ UNCHANGED <<queue, hc, dtog, moved, leftover, late>>
         /\ tog' \in [Dirs -> Nat]
         /\ Undisturbed => tog' = dtog
<1>1. PICK u \in Urbs : u = urb
  BY DEF EI, EInv, ETyped
<1>2. /\ urb' = [u EXCEPT !.at = next, !.answer = ret]
      /\ linked' = FALSE /\ sts_int' = FALSE
      /\ UNCHANGED <<queue, hc, dtog, moved, leftover, late>>
      /\ tog' = IF urb.control THEN tog ELSE [tog EXCEPT ![urb.dir] = dtog[urb.dir]]
  BY <1>1 DEF TakenBack, Toggle
<1>3. /\ urb' \in Urbs /\ urb'.at = next /\ urb'.answer = ret
      /\ urb'.control = u.control /\ urb'.dir = u.dir /\ urb'.len = u.len
  BY <1>2 DEF Urbs, Ats, Answers
<1>4. tog \in [Dirs -> Nat] /\ dtog \in [Dirs -> Nat] /\ urb.dir \in Dirs /\ urb.control \in BOOLEAN
  BY <1>1 DEF EI, EInv, ETyped, Urbs
<1>5. tog' \in [Dirs -> Nat]
  BY <1>2, <1>4
<1>6. ASSUME Undisturbed PROVE tog' = dtog
  <2>1. \A d \in Dirs : d # urb.dir \/ urb.control => tog[d] = dtog[d]
    BY <1>6 DEF EI, EInv, TogInv
  <2>2. \A d \in Dirs : tog'[d] = dtog[d]
    BY <1>2, <1>4, <2>1
  <2> QED
    BY <1>4, <1>5, <2>2
<1> QED
  BY <1>1, <1>2, <1>3, <1>5, <1>6

LEMMA EDone == ASSUME EI, HandshakeDone PROVE EI'
<1>1. urb.at = "wait" /\ sts_int /\ TakenBack("stopping", "none") /\ UNCHANGED gaveup
  BY DEF HandshakeDone
<1>2. /\ urb' \in Urbs /\ urb'.at = "stopping" /\ urb'.answer = "none"
      /\ urb'.control = urb.control /\ urb'.dir = urb.dir /\ urb'.len = urb.len
      /\ linked' = FALSE /\ sts_int' = FALSE
      /\ UNCHANGED <<queue, hc, dtog, moved, leftover, late>>
      /\ tog' \in [Dirs -> Nat]
      /\ Undisturbed => tog' = dtog
  BY <1>1, ETaken
<1>3. ETyped' /\ ShapeInv' /\ OrderInv'
  BY <1>1, <1>2 DEF EI, EInv, ETyped, ShapeInv, OrderInv, Busy
<1>4. GoneInv'
  BY <1>1, <1>2 DEF EI, EInv, GoneInv
<1>5. MovedInv'
  BY <1>1, <1>2 DEF EI, EInv, MovedInv, Busy
<1>6. TogInv'
  BY <1>1, <1>2 DEF EI, EInv, TogInv, Through, Undisturbed
<1>7. QueueCovers'
  BY <1>1, <1>2, QueueSame DEF Busy
<1> QED
  BY <1>3, <1>4, <1>5, <1>6, <1>7 DEF EI, EInv

LEMMA ETimeout == ASSUME EI, HandshakeTimeout PROVE EI'
<1>1. /\ urb.at = "wait" /\ TakenBack("ending", "ETIMEDOUT")
      /\ gaveup' = (gaveup \/ hc.at # "head")
  BY DEF HandshakeTimeout, GivesUp
<1>2. /\ urb' \in Urbs /\ urb'.at = "ending" /\ urb'.answer = "ETIMEDOUT"
      /\ urb'.control = urb.control /\ urb'.dir = urb.dir /\ urb'.len = urb.len
      /\ linked' = FALSE /\ sts_int' = FALSE
      /\ UNCHANGED <<queue, hc, dtog, moved, leftover, late>>
      /\ tog' \in [Dirs -> Nat]
      /\ Undisturbed => tog' = dtog
  BY <1>1, ETaken
<1>3. ETyped' /\ ShapeInv' /\ OrderInv'
  BY <1>1, <1>2 DEF EI, EInv, ETyped, ShapeInv, OrderInv, Busy
<1>4. GoneInv'
  BY <1>1, <1>2 DEF EI, EInv, GoneInv
<1>5. MovedInv'
  BY <1>1, <1>2 DEF EI, EInv, MovedInv, Busy
<1>6. TogInv'
  BY <1>1, <1>2 DEF EI, EInv, TogInv, Undisturbed
<1>7. QueueCovers'
  BY <1>1, <1>2, QueueSame DEF Busy
<1> QED
  BY <1>3, <1>4, <1>5, <1>6, <1>7 DEF EI, EInv

LEMMA EStopped == ASSUME EI, WaitStopped PROVE EI'
<1>1. PICK u \in Urbs : u = urb
  BY DEF EI, EInv, ETyped
<1>2. PICK ret \in Answers : ret = IF hc.at = "head" THEN urb.answer ELSE "ETIMEDOUT"
  BY <1>1 DEF Urbs, Answers
<1>3. /\ urb.at = "stopping" /\ urb' = [u EXCEPT !.at = "ending", !.answer = ret]
      /\ gaveup' = (gaveup \/ hc.at # "head")
      /\ UNCHANGED <<queue, linked, hc, sts_int, tog, dtog, moved, leftover, late>>
  BY <1>1, <1>2 DEF WaitStopped, GivesUp
<1>4. /\ urb' \in Urbs /\ urb'.at = "ending"
      /\ urb'.control = urb.control /\ urb'.dir = urb.dir /\ urb'.len = urb.len
  BY <1>1, <1>3 DEF Urbs, Ats
<1>5. ETyped' /\ ShapeInv' /\ OrderInv'
  BY <1>3, <1>4 DEF EI, EInv, ETyped, ShapeInv, OrderInv, Busy
<1>6. GoneInv'
  BY <1>3, <1>4 DEF EI, EInv, GoneInv
<1>7. MovedInv'
  BY <1>3, <1>4 DEF EI, EInv, MovedInv, Busy
<1>8. TogInv'
  BY <1>3, <1>4 DEF EI, EInv, TogInv, Undisturbed
<1>9. QueueCovers'
  BY <1>3, <1>4, QueueSame DEF Busy
<1> QED
  BY <1>5, <1>6, <1>7, <1>8, <1>9 DEF EI, EInv

LEMMA ActualInt == ASSUME NEW q \in Seq(Qtds) PROVE Actual(q) \in Int
<1>1. Actual(q) = Total(Gone(q))
  BY DEF Actual, Gone
<1> QED
  BY <1>1, GoneInts, TotalInt

LEMMA EEnds == ASSUME EI, qh_end_transfer PROVE EI'
<1>1. PICK u \in Urbs : u = urb
  BY DEF EI, EInv, ETyped
<1>2. PICK c \in Int : c = Actual(queue)
  BY ActualInt DEF EI, EInv, ETyped
<1>3. PICK ret \in Answers : ret = IF urb.answer = "none" THEN "moved" ELSE urb.answer
  BY <1>1 DEF Urbs, Answers
<1>4. /\ urb.at = "ending" /\ queue' = <<>>
      /\ \/ urb' = [u EXCEPT !.at = "dead"]
         \/ urb' = [u EXCEPT !.at = "idle", !.count = c, !.answer = ret]
      /\ hc' = IF hc.at = "head" THEN hc ELSE [at |-> "astray", i |-> 0]
      /\ UNCHANGED <<linked, sts_int, tog, dtog, moved, gaveup, leftover, late>>
  BY <1>1, <1>2, <1>3 DEF qh_end_transfer
<1>5. urb' \in Urbs /\ (urb'.at = "dead" \/ (urb'.at = "idle" /\ urb'.count = c))
  <2>1. CASE urb' = [u EXCEPT !.at = "dead"]
    BY <2>1 DEF Urbs, Ats
  <2>2. CASE urb' = [u EXCEPT !.at = "idle", !.count = c, !.answer = ret]
    BY <2>2 DEF Urbs, Ats
  <2> QED
    BY <1>4, <2>1, <2>2
<1>6. /\ hc' \in Places /\ hc'.at # "queue"
      /\ hc'.at = "astray" => hc.at # "head"
  BY <1>4 DEF EI, EInv, ETyped, Places
<1>7. queue' \in Seq(Qtds) /\ Len(queue') = 0
  BY <1>4
<1>8. ETyped'
  BY <1>4, <1>5, <1>6, <1>7 DEF EI, EInv, ETyped
<1>9. ShapeInv' /\ OrderInv'
  BY <1>4, <1>5, <1>6, <1>7 DEF ShapeInv, OrderInv, Busy
<1>10. GoneInv'
  BY <1>4, <1>5, <1>6 DEF EI, EInv, GoneInv
<1>11. MovedInv'
  BY <1>2, <1>4, <1>5 DEF EI, EInv, MovedInv, Busy
<1>12. TogInv'
  BY <1>4, <1>5 DEF EI, EInv, TogInv, Undisturbed
<1>13. QueueCovers'
  BY <1>4 DEF QueueCovers
<1> QED
  BY <1>8, <1>9, <1>10, <1>11, <1>12, <1>13 DEF EI, EInv

\* What Moves does to the queue, the device and the account of it.
LEMMA EMoves ==
  ASSUME EI, Working, NEW n \in 0 .. queue[hc.i].len, NEW a, a = queue \/ a = Stopped(queue),
         Moves(n, a)
  PROVE  /\ SameShape(queue, queue') /\ ~ queue'[hc.i].active
         /\ \A j \in 1 .. Len(queue) :
              /\ j # hc.i => queue'[j].left = queue[j].left
              /\ queue'[j].active => queue[j].active
              /\ a = Stopped(queue) => ~ queue'[j].active
         /\ moved' = Actual(queue') /\ moved' \in Int
         /\ dtog' \in [Dirs -> Nat]
         /\ urb.control => dtog' = dtog
         /\ ~ urb.control => \A d \in Dirs : d # urb.dir => dtog'[d] = dtog[d]
<1>1. queue \in Seq(Qtds) /\ hc.at = "queue" /\ urb.at \in Busy /\ urb.control \in BOOLEAN
  BY DEF EI, EInv, ETyped, ShapeInv, Urbs, Ats, Busy, Working
<1>2. PICK i : i = hc.i
  OBVIOUS
<1>3. i \in 1 .. Len(queue)
  BY <1>1, <1>2 DEF Working
<1>4. queue[i] \in Qtds
  BY <1>1, <1>3
<1>5. queue[i].len \in Nat /\ n \in Int /\ n \in Nat
  BY <1>2, <1>4 DEF Qtds
<1>6. queue' = AfterMove(queue, a, i, n)
  BY <1>2 DEF Moves, AfterMove
<1>7. PICK r : r = queue'
  OBVIOUS
<1>8. /\ SameShape(queue, r) /\ r[i].left = queue[i].len - n /\ ~ r[i].active
      /\ \A j \in 1 .. Len(queue) :
           /\ j # i => r[j].left = queue[j].left
           /\ r[j].active => queue[j].active
           /\ a = Stopped(queue) => ~ r[j].active
  BY <1>1, <1>3, <1>5, <1>6, <1>7, MovedQ
<1>9. queue[i].left = queue[i].len
  BY <1>1, <1>2, <1>3 DEF EI, EInv, OrderInv
<1>10. moved' = IF queue[i].pid = "setup" THEN moved ELSE moved + n
  BY <1>2 DEF Moves
<1>11. moved = Actual(queue) /\ moved \in Int
  BY <1>1 DEF EI, EInv, MovedInv, ETyped
<1>12. moved' = Actual(r) /\ moved' \in Int
  <2>1. Actual(r) = Actual(queue) + (IF queue[i].pid = "setup" THEN 0 ELSE n)
    BY <1>1, <1>3, <1>5, <1>8, <1>9, ActualMoves
  <2> QED
    BY <1>5, <1>10, <1>11, <2>1
<1>13. dtog' \in [Dirs -> Nat] /\ (urb.control => dtog' = dtog)
  <2>1. dtog \in [Dirs -> Nat]
    BY DEF EI, EInv, ETyped
  <2>2. CASE urb.control
    BY <2>1, <2>2 DEF Moves
  <2>3. CASE ~ urb.control
    <3>1. PICK x : x = dtog[urb.dir]
      OBVIOUS
    <3>2. x \in Nat
      BY <2>1, <3>1 DEF EI, EInv, ETyped, Urbs
    <3>4. Packets(n) \in Nat
      <4>1. Packet \in Nat \ {0}
        BY EHCIAssumption
      <4>2. n + Packet - 1 \in Nat
        BY <1>5, <4>1
      <4> QED
        BY <1>5, <4>1, <4>2 DEF Packets
    <3>5. (x + Packets(n)) % 2 \in Nat
      BY <3>2, <3>4
    <3>6. queue[i].pid = urb.dir
      BY <1>1, <1>3, <2>3 DEF EI, EInv, ShapeInv
    <3>7. dtog' = [dtog EXCEPT ![urb.dir] = (x + Packets(n)) % 2]
      BY <1>2, <2>3, <3>1, <3>6 DEF Moves
    <3> QED
      BY <2>1, <2>3, <3>5, <3>7
  <2> QED
    BY <2>2, <2>3
<1>14. ASSUME ~ urb.control, NEW d \in Dirs, d # urb.dir PROVE dtog'[d] = dtog[d]
  <2>1. queue[i].pid = urb.dir
    BY <1>1, <1>3, <1>14 DEF EI, EInv, ShapeInv
  <2>2. dtog \in [Dirs -> Nat]
    BY DEF EI, EInv, ETyped
  <2>3. PICK y : y = (dtog[queue[i].pid] + Packets(n)) % 2
    OBVIOUS
  <2>4. dtog' = [dtog EXCEPT ![queue[i].pid] = y]
    BY <1>2, <1>14, <2>3 DEF Moves
  <2> QED
    BY <1>14, <2>1, <2>2, <2>4
<1> QED
  BY <1>2, <1>7, <1>8, <1>12, <1>13, <1>14

\* A step of the controller in the queue.
LEMMA EQueueStep ==
  ASSUME EI, Working, UNCHANGED <<urb, linked, tog, gaveup, leftover, late>>,
         SameShape(queue, queue'), hc' \in Places, hc'.at \in {"head", "queue"},
         sts_int' \in BOOLEAN, moved' = Actual(queue'), moved' \in Int,
         dtog' \in [Dirs -> Nat], urb.control => dtog' = dtog,
         ~ urb.control => \A d \in Dirs : d # urb.dir => dtog'[d] = dtog[d],
         OrderInv',
         ~ urb.control /\ urb.at = "wait" /\ Undisturbed /\ ~ Through /\ sts_int' => Through'
  PROVE  EI'
<1>1. /\ queue \in Seq(Qtds) /\ hc.at = "queue" /\ urb.at \in Busy /\ urb.control \in BOOLEAN
      /\ ~ Through
  BY DEF EI, EInv, ETyped, ShapeInv, Urbs, Ats, Busy, Working, Through
<1>2. queue' \in Seq(Qtds) /\ Len(queue') = Len(queue)
  BY DEF SameShape
<1>3. ETyped'
  BY <1>2 DEF EI, EInv, ETyped
<1>4. ShapeInv'
  <2>1. urb'.at \in Busy /\ urb'.at \notin {"idle", "dead"}
    BY <1>1 DEF Busy
  <2>2. ASSUME NEW i \in 1 .. Len(queue)
        PROVE  /\ ~ urb.control => queue'[i].pid = urb.dir
               /\ ~ urb.control /\ queue'[i].alt = "end" => i = Len(queue)
               /\ queue'[i].ioc => i = Len(queue)
    BY <1>1 DEF EI, EInv, ShapeInv, SameShape
  <2> QED
    BY <1>2, <2>1, <2>2 DEF ShapeInv
<1>5. GoneInv'
  BY <1>1 DEF EI, EInv, GoneInv
<1>6. MovedInv'
  BY <1>1 DEF EI, EInv, MovedInv, Busy
<1>7. TogInv'
  <2>1. SUFFICES ASSUME Undisturbed PROVE TogInv'
    BY DEF TogInv, Undisturbed
  <2>2. urb.at # "ending"
    BY <1>1, <2>1 DEF EI, EInv, GoneInv, Undisturbed
  <2>3. urb.at = "stopping" => urb.control
    BY <1>1, <2>1 DEF EI, EInv, TogInv
  <2>4. urb.at = "wait" => \A d \in Dirs : d # urb.dir \/ urb.control => tog'[d] = dtog'[d]
    BY <2>1 DEF EI, EInv, TogInv
  <2>5. urb.at = "stopping" => tog' = dtog'
    BY <2>1, <2>3 DEF EI, EInv, TogInv
  <2>6. ~ urb.control /\ urb.at = "wait" /\ sts_int' => Through'
    BY <1>1, <2>1
  <2>7. urb' = urb /\ (urb.at = "wait" \/ urb.at = "stopping")
    BY <1>1, <2>2 DEF Busy
  <2> QED
    BY <2>3, <2>4, <2>5, <2>6, <2>7 DEF TogInv
<1>8. QueueCovers'
  <2>1. SUFFICES ASSUME queue' # <<>> PROVE Covers(queue', urb'.control, urb'.len)
    BY <1>2, CoversIsNext
  <2>2. queue # <<>> /\ urb.at # "idle"
    BY <1>1, <1>2, <2>1 DEF Busy
  <2>3. Covers(queue, urb.control, urb.len)
    BY <1>1, <2>2, CoversIs DEF EI
  <2> QED
    BY <1>1, <2>3, CoversSame
<1> QED
  BY <1>3, <1>4, <1>5, <1>6, <1>7, <1>8 DEF EI, EInv

LEMMA EExecutes == ASSUME EI, Executes PROVE EI'
<1>1. /\ Working /\ Moves(queue[hc.i].len, queue)
      /\ sts_int' = (sts_int \/ queue[hc.i].ioc)
      /\ hc' = [hc EXCEPT !.i = @ + 1]
      /\ UNCHANGED <<urb, linked, tog, gaveup, leftover, late>>
  BY DEF Executes
<1>2. queue \in Seq(Qtds) /\ hc \in Places /\ hc.at = "queue" /\ hc.i \in 1 .. Len(queue)
  BY <1>1 DEF EI, EInv, ETyped, Working
<1>3. queue[hc.i] \in Qtds
  BY <1>2
<1>4. queue[hc.i].len \in 0 .. queue[hc.i].len /\ queue[hc.i].ioc \in BOOLEAN
  BY <1>3 DEF Qtds
<1>5. /\ SameShape(queue, queue') /\ ~ queue'[hc.i].active
      /\ \A j \in 1 .. Len(queue) :
           /\ j # hc.i => queue'[j].left = queue[j].left
           /\ queue'[j].active => queue[j].active
      /\ moved' = Actual(queue') /\ moved' \in Int
      /\ dtog' \in [Dirs -> Nat]
      /\ urb.control => dtog' = dtog
      /\ ~ urb.control => \A d \in Dirs : d # urb.dir => dtog'[d] = dtog[d]
  BY <1>1, <1>4, EMoves
<1>6. hc' \in Places /\ hc'.at = "queue" /\ hc'.i = hc.i + 1
  BY <1>1, <1>2 DEF Places
<1>7. \A j \in 1 .. Len(queue) : queue'[j].len = queue[j].len
  BY <1>5 DEF SameShape
<1>8. Len(queue') = Len(queue) /\ Len(queue) \in Nat
  BY <1>2, <1>5 DEF SameShape
<1>9. OrderInv'
  <2>1. ASSUME NEW j \in 1 .. Len(queue)
        PROVE  IF j < hc.i + 1 THEN ~ queue'[j].active ELSE queue'[j].left = queue'[j].len
    <3>1. IF j < hc.i THEN ~ queue[j].active ELSE queue[j].left = queue[j].len
      BY <1>2 DEF EI, EInv, OrderInv
    <3> QED
      BY <1>2, <1>5, <1>7, <3>1
  <2>2. ASSUME NEW j \in 1 .. Len(queue), NEW k \in 1 .. Len(queue), queue'[j].active, k >= j
        PROVE  queue'[k].left = queue'[k].len
    <3>1. queue[j].active /\ ~ (j < hc.i + 1)
      BY <1>5, <2>1, <2>2
    <3>2. queue[k].left = queue[k].len
      BY <2>2, <3>1 DEF EI, EInv, OrderInv
    <3>3. k # hc.i
      BY <1>2, <2>2, <3>1
    <3> QED
      BY <1>5, <1>7, <3>2, <3>3
  <2>3. hc'.i \in 1 .. Len(queue') + 1
    BY <1>2, <1>6, <1>8
  <2> QED
    BY <1>6, <1>8, <2>1, <2>2, <2>3 DEF OrderInv
<1>10. ASSUME ~ urb.control, ~ Through, sts_int', urb.at = "wait", Undisturbed PROVE Through'
  <2>1. ~ sts_int
    BY <1>10 DEF EI, EInv, TogInv
  <2>2. queue[hc.i].ioc
    BY <1>1, <1>10, <2>1
  <2>3. hc.i = Len(queue)
    BY <1>2, <1>10, <2>2 DEF EI, EInv, ShapeInv, Busy
  <2>4. ASSUME NEW j \in 1 .. Len(queue) PROVE ~ queue'[j].active
    <3>1. CASE j = hc.i
      BY <1>5, <3>1
    <3>2. CASE j # hc.i
      <4>1. ~ queue[j].active
        BY <1>2, <2>3, <3>2 DEF EI, EInv, OrderInv
      <4> QED
        BY <1>5, <4>1
    <3> QED
      BY <3>1, <3>2
  <2> QED
    BY <1>6, <1>8, <2>3, <2>4 DEF Through
<1>11. sts_int' \in BOOLEAN
  BY <1>1, <1>4 DEF EI, EInv, ETyped
<1> QED
  BY <1>1, <1>5, <1>6, <1>9, <1>10, <1>11, EQueueStep

\* The controller is through with a queue that is stopped, or of which it
\* worked the last descriptor.
LEMMA EShort == ASSUME EI, Short PROVE EI'
<1>1. PICK n \in {0, 1, Packet} \cap (0 .. queue[hc.i].len - 1) :
        Moves(n, IF queue[hc.i].alt = "zero" THEN Stopped(queue) ELSE queue)
  BY DEF Short
<1>2. /\ Working /\ sts_int' = TRUE
      /\ hc' = [hc EXCEPT !.i = IF queue[hc.i].alt = "zero" THEN Len(queue) + 1 ELSE @ + 1]
      /\ UNCHANGED <<urb, linked, tog, gaveup, leftover, late>>
  BY DEF Short
<1>3. queue \in Seq(Qtds) /\ hc \in Places /\ hc.at = "queue" /\ hc.i \in 1 .. Len(queue)
  BY <1>2 DEF EI, EInv, ETyped, Working
<1>4. queue[hc.i] \in Qtds
  BY <1>3
<1>5. n \in 0 .. queue[hc.i].len /\ queue[hc.i].alt \in {"zero", "end"}
  <2>1. queue[hc.i].len \in Nat /\ n \in 0 .. queue[hc.i].len - 1
    BY <1>1, <1>4 DEF Qtds
  <2> QED
    BY <1>4, <2>1 DEF Qtds
<1>6. PICK a : a = IF queue[hc.i].alt = "zero" THEN Stopped(queue) ELSE queue
  OBVIOUS
<1>7. /\ SameShape(queue, queue') /\ ~ queue'[hc.i].active
      /\ \A j \in 1 .. Len(queue) :
           /\ j # hc.i => queue'[j].left = queue[j].left
           /\ queue'[j].active => queue[j].active
           /\ a = Stopped(queue) => ~ queue'[j].active
      /\ moved' = Actual(queue') /\ moved' \in Int
      /\ dtog' \in [Dirs -> Nat]
      /\ urb.control => dtog' = dtog
      /\ ~ urb.control => \A d \in Dirs : d # urb.dir => dtog'[d] = dtog[d]
  <2>1. Moves(n, a) /\ (a = queue \/ a = Stopped(queue))
    BY <1>1, <1>6
  <2> QED
    BY <1>2, <1>5, <2>1, EMoves
<1>8. PICK i \in 1 .. Len(queue) + 1 : i = IF queue[hc.i].alt = "zero" THEN Len(queue) + 1 ELSE hc.i + 1
  BY <1>3
<1>9. hc' \in Places /\ hc'.at = "queue" /\ hc'.i = i
  <2>1. hc' = [hc EXCEPT !.i = i]
    BY <1>2, <1>8
  <2> QED
    BY <1>3, <2>1 DEF Places
<1>10. \A j \in 1 .. Len(queue) : queue'[j].len = queue[j].len
  BY <1>7 DEF SameShape
<1>11. Len(queue') = Len(queue) /\ Len(queue) \in Nat
  BY <1>3, <1>7 DEF SameShape
<1>12. queue[hc.i].alt = "zero" => \A j \in 1 .. Len(queue) : ~ queue'[j].active
  BY <1>6, <1>7
<1>13. ASSUME NEW j \in 1 .. Len(queue)
       PROVE  IF j < i THEN ~ queue'[j].active ELSE queue'[j].left = queue'[j].len
  <2>1. CASE queue[hc.i].alt = "zero"
    BY <1>8, <1>11, <1>12, <2>1
  <2>2. CASE queue[hc.i].alt # "zero"
    <3>1. IF j < hc.i THEN ~ queue[j].active ELSE queue[j].left = queue[j].len
      BY <1>3 DEF EI, EInv, OrderInv
    <3>2. i = hc.i + 1
      BY <1>8, <2>2
    <3> QED
      BY <1>3, <1>7, <1>10, <3>1, <3>2
  <2> QED
    BY <2>1, <2>2
<1>14. ASSUME NEW j \in 1 .. Len(queue), NEW k \in 1 .. Len(queue), queue'[j].active, k >= j
       PROVE  queue'[k].left = queue'[k].len
  <2>1. queue[hc.i].alt # "zero" /\ i = hc.i + 1
    BY <1>8, <1>12, <1>14
  <2>2. queue[j].active /\ ~ (j < i)
    BY <1>7, <1>13, <1>14
  <2>3. queue[k].left = queue[k].len
    BY <1>14, <2>2 DEF EI, EInv, OrderInv
  <2>4. k # hc.i
    BY <1>3, <1>14, <2>1, <2>2
  <2> QED
    BY <1>7, <1>10, <2>3, <2>4
<1>15. OrderInv'
  BY <1>9, <1>11, <1>13, <1>14 DEF OrderInv
<1>16. ASSUME ~ urb.control PROVE Through'
  <2>1. urb.at \in Busy
    BY <1>3 DEF EI, EInv, ETyped, ShapeInv, Urbs, Ats, Busy
  <2>2. i = Len(queue) + 1
    <3>1. CASE queue[hc.i].alt = "zero"
      BY <1>8, <3>1
    <3>2. CASE queue[hc.i].alt = "end"
      <4>1. hc.i = Len(queue)
        BY <1>3, <1>16, <2>1, <3>2 DEF EI, EInv, ShapeInv
      <4> QED
        BY <1>8, <3>2, <4>1
    <3> QED
      BY <1>5, <3>1, <3>2
  <2>3. \A j \in 1 .. Len(queue) : ~ queue'[j].active
    BY <1>11, <1>13, <2>2
  <2> QED
    BY <1>9, <1>11, <2>2, <2>3 DEF Through
<1>17. sts_int' \in BOOLEAN
  BY <1>2
<1> QED
  BY <1>2, <1>7, <1>9, <1>15, <1>16, <1>17, EQueueStep

LEMMA EStalls == ASSUME EI, Stalls PROVE EI'
<1>1. /\ Working /\ hc' = AtHead
      /\ queue' = AfterHalt(queue, hc.i)
      /\ UNCHANGED <<urb, linked, sts_int, tog, dtog, moved, gaveup, leftover, late>>
  BY DEF Stalls, AfterHalt
<1>2. /\ queue \in Seq(Qtds) /\ hc.at = "queue" /\ hc.i \in 1 .. Len(queue)
      /\ urb.at \in Busy
  BY <1>1 DEF EI, EInv, ETyped, ShapeInv, Urbs, Ats, Busy, Working
<1>3. /\ SameShape(queue, queue')
      /\ \A j \in 1 .. Len(queue) : queue'[j].left = queue[j].left /\ ~ queue'[j].active
  BY <1>1, <1>2, HaltedQ
<1>4. hc' \in Places /\ hc'.at = "head"
  BY <1>1 DEF AtHead, Places
<1>5. moved' = Actual(queue') /\ moved' \in Int
  <2>1. moved = Actual(queue) /\ moved \in Int
    BY <1>2 DEF EI, EInv, MovedInv, ETyped
  <2>2. Actual(queue') = Actual(queue)
    BY <1>2, <1>3, ActualSame
  <2> QED
    BY <1>1, <2>1, <2>2
<1>6. Len(queue') = Len(queue)
  BY <1>3 DEF SameShape
<1>7. OrderInv' /\ Through'
  BY <1>3, <1>4, <1>6 DEF OrderInv, Through
<1>8. sts_int' \in BOOLEAN /\ dtog' \in [Dirs -> Nat]
  BY <1>1 DEF EI, EInv, ETyped
<1> QED
  BY <1>1, <1>3, <1>4, <1>5, <1>7, <1>8, EQueueStep

LEMMA ESubmit ==
  ASSUME EI, BuffersFit, NEW c \in BOOLEAN, NEW d \in Dirs, NEW b \in Buffers,
         Submit(c, d, b[1], b[2])
  PROVE  EI'
<1>1. PICK f \in Nat : f = b[1]
  BY EHCIAssumption
<1>2. PICK len \in Nat : len = b[2]
  BY EHCIAssumption
<1>3. PICK ps : ps = Pieces(f, len)
  OBVIOUS
<1>4. PICK q : q = qh_urb_transaction(c, d, f, len)
  OBVIOUS
<1>5. /\ ps \in Seq(Nat) /\ ps # <<>> /\ Total(ps) = len
      /\ \A i \in 1 .. Len(ps) - 1 : ps[i] % Packet = 0
      /\ Len(ps) <= (len \div (4 * Page)) + 1
  BY <1>3, PiecesRight
<1>0. PICK n \in {0, 1} : Shaped(n, q, ps, c, d, len)
  BY <1>3, <1>4, QueueShape
<1>6. /\ q \in Seq(Qtds) /\ Len(q) = n + Len(ps) + (IF c /\ len # 0 THEN 1 ELSE 0)
      /\ c <=> n = 1
      /\ \A i \in 1 .. Len(q) :
           /\ q[i].left = q[i].len /\ (q[i].ioc => i = Len(q))
           /\ i <= n => q[i].pid = "setup"
           /\ i > n => q[i].pid # "setup"
           /\ i > n /\ i <= n + Len(ps) =>
                q[i].len = ps[i - n] /\ (q[i].alt = "end" => i = n + Len(ps))
           /\ i > n + Len(ps) => q[i].len = 0
           /\ ~ c => q[i].pid = d
  BY <1>0 DEF Shaped
<1>7. Len(ps) \in Nat /\ Len(ps) > 0 /\ Len(q) \in Nat
  BY <1>5, <1>6
<1>8. Len(q) <= MaxQtd /\ MaxQtd \in Nat
  <2>1. PICK k : k = len \div (4 * Page)
    OBVIOUS
  <2>2. k + 3 <= MaxQtd
    BY <1>2, <2>1 DEF BuffersFit
  <2>3. k \in Nat
    <3>1. PICK p : p = 4 * Page
      OBVIOUS
    <3>2. p \in Nat \ {0}
      BY <3>1, PageIsNat
    <3> QED
      BY <2>1, <3>1, <3>2
  <2>4. Len(ps) <= k + 1
    BY <1>5, <2>1
  <2>5. Len(q) <= 2 + Len(ps)
    BY <1>6, <1>7
  <2> QED
    BY <1>7, <2>2, <2>3, <2>4, <2>5, EHCIAssumption
<1>9. /\ urb.at = "idle" /\ queue' = q /\ linked' = TRUE /\ moved' = 0
      /\ late' = (late \/ hc.at # "head")
      /\ leftover' = (leftover \/ sts_int)
      /\ UNCHANGED <<hc, sts_int, tog, dtog, gaveup>>
  BY <1>1, <1>2, <1>4 DEF Submit
<1>10. ~ TooMany'
  BY <1>7, <1>8, <1>9 DEF TooMany
<1>11. urb' = [NoUrb EXCEPT !.at = "wait", !.control = c, !.dir = d, !.len = len]
  BY <1>2, <1>10 DEF Submit
<1>12. /\ urb' \in Urbs /\ urb'.at = "wait" /\ urb'.control = c /\ urb'.dir = d
       /\ urb'.len = len
  <2>1. PICK u \in Urbs : u = NoUrb
    <3>1. NoUrb \in Urbs
      BY DEF Urbs, Ats, Answers, NoUrb, Dirs
    <3> QED
      BY <3>1
  <2>2. urb' = [u EXCEPT !.at = "wait", !.control = c, !.dir = d, !.len = len]
    BY <1>11, <2>1
  <2> QED
    BY <2>2 DEF Urbs, Ats
<1>13. hc.at # "queue"
  BY <1>9 DEF EI, EInv, ShapeInv
<1>14. ETyped'
  BY <1>6, <1>9, <1>12 DEF EI, EInv, ETyped
<1>15. ShapeInv'
  <2>1. ASSUME NEW i \in 1 .. Len(q)
        PROVE  /\ ~ c => q[i].pid = d
               /\ ~ c /\ q[i].alt = "end" => i = Len(q)
               /\ q[i].ioc => i = Len(q)
    BY <1>6, <1>7
  <2> QED
    BY <1>9, <1>12, <2>1 DEF ShapeInv
<1>16. OrderInv'
  BY <1>6, <1>9, <1>13 DEF OrderInv
<1>17. GoneInv'
  BY <1>9, <1>12, <1>13 DEF EI, EInv, ETyped, Places, GoneInv
<1>18. MovedInv'
  <2>1. PICK s : s = Gone(q)
    OBVIOUS
  <2>2. s \in Seq(Int) /\ Len(s) = Len(q)
    BY <1>6, <2>1, GoneInts
  <2>3. ASSUME NEW i \in 1 .. Len(s) PROVE s[i] = 0
    <3>1. q[i] \in Qtds /\ q[i].left = q[i].len
      BY <1>6, <2>2
    <3>2. q[i].len \in Int
      BY <3>1 DEF Qtds
    <3> QED
      BY <2>1, <2>2, <3>1, <3>2 DEF Gone
  <2>4. PICK e : e = <<>>
    OBVIOUS
  <2>5. e \in Seq(Int) /\ Len(e) = 0
    BY <2>4
  <2>6. Total(e) = 0
    BY <2>5, Sums
  <2>7. Total(s) = Total(e)
    <3>1. 0 \in Nat /\ 0 + Len(e) <= Len(s)
      BY <1>7, <2>2, <2>5
    <3>2. \A i \in 1 .. Len(s) : s[i] = IF i > 0 /\ i <= 0 + Len(e) THEN e[i - 0] ELSE 0
      BY <2>3, <2>5
    <3> QED
      BY <2>2, <2>5, <3>1, <3>2, TotalShift
  <2>8. Actual(q) = 0
    BY <2>1, <2>6, <2>7 DEF Actual, Gone
  <2> QED
    BY <1>9, <1>12, <2>8 DEF MovedInv
<1>19. TogInv'
  <2>1. SUFFICES ASSUME Undisturbed' PROVE TogInv'
    BY DEF TogInv
  <2>2. Undisturbed /\ ~ sts_int
    BY <1>9, <2>1 DEF Undisturbed
  <2>3. tog = dtog
    BY <1>9, <2>2 DEF EI, EInv, TogInv
  <2> QED
    BY <1>9, <1>12, <2>2, <2>3 DEF TogInv
<1>20. Covers(q, c, len)
  <2>1. PICK s : s = Lengths1(q)
    OBVIOUS
  <2>2. s \in Seq(Int) /\ Len(s) = Len(q) /\ ps \in Seq(Int)
    <3>1. ASSUME NEW i \in 1 .. Len(q) PROVE s[i] \in Int
      <4>1. q[i] \in Qtds
        BY <1>6
      <4>2. q[i].len \in Int
        BY <4>1 DEF Qtds
      <4> QED
        BY <2>1, <4>2 DEF Lengths1
    <3> QED
      BY <1>5, <2>1, <3>1 DEF Lengths1
  <2>3. n + Len(ps) <= Len(s) /\ n \in Nat
    BY <1>6, <1>7, <2>2
  <2>4. \A i \in 1 .. Len(s) : s[i] = IF i > n /\ i <= n + Len(ps) THEN ps[i - n] ELSE 0
    <3>1. ASSUME NEW i \in 1 .. Len(q)
          PROVE  s[i] = IF i > n /\ i <= n + Len(ps) THEN ps[i - n] ELSE 0
      <4>1. s[i] = IF q[i].pid = "setup" THEN 0 ELSE q[i].len
        BY <2>1 DEF Lengths1
      <4>2. CASE i <= n
        BY <1>6, <4>1, <4>2
      <4>3. CASE i > n /\ i <= n + Len(ps)
        BY <1>6, <4>1, <4>3
      <4>4. CASE i > n + Len(ps)
        BY <1>6, <1>7, <4>1, <4>4
      <4> QED
        BY <1>7, <4>2, <4>3, <4>4
    <3> QED
      BY <2>2, <3>1
  <2>5. Total(s) = len
    BY <1>5, <2>2, <2>3, <2>4, TotalShift
  <2>6. ASSUME NEW i \in DataOf(q, c, len), i + 1 \in DataOf(q, c, len)
        PROVE  q[i].len % Packet = 0
    <3>1. /\ i \in 1 .. Len(q) /\ i + 1 \in 1 .. Len(q) /\ q[i].pid # "setup"
          /\ ~ (c /\ i + 1 = Len(q) /\ len # 0)
      BY <2>6 DEF DataOf
    <3>2. i > n /\ i + 1 <= n + Len(ps)
      BY <1>6, <1>7, <3>1
    <3>3. PICK j \in 1 .. Len(ps) - 1 : j = i - n
      BY <1>7, <3>1, <3>2
    <3>4. q[i].len = ps[j]
      BY <1>6, <1>7, <3>1, <3>2, <3>3
    <3> QED
      BY <1>5, <3>4
  <2> QED
    BY <1>8, <2>1, <2>5, <2>6 DEF Covers
<1>21. QueueCovers'
  BY <1>6, <1>9, <1>12, <1>20, CoversIsNext
<1> QED
  BY <1>14, <1>15, <1>16, <1>17, <1>18, <1>19, <1>21 DEF EI, EInv

LEMMA EFirst == ASSUME EHCIInit PROVE EI
<1>1. /\ urb \in Urbs /\ urb.at = "idle" /\ urb.answer = "none" /\ queue = <<>>
      /\ hc \in Places /\ hc.at = "head" /\ linked = FALSE /\ sts_int = FALSE
      /\ tog = dtog /\ dtog \in [Dirs -> Nat] /\ moved = 0
      /\ gaveup = FALSE /\ leftover = FALSE /\ late = FALSE
  BY DEF EHCIInit, NoUrb, AtHead, Urbs, Ats, Answers, Places, Dirs
<1>2. queue \in Seq(Qtds) /\ Len(queue) = 0
  BY <1>1
<1>3. ETyped /\ ShapeInv /\ OrderInv
  <2>1. ETyped
    <3>1. /\ linked \in BOOLEAN /\ sts_int \in BOOLEAN /\ gaveup \in BOOLEAN
          /\ leftover \in BOOLEAN /\ late \in BOOLEAN
      BY <1>1
    <3>2. tog \in [Dirs -> Nat] /\ dtog \in [Dirs -> Nat] /\ moved \in Int
      BY <1>1
    <3> QED
      BY <1>1, <1>2, <3>1, <3>2 DEF ETyped
  <2>2. ShapeInv
    BY <1>1 DEF ShapeInv, Busy
  <2>3. OrderInv
    BY <1>1, <1>2 DEF OrderInv
  <2> QED
    BY <2>1, <2>2, <2>3
<1>4. GoneInv /\ MovedInv
  BY <1>1 DEF GoneInv, MovedInv, Busy
<1>5. TogInv
  BY <1>1 DEF TogInv
<1>6. QueueCovers
  BY <1>1 DEF QueueCovers
<1> QED
  BY <1>3, <1>4, <1>5, <1>6 DEF EI, EInv

LEMMA ENext == ASSUME EI, BuffersFit, [EHCINext]_ehcivars PROVE EI'
<1>1. CASE Transfer
  <2>1. PICK c \in BOOLEAN, d \in Dirs, b \in Buffers : Submit(c, d, b[1], b[2])
    BY <1>1 DEF Transfer
  <2> QED
    BY <2>1, ESubmit
<1>2. CASE UrbDriver
  BY <1>2, EDone, ETimeout, EStopped, EEnds DEF UrbDriver
<1>3. CASE Schedule
  BY <1>3, EEnter, ELeave, EExecutes, EShort, EStalls, EStrays DEF Schedule
<1>4. CASE Discovers
  <2>1. UNCHANGED EVars
    BY <1>4 DEF Discovers, ehci_release_ports, PortWait, PortSeen, ehci_reset_port, EVars
  <2> QED
    BY <2>1, EStutter
<1>5. CASE \E p \in DOMAIN ports : PluggedIn(p)
  <2>1. UNCHANGED EVars
    BY <1>5 DEF PluggedIn, EVars
  <2> QED
    BY <2>1, EStutter
<1>6. CASE UNCHANGED ehcivars
  <2>1. UNCHANGED EVars
    BY <1>6 DEF ehcivars, EVars
  <2> QED
    BY <2>1, EStutter
<1> QED
  BY <1>1, <1>2, <1>3, <1>4, <1>5, <1>6 DEF EHCINext

LEMMA ERight == ASSUME EI PROVE TransferRight
<1>1. QueueCovers
  BY DEF EI
<1>2. OkIsMoved
  BY DEF EI, EInv, MovedInv, OkIsMoved
<1>3. ToggleKept
  BY DEF EI, EInv, TogInv, ToggleKept
<1>4. ReuseIsSafe
  BY DEF EI, EInv, GoneInv, ReuseIsSafe
<1> QED
  BY <1>1, <1>2, <1>3, <1>4 DEF TransferRight

\* For any buffers and sizes of pages and packets for which there are enough
\* descriptors, and any number of devices that stop answering, answer less or in
\* error: a transfer is queued whole (qh_urb_transaction), reported as it went
\* (qh_end_transfer), the driver's toggles stay those of the device, and a queue
\* is written anew with the controller in it only after a transfer was given up.
THEOREM TransferIsRight ==
  ASSUME BuffersFit
  PROVE  EHCIInit /\ [][EHCINext]_ehcivars => []TransferRight
<1>1. EHCIInit => EI
  BY EFirst
<1>2. EI /\ [EHCINext]_ehcivars => EI'
  BY ENext
<1>3. EI => TransferRight
  BY ERight
<1> QED
  BY <1>1, <1>2, <1>3, PTL
=============================================================================
