------------------------------ MODULE MiniBoot ------------------------------
(***************************************************************************)
(* What mini does before it boots: boot2_init reads boot2 from the NAND    *)
(* chip, whose interrupt ends each page, with error correction, the choice *)
(* of the newest block map and a second try that goes through the blocks   *)
(* in the other direction (boot2.c, nand.c, irq.c).                        *)
(***************************************************************************)
EXTENDS Integers, FiniteSets, Sequences

CONSTANTS
  BOOT2_END,   \* last block of boot2; the first is 1
  BLOCK_SIZE,  \* pages of a block
  Width,       \* address bits of a correction code (12)
  PageWord,    \* pages_read counts modulo this number (256)
  Chips,       \* contents of the chip to start with
  Misreads,    \* bits of data and code that may be read wrongly together
  MaxFlips     \* bound: bits that are read wrongly

VARIABLES
  chip,      \* what is stored (external): maps, headers, size of boot2, pages
  nand,      \* the controller (external): the page it reads, its interrupt
  irq_flag,
  waiting,   \* where nand_wait is; interrupts are off when "killed"
  buffer,    \* the page in memory with its correction codes
  pc,        \* where boot2_load is
  load,      \* variables of boot2_load
  boot2,     \* the pages loaded so far
  flips

bootvars == <<chip, nand, irq_flag, waiting, buffer, pc, load, boot2, flips>>

BlockNos == 1 .. BOOT2_END
Pages == 0 .. (BOOT2_END + 1) * BLOCK_SIZE - 1

-----------------------------------------------------------------------------
(* Error correction.  A bit of a page is the set of the ones of its        *)
(* address, and data is the set of the bits that are one; a code is the    *)
(* set of its bits, <<"odd", i>> and <<"even", i>> for address bit i.      *)

Address == 0 .. Width - 1
Bits == SUBSET Address

Xor(a, b) == (a \ b) \cup (b \ a)

CodeOfBit(b) == {<<IF i \in b THEN "odd" ELSE "even", i>> : i \in Address}
CodeBits == {"odd", "even"} \X Address

\* The code the controller computes (external): the sum over the bits that are one.
Code(data) == {c \in CodeBits : Cardinality({b \in data : c \in CodeOfBit(b)}) % 2 = 1}

\* A code bit or a data bit that was read wrongly is found; of two the page is refused.
nand_correct(page) ==
  LET s == Xor(page.ecc, Code(page.data))
      bad == {i \in Address : <<"odd", i>> \in s}
  IN  IF s = {} \/ Cardinality(s) = 1 THEN [ok |-> TRUE, data |-> page.data]
      ELSE IF \A i \in Address : <<"odd", i>> \in s <=> <<"even", i>> \notin s
           THEN [ok |-> TRUE, data |-> Xor(page.data, {bad})]
           ELSE [ok |-> FALSE, data |-> page.data]

\* What is stored in a page.
Stored(page) == chip.pages[page]

-----------------------------------------------------------------------------
(* The block maps.                                                         *)

NoMap == [sig |-> FALSE, gen |-> 0, bad |-> {}]

\* find_valid_map: two equal maps among three; 0 for none.
find_valid_map(m) ==
  IF m[1].sig /\ (m[1] = m[2] \/ m[1] = m[3]) THEN 1
  ELSE IF m[2].sig /\ m[2] = m[3] THEN 2 ELSE 0

\* The map a block offers, if any.
Offered(b) == LET i == find_valid_map(chip.maps[b]) IN IF i = 0 THEN {} ELSE {chip.maps[b][i]}

\* The blocks that are not bad, in the order of the copy.
boot2_blocks(map, copy) ==
  LET good[b \in 0 .. BOOT2_END] ==
        IF b = 0 THEN <<>>
        ELSE IF b \in map.bad THEN good[b - 1]
        ELSE IF copy = 0 THEN Append(good[b - 1], b) ELSE <<b>> \o good[b - 1]
  IN  good[BOOT2_END]

boot2_page_translate(blocks, page) ==
  blocks[1 + (page \div BLOCK_SIZE)] * BLOCK_SIZE + (page % BLOCK_SIZE)

Maps == [sig : BOOLEAN, gen : Nat, bad : SUBSET Nat]

\* boot2 is shorter than its buffer of 256 pages; more than two bits of a page that
\* are read wrongly need not be found.
ASSUME BootAssumption ==
  /\ BOOT2_END \in Nat /\ BLOCK_SIZE \in Nat \ {0} /\ Width \in Nat /\ Width > 2
  /\ PageWord \in Nat \ {0} /\ MaxFlips \in Nat
  /\ \A c \in Chips :
       /\ c.maps \in [BlockNos -> [1 .. 3 -> Maps]]
       /\ c.pages \in [Pages -> SUBSET Bits]
       /\ c.size \in 1 .. PageWord - 1
  /\ \A w \in Misreads :
       /\ w.data \subseteq Bits /\ w.code \subseteq CodeBits
       /\ Cardinality(w.data) + Cardinality(w.code) <= 2

-----------------------------------------------------------------------------
StartLoad(copy) ==
  [copy |-> copy, block |-> 1, best |-> NoMap, found |-> FALSE, blocks |-> <<>>,
   pages_read |-> 0, goal |-> 0, page |-> 0]

BootInit ==
  /\ chip \in Chips
  /\ nand = [page |-> -1, irq |-> FALSE]
  /\ irq_flag = FALSE
  /\ waiting = "no"
  /\ buffer = [page |-> -1, data |-> {}, ecc |-> {}]
  /\ pc = "maps"
  /\ load = StartLoad(0)
  /\ boot2 = <<>>
  /\ flips = 0

\* The chip has read the page into memory: perhaps not every bit as it is stored.
PageRead ==
  /\ nand.page # -1
  /\ \E wrong \in {[data |-> {}, code |-> {}]} \cup Misreads :
       /\ flips' = flips + Cardinality(wrong.data) + Cardinality(wrong.code)
       /\ flips' <= MaxFlips
       /\ buffer' = [page |-> nand.page, data |-> Xor(Stored(nand.page), wrong.data),
                     ecc |-> Xor(Code(Stored(nand.page)), wrong.code)]
  /\ nand' = [page |-> -1, irq |-> TRUE]
  /\ UNCHANGED <<chip, irq_flag, waiting, pc, load, boot2>>

\* irq_handler and nand_irq; no request of the IPC is open.
nand_irq ==
  /\ nand.irq /\ waiting # "killed"
  /\ nand' = [nand EXCEPT !.irq = FALSE]
  /\ irq_flag' = TRUE
  /\ UNCHANGED <<chip, waiting, buffer, pc, load, boot2, flips>>

\* Mutant of nand_read_page: the flag of the page before is left.
nand_read_page_flag(page) ==
  /\ irq_flag' = irq_flag
  /\ nand' = [nand EXCEPT !.page = page]

nand_read_page(page) ==
  /\ irq_flag' = FALSE
  /\ nand' = [nand EXCEPT !.page = page]

Waits == pc \in {"maps_wait", "read_wait"}

\* nand_wait tests the flag again with interrupts off before it calls irq_wait,
\* which ends with an interrupt.
Sleeps == waiting = "killed" /\ (irq_flag \/ nand.irq)

\* An interrupt that is pending is taken when interrupts are on again.
nand_wait ==
  /\ Waits
  /\ \/ waiting = "no" /\ ~ irq_flag /\ ~ nand.irq /\ waiting' = "tested"
     \/ waiting = "tested" /\ waiting' = "killed"
     \/ Sleeps /\ waiting' = "no"
  /\ UNCHANGED <<chip, nand, irq_flag, buffer, pc, load, boot2, flips>>

WaitOver == Waits /\ waiting = "no" /\ irq_flag

\* The block maps are in the last pages of the blocks.
ReadMap ==
  /\ pc = "maps" /\ load.block <= BOOT2_END
  /\ LET page == (load.block + 1) * BLOCK_SIZE - 1
     IN  nand_read_page(page) /\ load' = [load EXCEPT !.page = page]
  /\ pc' = "maps_wait"
  /\ UNCHANGED <<chip, waiting, buffer, boot2, flips>>

Better(m) == m.gen >= load.best.gen

\* A page that cannot be corrected is tried all the same.
TakeMap ==
  /\ pc = "maps_wait" /\ WaitOver
  /\ LET new == {m \in Offered(load.block) : Better(m)}
         keep == IF nand_correct(buffer).ok THEN {new} ELSE {new, {}}
     IN  \E taken \in keep :
           load' = [load EXCEPT !.block = @ + 1, !.found = @ \/ taken # {},
                                !.best = IF taken = {} THEN @ ELSE CHOOSE m \in taken : TRUE]
  /\ pc' = "maps"
  /\ UNCHANGED <<chip, nand, irq_flag, waiting, buffer, boot2, flips>>

\* boot2_init: copy 0, then copy 1.
Fail ==
  /\ load' = StartLoad(1)
  /\ boot2' = <<>>
  /\ pc' = IF load.copy = 0 THEN "maps" ELSE "failed"
  /\ UNCHANGED <<chip, nand, irq_flag, waiting, buffer, flips>>

Collect ==
  /\ pc = "maps" /\ load.block > BOOT2_END
  /\ \/ ~ load.found /\ Fail
     \/ /\ load.found
        /\ load' = [load EXCEPT !.blocks = boot2_blocks(load.best, load.copy), !.goal = 1]
        /\ boot2' = <<>>
        /\ pc' = "read"
        /\ UNCHANGED <<chip, nand, irq_flag, waiting, buffer, flips>>

\* read_to: too much is refused, else page after page.
read_to ==
  /\ pc = "read" /\ load.goal > Len(load.blocks) * BLOCK_SIZE
  /\ Fail

ReadPage ==
  /\ pc = "read" /\ load.goal <= Len(load.blocks) * BLOCK_SIZE
  /\ load.pages_read < load.goal
  /\ LET page == boot2_page_translate(load.blocks, load.pages_read)
     IN  nand_read_page(page) /\ load' = [load EXCEPT !.page = page]
  /\ pc' = "read_wait"
  /\ UNCHANGED <<chip, waiting, buffer, boot2, flips>>

TakePage ==
  /\ pc = "read_wait" /\ WaitOver
  /\ LET page == nand_correct(buffer)
     IN  \/ ~ page.ok /\ Fail
         \/ /\ page.ok
            /\ boot2' = Append(boot2, page.data)
            /\ load' = [load EXCEPT !.pages_read = (@ + 1) % PageWord]
            /\ pc' = "read"
            /\ UNCHANGED <<chip, nand, irq_flag, waiting, buffer, flips>>

\* The header, and then tickets and content: one read_to after the other.
NextGoal ==
  /\ pc = "read" /\ load.goal <= Len(load.blocks) * BLOCK_SIZE
  /\ load.pages_read >= load.goal
  /\ \/ /\ load.goal = 1 /\ load.blocks[1] \notin chip.heads
        /\ Fail
     \/ /\ load.goal = 1 /\ load.blocks[1] \in chip.heads /\ chip.size > 1
        /\ load' = [load EXCEPT !.goal = chip.size]
        /\ UNCHANGED <<chip, nand, irq_flag, waiting, buffer, pc, boot2, flips>>
     \/ /\ load.goal = chip.size /\ load.blocks[1] \in chip.heads
        /\ pc' = "loaded"
        /\ UNCHANGED <<chip, nand, irq_flag, waiting, buffer, load, boot2, flips>>

Boot2Load ==
  \/ nand_irq \/ nand_wait \/ ReadMap \/ TakeMap \/ Collect
  \/ read_to \/ ReadPage \/ TakePage \/ NextGoal

BootNext == Boot2Load \/ PageRead

BootFairness == WF_bootvars(Boot2Load) /\ WF_bootvars(PageRead)

-----------------------------------------------------------------------------
(* Properties.                                                             *)

\* A page is looked at only when the chip has finished it: the flag of nand_wait
\* is that of this page, although the same flag and buffer serve every page.
PageIsReady ==
  WaitOver => buffer.page = load.page /\ nand.page = -1

\* With at most two bits wrong in a page, boot2 is loaded as it is stored, in the
\* order of the newest block map, also when a copy failed half-way before.
LoadedRight ==
  pc \in {"read", "loaded"} =>
    /\ Len(boot2) = load.pages_read
    /\ \A i \in 1 .. Len(boot2) :
         boot2[i] = Stored(boot2_page_translate(load.blocks, i - 1))

\* The map that is used is the newest one two copies of which agree in some block.
NewestMap ==
  pc \in {"read", "loaded"} /\ flips = 0 =>
    \A b \in BlockNos, i, j \in 1 .. 3 :
      LET m == chip.maps[b]
      IN  i # j /\ m[i] = m[j] /\ m[i].sig => m[i].gen <= load.best.gen

\* boot2_init comes to an end: no interrupt of the chip is missed.
LoadEnds == <>(pc \in {"loaded", "failed"})

\* What is booted is the newest boot2 as the chip holds it.
BootRight == PageIsReady /\ LoadedRight /\ NewestMap
=============================================================================
