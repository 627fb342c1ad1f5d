------------------------------ MODULE FatNames ------------------------------
(***************************************************************************)
(* The names in a directory of FatFs with long file names: how create_name *)
(* derives a short name, how dir_register numbers short names that clash   *)
(* and writes the rows of a long name before the short entry, and how      *)
(* dir_find, dir_read and dir_remove put the rows back together.           *)
(*                                                                         *)
(* The directory is a table of a fixed length (FSTree has the stretching)  *)
(* and the rows are written sector by sector, so that the power may fail   *)
(* wherever a request goes on to another sector.                           *)
(***************************************************************************)
EXTENDS Integers, Sequences, FiniteSets, SequencesExt

CONSTANTS
  Asked,       \* the names of the requests, sequences of characters
  Up,          \* the capital of each small letter
  HighChars,   \* the characters above 0x7F
  BodyLen, ExtLen, RowLen,  \* 8, 3 and 13 in the code
  Numeral,     \* the digits of each number of a numbered name
  Plain,       \* up to this number (5) names are numbered in turn
  Hash(_, _),  \* the number made from a number and a long name above it
  MaxNum,      \* numbers that are tried (99)
  TableLen, SectorRows,  \* rows of the table and of a sector
  MaxNameCuts, MaxNameOps  \* bounds on power failures and on requests

ASSUME FatNamesAssumption ==
  /\ BodyLen \in Nat /\ BodyLen > 2 /\ ExtLen \in Nat \ {0}
  /\ RowLen \in Nat \ {0} /\ TableLen \in Nat /\ SectorRows \in Nat \ {0}
  /\ Plain \in Nat /\ MaxNum \in Nat /\ MaxNameCuts \in Nat /\ MaxNameOps \in Nat

VARIABLES
  table,    \* the rows of the directory on the disk
  spoiled,  \* history: short names whose rows of a long name were left without
            \* their entry, or whose entry was left without its rows
  namecuts, nameops  \* the power failures and the requests so far

namevars == <<table, spoiled, namecuts, nameops>>

-----------------------------------------------------------------------------
(***************************************************************************)
(* Names.                                                                  *)
(***************************************************************************)

Upper(c) == IF c \in DOMAIN Up THEN Up[c] ELSE c
Uppers(s) == [i \in DOMAIN s |-> Upper(s[i])]
Void(c) == c \in {" ", "."}

\* ff_wtoupper folds ASCII letters only, so long names are compared by Uppers.
SameLong(s, t) == Uppers(s) = Uppers(t)

Stripped(s) == SubSeq(s, 1, SelectLastInSeq(s, LAMBDA c : ~Void(c)))
Squeezed(s) == SelectSeq(s, LAMBDA c : ~Void(c))
ShortChar(c) == IF c = "+" THEN "_" ELSE Upper(c)
ShortPart(s, n) == [i \in 1 .. (IF Len(s) < n THEN Len(s) ELSE n) |-> ShortChar(s[i])]

HasUpper(s) == \E i \in DOMAIN s : \E c \in DOMAIN Up : Up[c] = s[i]
HasLower(s) == \E i \in DOMAIN s : s[i] \in DOMAIN Up
Small(s) == HasLower(s) /\ ~HasUpper(s)

Mixed(s) == HasLower(s) /\ HasUpper(s)

\* create_name: the long name, the two parts of the short one, whether that
\* lost something (NS_LOSS), the NT flags, and whether no long name is needed.
create_name(s) ==
  LET lfn  == Stripped(s)
      lead == SelectInSeq(lfn, LAMBDA c : ~Void(c))
      dot  == SelectLastInSeq(lfn, LAMBDA c : c = ".")
      ext  == IF dot > lead THEN SubSeq(lfn, dot + 1, Len(lfn)) ELSE <<>>
      body == SubSeq(lfn, lead, IF dot > lead THEN dot - 1 ELSE Len(lfn))
      loss == \/ lead > 1 \/ Squeezed(body) # body \/ Squeezed(ext) # ext
              \/ Len(body) > BodyLen \/ Len(ext) > ExtLen
              \/ \E i \in DOMAIN lfn : lfn[i] = "+"
      far  == \E i \in DOMAIN lfn : lfn[i] \in HighChars
      low(p) == ~loss /\ ~far /\ Small(p)
  IN  [lfn |-> lfn, loss |-> loss,
       body |-> ShortPart(Squeezed(body), BodyLen), ext |-> ShortPart(Squeezed(ext), ExtLen),
       lowbody |-> low(body), lowext |-> low(ext),
       nolfn |-> ~loss /\ ~far /\ ~Mixed(body) /\ ~Mixed(ext)]

Invalid(s) == \/ Stripped(s) = <<>> \/ \E i \in DOMAIN s : s[i] = "*"

Number(k, lfn) == IF k > Plain THEN Hash(k, lfn) ELSE k

gen_numname(n, k) ==
  LET tail == <<"~">> \o Numeral[Number(k, n.lfn)]
      room == BodyLen - Len(tail)
  IN  [n EXCEPT !.body = SubSeq(@, 1, IF Len(@) < room THEN Len(@) ELSE room) \o tail]

-----------------------------------------------------------------------------
(***************************************************************************)
(* Rows: "end" has first byte 0, "gone" 0xE5.  The sum of a short name is  *)
(* the short name itself: two names with the same eight bits of sum are    *)
(* left out.  `as' is not in the code: the name the entry was made for.    *)
(***************************************************************************)

End  == [kind |-> "end"]
GoneRow == [kind |-> "gone"]
sum_sfn(e) == <<e.body, e.ext>>

Rows(lfn) == (Len(lfn) + RowLen - 1) \div RowLen
Part(lfn, ord) ==
  SubSeq(lfn, (ord - 1) * RowLen + 1,
         IF ord * RowLen < Len(lfn) THEN ord * RowLen ELSE Len(lfn))

fit_lfn(n, ord) ==
  [kind |-> "long", ord |-> ord, bottom |-> ord = Rows(n.lfn), sum |-> sum_sfn(n),
   part |-> Part(n.lfn, ord)]

Entry(n) == [kind |-> "short", body |-> n.body, ext |-> n.ext,
             lowbody |-> n.lowbody, lowext |-> n.lowext, as |-> n.lfn]

\* Mutant of test_lfn: a name may go on behind its last row.
test_lfn_prefix(lfn, row) == SameLong(row.part, Part(lfn, row.ord))

test_lfn(lfn, row) ==
  /\ SameLong(row.part, Part(lfn, row.ord))
  /\ row.bottom => row.ord = Rows(lfn)

\* The row the long name of entry i starts at, 0 if it has none: rows with
\* orders that count down to 1 in front of the entry, and with its sum.
LfnTop(t, i, Test(_)) ==
  LET starts == {j \in 1 .. i - 1 :
        /\ t[j].kind = "long" /\ t[j].bottom /\ t[j].ord = i - j
        /\ \A k \in j .. i - 1 :
             /\ t[k].kind = "long" /\ t[k].ord = i - k
             /\ t[k].sum = sum_sfn(t[i]) /\ Test(t[k])
             /\ k > j => ~t[k].bottom}
  IN  IF starts = {} THEN 0 ELSE CHOOSE j \in starts : TRUE

LastUsed(t) ==
  LET ends == {i \in DOMAIN t : t[i].kind = "end"}
  IN  IF ends = {} THEN Len(t) ELSE (CHOOSE i \in ends : \A j \in ends : i <= j) - 1

NoMatch == [at |-> 0, top |-> 0]

\* dir_find: the entry and, for dir_remove, the top of its rows; only an
\* entry found by its long name has one.
FindName(t, n) ==
  LET top(i) == LfnTop(t, i, LAMBDA r : test_lfn(n.lfn, r))
      match(i) == /\ t[i].kind = "short"
                  /\ top(i) # 0 \/ (~n.loss /\ sum_sfn(t[i]) = sum_sfn(n))
      found == {i \in 1 .. LastUsed(t) : match(i)}
      first == CHOOSE i \in found : \A j \in found : i <= j
  IN  IF found = {} THEN NoMatch ELSE [at |-> first, top |-> top(first)]

\* dir_find without a long name, as dir_register uses it.
Taken(t, n) == \E i \in 1 .. LastUsed(t) :
                 t[i].kind = "short" /\ sum_sfn(t[i]) = sum_sfn(n)

\* dir_read and get_fileinfo: the name the entry is listed with.
pick_lfn(t, i, top) ==
  [j \in 1 .. (i - top - 1) * RowLen + Len(t[top].part) |->
     t[i - 1 - (j - 1) \div RowLen].part[1 + ((j - 1) % RowLen)]]

Lowered(s) == [i \in DOMAIN s |->
                 IF \E c \in DOMAIN Up : Up[c] = s[i]
                 THEN CHOOSE c \in DOMAIN Up : Up[c] = s[i] ELSE s[i]]

get_fileinfo(t, i) ==
  LET top == LfnTop(t, i, LAMBDA r : TRUE)
      e   == t[i]
  IN  IF top # 0 THEN pick_lfn(t, i, top)
      ELSE (IF e.lowbody THEN Lowered(e.body) ELSE e.body)
           \o (IF e.ext = <<>> THEN <<>>
               ELSE <<".">> \o (IF e.lowext THEN Lowered(e.ext) ELSE e.ext))

-----------------------------------------------------------------------------
(***************************************************************************)
(* What a request writes: a sequence of rows and their places.             *)
(***************************************************************************)

Write(at, row) == [at |-> at, row |-> row]
Wrote(t, ws) == FoldLeft(LAMBDA u, w : [u EXCEPT ![w.at] = w.row], t, ws)

Numbers(t, n) == {k \in 1 .. MaxNum : ~Taken(t, gen_numname(n, k))}

\* The short name of a new entry: a name that lost something is numbered.
Numbered(t, n) ==
  IF ~n.loss THEN n
  ELSE LET free == Numbers(t, n)
       IN  gen_numname(n, CHOOSE k \in free : \A j \in free : k <= j)

Entries(n) == IF n.nolfn THEN 1 ELSE Rows(n.lfn) + 1
Free(t, ne) == {i \in 1 .. Len(t) - ne + 1 :
                  \A j \in i .. i + ne - 1 : t[j].kind \in {"end", "gone"}}

\* dir_register refuses: too many clashes, or no room.
NoRoom(t, n) == (n.loss /\ Numbers(t, n) = {}) \/ Free(t, Entries(n)) = {}

RegisterName(t, n) ==
  LET free == Free(t, Entries(n))
      at   == CHOOSE i \in free : \A j \in free : i <= j
      ne   == Entries(n)
      e    == Numbered(t, n)
  IN  [i \in 1 .. ne |->
         Write(at + i - 1, IF i = ne THEN Entry(e) ELSE fit_lfn(e, ne - i))]

RemoveName(f) ==
  LET top == IF f.top = 0 THEN f.at ELSE f.top
  IN  [i \in 1 .. f.at - top + 1 |-> Write(top + i - 1, GoneRow)]

\* Rows of long names without an entry of their own, by their sums.
StrayRows(t) ==
  LET owned == UNION {LET top == LfnTop(t, i, LAMBDA r : TRUE)
                      IN  IF top = 0 THEN {} ELSE top .. i - 1 :
                        i \in {k \in DOMAIN t : t[k].kind = "short"}}
  IN  {t[i].sum : i \in {k \in DOMAIN t \ owned : t[k].kind = "long"}}

-----------------------------------------------------------------------------
(***************************************************************************)
(* Requests: each is a sequence of writes that is carried out, or cut off  *)
(* where it goes on to another sector.                                     *)
(***************************************************************************)

NamesInit ==
  /\ table = [i \in 1 .. TableLen |-> End]
  /\ spoiled = {} /\ namecuts = 0 /\ nameops = 0

Shorts == {i \in DOMAIN table : table[i].kind = "short"}
SectorOf(w) == (w.at - 1) \div SectorRows

Completed(ws) ==
  /\ table' = Wrote(table, ws)
  /\ spoiled' = spoiled \cup StrayRows(table')
  /\ nameops' = nameops + 1 /\ UNCHANGED namecuts

CutOff(ws) ==
  /\ namecuts < MaxNameCuts
  /\ \E k \in 1 .. Len(ws) - 1 :
       /\ SectorOf(ws[k]) # SectorOf(ws[k + 1])
       /\ table' = Wrote(table, SubSeq(ws, 1, k))
  /\ spoiled' = spoiled \cup StrayRows(table')
                  \cup {sum_sfn(table[i]) : i \in {w.at : w \in Range(ws)} \cap Shorts}
  /\ namecuts' = namecuts + 1 /\ nameops' = nameops + 1

Carried(ws) == Completed(ws) \/ CutOff(ws)

\* f_open with FA_CREATE_NEW, f_mkdir.
CreateName(s) ==
  LET n == create_name(s)
  IN  /\ ~Invalid(s) /\ FindName(table, n) = NoMatch /\ ~NoRoom(table, n)
      /\ Carried(RegisterName(table, n))

\* f_unlink.
DeleteName(s) ==
  LET f == FindName(table, create_name(s))
  IN  ~Invalid(s) /\ f # NoMatch /\ Carried(RemoveName(f))

\* f_rename: the new entry first.
RenameName(s, r) ==
  LET f == FindName(table, create_name(s))
      n == create_name(r)
  IN  /\ ~Invalid(s) /\ ~Invalid(r) /\ f # NoMatch
      /\ FindName(table, n) = NoMatch /\ ~NoRoom(table, n)
      /\ Carried(RegisterName(table, n) \o RemoveName(f))

NamesNext ==
  /\ nameops < MaxNameOps
  /\ \E s \in Asked : CreateName(s) \/ DeleteName(s) \/ \E r \in Asked : RenameName(s, r)

NamesSpec == NamesInit /\ [][NamesNext]_namevars

-----------------------------------------------------------------------------
(***************************************************************************)
(* Properties.  Removing a file by its short name leaves the rows of its   *)
(* long name, and so does a power failure between rows; rows that are left *)
(* belong to whoever gets that short name next.  The properties about long *)
(* names leave such short names out (spoiled).                             *)
(***************************************************************************)

Clean(i) == sum_sfn(table[i]) \notin spoiled

\* No two entries of a directory have the same short name, however many long
\* names are shortened to the same characters and whatever is left over.
SfnUnique == \A i, j \in Shorts :
               sum_sfn(table[i]) = sum_sfn(table[j]) => i = j

\* A file is listed with the name it was made with, capitals included.
ShownIsNamed == \A i \in Shorts : Clean(i) => get_fileinfo(table, i) = table[i].as

\* A name finds the file that was made with it, up to capitals, or the one
\* it is the short name of, and no other.
FoundIsNamed ==
  \A i \in Shorts : Clean(i) =>
    \A s \in Asked :
      LET n == create_name(s)
      IN  FindName(table, n).at = i =>
            \/ SameLong(table[i].as, n.lfn)
            \/ ~n.loss /\ sum_sfn(table[i]) = sum_sfn(n)

\* What was made under a name is found under it.
NamedIsFound ==
  \A i \in Shorts : Clean(i) =>
    FindName(table, create_name(table[i].as)).at = i

\* A request takes away one entry at most and adds one at most; all the
\* other files stay in their place with their rows.
OthersStay ==
  [][/\ Cardinality({i \in Shorts : table'[i].kind # "short"}) <= 1
     /\ Cardinality({i \in DOMAIN table : table'[i].kind = "short" /\ i \notin Shorts}) <= 1
     /\ \A i \in Shorts : table'[i].kind = "short" => table'[i] = table[i]]_namevars

\* A name finds its file and no other, and short names are not given twice.
NamesRight == SfnUnique /\ ShownIsNamed /\ FoundIsNamed /\ NamedIsFound
===============================================================================
