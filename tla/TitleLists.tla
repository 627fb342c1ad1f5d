------------------------------ MODULE TitleLists ------------------------------
(***************************************************************************)
(* The lists of installed and of owned titles that ES hands out and caches *)
(* (es/ES.c, GetTitleCount to GetOwnedTitles), next to the imports that    *)
(* make them out of date.  A list is built from uid.sys and the files that *)
(* are on the NAND at that time.  Clients ask for a count right before the *)
(* list, to have a buffer of the right size.                               *)
(***************************************************************************)
EXTENDS TitleInstall, FiniteSets

VARIABLES
  TCount, TCountDirty, TTitles,     \* installed titles
  TOCount, TOCountDirty, TTitlesO,  \* owned titles
  told                              \* the last answer, while nothing else happens

lists    == <<TCount, TCountDirty, TTitles, TOCount, TOCountDirty, TTitlesO>>
listvars == <<allvars, lists, told>>

Told(w, n, s) == told' = [what |-> w, count |-> n, list |-> s]
Nothing == [what |-> "none", count |-> 0, list |-> <<>>]

ListsInit ==
  /\ InstallInit
  /\ TCount = 0 /\ TCountDirty = TRUE /\ TTitles = <<>>
  /\ TOCount = 0 /\ TOCountDirty = TRUE /\ TTitlesO = <<>>
  /\ told = Nothing

Loads == uid # None /\ (uid # <<>> \/ EmptyLoads)

\* The entries of s that are in S, in their order.
Listed(s, S) ==
  LET upto[n \in 0 .. Len(s)] ==
        IF n = 0 THEN <<>>
        ELSE IF s[n] \in S THEN Append(upto[n - 1], s[n]) ELSE upto[n - 1]
  IN  upto[Len(s)]

HasTmd    == {t \in Titles : tmd[t] # None}
Installed == Listed(uid, HasTmd)
Owned     == Listed(uid, ticket)

\* n entries are copied from a buffer that holds s.
Copied(s, n) == [j \in 1 .. n |-> IF j <= Len(s) THEN s[j] ELSE None]

\* A count that was taken does not make the flag clean.
GetTitleCount ==
  /\ IF TCountDirty /\ Loads THEN TCount' = Len(Installed) ELSE UNCHANGED TCount
  /\ IF TCountDirty /\ ~ Loads THEN told' = Nothing ELSE Told("count", TCount', <<>>)
  /\ UNCHANGED <<TCountDirty, TTitles, TOCount, TOCountDirty, TTitlesO>>

\* The list is built in the client's buffer, of which TCount entries are kept.
GetTitles ==
  /\ IF ~ TCountDirty
     THEN /\ Told("list", told.count, Copied(TTitles, TCount))
          /\ UNCHANGED <<TTitles, TCountDirty>>
     ELSE IF Loads
     THEN /\ Told("list", told.count, Installed)
          /\ TTitles' = Copied(Installed, TCount)
          /\ TCountDirty' = FALSE
     ELSE told' = Nothing /\ UNCHANGED <<TTitles, TCountDirty>>
  /\ UNCHANGED <<TCount, TOCount, TOCountDirty, TTitlesO>>

GetOwnedTitleCount ==
  /\ TOCount' = IF ~ TOCountDirty THEN TOCount ELSE IF Loads THEN Len(Owned) ELSE 0
  /\ Told("ocount", TOCount', <<>>)
  /\ UNCHANGED <<TCount, TCountDirty, TTitles, TOCountDirty, TTitlesO>>

\* All entries are kept, while TOCount stays as it was.
GetOwnedTitles ==
  /\ IF ~ TOCountDirty
     THEN /\ Told("olist", told.count, Copied(TTitlesO, TOCount))
          /\ UNCHANGED <<TTitlesO, TOCountDirty>>
     ELSE IF Loads
     THEN /\ Told("olist", told.count, Owned)
          /\ TTitlesO' = Owned
          /\ TOCountDirty' = FALSE
     ELSE told' = Nothing /\ UNCHANGED <<TTitlesO, TOCountDirty>>
  /\ UNCHANGED <<TCount, TCountDirty, TTitles, TOCount>>

Query ==
  /\ Accepts
  /\ \/ GetTitleCount
     \/ told.what = "count" /\ GetTitles
     \/ GetOwnedTitleCount
     \/ told.what = "ocount" /\ GetOwnedTitles
  /\ UNCHANGED allvars

\* Mutant of Dirtied: only the list of owned titles is out of date.
Dirtied_owned ==
  /\ TOCountDirty' = (TOCountDirty \/ (req.op = "tmd" /\ req'.op = "close"))
  /\ UNCHANGED <<TCount, TCountDirty, TTitles, TOCount, TTitlesO>>

\* ES_AddTitleFinish marks both lists when it has tried to move the TMD.
Dirtied ==
  LET moved == req.op = "tmd" /\ req'.op = "close"
  IN  /\ TCountDirty' = (TCountDirty \/ moved)
      /\ TOCountDirty' = (TOCountDirty \/ moved)
      /\ UNCHANGED <<TCount, TTitles, TOCount, TTitlesO>>

EsWork    == Work /\ UNCHANGED client /\ Dirtied /\ told' = Nothing
Installer == Install /\ Dirtied /\ told' = Nothing

Import ==
  \/ Installer
  \/ EsWork
  \/ Delete /\ Dirtied /\ told' = Nothing
  \/ AllDone /\ Dirtied /\ told' = Nothing

ListsRestart ==
  /\ PowerOff
  /\ TCount' = 0 /\ TCountDirty' = TRUE /\ TTitles' = <<>>
  /\ TOCount' = 0 /\ TOCountDirty' = TRUE /\ TTitlesO' = <<>>
  /\ told' = Nothing

ListsNext == Query \/ Import \/ ListsRestart

ListsSpec == ListsInit /\ [][ListsNext]_listvars

\* ES's thread and the installer keep going.
FairLists == ListsSpec /\ WF_listvars(EsWork) /\ WF_listvars(Installer)

-----------------------------------------------------------------------------
\* A cached list has as many entries as will be copied from it: the caches
\* are filled by one call and their length is taken by another, with imports
\* in between.
CacheHasCount ==
  /\ ~ TCountDirty => Len(TTitles) = TCount
  /\ ~ TOCountDirty => Len(TTitlesO) = TOCount

\* An orderly client, whose buffer has room for the count it was told, gets
\* that many titles, each of them once and each from uid.sys.
ListFits ==
  told.what \in {"list", "olist"} =>
    /\ Len(told.list) = told.count
    /\ Range(told.list) \subseteq Range(uid)
    /\ Cardinality(Range(told.list)) = told.count

\* No title is missing from a list of installed titles that is handed out,
\* however old the cache is.
NoneMissing ==
  told.what = "list" => Range(Installed) \subseteq Range(told.list)

\* A list of titles has the length that was told, holds what its count counted and
\* misses no title.
ListsRight == CacheHasCount /\ ListFits /\ NoneMissing
=============================================================================
