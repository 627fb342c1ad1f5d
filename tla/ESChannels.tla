------------------------------ MODULE ESChannels ------------------------------
(***************************************************************************)
(* The list of channels that ES makes before it serves the System Menu     *)
(* (LoadAndRebuildChannelCache, es/SMenu.c).  The names in it are read     *)
(* from a content of each channel, which takes long, so that the list is   *)
(* kept in /sneek/cnlcache.bin; it is taken for right when it has as many  *)
(* entries as there are channels.                                          *)
(***************************************************************************)
EXTENDS Naturals, FiniteSets

CONSTANTS
  Channels0,   \* titles that may be installed, in uid.sys for ever after
  MaxMoves,    \* bound: channels installed and removed
  MaxUnlisted, \* bound: times that uid.sys cannot be read
  MaxLosses    \* bound: power failures and failed writes

ASSUME ESChannelsAssumption ==
  IsFiniteSet(Channels0) /\ MaxMoves \in Nat /\ MaxUnlisted \in Nat /\ MaxLosses \in Nat

VARIABLES
  installed,    \* the channels of uid.sys that can be opened
  cnlcache,     \* the list in cnlcache.bin, if there is one
  channelCache, \* the list in memory, if there is one
  running,      \* whether the System Menu runs
  atStart,      \* history: the channels there were when it was started
  came, went,   \* history: channels were installed, removed since cnlcache.bin
  moves, unlisted, losses

channelvars == <<installed, cnlcache, channelCache, running, atStart, came, went,
                 moves, unlisted, losses>>

ChannelsInit ==
  /\ installed \in SUBSET Channels0 /\ cnlcache = {} /\ channelCache = {}
  /\ running = FALSE /\ atStart = {} /\ came = FALSE /\ went = FALSE
  /\ moves = 0 /\ unlisted = 0 /\ losses = 0

\* Mutant of Outdated: a list that is too long is taken.
Outdated_short(file) == \A list \in file : Cardinality(installed) > Cardinality(list)

\* The number of entries, and the size of the file that follows from it.
Outdated(file) == \A list \in file : Cardinality(installed) # Cardinality(list)

\* NANDWriteFileSafe: a write that fails keeps the old file; the file server
\* deletes the old file before it gives the new one its name.
CacheWritten ==
  \/ cnlcache' = {installed} /\ came' = FALSE /\ went' = FALSE /\ UNCHANGED losses
  \/ /\ losses < MaxLosses /\ losses' = losses + 1
     /\ \/ UNCHANGED <<cnlcache, came, went>>
        \/ cnlcache' = {} /\ came' = FALSE /\ went' = FALSE

LoadAndRebuildChannelCache ==
  /\ ~running /\ running' = TRUE /\ atStart' = installed
  /\ \/ /\ Outdated(cnlcache) /\ channelCache' = {installed} /\ CacheWritten
        /\ UNCHANGED unlisted
     \/ /\ ~Outdated(cnlcache) /\ channelCache' = cnlcache
        /\ UNCHANGED <<cnlcache, came, went, unlisted, losses>>
     \/ /\ unlisted < MaxUnlisted /\ unlisted' = unlisted + 1 /\ channelCache' = {}
        /\ UNCHANGED <<cnlcache, came, went, losses>>
  /\ UNCHANGED <<installed, moves>>

\* A title is installed, or its contents are deleted.
ChannelsChange ==
  /\ moves < MaxMoves /\ moves' = moves + 1
  /\ \E c \in Channels0 :
       \/ c \notin installed /\ installed' = installed \cup {c} /\ came' = TRUE /\ UNCHANGED went
       \/ c \in installed /\ installed' = installed \ {c} /\ went' = TRUE /\ UNCHANGED came
  /\ UNCHANGED <<cnlcache, channelCache, running, atStart, unlisted, losses>>

\* A title is launched, or the power goes off; ES starts anew.
MenuLeft ==
  /\ running /\ running' = FALSE /\ channelCache' = {}
  /\ UNCHANGED <<installed, cnlcache, atStart, came, went, moves, unlisted, losses>>

ChannelsNext == LoadAndRebuildChannelCache \/ ChannelsChange \/ MenuLeft

ChannelsSpec == ChannelsInit /\ [][ChannelsNext]_channelvars

-----------------------------------------------------------------------------
(***************************************************************************)
(* Properties.  A channel that went and one that came in its place are not *)
(* noticed: the menu shows the old one and launches its title.             *)
(***************************************************************************)

\* The menu lists as many channels as were installed when it was started, and
\* just those if since cnlcache.bin was written channels were only installed or
\* only removed, whatever writes of the list failed in between.
ChannelsRight ==
  \A list \in channelCache :
    /\ Cardinality(list) = Cardinality(atStart)
    /\ list = atStart \/ (came /\ went)
===============================================================================
