------------------------------ MODULE FileStore ------------------------------
(***************************************************************************)
(* What the file server promises a client that does not share the files it *)
(* writes: a file is a sequence of values, a handle is a position in one   *)
(* file, and a value that was put somewhere is what a later get returns,   *)
(* whatever happens to other files and handles in between.  There are no   *)
(* clusters, no directory entries and no cached sizes here.                *)
(***************************************************************************)
EXTENDS Integers, Sequences

CONSTANTS Names, Vals, Fds

VARIABLES
  files,   \* a function from the names of the files there are to their contents
  handle,  \* a function from the open handles to their file and position
  got      \* the values the current or last read request has got so far

vars == <<files, handle, got>>

Restrict(f, S) == [x \in S |-> f[x]]
Without(f, x)  == Restrict(f, DOMAIN f \ {x})
With(f, x, y)  == [z \in DOMAIN f \cup {x} |-> IF z = x THEN y ELSE f[z]]

Init ==
  /\ files = <<>>
  /\ handle = <<>>
  /\ got = <<>>

Create(n) ==
  /\ n \notin DOMAIN files
  /\ files' = With(files, n, <<>>)
  /\ UNCHANGED handle

Open(h, n) ==
  /\ n \in DOMAIN files /\ h \notin DOMAIN handle
  /\ handle' = With(handle, h, [name |-> n, pos |-> 0])
  /\ UNCHANGED files

OpenNew(h, n) ==
  /\ n \notin DOMAIN files /\ h \notin DOMAIN handle
  /\ files' = With(files, n, <<>>)
  /\ handle' = With(handle, h, [name |-> n, pos |-> 0])

Close(h) ==
  /\ h \in DOMAIN handle
  /\ handle' = Without(handle, h)
  /\ UNCHANGED files

\* One value is read at the position of h.
Get(h) ==
  LET p == handle[h] IN
  /\ h \in DOMAIN handle /\ p.pos < Len(files[p.name])
  /\ got' = Append(got, files[p.name][p.pos + 1])
  /\ handle' = [handle EXCEPT ![h].pos = @ + 1]
  /\ UNCHANGED files

\* One value is written at the position of h: it replaces one or is appended.
Put(h, v) ==
  LET p   == handle[h]
      old == files[p.name]
  IN  /\ h \in DOMAIN handle
      /\ files' = [files EXCEPT ![p.name] =
                     [i \in 1 .. (IF p.pos < Len(old) THEN Len(old) ELSE Len(old) + 1) |->
                        IF i = p.pos + 1 THEN v ELSE old[i]]]
      /\ handle' = [handle EXCEPT ![h].pos = @ + 1]

\* The position can be set to any place in the file.
Seek(h) ==
  /\ h \in DOMAIN handle
  /\ \E pos \in 0 .. Len(files[handle[h].name]) : handle' = [handle EXCEPT ![h].pos = pos]
  /\ UNCHANGED files

NotOpen(n) == \A h \in DOMAIN handle : handle[h].name # n

Delete(n) ==
  /\ n \in DOMAIN files /\ NotOpen(n)
  /\ files' = Without(files, n)
  /\ UNCHANGED handle

\* A file takes another name; a file of that name was deleted before.
Rename(n, m) ==
  /\ n \in DOMAIN files /\ m \notin DOMAIN files /\ NotOpen(n)
  /\ files' = With(Without(files, n), m, files[n])
  /\ UNCHANGED handle

Change ==
  \/ \E n \in Names :
       \/ Create(n) \/ Delete(n)
       \/ \E m \in Names : Rename(n, m)
       \/ \E h \in Fds : Open(h, n) \/ OpenNew(h, n)
  \/ \E h \in Fds :
       \/ Close(h) \/ Seek(h)
       \/ \E v \in Vals : Put(h, v)
  \/ UNCHANGED <<files, handle>>

Next ==
  \/ Change /\ got' = <<>>
  \/ \E h \in Fds : Get(h)

Spec == Init /\ [][Next]_vars
=============================================================================
