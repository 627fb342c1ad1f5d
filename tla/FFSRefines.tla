------------------------------ MODULE FFSRefines ------------------------------
(***************************************************************************)
(* FFS implements FileStore for clients that do not share files they       *)
(* write, on a card without failing transfers (Faults = {}).               *)
(***************************************************************************)
EXTENDS FFS

\* The values along the n clusters of the chain that starts at cluster c.
Contents(c, n) ==
  LET chain[i \in 1 .. n] == IF i = 1 THEN c ELSE get_cluster(chain[i - 1])
  IN  [i \in 1 .. n |-> IF chain[i] \in Clusters THEN data[chain[i]] ELSE NoName]

Writers(s) == {f \in Users(s) : "WRITE" \in fd_stack[f].flag}

\* A file that is open for writing is what its handle says, since its entry is
\* brought up to date at the close; any other file is what its entry says.
FileOf(s) ==
  IF Writers(s) # {}
  THEN LET h == fd_stack[CHOOSE f \in Writers(s) : TRUE]
       IN  Contents(h.org, IF h.fptr > h.fsize THEN h.fptr ELSE h.fsize)
  ELSE Contents(dir[s].clust, dir[s].size)

UsedSlots == {s \in Slots : dir[s].name # NoName}
absFiles == [n \in {dir[s].name : s \in UsedSlots} |->
               FileOf(CHOOSE s \in UsedSlots : dir[s].name = n)]

\* While f_lseek follows the chain, the seek has already happened.
Position(f) ==
  fd_stack[f].fptr + (IF req.op = "seek" /\ req.fd = f THEN req.left ELSE 0)

absHandle == [f \in {f \in Fds : fd_stack[f].fs = 1} |->
                [name |-> dir[fd_stack[f].ent].name, pos |-> Position(f)]]

absGot == IF req.op = "read" THEN req.buf ELSE reply.buf

Store == INSTANCE FileStore
           WITH files <- absFiles, handle <- absHandle, got <- absGot

\* Under exclusive use every step of the server is a step of the file store or
\* leaves it unchanged: what is read is what was written, nothing of a file
\* changes by work on another one, and closing changes no contents.
StoreSpec == Store!Spec
=============================================================================
