----------------------------- MODULE TitleInstall -----------------------------
(***************************************************************************)
(* ES with the client it is written for: an installer that imports titles  *)
(* one after the other, in the order of calls ES expects, gives up an      *)
(* import with AddTitleCancel when a call fails or the user wants so, and  *)
(* starts it again.  The installer is not part of the repository.          *)
(*                                                                         *)
(* A trouble is a piece of data that arrives damaged, a title that is      *)
(* deleted, an import that is given up, or the power going off.            *)
(***************************************************************************)
EXTENDS ESImport

CONSTANTS
  Jobs,         \* the TMDs to import, in this order
  MaxTroubles   \* bound: troubles in a behaviour

ASSUME InstallAssumption ==
  Jobs \in Seq(Tmds) /\ MaxTroubles \in Nat

VARIABLES
  job,       \* the import at work on, Len(Jobs) + 1 at the end
  step,      \* the last call
  k,         \* the content it was for
  troubles   \* how many there were

client == <<job, step, k, troubles>>
allvars == <<vars, client>>

InstallInit ==
  /\ Init
  /\ job = 1 /\ step = "none" /\ k = 0 /\ troubles = 0

Working == job <= Len(Jobs)
Tmd     == Jobs[job]
Ready   == Accepts /\ Working
Ok      == reply.ret >= 0
Trouble == troubles < MaxTroubles /\ troubles' = troubles + 1

Call(s, n) == step' = s /\ k' = n /\ job' = job

InstallTicket ==
  /\ Ready /\ step = "none"
  /\ AddTicket(Tmd.title)
  /\ Call("ticket", 0) /\ UNCHANGED troubles

InstallStart ==
  /\ Ready /\ step = "ticket" /\ Ok
  /\ AddTitleStart(Tmd)
  /\ Call("start", 0) /\ UNCHANGED troubles

Between == step \in {"start", "cfinish"} /\ Ok

\* The next content, or one after optional contents the user does not want.
InstallContent ==
  /\ Ready /\ Between
  /\ \E n \in k + 1 .. Len(Tmd.contents) :
       /\ \A i \in k + 1 .. n - 1 : Tmd.contents[i].optional
       /\ AddContentStart(Tmd.contents[n].id)
       /\ Call("cstart", n)
  /\ UNCHANGED troubles

InstallData ==
  /\ Ready /\ step = "cstart" /\ Ok
  /\ LET c == Tmd.contents[k]
     IN  \/ AddContentData(c.id, c.hash) /\ UNCHANGED troubles
         \/ AddContentData(c.id, Bad) /\ Trouble
  /\ Call("cdata", k)

InstallContentFinish ==
  /\ Ready /\ step = "cdata" /\ Ok
  /\ AddContentFinish(Tmd.contents[k].id)
  /\ Call("cfinish", k) /\ UNCHANGED troubles

InstallFinish ==
  /\ Ready /\ Between
  /\ \A i \in k + 1 .. Len(Tmd.contents) : Tmd.contents[i].optional
  /\ AddTitleFinish
  /\ Call("finish", 0) /\ UNCHANGED troubles

InstallDone ==
  /\ Ready /\ step = "finish" /\ Ok
  /\ job' = job + 1 /\ step' = "none" /\ k' = 0
  /\ UNCHANGED <<vars, troubles>>

InstallCancel ==
  /\ Ready /\ step \notin {"none", "cancel"}
  /\ \/ ~ Ok /\ UNCHANGED troubles
     \/ Ok /\ step # "finish" /\ Trouble
  /\ AddTitleCancel
  /\ Call("cancel", 0)

InstallAgain ==
  /\ Ready /\ step = "cancel"
  /\ Call("none", 0) /\ UNCHANGED <<vars, troubles>>

\* Between two imports titles may be deleted.
Delete ==
  /\ Ready /\ step = "none" /\ Trouble
  /\ \E t \in Titles : DeleteTitleContent(t)
  /\ UNCHANGED <<job, step, k>>

\* The installer is gone with the power, and runs again some time.
PowerOff ==
  /\ Working /\ Trouble
  /\ Restart
  /\ step' = "none" /\ k' = 0 /\ job' = job

Install ==
  \/ InstallTicket \/ InstallStart
  \/ InstallContent \/ InstallData \/ InstallContentFinish
  \/ InstallFinish \/ InstallDone \/ InstallCancel \/ InstallAgain

AllDone == ~ Working /\ req.op = "idle" /\ UNCHANGED allvars

InstallNext ==
  \/ Install
  \/ Work /\ UNCHANGED client
  \/ Delete
  \/ PowerOff
  \/ AllDone

InstallSpec == InstallInit /\ [][InstallNext]_allvars

-----------------------------------------------------------------------------
(***************************************************************************)
(* What ES takes for granted of the TMDs it is given.                      *)
(***************************************************************************)

\* ES keeps a private content that is there under the same ID, whatever its
\* data: two TMDs of a title do not give an ID to different data.
IdNamesData ==
  \A i, j \in DOMAIN Jobs : Jobs[i].title = Jobs[j].title =>
    \A p \in DOMAIN Jobs[i].contents, q \in DOMAIN Jobs[j].contents :
      LET c == Jobs[i].contents[p]
          d == Jobs[j].contents[q]
      IN  ~ c.shared /\ ~ d.shared /\ c.id = d.id => c.hash = d.hash

\* The result of AddTitleFinish is the one of the last content it moved: a TMD has
\* a content of its own, and its shared ones are mandatory.
Ordinary ==
  \A j \in DOMAIN Jobs :
    /\ \E p \in DOMAIN Jobs[j].contents : ~ Jobs[j].contents[p].shared
    /\ \A p \in DOMAIN Jobs[j].contents :
         Jobs[j].contents[p].shared => ~ Jobs[j].contents[p].optional

-----------------------------------------------------------------------------
Available(t, c) ==
  IF c.shared
  THEN \E i \in DOMAIN map : map[i] = c.hash /\ shared1[i - 1] = c.hash
  ELSE content[t][c.id] = c.hash

Deleting(t) == t \in cut \/ (req.op = "delete" /\ req.title = t)

\* A title whose TMD is on the NAND is the one the TMD describes, and all its
\* mandatory contents are there with the data the TMD asks for, wherever the
\* power went off and whatever damaged data was delivered: contents are
\* moved before the TMD, and only after their hash was compared.
InstalledComplete ==
  \A t \in Titles :
    tmd[t] # None /\ ~ Deleting(t) =>
      /\ tmd[t] \in Tmds /\ tmd[t].title = t
      /\ \A i \in DOMAIN tmd[t].contents :
           tmd[t].contents[i].optional \/ Available(t, tmd[t].contents[i])

\* ES.c says of uid.sys that "all titles which got installed on the system"
\* are in it.
InstalledHasUid ==
  \A t \in Titles : tmd[t] # None => uid # None /\ t \in Range(uid)

\* Whatever was left behind by imports that were given up or cut off, the
\* installer gets through with its work once the troubles are over.
ImportsFinish == <>(~ Working)

\* An installer that delivered what it had to, whose data was good and whose
\* calls all succeeded, gets its title: "content already in shared1, move on",
\* says ES_AddTitleFinish, is no failure.
FinishSucceeds ==
  step = "finish" /\ req.op = "idle" /\ faults = 0 => reply.ret = ES_SUCCESS

\* An installed title is complete and has its user ID, content.map names only files
\* that are there and none twice, and an import without trouble installs its title.
InstalledRight == InstalledComplete /\ InstalledHasUid /\ MapRight /\ FinishSucceeds
=============================================================================
