------------------------------- MODULE Groups -------------------------------
(***************************************************************************)
(* The host groups (internal/command/group.go).  Every operation holds the *)
(* lock and writes the whole table to groups.json before it returns.       *)
(* Create takes its change back when that fails; Delete, AddHost and       *)
(* RemoveHost keep theirs and return the error, which leaves the file      *)
(* behind the table until a later write.                                   *)
(***************************************************************************)
EXTENDS Naturals, Sequences, Functions

CONSTANTS
  GroupNames,
  Hosts,
  Cut,                          \* groups.json cut short: no valid JSON
  MaxHosts                      \* bound: hosts of one group

VARIABLES
  groups,                       \* name -> hosts in order
  groupsFile,                   \* groups.json, or Cut
  behind                        \* a failed write left the file behind the table

groupVars == <<groups, groupsFile, behind>>

NoGroups == [g \in {} |-> << >>]

HostLists == UNION {[1 .. n -> Hosts] : n \in 0 .. MaxHosts}

GroupTypeOK ==
  /\ DOMAIN groups \subseteq GroupNames
  /\ \A g \in DOMAIN groups : groups[g] \in Seq(Hosts)
  /\ behind \in BOOLEAN

GroupInit ==
  /\ groups = NoGroups
  /\ groupsFile = NoGroups
  /\ behind = FALSE

\* Save's outcomes: written; failed before the file was touched; cut short.
Written(table) == groupsFile' = table
NotWritten == UNCHANGED groupsFile
CutShort == groupsFile' = Cut

\* Delete, AddHost and RemoveHost: the change stays, whatever Save says.
Keep(table) ==
  /\ groups' = table
  /\ \/ Written(table) /\ behind' = FALSE
     \/ (NotWritten \/ CutShort) /\ behind' = TRUE

\* A bug: the group stays in the table when its Save fails.
CreateStays(g, hosts) ==
  LET table == [x \in DOMAIN groups \cup {g} |->
                  IF x = g THEN hosts ELSE groups[x]] IN
  /\ g \notin DOMAIN groups
  /\ groups' = table
  /\ \/ Written(table) /\ behind' = FALSE
     \/ NotWritten /\ UNCHANGED behind
     \/ CutShort /\ behind' = TRUE

\* A failed Create has nothing to make up for unless the file was cut short.
Create(g, hosts) ==
  LET table == [x \in DOMAIN groups \cup {g} |->
                  IF x = g THEN hosts ELSE groups[x]] IN
  /\ g \notin DOMAIN groups
  /\ \/ Written(table) /\ groups' = table /\ behind' = FALSE
     \/ NotWritten /\ UNCHANGED <<groups, behind>>
     \/ CutShort /\ UNCHANGED groups /\ behind' = TRUE

DeleteGroup(g) ==
  /\ g \in DOMAIN groups
  /\ Keep(Restrict(groups, DOMAIN groups \ {g}))

AddHost(g, host) ==
  /\ g \in DOMAIN groups
  /\ host \notin Range(groups[g])
  /\ Len(groups[g]) < MaxHosts
  /\ Keep([groups EXCEPT ![g] = Append(@, host)])

\* The first of the host's entries goes.
RemoveHost(g, host) ==
  /\ g \in DOMAIN groups
  /\ \E i \in DOMAIN groups[g] :
       /\ groups[g][i] = host
       /\ \A j \in 1 .. i - 1 : groups[g][j] # host
       /\ Keep([groups EXCEPT ![g] = SubSeq(@, 1, i - 1) \o SubSeq(@, i + 1, Len(@))])

\* NewGroupManager, then Load: a file cut short is an error and loads nothing.
GroupsRestart ==
  /\ groups' = IF groupsFile = Cut THEN NoGroups ELSE groupsFile
  /\ behind' = (groupsFile = Cut)
  /\ UNCHANGED groupsFile

GroupNext ==
  \/ \E g \in GroupNames :
       \/ \E hosts \in HostLists : Create(g, hosts)
       \/ DeleteGroup(g)
       \/ \E host \in Hosts : AddHost(g, host) \/ RemoveHost(g, host)
  \/ GroupsRestart

-----------------------------------------------------------------------------
(***************************************************************************)
(* The file holds the groups the program has, unless a call has failed in  *)
(* a way it cannot take back: a refused Create leaves no group that only   *)
(* memory knows (group.go:59-62), and the next write that succeeds brings  *)
(* the file up to date with all the changes kept before it.                *)
(***************************************************************************)
GroupsSaved == behind \/ groupsFile = groups
=============================================================================
