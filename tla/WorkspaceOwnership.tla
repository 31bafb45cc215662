------------------------- MODULE WorkspaceOwnership -------------------------
(***************************************************************************)
(* What the deploy linkage promises about the account that owns a GOAD     *)
(* workspace (src/src/lib/goad/goad-deploy-link.ts).  A user keeps the     *)
(* workspaces made for him.  One made for the host account goes to any     *)
(* user who deploys with it, and to the last of several.  An administrator *)
(* may hand over any workspace, which may go on from there.  The range     *)
(* file of a workspace names a range of the user who owns it when the file *)
(* is written.                                                             *)
(***************************************************************************)
CONSTANTS
  Workspaces, Users,
  Accounts,    \* users, the host's account and whoever else makes workspaces
  Host,        \* the account of the configured SSH login
  RangesOf,    \* RangesOf[u]: the ranges u deploys to
  NoOne, NoRange

VARIABLES
  owner,       \* owner[w]: account of the directory, NoOne before it exists
  origin,      \* origin[w]: the account it was made for
  reassigned,  \* workspaces an administrator handed over
  file         \* file[w]: the range in its range file

Init ==
  /\ owner = [w \in Workspaces |-> NoOne]
  /\ origin = owner
  /\ reassigned = {}
  /\ file = [w \in Workspaces |-> NoRange]

Make(w, a) ==
  /\ owner[w] = NoOne
  /\ owner' = [owner EXCEPT ![w] = a]
  /\ origin' = [origin EXCEPT ![w] = a]
  /\ UNCHANGED <<reassigned, file>>

Claim(w, u) ==
  /\ owner[w] # NoOne
  /\ origin[w] \in {u, Host} \/ w \in reassigned
  /\ owner' = [owner EXCEPT ![w] = u]
  /\ UNCHANGED <<origin, reassigned, file>>

Reassign(w, u) ==
  /\ owner[w] # NoOne
  /\ owner' = [owner EXCEPT ![w] = u]
  /\ reassigned' = reassigned \cup {w}
  /\ UNCHANGED <<origin, file>>

Tag(w) ==
  /\ owner[w] \in Users
  /\ \E r \in RangesOf[owner[w]] : file' = [file EXCEPT ![w] = r]
  /\ UNCHANGED <<owner, origin, reassigned>>

Next ==
  \E w \in Workspaces :
    \/ \E a \in Accounts : Make(w, a)
    \/ \E u \in Users : Claim(w, u) \/ Reassign(w, u)
    \/ Tag(w)

Spec == Init /\ [][Next]_<<owner, origin, reassigned, file>>
=============================================================================
