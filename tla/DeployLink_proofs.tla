------------------------- MODULE DeployLink_proofs -------------------------
(***************************************************************************)
(* Proofs about DeployLink, for every number of deployments, workspaces,   *)
(* users and restarts.                                                     *)
(*                                                                         *)
(* The owner of a workspace is the account it was made for, or it was the  *)
(* host account's to begin with, or an administrator handed it over.  What *)
(* a listing said is therefore still good for the gate when it is out of   *)
(* date: Listed carries that fact from the listing to the decision,        *)
(* Handled from the decision to the row.                                   *)
(***************************************************************************)
EXTENDS DeployLink, TLAPS

\* Whoever d deploys for may have workspace w.
Fair(d, w) == origin[w] \in {UserOf[d], Host} \/ w \in reassigned

\* The account a directory belongs to is explained.
Owned ==
  \A w \in Workspaces : owner[w] # NoOne =>
    origin[w] \in {owner[w], Host} \/ w \in reassigned

\* Whoever knows the owner of a workspace, or a page, works on one that exists, in a
\* deployment there is.
Present ==
  \A k \in Who, d \in Deploys :
    /\ at[k][d] \in {"hold", "chown", "write", "record", "linked"} => owner[ws[k][d]] # NoOne
    /\ at[k][d] \notin {"idle", "poll", "again", "over"} => ws[k][d] # NoWs
    /\ at[k][d] # "idle" => job[d] # "none"
    /\ d \in redeploys => job[d] # "none" /\ ws["server"][d] # NoWs

\* What the loop was told of the owner explains the owner too.
Listed ==
  \A d \in Deploys : at["server"][d] = "judge" /\ listed[d] # Unresolved =>
    /\ owner[ws["server"][d]] # NoOne
    /\ origin[ws["server"][d]] \in {listed[d], Host} \/ ws["server"][d] \in reassigned

\* Nobody works on a workspace that is not his, unless told so of a write.
Handled ==
  \A d \in Deploys :
    /\ at["server"][d] \in {"chown", "write", "record", "linked"} => Fair(d, ws["server"][d])
    /\ at["page"][d] \in {"record", "linked"} =>
         Fair(d, ws["page"][d]) \/ ws["page"][d] \in unheard

\* Struck off are workspaces that were there, or another user's.
Struck ==
  \A d \in Deploys :
    /\ \A w \in before[d] : owner[w] # NoOne
    /\ made[d] # NoWs =>
         /\ owner[made[d]] # NoOne
         /\ origin[made[d]] = UserOf[d]
         /\ made[d] \in before[d] => made[d] \in reassigned
    /\ made[d] # NoWs => job[d] # "none"

\* A row is about to be written where there is a file, as far as can be known.
Filed ==
  \A k \in Who, d \in Deploys : at[k][d] = "record" =>
    file[ws[k][d]] # NoRange \/ ws[k][d] \in unheard

IInv == TypeOK /\ Owned /\ Present /\ Listed /\ Handled /\ Struck /\ Filed /\ RowHasFile

USE DEF Accounts, Who, Places, AtRest, dirs, tasks, loops, hist, Fair

\* The names that are none are none of the others.
LEMMA Distinct ==
  /\ NoWs \notin Workspaces
  /\ NoOne \notin Accounts /\ Unresolved \notin Accounts /\ NoOne # Unresolved
  /\ NoRange \notin Ranges
  /\ Host \in Accounts \ Users /\ Others \subseteq Accounts
  /\ \A d \in Deploys : UserOf[d] \in Users /\ RangeOf[d] \in Ranges
  BY ConstantsAssumption DEF NoWs, NoOne, Unresolved, NoRange, Workspaces

LEMMA InitHolds == Init => IInv
  BY Distinct, ConstantsAssumption
  DEF Init, IInv, TypeOK, Owned, Present, Listed, Handled, Struck, Filed, RowHasFile

\* A deployment takes up what exists.
LEMMA ExecuteKeeps ==
  ASSUME IInv, NEW d \in Deploys, NEW w \in Workspaces \cup {NoWs},
         NEW snapshot \in SUBSET Existing, NEW announced \in BOOLEAN,
         Execute(d, w, snapshot, announced)
  PROVE  IInv'
  <1>1. TypeOK'
    BY Distinct DEF Execute, Existing, IInv, TypeOK
  <1>2. Owned'
    BY DEF Execute, IInv, Owned
  <1>3. Present'
    BY Distinct DEF Execute, Existing, IInv, TypeOK, Present
  <1>4. Listed'
    BY Distinct DEF Execute, Existing, IInv, TypeOK, Listed
  <1>5. Handled'
    BY Distinct DEF Execute, Existing, IInv, TypeOK, Handled
  <1>6. Struck'
    BY Distinct DEF Execute, Existing, IInv, TypeOK, Struck
  <1>7. Filed'
    BY Distinct DEF Execute, Existing, IInv, TypeOK, Filed
  <1>8. RowHasFile'
    <2>1. CASE announced
      BY <2>1, Distinct DEF Execute, Existing, IInv, TypeOK, Present, RowHasFile
    <2>2. CASE ~announced
      BY <2>2, Distinct DEF Execute, Existing, IInv, TypeOK, Present, RowHasFile
    <2> QED
      BY <2>1, <2>2
  <1> QED
    BY <1>1, <1>2, <1>3, <1>4, <1>5, <1>6, <1>7, <1>8 DEF IInv

\* A new workspace is its user's and nobody works on it yet.
LEMMA GoadMakesKeeps ==
  ASSUME IInv, NEW d \in Deploys, NEW w \in Workspaces, GoadMakes(d, w)
  PROVE  IInv'
  <1>1. TypeOK'
    BY Distinct DEF GoadMakes, IInv, TypeOK
  <1>2. Owned'
    BY Distinct DEF GoadMakes, IInv, TypeOK, Owned
  <1>3. Present'
    BY Distinct DEF GoadMakes, IInv, TypeOK, Present
  <1>4. Listed'
    <2>1. \A k \in Who, e \in Deploys :
            (\/ at[k][e] \in {"hold", "chown", "write", "record", "linked"}
             \/ k = "server" /\ at["server"][e] = "judge" /\ listed[e] # Unresolved)
              => ws[k][e] # w /\ ws[k][e] \in Workspaces
      BY Distinct DEF GoadMakes, IInv, TypeOK, Present, Listed
    <2>2. \A x \in Workspaces : x # w => origin'[x] = origin[x]
      BY DEF GoadMakes, IInv, TypeOK
    <2>3. \A k \in Who, e \in Deploys :
            (\/ at[k][e] \in {"hold", "chown", "write", "record", "linked"}
             \/ k = "server" /\ at["server"][e] = "judge" /\ listed[e] # Unresolved)
              => origin'[ws[k][e]] = origin[ws[k][e]]
      BY <2>1, <2>2
    <2> QED
      BY <2>3 DEF GoadMakes, IInv, Listed
  <1>5. Handled'
    <2>1. \A k \in Who, e \in Deploys :
            (\/ at[k][e] \in {"hold", "chown", "write", "record", "linked"}
             \/ k = "server" /\ at["server"][e] = "judge" /\ listed[e] # Unresolved)
              => ws[k][e] # w /\ ws[k][e] \in Workspaces
      BY Distinct DEF GoadMakes, IInv, TypeOK, Present, Listed
    <2>2. \A x \in Workspaces : x # w => origin'[x] = origin[x]
      BY DEF GoadMakes, IInv, TypeOK
    <2>3. \A k \in Who, e \in Deploys :
            (\/ at[k][e] \in {"hold", "chown", "write", "record", "linked"}
             \/ k = "server" /\ at["server"][e] = "judge" /\ listed[e] # Unresolved)
              => origin'[ws[k][e]] = origin[ws[k][e]]
      BY <2>1, <2>2
    <2> QED
      BY <2>3 DEF GoadMakes, IInv, Handled
  <1>6. Struck'
    <2> SUFFICES ASSUME NEW e \in Deploys
                 PROVE  /\ \A x \in before[e] : owner'[x] # NoOne
                        /\ made'[e] # NoWs =>
                             /\ owner'[made'[e]] # NoOne
                             /\ origin'[made'[e]] = UserOf[e]
                             /\ made'[e] \in before[e] => made'[e] \in reassigned
                        /\ made'[e] # NoWs => job[e] # "none"
      BY DEF GoadMakes, Struck, loops
    <2>1. \A x \in before[e] : x \in Workspaces /\ x # w /\ owner'[x] # NoOne
      BY DEF GoadMakes, IInv, TypeOK, Struck
    <2>2. CASE e = d
      BY <2>1, <2>2, Distinct DEF GoadMakes, IInv, TypeOK
    <2>3. CASE e # d
      BY <2>1, <2>3, Distinct DEF GoadMakes, IInv, TypeOK, Struck
    <2> QED
      BY <2>2, <2>3
  <1>7. Filed'
    BY DEF GoadMakes, IInv, Filed
  <1>8. RowHasFile'
    BY DEF GoadMakes, IInv, RowHasFile
  <1> QED
    BY <1>1, <1>2, <1>3, <1>4, <1>5, <1>6, <1>7, <1>8 DEF IInv

\* A workspace made by hand is its maker's.
LEMMA OthersMakeKeeps ==
  ASSUME IInv, NEW w \in Workspaces, NEW a \in Others, OthersMake(w, a)
  PROVE  IInv'
  <1>1. TypeOK'
    BY Distinct DEF OthersMake, IInv, TypeOK
  <1>2. Owned'
    BY Distinct DEF OthersMake, IInv, TypeOK, Owned
  <1>3. Present'
    BY Distinct DEF OthersMake, IInv, TypeOK, Present
  <1>4. Listed'
    <2>1. \A k \in Who, e \in Deploys :
            (\/ at[k][e] \in {"hold", "chown", "write", "record", "linked"}
             \/ k = "server" /\ at["server"][e] = "judge" /\ listed[e] # Unresolved)
              => ws[k][e] # w /\ ws[k][e] \in Workspaces
      BY Distinct DEF OthersMake, IInv, TypeOK, Present, Listed
    <2>2. \A x \in Workspaces : x # w => origin'[x] = origin[x]
      BY DEF OthersMake, IInv, TypeOK
    <2>3. \A k \in Who, e \in Deploys :
            (\/ at[k][e] \in {"hold", "chown", "write", "record", "linked"}
             \/ k = "server" /\ at["server"][e] = "judge" /\ listed[e] # Unresolved)
              => origin'[ws[k][e]] = origin[ws[k][e]]
      BY <2>1, <2>2
    <2> QED
      BY <2>3 DEF OthersMake, IInv, Listed
  <1>5. Handled'
    <2>1. \A k \in Who, e \in Deploys :
            (\/ at[k][e] \in {"hold", "chown", "write", "record", "linked"}
             \/ k = "server" /\ at["server"][e] = "judge" /\ listed[e] # Unresolved)
              => ws[k][e] # w /\ ws[k][e] \in Workspaces
      BY Distinct DEF OthersMake, IInv, TypeOK, Present, Listed
    <2>2. \A x \in Workspaces : x # w => origin'[x] = origin[x]
      BY DEF OthersMake, IInv, TypeOK
    <2>3. \A k \in Who, e \in Deploys :
            (\/ at[k][e] \in {"hold", "chown", "write", "record", "linked"}
             \/ k = "server" /\ at["server"][e] = "judge" /\ listed[e] # Unresolved)
              => origin'[ws[k][e]] = origin[ws[k][e]]
      BY <2>1, <2>2
    <2> QED
      BY <2>3 DEF OthersMake, IInv, Handled
  <1>6. Struck'
    BY Distinct DEF OthersMake, IInv, TypeOK, Struck
  <1>7. Filed'
    BY DEF OthersMake, IInv, Filed
  <1>8. RowHasFile'
    BY DEF OthersMake, IInv, RowHasFile
  <1> QED
    BY <1>1, <1>2, <1>3, <1>4, <1>5, <1>6, <1>7, <1>8 DEF IInv

\* The end of a task concerns the tasks only.
LEMMA TaskEndsKeeps ==
  ASSUME IInv, NEW d \in Deploys, TaskEnds(d)
  PROVE  IInv'
  <1>1. TypeOK'
    BY Distinct DEF TaskEnds, IInv, TypeOK
  <1>2. Owned'
    BY DEF TaskEnds, IInv, Owned
  <1>3. Present'
    BY Distinct DEF TaskEnds, IInv, TypeOK, Present
  <1>4. Listed'
    BY Distinct DEF TaskEnds, IInv, TypeOK, Listed
  <1>5. Handled'
    BY DEF TaskEnds, IInv, Handled
  <1>6. Struck'
    BY Distinct DEF TaskEnds, IInv, TypeOK, Struck
  <1>7. Filed'
    BY DEF TaskEnds, IInv, Filed
  <1>8. RowHasFile'
    BY DEF TaskEnds, IInv, RowHasFile
  <1> QED
    BY <1>1, <1>2, <1>3, <1>4, <1>5, <1>6, <1>7, <1>8 DEF IInv

\* A listing tells the owner of the moment.
LEMMA ListKeeps ==
  ASSUME IInv, NEW d \in Deploys, NEW w \in Workspaces,
         NEW o \in Accounts \cup {Unresolved}, List(d, w, o)
  PROVE  IInv'
  <1>1. TypeOK'
    BY Distinct DEF List, Pick, Names, Existing, IInv, TypeOK
  <1>2. Owned'
    BY DEF List, IInv, Owned
  <1>3. Present'
    BY Distinct DEF List, Pick, Names, Existing, IInv, TypeOK, Present
  <1>4. Listed'
    BY Distinct DEF List, Pick, Names, Existing, IInv, TypeOK, Listed, Owned, Present
  <1>5. Handled'
    BY Distinct DEF List, Pick, Names, Existing, IInv, TypeOK, Handled
  <1>6. Struck'
    BY DEF List, IInv, Struck
  <1>7. Filed'
    BY Distinct DEF List, Pick, Names, Existing, IInv, TypeOK, Filed
  <1>8. RowHasFile'
    BY Distinct DEF List, Pick, Names, Existing, IInv, TypeOK, RowHasFile
  <1> QED
    BY <1>1, <1>2, <1>3, <1>4, <1>5, <1>6, <1>7, <1>8 DEF IInv

\* A loop that found nothing goes on.
LEMMA ListNothingKeeps ==
  ASSUME IInv, NEW d \in Deploys, ListNothing(d)
  PROVE  IInv'
  <1>1. TypeOK'
    BY Distinct DEF ListNothing, IInv, TypeOK
  <1>2. Owned'
    BY DEF ListNothing, IInv, Owned
  <1>3. Present'
    BY Distinct DEF ListNothing, IInv, TypeOK, Present
  <1>4. Listed'
    BY Distinct DEF ListNothing, IInv, TypeOK, Listed
  <1>5. Handled'
    BY Distinct DEF ListNothing, IInv, TypeOK, Handled
  <1>6. Struck'
    BY DEF ListNothing, IInv, Struck
  <1>7. Filed'
    BY Distinct DEF ListNothing, IInv, TypeOK, Filed
  <1>8. RowHasFile'
    BY DEF ListNothing, IInv, RowHasFile
  <1> QED
    BY <1>1, <1>2, <1>3, <1>4, <1>5, <1>6, <1>7, <1>8 DEF IInv

\* A loop that does not know the owner lets go.
LEMMA PostponeKeeps ==
  ASSUME IInv, NEW d \in Deploys, Postpone(d)
  PROVE  IInv'
  <1>1. TypeOK'
    BY Distinct DEF Postpone, Released, IInv, TypeOK
  <1>2. Owned'
    BY DEF Postpone, IInv, Owned
  <1>3. Present'
    BY Distinct DEF Postpone, Released, IInv, TypeOK, Present
  <1>4. Listed'
    BY Distinct DEF Postpone, Released, IInv, TypeOK, Listed
  <1>5. Handled'
    BY Distinct DEF Postpone, Released, IInv, TypeOK, Handled
  <1>6. Struck'
    BY DEF Postpone, IInv, Struck
  <1>7. Filed'
    BY Distinct DEF Postpone, Released, IInv, TypeOK, Filed
  <1>8. RowHasFile'
    BY Distinct DEF Postpone, Released, IInv, TypeOK, RowHasFile
  <1> QED
    BY <1>1, <1>2, <1>3, <1>4, <1>5, <1>6, <1>7, <1>8 DEF IInv

\* What is struck off is not the deployment's own.
LEMMA SkipKeeps ==
  ASSUME IInv, NEW d \in Deploys, Skip(d)
  PROVE  IInv'
  <1>1. TypeOK'
    BY Distinct DEF Skip, Released, Gate, IInv, TypeOK
  <1>2. Owned'
    BY DEF Skip, IInv, Owned
  <1>3. Present'
    BY Distinct DEF Skip, Released, Gate, IInv, TypeOK, Present
  <1>4. Listed'
    BY Distinct DEF Skip, Released, Gate, IInv, TypeOK, Listed
  <1>5. Handled'
    BY Distinct DEF Skip, Released, Gate, IInv, TypeOK, Handled
  <1>6. Struck'
    <2>1. listed[d] \notin {UserOf[d], Host, Unresolved} /\ ws["server"][d] \in Workspaces
      BY Distinct DEF Skip, Gate, IInv, TypeOK, Present
    <2>2. ws["server"][d] = made[d] => made[d] \in reassigned
      BY <2>1, Distinct DEF Skip, IInv, Listed, Struck
    <2>3. owner[ws["server"][d]] # NoOne
      BY <2>1, Distinct DEF Skip, IInv, Listed
    <2> QED
      BY <2>1, <2>2, <2>3 DEF Skip, IInv, TypeOK, Struck
  <1>7. Filed'
    BY Distinct DEF Skip, Released, Gate, IInv, TypeOK, Filed
  <1>8. RowHasFile'
    BY Distinct DEF Skip, Released, Gate, IInv, TypeOK, RowHasFile
  <1> QED
    BY <1>1, <1>2, <1>3, <1>4, <1>5, <1>6, <1>7, <1>8 DEF IInv

\* A loop that waits decides nothing.
LEMMA HoldKeeps ==
  ASSUME IInv, NEW d \in Deploys, Hold(d)
  PROVE  IInv'
  <1>1. TypeOK'
    BY Distinct DEF Hold, IInv, TypeOK
  <1>2. Owned'
    BY DEF Hold, IInv, Owned
  <1>3. Present'
    BY Distinct DEF Hold, Gate, IInv, TypeOK, Present, Listed
  <1>4. Listed'
    BY Distinct DEF Hold, IInv, TypeOK, Listed
  <1>5. Handled'
    BY Distinct DEF Hold, IInv, TypeOK, Handled
  <1>6. Struck'
    BY DEF Hold, IInv, Struck
  <1>7. Filed'
    BY Distinct DEF Hold, IInv, TypeOK, Filed
  <1>8. RowHasFile'
    BY DEF Hold, IInv, RowHasFile
  <1> QED
    BY <1>1, <1>2, <1>3, <1>4, <1>5, <1>6, <1>7, <1>8 DEF IInv

\* The gate lets through what may be the user's, when its task has ended.
LEMMA AcceptKeeps ==
  ASSUME IInv, NEW d \in Deploys, Accept(d)
  PROVE  IInv'
  <1>1. TypeOK'
    BY Distinct DEF Accept, Gate, Defers, HostProcessActive, IInv, TypeOK
  <1>2. Owned'
    BY DEF Accept, IInv, Owned
  <1>3. Present'
    BY Distinct DEF Accept, Gate, Defers, HostProcessActive, IInv, TypeOK, Present, Listed
  <1>4. Listed'
    BY Distinct DEF Accept, Gate, Defers, HostProcessActive, IInv, TypeOK, Listed, Owned, Present
  <1>5. Handled'
    BY Distinct DEF Accept, Gate, Defers, HostProcessActive, IInv, TypeOK, Handled, Listed
  <1>6. Struck'
    BY DEF Accept, IInv, Struck
  <1>7. Filed'
    BY Distinct DEF Accept, Gate, Defers, HostProcessActive, IInv, TypeOK, Filed
  <1>8. RowHasFile'
    BY DEF Accept, IInv, RowHasFile
  <1> QED
    BY <1>1, <1>2, <1>3, <1>4, <1>5, <1>6, <1>7, <1>8 DEF IInv

\* The loop looks again.
LEMMA ResumeKeeps ==
  ASSUME IInv, NEW d \in Deploys, Resume(d)
  PROVE  IInv'
  <1>1. TypeOK'
    BY Distinct DEF Resume, IInv, TypeOK
  <1>2. Owned'
    BY DEF Resume, IInv, Owned
  <1>3. Present'
    BY Distinct DEF Resume, IInv, TypeOK, Present
  <1>4. Listed'
    BY Distinct DEF Resume, IInv, TypeOK, Listed
  <1>5. Handled'
    BY Distinct DEF Resume, IInv, TypeOK, Handled
  <1>6. Struck'
    BY DEF Resume, IInv, Struck
  <1>7. Filed'
    BY Distinct DEF Resume, IInv, TypeOK, Filed
  <1>8. RowHasFile'
    BY DEF Resume, IInv, RowHasFile
  <1> QED
    BY <1>1, <1>2, <1>3, <1>4, <1>5, <1>6, <1>7, <1>8 DEF IInv

\* The loop looks again.
LEMMA AgainKeeps ==
  ASSUME IInv, NEW d \in Deploys, Again(d)
  PROVE  IInv'
  <1>1. TypeOK'
    BY Distinct DEF Again, IInv, TypeOK
  <1>2. Owned'
    BY DEF Again, IInv, Owned
  <1>3. Present'
    BY Distinct DEF Again, IInv, TypeOK, Present
  <1>4. Listed'
    BY Distinct DEF Again, IInv, TypeOK, Listed
  <1>5. Handled'
    BY Distinct DEF Again, IInv, TypeOK, Handled
  <1>6. Struck'
    BY DEF Again, IInv, Struck
  <1>7. Filed'
    BY Distinct DEF Again, IInv, TypeOK, Filed
  <1>8. RowHasFile'
    BY DEF Again, IInv, RowHasFile
  <1> QED
    BY <1>1, <1>2, <1>3, <1>4, <1>5, <1>6, <1>7, <1>8 DEF IInv

\* The loop ends without a link.
LEMMA GiveUpKeeps ==
  ASSUME IInv, NEW d \in Deploys, GiveUp(d)
  PROVE  IInv'
  <1>1. TypeOK'
    BY Distinct DEF GiveUp, IInv, TypeOK
  <1>2. Owned'
    BY DEF GiveUp, IInv, Owned
  <1>3. Present'
    BY Distinct DEF GiveUp, IInv, TypeOK, Present
  <1>4. Listed'
    BY Distinct DEF GiveUp, IInv, TypeOK, Listed
  <1>5. Handled'
    BY Distinct DEF GiveUp, IInv, TypeOK, Handled
  <1>6. Struck'
    BY DEF GiveUp, IInv, Struck
  <1>7. Filed'
    BY Distinct DEF GiveUp, IInv, TypeOK, Filed
  <1>8. RowHasFile'
    BY DEF GiveUp, IInv, RowHasFile
  <1> QED
    BY <1>1, <1>2, <1>3, <1>4, <1>5, <1>6, <1>7, <1>8 DEF IInv

\* The page takes up a workspace that exists.
LEMMA SetRangeKeeps ==
  ASSUME IInv, NEW d \in Deploys, NEW w \in Existing,
         NEW o \in Accounts \cup {Unresolved}, NEW admin \in BOOLEAN,
         SetRange(d, w, o, admin)
  PROVE  IInv'
  <1>1. TypeOK'
    BY Distinct DEF SetRange, Existing, IInv, TypeOK
  <1>2. Owned'
    BY DEF SetRange, IInv, Owned
  <1>3. Present'
    BY Distinct DEF SetRange, Existing, IInv, TypeOK, Present
  <1>4. Listed'
    BY Distinct DEF SetRange, Existing, IInv, TypeOK, Listed
  <1>5. Handled'
    BY Distinct DEF SetRange, Existing, IInv, TypeOK, Handled
  <1>6. Struck'
    BY DEF SetRange, IInv, Struck
  <1>7. Filed'
    BY Distinct DEF SetRange, Existing, IInv, TypeOK, Filed
  <1>8. RowHasFile'
    BY Distinct DEF SetRange, Existing, IInv, TypeOK, RowHasFile
  <1> QED
    BY <1>1, <1>2, <1>3, <1>4, <1>5, <1>6, <1>7, <1>8 DEF IInv

\* Linking the task concerns the task only.
LEMMA PageLinksKeeps ==
  ASSUME IInv, NEW d \in Deploys, NEW w \in Existing, PageLinks(d, w)
  PROVE  IInv'
  <1>1. TypeOK'
    BY Distinct DEF PageLinks, Existing, IInv, TypeOK
  <1>2. Owned'
    BY DEF PageLinks, IInv, Owned
  <1>3. Present'
    BY DEF PageLinks, IInv, Present
  <1>4. Listed'
    BY DEF PageLinks, IInv, Listed
  <1>5. Handled'
    BY DEF PageLinks, IInv, Handled
  <1>6. Struck'
    BY DEF PageLinks, IInv, Struck
  <1>7. Filed'
    BY DEF PageLinks, IInv, Filed
  <1>8. RowHasFile'
    BY DEF PageLinks, IInv, RowHasFile
  <1> QED
    BY <1>1, <1>2, <1>3, <1>4, <1>5, <1>6, <1>7, <1>8 DEF IInv

\* Whoever is about to hand over or write works on a workspace that exists.
LEMMA WorksOnOne ==
  ASSUME IInv, NEW k \in Who, NEW d \in Deploys, at[k][d] \in {"chown", "write"}
  PROVE  ws[k][d] \in Workspaces /\ owner[ws[k][d]] # NoOne
  <1>1. ws[k][d] # NoWs /\ owner[ws[k][d]] # NoOne
    BY DEF IInv, Present
  <1>2. ws[k][d] \in Workspaces \cup {NoWs}
    BY DEF IInv, TypeOK
  <1> QED
    BY <1>1, <1>2

\* A hand-over is explained by the workspace's history.
LEMMA ChownKeeps ==
  ASSUME IInv, NEW k \in Who, NEW d \in Deploys, NEW done \in BOOLEAN,
         NEW success \in BOOLEAN, Chown(k, d, done, success)
  PROVE  IInv'
  <1>1. TypeOK'
    <2>1. ws[k][d] \in Workspaces
      BY WorksOnOne DEF Chown
    <2>2. owner' \in [Workspaces -> Accounts \cup {NoOne}] /\ reassigned' \subseteq Workspaces
      BY <2>1, Distinct DEF Chown, AfterFailure, IInv, TypeOK
    <2>3. at' \in [Who -> [Deploys -> Places]]
      BY DEF Chown, AfterFailure, IInv, TypeOK
    <2>4. listed' \in [Deploys -> Accounts \cup {NoOne, Unresolved}]
      BY DEF Chown, AfterFailure, IInv, TypeOK
    <2> QED
      BY <2>2, <2>3, <2>4 DEF Chown, AfterFailure, IInv, TypeOK
  <1>2. Owned'
    BY Distinct DEF Chown, AfterFailure, IInv, TypeOK, Owned, Present, Handled
  <1>3. Present'
    BY Distinct DEF Chown, AfterFailure, IInv, TypeOK, Present
  <1>4. Listed'
    <2>1. ws[k][d] \in Workspaces /\ UserOf[d] # NoOne
      BY WorksOnOne, Distinct DEF Chown
    <2>2. /\ \A w \in Workspaces : owner[w] # NoOne => owner'[w] # NoOne
          /\ reassigned \subseteq reassigned'
      BY <2>1 DEF Chown, IInv, TypeOK
    <2>3. \A e \in Deploys : at'["server"][e] = "judge" =>
            at["server"][e] = "judge" /\ listed'[e] = listed[e]
      BY DEF Chown, AfterFailure, IInv, TypeOK
    <2>4. \A e \in Deploys : at["server"][e] = "judge" => ws["server"][e] \in Workspaces
      BY DEF IInv, TypeOK, Present
    <2>5. ws' = ws /\ origin' = origin
      BY DEF Chown
    <2> QED
      BY <2>2, <2>3, <2>4, <2>5 DEF IInv, Listed
  <1>5. Handled'
    BY Distinct DEF Chown, AfterFailure, IInv, TypeOK, Handled
  <1>6. Struck'
    BY Distinct DEF Chown, AfterFailure, IInv, TypeOK, Struck
  <1>7. Filed'
    BY Distinct DEF Chown, AfterFailure, IInv, TypeOK, Filed
  <1>8. RowHasFile'
    BY DEF Chown, AfterFailure, IInv, RowHasFile
  <1> QED
    BY <1>1, <1>2, <1>3, <1>4, <1>5, <1>6, <1>7, <1>8 DEF IInv

\* A file is written by the owner of the directory.
LEMMA WriteKeeps ==
  ASSUME IInv, NEW k \in Who, NEW d \in Deploys, NEW done \in BOOLEAN,
         NEW success \in BOOLEAN, Write(k, d, done, success)
  PROVE  IInv'
  <1>1. TypeOK'
    <2>1. ws[k][d] \in Workspaces
      BY WorksOnOne DEF Write
    <2>2. file' \in [Workspaces -> Ranges \cup {NoRange}] /\ unheard' \subseteq Workspaces
      BY <2>1, Distinct DEF Write, IInv, TypeOK
    <2>3. at' \in [Who -> [Deploys -> Places]]
      BY DEF Write, AfterFailure, IInv, TypeOK
    <2> QED
      BY <2>2, <2>3 DEF Write, IInv, TypeOK
  <1>2. Owned'
    BY DEF Write, AfterFailure, IInv, Owned
  <1>3. Present'
    BY Distinct DEF Write, AfterFailure, IInv, TypeOK, Present
  <1>4. Listed'
    BY Distinct DEF Write, AfterFailure, IInv, TypeOK, Listed
  <1>5. Handled'
    <2>1. \A e \in Deploys : at'["server"][e] = at["server"][e]
                          \/ at["server"][e] = "write"
      BY DEF Write, AfterFailure, IInv, TypeOK
    <2>2. \A e \in Deploys : ~(e = d /\ k = "page") => at'["page"][e] = at["page"][e]
      <3>1. CASE k = "server"
        BY <3>1 DEF Write, AfterFailure, IInv, TypeOK
      <3>2. CASE k = "page"
        BY <3>2 DEF Write, AfterFailure, IInv, TypeOK
      <3> QED
        BY <3>1, <3>2
    <2>3. /\ unheard \subseteq unheard'
          /\ success /\ k = "page" => Fair(d, ws["page"][d]) \/ ws["page"][d] \in unheard'
      <3>1. ws[k][d] \in Workspaces /\ owner[ws[k][d]] # NoOne
        BY WorksOnOne DEF Write
      <3>2. CASE done
        BY <3>1, <3>2, Distinct DEF Write, IInv, Owned
      <3>3. CASE ~done
        BY <3>3 DEF Write
      <3> QED
        BY <3>2, <3>3 DEF Write
    <2>4. ~success => at'[k][d] = "over"
      BY DEF Write, AfterFailure, IInv, TypeOK
    <2> QED
      BY <2>1, <2>2, <2>3, <2>4 DEF Write, IInv, Handled
  <1>6. Struck'
    BY DEF Write, AfterFailure, IInv, Struck
  <1>7. Filed'
    BY Distinct DEF Write, AfterFailure, IInv, TypeOK, Filed, Present
  <1>8. RowHasFile'
    BY Distinct DEF Write, AfterFailure, IInv, TypeOK, RowHasFile
  <1> QED
    BY <1>1, <1>2, <1>3, <1>4, <1>5, <1>6, <1>7, <1>8 DEF IInv

\* A row follows its file.
LEMMA RecordKeeps ==
  ASSUME IInv, NEW k \in Who, NEW d \in Deploys, NEW stored \in BOOLEAN,
         Record(k, d, stored)
  PROVE  IInv'
  <1>1. TypeOK'
    <2>1. row' \in [Workspaces -> Ranges \cup {NoRange}]
      BY Distinct DEF Record, IInv, TypeOK
    <2>2. inst' \in [Deploys -> Workspaces \cup {NoWs}]
      BY DEF Record, IInv, TypeOK
    <2>3. at' \in [Who -> [Deploys -> Places]]
      BY DEF Record, IInv, TypeOK
    <2> QED
      BY <2>1, <2>2, <2>3 DEF Record, IInv, TypeOK
  <1>2. Owned'
    BY DEF Record, IInv, Owned
  <1>3. Present'
    BY Distinct DEF Record, IInv, TypeOK, Present
  <1>4. Listed'
    BY Distinct DEF Record, IInv, TypeOK, Listed
  <1>5. Handled'
    BY Distinct DEF Record, IInv, TypeOK, Handled
  <1>6. Struck'
    BY DEF Record, IInv, Struck
  <1>7. Filed'
    BY Distinct DEF Record, IInv, TypeOK, Filed
  <1>8. RowHasFile'
    BY Distinct DEF Record, IInv, TypeOK, RowHasFile, Filed, Present
  <1> QED
    BY <1>1, <1>2, <1>3, <1>4, <1>5, <1>6, <1>7, <1>8 DEF IInv

\* A restart only ends things.
LEMMA RestartKeeps ==
  ASSUME IInv, Restart
  PROVE  IInv'
  <1>1. TypeOK'
    <2>1. boots' \in 0..MaxBoots
      BY ConstantsAssumption DEF Restart, IInv, TypeOK
    <2> QED
      BY <2>1, Distinct DEF Restart, IInv, TypeOK
  <1>2. Owned'
    BY DEF Restart, IInv, Owned
  <1>3. Present'
    BY Distinct DEF Restart, IInv, TypeOK, Present
  <1>4. Listed'
    BY Distinct DEF Restart, IInv, TypeOK, Listed
  <1>5. Handled'
    BY Distinct DEF Restart, IInv, TypeOK, Handled
  <1>6. Struck'
    BY Distinct DEF Restart, IInv, TypeOK, Struck
  <1>7. Filed'
    BY Distinct DEF Restart, IInv, TypeOK, Filed
  <1>8. RowHasFile'
    BY DEF Restart, IInv, RowHasFile
  <1> QED
    BY <1>1, <1>2, <1>3, <1>4, <1>5, <1>6, <1>7, <1>8 DEF IInv

LEMMA StepHolds == IInv /\ [Next]_vars => IInv'
  <1> SUFFICES ASSUME IInv, [Next]_vars
               PROVE  IInv'
    OBVIOUS
  <1>1. ASSUME NEW d \in Deploys, Asks(d)
        PROVE  IInv'
    BY <1>1, ExecuteKeeps DEF Asks
  <1>2. ASSUME NEW d \in Deploys, LoopStep(d)
        PROVE  IInv'
    BY <1>2, ListKeeps, ListNothingKeeps, PostponeKeeps, SkipKeeps, HoldKeeps, AcceptKeeps,
       ResumeKeeps, AgainKeeps
    DEF LoopStep
  <1>3. ASSUME NEW k \in Who, NEW d \in Deploys, LinkStep(k, d)
        PROVE  IInv'
    BY <1>3, ChownKeeps, WriteKeeps, RecordKeeps DEF LinkStep
  <1>4. ASSUME NEW d \in Deploys,
               \/ \E w \in Workspaces : GoadMakes(d, w)
               \/ TaskEnds(d)
               \/ GiveUp(d)
               \/ \E w \in Existing, o \in Accounts \cup {Unresolved}, admin \in BOOLEAN :
                    SetRange(d, w, o, admin)
               \/ \E w \in Existing : PageLinks(d, w)
        PROVE  IInv'
    BY <1>4, GoadMakesKeeps, TaskEndsKeeps, GiveUpKeeps, SetRangeKeeps, PageLinksKeeps
  <1>5. CASE \E w \in Workspaces, a \in Others : OthersMake(w, a)
    BY <1>5, OthersMakeKeeps
  <1>6. CASE UNCHANGED vars
    BY <1>6
    DEF vars, IInv, TypeOK, Owned, Present, Listed, Handled, Struck, Filed, RowHasFile
  <1> QED
    BY <1>1, <1>2, <1>3, <1>4, <1>5, <1>6, RestartKeeps DEF Next

LEMMA Invariant == Spec => []IInv
  BY InitHolds, StepHolds, PTL DEF Spec

\* The types, for any number of deployments and workspaces.
THEOREM LinkTypeCorrect == Spec => []TypeOK
  <1>1. IInv => TypeOK
    BY DEF IInv
  <1> QED
    BY Invariant, <1>1, PTL

\* workspaceOwnerGate, on listings however old: only an administrator takes one
\* user's workspace for another.
THEOREM OthersKeepTheirs == Spec => []ThirdPartyUntouched
  <1>1. IInv => ThirdPartyUntouched
    BY DEF IInv, Handled, Handling, ThirdPartyUntouched
  <1> QED
    BY Invariant, <1>1, PTL

\* The loop's list of workspaces to leave alone never gets its own one.
THEOREM OwnStaysFindable == Spec => []OwnNeverPassedOver
  <1>1. IInv => OwnNeverPassedOver
    BY DEF IInv, Struck, OwnNeverPassedOver
  <1> QED
    BY Invariant, <1>1, PTL

\* setInstanceRangeLocal comes after writeGoadRangeId: only a write that sshExec took
\* for done, and the range announced for a redeployment, leave a row without its file.
THEOREM RowsHaveFiles == Spec => []RowHasFile
  <1>1. IInv => RowHasFile
    BY DEF IInv
  <1> QED
    BY Invariant, <1>1, PTL

-----------------------------------------------------------------------------
(* The linkage keeps the promise of WorkspaceOwnership.                    *)

\* A step WorkspaceOwnership allows, or does not see.
AsPromised == [Ownership!Next]_<<owner, origin, reassigned, file>>

\* What changes no owner and no range file is not seen.
LEMMA Unseen ==
  ASSUME UNCHANGED <<owner, origin, reassigned, file>>
  PROVE  AsPromised
  BY DEF AsPromised

\* A hand-over is a claim of the loop, or an administrator's; only he who owns a
\* workspace writes its range file.
LEMMA LinkAsPromised ==
  ASSUME IInv, NEW k \in Who, NEW d \in Deploys, LinkStep(k, d)
  PROVE  AsPromised
  <1>1. ASSUME NEW done \in BOOLEAN, NEW success \in BOOLEAN, Chown(k, d, done, success)
        PROVE  AsPromised
    <2> DEFINE w == ws[k][d]
    <2>1. w \in Workspaces /\ owner[w] # NoOne /\ UserOf[d] \in Users
      BY <1>1, WorksOnOne, Distinct DEF Chown
    <2>2. CASE ~done
      BY <1>1, <2>2, Unseen DEF Chown
    <2>3. CASE done /\ k = "server"
      <3>1. origin[w] \in {UserOf[d], Host} \/ w \in reassigned
        BY <1>1, <2>3 DEF Chown, IInv, Handled
      <3>2. Ownership!Claim(w, UserOf[d])
        BY <1>1, <2>1, <2>3, <3>1 DEF Chown, Ownership!Claim
      <3> QED
        BY <2>1, <3>2 DEF AsPromised, Ownership!Next
    <2>4. CASE done /\ k = "page"
      <3>1. Ownership!Reassign(w, UserOf[d])
        BY <1>1, <2>1, <2>4 DEF Chown, Ownership!Reassign
      <3> QED
        BY <2>1, <3>1 DEF AsPromised, Ownership!Next
    <2> QED
      BY <2>2, <2>3, <2>4
  <1>2. ASSUME NEW done \in BOOLEAN, NEW success \in BOOLEAN, Write(k, d, done, success)
        PROVE  AsPromised
    <2> DEFINE w == ws[k][d]
               ranges == [u \in Users |-> {RangeOf[e] : e \in {f \in Deploys : UserOf[f] = u}}]
    <2>1. CASE ~done
      BY <1>2, <2>1, Unseen DEF Write
    <2>2. CASE done
      <3>1. owner[w] = UserOf[d] /\ at[k][d] = "write"
        BY <1>2, <2>2 DEF Write
      <3>2. w \in Workspaces /\ UserOf[d] \in Users
        BY <3>1, WorksOnOne, Distinct
      <3>3. RangeOf[d] \in ranges[owner[w]]
        BY <3>1, <3>2
      <3>4. Ownership!Tag(w)
        BY <1>2, <2>2, <3>1, <3>2, <3>3 DEF Write, Ownership!Tag
      <3> QED
        BY <3>2, <3>4 DEF AsPromised, Ownership!Next
    <2> QED
      BY <2>1, <2>2
  <1>3. CASE \E stored \in BOOLEAN : Record(k, d, stored)
    BY <1>3, Unseen DEF Record
  <1> QED
    BY <1>1, <1>2, <1>3 DEF LinkStep

\* The loops, the page and the work on the host keep the promise.
LEMMA StepAsPromised == IInv /\ [Next]_vars => AsPromised
  <1> SUFFICES ASSUME IInv, [Next]_vars
               PROVE  AsPromised
    OBVIOUS
  <1>1. ASSUME NEW d \in Deploys, NEW w \in Workspaces, GoadMakes(d, w)
        PROVE  AsPromised
    <2>1. UserOf[d] \in Users
      BY ConstantsAssumption
    <2>2. Ownership!Make(w, UserOf[d])
      BY <1>1 DEF GoadMakes, Ownership!Make
    <2> QED
      BY <2>1, <2>2 DEF AsPromised, Ownership!Next
  <1>2. ASSUME NEW w \in Workspaces, NEW a \in Others, OthersMake(w, a)
        PROVE  AsPromised
    <2>1. Ownership!Make(w, a) /\ a \in Accounts
      BY <1>2, Distinct DEF OthersMake, Ownership!Make
    <2> QED
      BY <2>1 DEF AsPromised, Ownership!Next
  <1>3. ASSUME NEW d \in Deploys, LoopStep(d) \/ GiveUp(d)
        PROVE  AsPromised
    BY <1>3, Unseen
    DEF LoopStep, List, ListNothing, Postpone, Skip, Hold, Accept, Resume, Again, GiveUp
  <1>4. ASSUME NEW d \in Deploys,
               \/ Asks(d)
               \/ TaskEnds(d)
               \/ \E w \in Existing, o \in Accounts \cup {Unresolved}, admin \in BOOLEAN :
                    SetRange(d, w, o, admin)
               \/ \E w \in Existing : PageLinks(d, w)
        PROVE  AsPromised
    BY <1>4, Unseen DEF Asks, Execute, TaskEnds, SetRange, PageLinks
  <1>5. CASE Restart \/ UNCHANGED vars
    BY <1>5, Unseen DEF Restart, vars
  <1> QED
    BY <1>1, <1>2, <1>3, <1>4, <1>5, LinkAsPromised DEF Next

\* goad-deploy-link.ts with set-range: on listings however old, with loops and pages
\* that race, workspaces change hands and get range files as WorkspaceOwnership says.
THEOREM LinkageKeepsItsPromise == Spec => ImplementsOwnership
  <1>1. Init => Ownership!Init
    BY DEF Init, Ownership!Init
  <1>2. AsPromised => [Ownership!Next]_<<owner, origin, reassigned, file>>
    BY DEF AsPromised
  <1> QED
    BY Invariant, StepAsPromised, <1>1, <1>2, PTL DEF Spec, ImplementsOwnership, Ownership!Spec

\* workspaceOwnerGate, seen from the user: a user's workspace is
\* his own for as long as no administrator has handed it over.
THEOREM UsersKeepTheirs ==
  Spec => [](\A w \in Workspaces : origin[w] \in Users /\ w \notin reassigned => owner[w] = origin[w])
  <1> DEFINE Made == \A w \in Workspaces : owner[w] = NoOne => origin[w] = NoOne
  <1>1. Init => Made
    BY DEF Init
  <1>2. IInv /\ Made /\ [Next]_vars => Made'
    <2> SUFFICES ASSUME IInv, Made, AsPromised
                 PROVE  Made'
      BY StepAsPromised
    <2>1. \A a \in Accounts : a # NoOne
      BY Distinct, ConstantsAssumption DEF NoOne
    <2> QED
      BY <2>1 DEF AsPromised, Ownership!Next, Ownership!Make, Ownership!Claim, Ownership!Reassign,
                  Ownership!Tag, IInv, TypeOK
  <1>3. IInv /\ Made => \A w \in Workspaces :
                          origin[w] \in Users /\ w \notin reassigned => owner[w] = origin[w]
    BY Distinct, ConstantsAssumption DEF IInv, Owned
  <1> QED
    BY Invariant, <1>1, <1>2, <1>3, PTL DEF Spec
=============================================================================
