------------------------ MODULE PendingNetwork_proofs ------------------------
(***************************************************************************)
(* Proofs about PendingNetwork, for any number of deployments, operators,  *)
(* tabs and restarts.                                                      *)
(*                                                                         *)
(* Ownership follows from the file carrying the owner of the deployment    *)
(* that wrote it.  That rules are taken once follows, when an unlink never *)
(* fails, from each deployment writing the file once: while it may still   *)
(* write, and while its rules lie in the file, nobody has taken them.      *)
(* That a workflow delivers rests on the file: from the handoff of a       *)
(* deployment to that of the next one it holds the rules of the first or   *)
(* nothing, and in the second case the handoff itself counts.              *)
(***************************************************************************)
EXTENDS PendingNetwork, TLAPS

\* The file names the operator whose rules it holds, and a workflow holds rules
\* of its task's operator.
Owned ==
  /\ file # NoFile => file.by = dep[file.rules].who
  /\ OwnRulesOnly

\* Deployment d has yet to write the file.
MayWrite(d) == IF dep[d].fresh THEN ~dep[d].stored ELSE Stage(d) = "none"

\* Rules still to be written, or in the file, have not been taken.
Untaken ==
  \A r \in Deploys : /\ taken[r] <= 1
                     /\ MayWrite(r) \/ (file # NoFile /\ file.rules = r) => taken[r] = 0
                     /\ MayWrite(r) => ~(file # NoFile /\ file.rules = r)

\* What a tab or a workflow holds is the number of a deployment.
Holding ==
  /\ \A d \in Deploys : wf[d].at \in {"holds", "put"} => wf[d].rules \in Deploys
  /\ \A p \in Pages : page[p].at # "closed" => page[p].task \in Deploys
  /\ \A p \in Pages : page[p].at \in {"holds", "put"} => page[p].rules \in Deploys

TInv == TypeOK /\ Holding

LEMMA DeploysAreNat == Deploys \subseteq Nat /\ NoRules \notin Deploys /\ NoRules \in Nat
  BY ConstantsAssumption DEF ConstantsAssumption, Deploys, NoRules

-----------------------------------------------------------------------------
(* Types.                                                                  *)

LEMMA InitTypes == Init => TInv
  <1> SUFFICES ASSUME Init
               PROVE  TInv
    OBVIOUS
  <1>1. dep \in [Deploys -> Deployment]
    <2>1. PICK f \in [Deploys -> {[stage |-> "none", who |-> u, fresh |-> g, rules |-> h, linked |-> FALSE,
                                   inst |-> FALSE, stored |-> FALSE] : u \in Operators, g, h \in BOOLEAN}] :
            dep = f
      BY DEF Init
    <2>2. ASSUME NEW d \in Deploys
          PROVE  f[d] \in Deployment
      <3>1. PICK u \in Operators, g \in BOOLEAN, h \in BOOLEAN :
              f[d] = [stage |-> "none", who |-> u, fresh |-> g, rules |-> h, linked |-> FALSE,
                      inst |-> FALSE, stored |-> FALSE]
        OBVIOUS
      <3>2. [stage |-> "none", who |-> u, fresh |-> g, rules |-> h, linked |-> FALSE,
             inst |-> FALSE, stored |-> FALSE] \in Deployment
        BY DEF Deployment
      <3> QED
        BY <3>1, <3>2
    <2> QED
      BY <2>1, <2>2
  <1>2. boots \in 0..MaxBoots
    BY ConstantsAssumption DEF ConstantsAssumption, Init
  <1>3. wf \in [Deploys -> Worker] /\ page \in [Pages -> Tab]
    BY DEF Init, Worker, Tab, Closed, NoRules
  <1>4. Holding
    BY DEF Init, Holding, Closed
  <1> QED
    BY <1>1, <1>2, <1>3, <1>4 DEF Init, TInv, TypeOK, NoRules

\* Rules are deployed: the counters keep their type.
LEMMA DeployedTypes ==
  ASSUME TypeOK, Deployed
  PROVE  applied' \in [Deploys -> Nat]
  BY DEF TypeOK, Deployed

\* Taking the file: the file keeps its type, as do the counters.
LEMMA TakenTypes ==
  ASSUME TypeOK, file # NoFile, Taken
  PROVE  /\ file.rules \in Deploys
         /\ file' \in {file, NoFile}
         /\ taken' \in [Deploys -> Nat]
  BY DEF TypeOK, Taken

LEMMA StepTypes ==
  ASSUME TInv, Next
  PROVE  TInv'
  <1> USE DEF TInv, TypeOK, Holding
  <1>1. ASSUME NEW d \in Deploys,
               Handoff(d) \/ Execute(d) \/ LinkHandoff(d) \/ LinkInstance(d) \/ StoreFile(d)
        PROVE  TInv'
    <2>1. dep' \in [Deploys -> Deployment]
      <3>1. dep[d] \in Deployment
        OBVIOUS
      <3>2. /\ [dep[d] EXCEPT !.stage = "handed"] \in Deployment
            /\ [dep[d] EXCEPT !.linked = TRUE] \in Deployment
            /\ [dep[d] EXCEPT !.inst = TRUE] \in Deployment
            /\ [dep[d] EXCEPT !.stored = TRUE] \in Deployment
        BY <3>1 DEF Deployment
      <3>3. [dep[d] EXCEPT !.stage = "running", !.inst = ~dep[d].fresh] \in Deployment
        BY <3>1 DEF Deployment
      <3>4. \E x \in Deployment : dep' = [dep EXCEPT ![d] = x]
        BY <1>1, <3>2, <3>3, ZenonT(30) DEF Handoff, Execute, LinkHandoff, LinkInstance, StoreFile
      <3> QED
        BY <3>4
    <2>2. file' \in [rules : Deploys, by : Operators] \cup {NoFile}
      BY <1>1 DEF Handoff, Execute, LinkHandoff, LinkInstance, StoreFile, SnapshotOf, Deployment
    <2>3. UNCHANGED <<wf, page, config, taken, applied, flaky, discarded, boots>>
      BY <1>1 DEF Handoff, Execute, LinkHandoff, LinkInstance, StoreFile
    <2> QED
      BY <2>1, <2>2, <2>3
  <1>2. ASSUME NEW d \in Deploys, GoadConfigures(d)
        PROVE  TInv'
    BY <1>2 DEF GoadConfigures
  <1>3. ASSUME NEW d \in Deploys, NEW st \in Ended, Finish(d, st)
        PROVE  TInv'
    <2>1. dep' \in [Deploys -> Deployment]
      BY <1>3 DEF Finish, Deployment, Ended
    <2>2. wf' \in [Deploys -> Worker]
      BY <1>3 DEF Finish, Worker
    <2>3. \A e \in Deploys : wf'[e].at \in {"holds", "put"} => wf'[e].rules \in Deploys
      BY <1>3 DEF Finish, Worker
    <2> QED
      BY <1>3, <2>1, <2>2, <2>3 DEF Finish
  <1>4. ASSUME NEW d \in Deploys, WfStart(d)
        PROVE  TInv'
    <2> DEFINE r == IF ~dep[d].inst THEN NoRules
                    ELSE IF file = NoFile THEN FallBack(d)
                    ELSE IF MayUse(d) THEN file.rules ELSE NoRules
    <2>1. r \in Deploys \cup {NoRules}
      BY DEF FallBack
    <2>2. /\ file' \in {file, NoFile}
          /\ taken' \in [Deploys -> Nat]
      BY <1>4, TakenTypes DEF WfStart
    <2>3. wf' = [wf EXCEPT ![d] = [at |-> IF r = NoRules THEN "over" ELSE "holds", rules |-> r]]
      BY <1>4 DEF WfStart
    <2> HIDE DEF r
    <2>4. wf' \in [Deploys -> Worker]
      BY <2>1, <2>3 DEF Worker
    <2>5. \A e \in Deploys : wf'[e].at \in {"holds", "put"} => wf'[e].rules \in Deploys
      BY <2>1, <2>3 DEF Worker
    <2> QED
      BY <1>4, <2>2, <2>4, <2>5 DEF WfStart
  <1>5. ASSUME NEW d \in Deploys, WfPut(d)
        PROVE  TInv'
    <2>1. wf' \in [Deploys -> Worker] /\ config' \in Deploys \cup {NoRules}
      BY <1>5 DEF WfPut, Worker
    <2>2. \A e \in Deploys : wf'[e].at \in {"holds", "put"} => wf'[e].rules \in Deploys
      BY <1>5 DEF WfPut, Worker
    <2> QED
      BY <1>5, <2>1, <2>2 DEF WfPut
  <1>6. ASSUME NEW d \in Deploys, WfDeploy(d)
        PROVE  TInv'
    <2>1. wf' \in [Deploys -> Worker]
      BY <1>6 DEF WfDeploy, Worker
    <2>2. applied' \in [Deploys -> Nat]
      BY <1>6, DeployedTypes DEF WfDeploy
    <2>3. \A e \in Deploys : wf'[e].at \in {"holds", "put"} => wf'[e].rules \in Deploys
      BY <1>6 DEF WfDeploy, Worker
    <2> QED
      BY <1>6, <2>1, <2>2, <2>3 DEF WfDeploy
  <1>7. ASSUME NEW p \in Pages, PageSteps(p)
        PROVE  TInv'
    <2>1. CASE \E d \in Deploys : PageOpens(p, d)
      <3>1. PICK d \in Deploys : PageOpens(p, d)
        BY <2>1
      <3>2. page' \in [Pages -> Tab] /\ page'[p].task = d /\ page'[p].at = "open"
        BY <3>1 DEF PageOpens, Tab, NoRules
      <3> QED
        BY <3>1, <3>2 DEF PageOpens
    <2>2. CASE PageTakes(p)
      <3>1. file.rules \in Deploys /\ file' \in {file, NoFile} /\ taken' \in [Deploys -> Nat]
        BY <2>2, TakenTypes DEF PageTakes
      <3>2. page' \in [Pages -> Tab] /\ page'[p].task = page[p].task /\ page'[p].rules = file.rules
        <4>1. page' = [page EXCEPT ![p].at = "holds", ![p].rules = file.rules]
          BY <2>2 DEF PageTakes
        <4>2. PICK x : x = [page[p] EXCEPT !.at = "holds", !.rules = file.rules]
          OBVIOUS
        <4>3. x \in Tab /\ x.task = page[p].task /\ x.rules = file.rules
          BY <3>1, <4>2 DEF Tab
        <4>4. page' = [page EXCEPT ![p] = x]
          BY <4>1, <4>2, Zenon
        <4> QED
          BY <4>3, <4>4
      <3> QED
        BY <2>2, <3>1, <3>2 DEF PageTakes
    <2>3. CASE PagePuts(p)
      <3>1. page' \in [Pages -> Tab] /\ config' \in Deploys \cup {NoRules}
        BY <2>3 DEF PagePuts, Tab
      <3> QED
        BY <2>3, <3>1 DEF PagePuts
    <2>4. CASE PageDeploys(p)
      <3>1. page' \in [Pages -> Tab]
        BY <2>4 DEF PageDeploys, Tab, Closed, NoRules
      <3>2. applied' \in [Deploys -> Nat]
        BY <2>4, DeployedTypes DEF PageDeploys
      <3> QED
        BY <2>4, <3>1, <3>2 DEF PageDeploys, Closed
    <2>5. CASE PageMisses(p) \/ PageLeaves(p)
      <3>1. page' \in [Pages -> Tab]
        BY <2>5 DEF PageMisses, PageLeaves, Tab, Closed, NoRules
      <3> QED
        BY <2>5, <3>1 DEF PageMisses, PageLeaves, Closed
    <2> QED
      BY <1>7, <2>1, <2>2, <2>3, <2>4, <2>5 DEF PageSteps
  <1>8. CASE Discard
    <2>1. file.rules \in Deploys
      BY <1>8 DEF Discard
    <2> QED
      BY <1>8, <2>1 DEF Discard
  <1>9. CASE Restart
    <2>1. dep' \in [Deploys -> Deployment]
      BY <1>9 DEF Restart, Deployment, Ended
    <2>2. wf' \in [Deploys -> Worker]
      BY <1>9 DEF Restart, Worker
    <2>3. boots' \in 0..MaxBoots
      BY <1>9, ConstantsAssumption DEF ConstantsAssumption, Restart
    <2>4. \A e \in Deploys : wf'[e].at \in {"holds", "put"} => wf'[e].rules \in Deploys
      BY <1>9 DEF Restart, Worker
    <2> QED
      BY <1>9, <2>1, <2>2, <2>3, <2>4 DEF Restart
  <1> HIDE DEF TInv, TypeOK, Holding
  <1> QED
    BY <1>1, <1>2, <1>3, <1>4, <1>5, <1>6, <1>7, <1>8, <1>9 DEF Next, Workflow

LEMMA TypeInvariance == Spec => []TInv
  <1>1. TInv /\ [Next]_vars => TInv'
    <2>1. CASE UNCHANGED vars
      BY <2>1 DEF vars, TInv, TypeOK, Holding
    <2> QED
      BY <2>1, StepTypes
  <1> QED
    BY <1>1, InitTypes, PTL DEF Spec

\* Type correctness of the rules' two copies and their consumers.
THEOREM PendingTypeCorrect == Spec => []TypeOK
  BY TypeInvariance, PTL DEF TInv

-----------------------------------------------------------------------------
(* Ownership.                                                              *)

\* A deployment never changes hands.
LEMMA WhoFixed ==
  ASSUME TInv, Next, NEW d \in Deploys
  PROVE  dep'[d].who = dep[d].who
  <1> USE DEF TInv, TypeOK
  <1>1. dep[d] \in Deployment
    OBVIOUS
  <1>2. ASSUME NEW e \in Deploys,
               Handoff(e) \/ Execute(e) \/ LinkHandoff(e) \/ LinkInstance(e) \/ StoreFile(e)
                 \/ \E st \in Ended : Finish(e, st)
        PROVE  dep'[d].who = dep[d].who
    <2>1. dep[e] \in Deployment
      OBVIOUS
    <2>2. CASE LinkHandoff(e) \/ LinkInstance(e) \/ StoreFile(e)
      BY <1>1, <2>1, <2>2 DEF Deployment, LinkHandoff, LinkInstance, StoreFile
    <2>3. CASE Handoff(e) \/ \E st \in Ended : Finish(e, st)
      <3>1. CASE Handoff(e)
        BY <1>1, <2>1, <3>1 DEF Deployment, Handoff
      <3>2. CASE \E st \in Ended : Finish(e, st)
        BY <1>1, <2>1, <3>2 DEF Deployment, Finish
      <3> QED
        BY <2>3, <3>1, <3>2
    <2>4. CASE Execute(e)
      <3> DEFINE x == [dep[e] EXCEPT !.stage = "running", !.inst = ~dep[e].fresh]
      <3>1. x.who = dep[e].who
        BY <2>1 DEF Deployment
      <3>2. dep' = [dep EXCEPT ![e] = x]
        BY <2>4 DEF Execute
      <3> HIDE DEF x
      <3> QED
        BY <3>1, <3>2
    <2> QED
      BY <1>2, <2>2, <2>3, <2>4
  <1>3. ASSUME NEW e \in Deploys, GoadConfigures(e) \/ Workflow(e)
        PROVE  dep'[d].who = dep[d].who
    BY <1>3 DEF GoadConfigures, Workflow, WfStart, WfPut, WfDeploy
  <1>4. ASSUME NEW p \in Pages, PageSteps(p)
        PROVE  dep'[d].who = dep[d].who
    BY <1>4 DEF PageSteps, PageOpens, PageTakes, PageMisses, PagePuts, PageDeploys,
                PageLeaves
  <1>5. CASE Discard
    BY <1>5 DEF Discard
  <1>6. CASE Restart
    <2>1. dep'[d] = IF Stage(d) = "running" THEN [dep[d] EXCEPT !.stage = "error"] ELSE dep[d]
      BY <1>6 DEF Restart
    <2> QED
      BY <1>1, <2>1 DEF Deployment
  <1> QED
    BY <1>2, <1>3, <1>4, <1>5, <1>6 DEF Next

LEMMA StepOwned ==
  ASSUME TInv, Owned, Next
  PROVE  Owned'
  <1> USE DEF TInv, TypeOK
  <1>1. \A d \in Deploys : dep'[d].who = dep[d].who
    BY WhoFixed
  <1>2. ASSUME NEW d \in Deploys, file' = SnapshotOf(d)
        PROVE  file'.by = dep'[file'.rules].who
    BY <1>1, <1>2 DEF SnapshotOf
  <1>3. file' # NoFile => file'.by = dep'[file'.rules].who
    <2>1. CASE file' = file
      BY <1>1, <2>1 DEF Owned
    <2>2. CASE file' = NoFile
      BY <2>2
    <2>3. CASE \E d \in Deploys : file' = SnapshotOf(d)
      BY <1>2, <2>3
    <2>4. \/ file' = file
          \/ file' = NoFile
          \/ \E d \in Deploys : file' = SnapshotOf(d)
      BY DEF Next, Handoff, Execute, LinkHandoff, LinkInstance, StoreFile, GoadConfigures, Finish,
             Workflow, WfStart, WfPut, WfDeploy, PageSteps, PageOpens, PageTakes, PageMisses, PagePuts,
             PageDeploys, PageLeaves, Discard, Restart, Taken
    <2> QED
      BY <2>1, <2>2, <2>3, <2>4
  <1>4. OwnRulesOnly'
    <2> SUFFICES ASSUME NEW e \in Deploys, wf'[e].rules # NoRules
                 PROVE  dep'[wf'[e].rules].who = dep'[e].who
      BY DEF OwnRulesOnly
    <2>1. CASE wf'[e].rules = wf[e].rules
      <3>1. wf[e].rules \in Deploys
        BY <2>1 DEF Worker
      <3> QED
        BY <1>1, <2>1, <3>1 DEF Owned, OwnRulesOnly
    <2>2. CASE WfStart(e)
      <3>1. CASE wf'[e].rules = e
        BY <1>1, <3>1
      <3>2. CASE file # NoFile /\ MayUse(e) /\ wf'[e].rules = file.rules
        BY <1>1, <3>2 DEF Owned, MayUse
      <3> QED
        BY <2>2, <3>1, <3>2 DEF WfStart, FallBack, Worker
    <2>3. wf'[e].rules = wf[e].rules \/ WfStart(e)
      <3>1. wf[e] \in Worker
        OBVIOUS
      <3>2. ASSUME NEW d \in Deploys, Workflow(d) \/ \E st \in Ended : Finish(d, st)
            PROVE  wf'[e].rules = wf[e].rules \/ WfStart(e)
        BY <3>1, <3>2 DEF Worker, Workflow, WfStart, WfPut, WfDeploy, Finish
      <3>3. CASE Restart
        <4>1. wf'[e] = IF wf[e].at = "idle" THEN wf[e] ELSE [wf[e] EXCEPT !.at = "over"]
          BY <3>3 DEF Restart
        <4> QED
          BY <3>1, <4>1 DEF Worker
      <3>4. CASE UNCHANGED wf
        BY <3>4
      <3>5. \/ \E d \in Deploys : Workflow(d) \/ \E st \in Ended : Finish(d, st)
            \/ Restart
            \/ UNCHANGED wf
        BY DEF Next, Handoff, Execute, LinkHandoff, LinkInstance, StoreFile, GoadConfigures, PageSteps,
               PageOpens, PageTakes, PageMisses, PagePuts, PageDeploys, PageLeaves, Discard
      <3> QED
        BY <3>2, <3>3, <3>4, <3>5
    <2> QED
      BY <2>1, <2>2, <2>3
  <1> QED
    BY <1>3, <1>4 DEF Owned

\* runAfterGoadTaskCompleteIfNeeded: no workflow ever applies the rules of an
\* operator other than its task's, whoever writes the file in between.
THEOREM WorkflowUsesOwnRules == Spec => []OwnRulesOnly
  <1>1. Init => Owned
    BY DEF Init, Owned, OwnRulesOnly
  <1>2. TInv /\ Owned /\ [Next]_vars => Owned'
    <2>1. CASE UNCHANGED vars
      BY <2>1 DEF vars, Owned, OwnRulesOnly
    <2> QED
      BY <2>1, StepOwned
  <1>3. Owned => OwnRulesOnly
    BY DEF Owned
  <1> QED
    BY <1>1, <1>2, <1>3, TypeInvariance, PTL DEF Spec

-----------------------------------------------------------------------------
(* Taken once.                                                             *)

\* A deployment that may not write the file will never again be able to.
LEMMA MayWriteShrinks ==
  ASSUME TInv, Next, NEW d \in Deploys, MayWrite(d)'
  PROVE  MayWrite(d)
  <1> USE DEF TInv, TypeOK
  <1>1. dep[d] \in Deployment
    OBVIOUS
  <1>2. ASSUME NEW e \in Deploys,
               Handoff(e) \/ Execute(e) \/ LinkHandoff(e) \/ LinkInstance(e) \/ StoreFile(e)
                 \/ \E st \in Ended : Finish(e, st)
        PROVE  MayWrite(d)
    <2>1. dep[e] \in Deployment
      OBVIOUS
    <2>2. /\ dep'[d].fresh = dep[d].fresh
          /\ dep[d].stored => dep'[d].stored
      BY <1>1, <1>2, <2>1 DEF Deployment, Handoff, Execute, LinkHandoff, LinkInstance, StoreFile, Finish
    <2>3. dep[d].stage # "none" => dep'[d].stage # "none"
      <3>1. CASE LinkHandoff(e) \/ LinkInstance(e) \/ StoreFile(e)
        BY <1>1, <2>1, <3>1 DEF Deployment, LinkHandoff, LinkInstance, StoreFile
      <3>2. CASE Handoff(e)
        BY <1>1, <2>1, <3>2 DEF Deployment, Handoff
      <3>3. CASE Execute(e)
        <4> DEFINE x == [dep[e] EXCEPT !.stage = "running", !.inst = ~dep[e].fresh]
        <4>1. x.stage = "running"
          BY <2>1 DEF Deployment
        <4>2. dep' = [dep EXCEPT ![e] = x]
          BY <3>3 DEF Execute
        <4> HIDE DEF x
        <4> QED
          BY <4>1, <4>2
      <3>4. ASSUME NEW st \in Ended, Finish(e, st)
            PROVE  dep[d].stage # "none" => dep'[d].stage # "none"
        <4>1. dep'[d].stage \in {dep[d].stage, st}
          BY <1>1, <2>1, <3>4 DEF Deployment, Finish
        <4> QED
          BY <3>4, <4>1 DEF Ended
      <3> QED
        BY <1>2, <3>1, <3>2, <3>3, <3>4
    <2> QED
      BY <2>2, <2>3 DEF MayWrite, Stage
  <1>3. CASE UNCHANGED dep
    BY <1>3 DEF MayWrite, Stage
  <1>4. CASE Restart
    <2>1. dep'[d] = IF Stage(d) = "running" THEN [dep[d] EXCEPT !.stage = "error"] ELSE dep[d]
      BY <1>4 DEF Restart
    <2> QED
      BY <1>1, <2>1 DEF MayWrite, Stage, Deployment
  <1>5. \/ \E e \in Deploys : \/ Handoff(e) \/ Execute(e) \/ LinkHandoff(e) \/ LinkInstance(e)
                             \/ StoreFile(e) \/ \E st \in Ended : Finish(e, st)
        \/ UNCHANGED dep
        \/ Restart
    BY DEF Next, GoadConfigures, Workflow, WfStart, WfPut, WfDeploy, PageSteps, PageOpens, PageTakes, PageMisses,
           PagePuts, PageDeploys, PageLeaves, Discard
  <1> QED
    BY <1>2, <1>3, <1>4, <1>5

\* What a step does to the file: a deployment writes it for its only time, its
\* reader takes and removes it, or nobody reads it.
LEMMA FileSteps ==
  ASSUME TInv, Next, UnlinkFails = FALSE
  PROVE  \/ \E d \in Deploys : /\ MayWrite(d) /\ ~MayWrite(d)'
                              /\ file' = SnapshotOf(d) /\ taken' = taken
         \/ file # NoFile /\ file' = NoFile /\ taken' = [taken EXCEPT ![file.rules] = @ + 1]
         \/ file' \in {file, NoFile} /\ taken' = taken
  <1> USE DEF TInv, TypeOK
  <1>1. ASSUME NEW d \in Deploys, Handoff(d), file' # file
        PROVE  MayWrite(d) /\ ~MayWrite(d)' /\ file' = SnapshotOf(d) /\ taken' = taken
    <2>1. dep[d] \in Deployment /\ dep'[d] = [dep[d] EXCEPT !.stage = "handed"]
      BY <1>1 DEF Handoff
    <2> QED
      BY <1>1, <2>1 DEF Handoff, MayWrite, Stage, Deployment
  <1>2. ASSUME NEW d \in Deploys, StoreFile(d)
        PROVE  MayWrite(d) /\ ~MayWrite(d)' /\ file' = SnapshotOf(d) /\ taken' = taken
    <2>1. dep[d] \in Deployment /\ dep'[d] = [dep[d] EXCEPT !.stored = TRUE]
      BY <1>2 DEF StoreFile
    <2> QED
      BY <1>2, <2>1 DEF StoreFile, MayWrite, Deployment
  <1>3. ASSUME NEW d \in Deploys, Handoff(d), file' = file
        PROVE  taken' = taken
    BY <1>3 DEF Handoff
  <1>4. \/ \E d \in Deploys : Handoff(d) \/ StoreFile(d)
        \/ file # NoFile /\ file' = NoFile /\ taken' = [taken EXCEPT ![file.rules] = @ + 1]
        \/ file' \in {file, NoFile} /\ taken' = taken
    BY DEF Next, Execute, LinkHandoff, LinkInstance, GoadConfigures, Finish, Workflow, WfStart, WfPut,
           WfDeploy, PageSteps, PageOpens, PageTakes, PageMisses, PagePuts, PageDeploys,
           PageLeaves, Discard, Restart, Taken
  <1> QED
    BY <1>1, <1>2, <1>3, <1>4

LEMMA StepUntaken ==
  ASSUME TInv, Untaken, Next, UnlinkFails = FALSE
  PROVE  Untaken'
  <1> USE DEF TInv, TypeOK
  <1> SUFFICES ASSUME NEW r \in Deploys
               PROVE  /\ taken'[r] <= 1
                      /\ MayWrite(r)' \/ (file' # NoFile /\ file'.rules = r) => taken'[r] = 0
                      /\ MayWrite(r)' => ~(file' # NoFile /\ file'.rules = r)
    BY DEF Untaken
  <1>1. MayWrite(r)' => MayWrite(r)
    BY MayWriteShrinks
  <1>2. /\ taken[r] <= 1 /\ taken[r] \in Nat
        /\ MayWrite(r) \/ (file # NoFile /\ file.rules = r) => taken[r] = 0
        /\ MayWrite(r) => ~(file # NoFile /\ file.rules = r)
    BY DEF Untaken
  <1>3. ASSUME NEW d \in Deploys,
               MayWrite(d) /\ ~MayWrite(d)' /\ file' = SnapshotOf(d) /\ taken' = taken
        PROVE  /\ taken'[r] <= 1
               /\ MayWrite(r)' \/ (file' # NoFile /\ file'.rules = r) => taken'[r] = 0
               /\ MayWrite(r)' => ~(file' # NoFile /\ file'.rules = r)
    <2>1. file'.rules = d
      BY <1>3 DEF SnapshotOf
    <2> QED
      BY <1>1, <1>2, <1>3, <2>1
  <1>4. CASE file # NoFile /\ file' = NoFile /\ taken' = [taken EXCEPT ![file.rules] = @ + 1]
    <2>1. file.rules \in Deploys
      BY <1>4
    <2> QED
      BY <1>1, <1>2, <1>4, <2>1
  <1>5. CASE file' \in {file, NoFile} /\ taken' = taken
    BY <1>1, <1>2, <1>5
  <1> QED
    BY <1>3, <1>4, <1>5, FileSteps

\* readUnlinkPendingNetworkSnapshot: as long as unlinks succeed, the rules of a
\* deployment leave the file once, for any number of tabs and workflows.
THEOREM RulesTakenOnce ==
  ASSUME UnlinkFails = FALSE
  PROVE  Spec => []TakenOnce
  <1>1. Init => Untaken
    BY DEF Init, Untaken, TakenOnce
  <1>2. TInv /\ Untaken /\ [Next]_vars => Untaken'
    <2>1. CASE UNCHANGED vars
      BY <2>1 DEF vars, Untaken, MayWrite, Stage
    <2> QED
      BY <2>1, StepUntaken
  <1>3. Untaken => TakenOnce
    BY DEF Untaken, TakenOnce
  <1> QED
    BY <1>1, <1>2, <1>3, TypeInvariance, PTL DEF Spec

-----------------------------------------------------------------------------
(* The rules of an undisturbed deployment.                                 *)

\* What may happen to the handoff and the task of a deployment, from x to y.
Goes(x, y) ==
  /\ y.fresh = x.fresh /\ y.rules = x.rules
  /\ x.stage # "none" => y.stage # "none"
  /\ x.stage = "completed" => y.stage = "completed"

\* A deployment is handed over by its handoff, and a completed task stays so.
LEMMA DepGoes ==
  ASSUME TInv, Next, NEW d \in Deploys
  PROVE  /\ Goes(dep[d], dep'[d])
         /\ Stage(d) = "none" /\ Stage(d)' # "none" => Handoff(d)
  <1> USE DEF TInv, TypeOK, Stage
  <1>1. dep[d] \in Deployment
    OBVIOUS
  <1>2. CASE dep'[d] = dep[d]
    BY <1>2 DEF Goes
  <1>3. CASE Handoff(d)
    BY <1>1, <1>3 DEF Handoff, Deployment, Goes
  <1>4. CASE Execute(d)
    <2>1. dep' = [dep EXCEPT ![d] = [dep[d] EXCEPT !.stage = "running", !.inst = ~dep[d].fresh]]
      BY <1>4 DEF Execute
    <2>2. dep'[d] = [dep[d] EXCEPT !.stage = "running", !.inst = ~dep[d].fresh]
      BY <2>1
    <2> QED
      BY <1>1, <1>4, <2>2 DEF Execute, Deployment, Goes
  <1>5. CASE LinkHandoff(d) \/ LinkInstance(d) \/ StoreFile(d)
    BY <1>1, <1>5 DEF LinkHandoff, LinkInstance, StoreFile, HasTask, Deployment, Goes
  <1>6. ASSUME NEW st \in Ended, Finish(d, st)
        PROVE  Goes(dep[d], dep'[d]) /\ Stage(d) # "none"
    BY <1>1, <1>6 DEF Finish, Ended, Deployment, Goes
  <1>7. CASE Restart
    <2>1. dep'[d] = IF Stage(d) = "running" THEN [dep[d] EXCEPT !.stage = "error"] ELSE dep[d]
      BY <1>7 DEF Restart
    <2> QED
      BY <1>1, <2>1 DEF Deployment, Goes
  <1>8. \/ dep'[d] = dep[d]
        \/ Handoff(d) \/ Execute(d) \/ LinkHandoff(d) \/ LinkInstance(d) \/ StoreFile(d)
        \/ \E st \in Ended : Finish(d, st)
        \/ Restart
    <2>1. ASSUME NEW e \in Deploys, e # d,
                 Handoff(e) \/ Execute(e) \/ LinkHandoff(e) \/ LinkInstance(e) \/ StoreFile(e)
                   \/ \E st \in Ended : Finish(e, st)
          PROVE  dep'[d] = dep[d]
      BY <2>1 DEF Handoff, Execute, LinkHandoff, LinkInstance, StoreFile, Finish
    <2>2. UNCHANGED dep \/ Restart
            \/ \E e \in Deploys : \/ Handoff(e) \/ Execute(e) \/ LinkHandoff(e) \/ LinkInstance(e)
                                 \/ StoreFile(e) \/ \E st \in Ended : Finish(e, st)
      BY DEF Next, GoadConfigures, Workflow, WfStart, WfPut, WfDeploy, PageSteps, PageOpens, PageTakes,
             PageMisses, PagePuts, PageDeploys, PageLeaves, Discard
    <2> QED
      BY <2>1, <2>2
  <1> QED
    BY <1>2, <1>3, <1>4, <1>5, <1>6, <1>7, <1>8

\* Deployments are handed over in order, only the first finds no instance, and the
\* rules in the file are those of a deployment handed over.
Handed ==
  /\ \A d, e \in Deploys : e < d /\ Stage(d) # "none" => Stage(e) # "none"
  /\ \A d \in Deploys : dep[d].fresh => d = 1
  /\ file # NoFile => Stage(file.rules) # "none"

\* Between the handoff of d and the next one the file holds the rules of d or is gone.
FileIsOwn(d) ==
  Stage(d) # "none" /\ dep[d].rules /\ (\A e \in Deploys : e > d => Stage(e) = "none")
    => file = NoFile \/ file.rules = d

\* A deployment's rules go to the file with its handoff, or later by themselves.
LEMMA FileGoes ==
  ASSUME TInv, Next
  PROVE  \/ file' \in {file, NoFile}
         \/ \E d \in Deploys : file' = SnapshotOf(d) /\ (Handoff(d) \/ StoreFile(d))
  BY DEF Next, Handoff, Execute, LinkHandoff, LinkInstance, StoreFile, GoadConfigures, Finish,
         Workflow, WfStart, WfPut, WfDeploy, PageSteps, PageOpens, PageTakes, PageMisses, PagePuts,
         PageDeploys, PageLeaves, Discard, Restart, Taken

\* The order of the handoffs is kept.
LEMMA HandedStep ==
  ASSUME TInv, Handed, Next
  PROVE  Handed'
  <1>1. ASSUME NEW d \in Deploys, NEW e \in Deploys, e < d, Stage(d)' # "none"
        PROVE  Stage(e)' # "none"
    <2>1. Stage(e) # "none"
      BY <1>1, DepGoes DEF Handed, Handoff
    <2> QED
      BY <2>1, DepGoes DEF Goes, Stage
  <1>2. ASSUME NEW d \in Deploys, dep'[d].fresh
        PROVE  d = 1
    BY <1>2, DepGoes DEF Handed, Goes
  <1>3. ASSUME file' # NoFile
        PROVE  Stage(file.rules)' # "none"
    <2>1. CASE file' = file
      <3>1. file.rules \in Deploys /\ Stage(file.rules) # "none"
        BY <1>3, <2>1 DEF TInv, TypeOK, Handed
      <3> QED
        BY <2>1, <3>1, DepGoes DEF Goes, Stage
    <2>2. ASSUME NEW d \in Deploys, file' = SnapshotOf(d), Handoff(d) \/ StoreFile(d)
          PROVE  Stage(file.rules)' # "none"
      <3>1. file'.rules = d
        BY <2>2 DEF SnapshotOf
      <3>2. Stage(d)' # "none"
        <4>1. CASE Handoff(d)
          BY <4>1 DEF Handoff, Stage, TInv, TypeOK, Deployment
        <4>2. CASE StoreFile(d)
          <5>1. Stage(d) # "none"
            BY <4>2 DEF StoreFile, HasTask, Ended
          <5> QED
            BY <5>1, DepGoes DEF Goes, Stage
        <4> QED
          BY <2>2, <4>1, <4>2
      <3> QED
        BY <3>1, <3>2 DEF Stage
    <2> QED
      BY <1>3, <2>1, <2>2, FileGoes
  <1> QED
    BY <1>1, <1>2, <1>3 DEF Handed

\* Until the next handoff nothing but its own rules gets into the file.
LEMMA FileIsOwnStep ==
  ASSUME TInv, Handed, Next, NEW d \in Deploys, FileIsOwn(d)
  PROVE  FileIsOwn(d)'
  <1> SUFFICES ASSUME Stage(d)' # "none", dep'[d].rules, file' # NoFile,
                      \A e \in Deploys : e > d => Stage(e)' = "none"
               PROVE  file'.rules = d
    BY DEF FileIsOwn
  <1>1. dep[d].rules /\ \A e \in Deploys : e > d => Stage(e) = "none"
    BY DepGoes DEF Goes, Stage
  <1>2. d \in Nat /\ Deploys \subseteq Nat
    BY DeploysAreNat
  <1>3. CASE file' = file /\ Stage(d) # "none"
    BY <1>1, <1>3 DEF FileIsOwn
  <1>4. CASE file' = file /\ Stage(d) = "none"
    <2>1. Handoff(d)
      BY <1>4, DepGoes
    <2>2. dep[d].fresh => FALSE
      <3>1. SUFFICES ASSUME dep[d].fresh
                     PROVE  FALSE
        OBVIOUS
      <3>2. d = 1 /\ file.rules \in Deploys /\ Stage(file.rules) # "none"
        BY <1>4, <3>1 DEF Handed, TInv, TypeOK
      <3>3. file.rules = 1 \/ 1 < file.rules
        BY <3>2, ConstantsAssumption DEF Deploys
      <3> QED
        BY <1>4, <3>2, <3>3 DEF Handed
    <2>3. file' = SnapshotOf(d)
      BY <1>1, <2>1, <2>2 DEF Handoff
    <2> QED
      BY <2>3 DEF SnapshotOf
  <1>5. ASSUME NEW e \in Deploys, file' = SnapshotOf(e), Handoff(e) \/ StoreFile(e)
        PROVE  file'.rules = d
    <2>1. CASE e = d
      BY <1>5, <2>1 DEF SnapshotOf
    <2>2. CASE e > d
      <3>1. Stage(e) = "none" /\ Stage(e)' = "none"
        BY <1>1, <2>2
      <3> QED
        BY <1>5, <3>1 DEF Handoff, StoreFile, HasTask, Ended, Stage, TInv, TypeOK, Deployment
    <2>3. CASE e < d
      <3>1. Stage(d) # "none"
        <4>1. e # d
          BY <1>2, <2>3
        <4>2. dep'[d] = dep[d]
          BY <1>5, <4>1 DEF Handoff, StoreFile, TInv, TypeOK
        <4> QED
          BY <4>2 DEF Stage
      <3>2. Stage(e) # "none"
        BY <2>3, <3>1 DEF Handed
      <3> QED
        BY <1>2, <1>5, <2>3, <3>1, <3>2 DEF Handoff, StoreFile
    <2> QED
      BY <1>2, <2>1, <2>2, <2>3
  <1> QED
    BY <1>3, <1>4, <1>5, FileGoes

\* While its workflow runs, nothing else touches the rules of d, and Ludus answers.
Undisturbed(d) == ~flaky /\ (wf[d].at \in {"started", "holds", "put"} => ~Disturbed(d))

\* A restart does not cut the workflow of d short.
NotCutShort(d) == Restart => wf[d].at \in {"idle", "over"}

\* The workflow of d has put the rules it holds, and has had them deployed.
Delivering(d) ==
  /\ wf[d].at # "idle" => Stage(d) = "completed"
  /\ wf[d].rules = d =>
       /\ wf[d].at = "put" => config = d
       /\ wf[d].at = "over" => applied[d] > 0

\* No step of others undoes what the workflow has done, and it leaves nothing out.
LEMMA DeliveringStep ==
  ASSUME TInv, Next, NEW d \in Deploys, Undisturbed(d), NotCutShort(d), Delivering(d)
  PROVE  Delivering(d)'
  <1> USE DEF TInv, TypeOK
  <1>1. /\ wf[d] \in Worker /\ config \in Deploys \cup {NoRules} /\ applied[d] \in Nat
        /\ d \in Nat /\ d # NoRules /\ ~flaky
    BY DeploysAreNat DEF Undisturbed
  <1>2. Stage(d) = "completed" => Stage(d)' = "completed"
    BY DepGoes DEF Goes, Stage
  \* The steps of others leave what the workflow has done.
  <1>3. ASSUME wf'[d] = wf[d], wf[d].at = "put" => config' = config,
               applied'[d] \in Nat, applied'[d] >= applied[d]
        PROVE  Delivering(d)'
    BY <1>1, <1>2, <1>3 DEF Delivering
  <1>4. ASSUME NEW e \in Deploys,
               Handoff(e) \/ Execute(e) \/ LinkHandoff(e) \/ LinkInstance(e) \/ StoreFile(e)
        PROVE  Delivering(d)'
    BY <1>1, <1>3, <1>4 DEF Handoff, Execute, LinkHandoff, LinkInstance, StoreFile
  <1>5. ASSUME NEW e \in Deploys, GoadConfigures(e)
        PROVE  Delivering(d)'
    <2>1. wf[d].at = "put" => FALSE
      BY <1>5 DEF GoadConfigures, Undisturbed, Disturbed, Delivering
    <2> QED
      BY <1>1, <1>3, <1>5, <2>1 DEF GoadConfigures
  <1>6. ASSUME NEW e \in Deploys, NEW st \in Ended, Finish(e, st)
        PROVE  Delivering(d)'
    <2>1. CASE e # d
      BY <1>1, <1>3, <1>6, <2>1 DEF Finish
    <2>2. CASE e = d
      <3>1. dep[d] \in Deployment /\ Stage(d) = "running" /\ wf[d].at = "idle"
        BY <1>6, <2>2 DEF Finish, Delivering
      <3>2. CASE st = "completed"
        <4>1. Stage(d)' = "completed" /\ wf'[d].at = "started"
          BY <1>1, <1>6, <2>2, <3>1, <3>2 DEF Finish, Stage, Deployment, Worker
        <4> QED
          BY <4>1 DEF Delivering
      <3>3. CASE st # "completed"
        BY <1>1, <1>3, <1>6, <3>3 DEF Finish
      <3> QED
        BY <3>2, <3>3
    <2> QED
      BY <2>1, <2>2
  <1>7. ASSUME NEW e \in Deploys, e # d, Workflow(e)
        PROVE  Delivering(d)'
    <2>1. wf[d].at = "put" => config' = config
      BY <1>7 DEF Workflow, WfStart, WfPut, WfDeploy, Undisturbed, Disturbed
    <2>2. applied'[d] \in Nat /\ applied'[d] >= applied[d]
      BY <1>1, <1>7 DEF Workflow, WfStart, WfPut, WfDeploy, Deployed
    <2> QED
      BY <1>3, <1>7, <2>1, <2>2 DEF Workflow, WfStart, WfPut, WfDeploy
  <1>8. CASE WfStart(d)
    <2>1. /\ wf'[d].at = "over" => wf'[d].rules = NoRules
          /\ wf'[d].at \in {"over", "holds"}
      BY <1>8 DEF WfStart
    <2>2. Stage(d)' = "completed"
      BY <1>2, <1>8 DEF WfStart, Delivering
    <2> QED
      BY <1>1, <2>1, <2>2 DEF Delivering
  <1>9. CASE WfPut(d)
    <2>1. wf'[d].at = "put" /\ wf'[d].rules = wf[d].rules /\ config' = wf[d].rules
      BY <1>1, <1>9 DEF WfPut, Worker
    <2>2. Stage(d)' = "completed"
      BY <1>2, <1>9 DEF WfPut, Delivering
    <2> QED
      BY <2>1, <2>2 DEF Delivering
  <1>10. CASE WfDeploy(d)
    <2>1. wf'[d].at = "over" /\ wf'[d].rules = wf[d].rules /\ wf[d].at = "put"
      BY <1>1, <1>10 DEF WfDeploy, Worker
    <2>2. wf[d].rules = d => applied'[d] = applied[d] + 1
      BY <1>1, <1>10, <2>1 DEF WfDeploy, Deployed, Delivering
    <2>3. Stage(d)' = "completed"
      BY <1>2, <2>1 DEF Delivering
    <2> QED
      BY <1>1, <2>1, <2>2, <2>3 DEF Delivering
  <1>11. ASSUME NEW p \in Pages, PageSteps(p)
         PROVE  Delivering(d)'
    <2>1. CASE PagePuts(p)
      <3>1. page[p].rules \in Deploys
        BY <2>1 DEF PagePuts, Holding
      <3>2. wf[d].at = "put" => page[p].rules = d
        BY <1>1, <3>1, DeploysAreNat DEF Undisturbed, Disturbed
      <3>3. config' = page[p].rules /\ wf' = wf /\ applied' = applied
        BY <1>1, <2>1 DEF PagePuts
      <3> QED
        BY <1>1, <1>2, <3>2, <3>3 DEF Delivering
    <2>2. CASE PageDeploys(p)
      <3>1. applied'[d] \in Nat /\ applied'[d] >= applied[d]
        BY <1>1, <2>2 DEF PageDeploys, Deployed
      <3> QED
        BY <1>3, <2>2, <3>1 DEF PageDeploys
    <2>3. CASE PageTakes(p) \/ PageMisses(p) \/ PageLeaves(p) \/ \E e \in Deploys : PageOpens(p, e)
      BY <1>1, <1>3, <2>3 DEF PageTakes, PageMisses, PageLeaves, PageOpens
    <2> QED
      BY <1>11, <2>1, <2>2, <2>3 DEF PageSteps
  <1>12. CASE Discard
    BY <1>1, <1>3, <1>12 DEF Discard
  <1>13. CASE Restart
    <2>1. wf'[d] = wf[d] \/ (wf[d].at = "over" /\ wf'[d] = [wf[d] EXCEPT !.at = "over"])
      BY <1>13 DEF Restart, NotCutShort
    <2>2. wf'[d] = wf[d]
      BY <1>1, <2>1 DEF Worker
    <2> QED
      BY <1>1, <1>3, <1>13, <2>2 DEF Restart
  <1>14. ASSUME NEW e \in Deploys, Workflow(e)
         PROVE  Delivering(d)'
    <2>1. CASE e = d
      BY <1>8, <1>9, <1>10, <1>14, <2>1 DEF Workflow
    <2> QED
      BY <1>7, <1>14, <2>1
  <1> HIDE DEF TInv, TypeOK
  <1> QED
    BY <1>4, <1>5, <1>6, <1>11, <1>12, <1>13, <1>14 DEF Next

\* The workflow of d has its own rules, if they are due, when it leaves its first state.
PicksOwn(d) ==
  wf[d].at = "started" /\ Due(d) /\ wf'[d].at # "started" => wf'[d].rules = d

\* It has, whether it finds the file or falls back to the handoff.
LEMMA WorkflowPicksOwn ==
  ASSUME TInv, Owned, NEW d \in Deploys, FileIsOwn(d), Delivering(d), Undisturbed(d), NotCutShort(d), Next
  PROVE  PicksOwn(d)
  <1> SUFFICES ASSUME wf[d].at = "started", dep[d].rules, dep[d].linked, dep[d].inst, wf'[d].at # "started"
               PROVE  wf'[d].rules = d
    BY DEF PicksOwn, Due
  <1> USE DEF TInv, TypeOK
  <1>1. WfStart(d)
    <2>1. ~Restart
      BY DEF NotCutShort
    <2>2. ASSUME NEW e \in Deploys, Workflow(e)
          PROVE  WfStart(d)
      BY <2>2 DEF Workflow, WfStart, WfPut, WfDeploy
    <2>3. ASSUME NEW e \in Deploys, NEW st \in Ended, Finish(e, st)
          PROVE  FALSE
      BY <2>3 DEF Finish, Worker
    <2>4. wf' # wf
      OBVIOUS
    <2> QED
      BY <2>1, <2>2, <2>3, <2>4
      DEF Next, Handoff, Execute, LinkHandoff, LinkInstance, StoreFile, GoadConfigures, PageSteps,
          PageOpens, PageTakes, PageMisses, PagePuts, PageDeploys, PageLeaves, Discard
  <1>2. Stage(d) # "none" /\ \A e \in Deploys : e > d => Stage(e) = "none"
    BY DEF Delivering, Undisturbed, Disturbed
  <1>3. CASE file = NoFile
    BY <1>1, <1>3, DeploysAreNat DEF WfStart, FallBack
  <1>4. CASE file # NoFile
    <2>1. file.rules = d /\ MayUse(d)
      BY <1>2, <1>4 DEF FileIsOwn, Owned, MayUse
    <2> QED
      BY <1>1, <1>4, <2>1, DeploysAreNat DEF WfStart
  <1> QED
    BY <1>3, <1>4

\* runAfterGoadTaskCompleteIfNeeded, the safety half of RulesReachRange: undisturbed,
\* the workflow of a linked task picks the rules of its own deployment when they are
\* due, be they in the file or in the handoff, and is not over before they were
\* deployed, whatever was deployed on the instance before.
THEOREM UndisturbedRulesDeployed ==
  ASSUME NEW d \in Deploys
  PROVE  Spec /\ []Undisturbed(d) /\ [][NotCutShort(d)]_vars
           => /\ [](wf[d].at = "over" /\ wf[d].rules = d => applied[d] > 0)
              /\ [][PicksOwn(d)]_vars
  <1>1. Init => Owned /\ Handed /\ FileIsOwn(d) /\ Delivering(d)
    <2> SUFFICES ASSUME Init
                 PROVE  Owned /\ Handed /\ FileIsOwn(d) /\ Delivering(d)
      OBVIOUS
    <2>1. TInv /\ \A e \in Deploys : Stage(e) = "none"
      BY InitTypes DEF Init, Stage
    <2>2. Owned /\ Handed
      BY <2>1 DEF Init, Owned, OwnRulesOnly, Handed
    <2> QED
      BY <2>1, <2>2 DEF Init, FileIsOwn, Delivering
  <1>2. /\ TInv /\ Owned /\ Handed /\ FileIsOwn(d) /\ Delivering(d)
        /\ Undisturbed(d) /\ [Next]_vars /\ [NotCutShort(d)]_vars
        => /\ (Owned /\ Handed /\ FileIsOwn(d) /\ Delivering(d))'
           /\ [PicksOwn(d)]_vars
    <2> SUFFICES ASSUME TInv, Owned, Handed, FileIsOwn(d), Delivering(d),
                        Undisturbed(d), [Next]_vars, [NotCutShort(d)]_vars
                 PROVE  /\ (Owned /\ Handed /\ FileIsOwn(d) /\ Delivering(d))'
                        /\ [PicksOwn(d)]_vars
      OBVIOUS
    <2>1. CASE UNCHANGED vars
      BY <2>1 DEF vars, Owned, OwnRulesOnly, Handed, FileIsOwn, Delivering, Stage
    <2>2. CASE Next /\ NotCutShort(d)
      BY <2>2, StepOwned, HandedStep, FileIsOwnStep, DeliveringStep, WorkflowPicksOwn
    <2> QED
      BY <2>1, <2>2
  <1>3. Delivering(d) => (wf[d].at = "over" /\ wf[d].rules = d => applied[d] > 0)
    BY DEF Delivering
  <1> QED
    BY <1>1, <1>2, <1>3, TypeInvariance, PTL DEF Spec
=============================================================================
