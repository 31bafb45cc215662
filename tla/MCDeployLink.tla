---------------------------- MODULE MCDeployLink ----------------------------
(***************************************************************************)
(* DeployLink with the deployments of two users, the first from the page,  *)
(* contesting two directories, one of which may be made by hand for the    *)
(* host's account or for root.                                             *)
(***************************************************************************)
EXTENDS DeployLink
TwoUsers == {"ann", "bob"}
TheHost == "lux"
TheRoot == "root"
HostAndRoot == {"lux", "root"}
AnnThenBob == <<"ann", "bob">>
TwoRanges == {"r1", "r2"}
OneEach == <<"r1", "r2">>
First == {1}
=============================================================================
