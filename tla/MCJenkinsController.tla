------------------------ MODULE MCJenkinsController ------------------------
(* A small instance of JenkinsController for TLC: of each style of resource *)
(* one, in the order of reconcile.go, and each way a spec may turn out.     *)
EXTENDS JenkinsController

ServiceToDeployment == <<"scripts", "service", "deployment">>
MixedSpecs == <<"invalid", "valid", "broken">>

=============================================================================
