---------------------------- MODULE MCValidation ----------------------------
(* A small instance of Validation for TLC.                                 *)
EXTENDS Validation, TLC

CONSTANTS a, b, secret, claim

\* One Jenkins mounts the claim as a backup volume, the other as a volume.
spec == [wrong |-> FALSE, volumes |-> {}, needs |-> {}, default |-> TRUE, proxy |-> TRUE,
         backups |-> {claim}]
full == [spec EXCEPT !.needs = {secret}, !.backups = {},
                     !.volumes = {[object |-> claim, optional |-> FALSE],
                                  [object |-> secret, optional |-> TRUE]}]

FullOrNot     == {full, spec}
Together      == a :> "jenkins" @@ b :> "jenkins"
ClaimAndDefault == {claim, <<"jenkins-default-configuration", "jenkins">>}

=============================================================================
