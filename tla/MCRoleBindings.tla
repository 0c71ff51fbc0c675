--------------------------- MODULE MCRoleBindings ---------------------------
(* A small instance of RoleBindings for TLC.                               *)
EXTENDS RoleBindings, TLC

CONSTANTS ci, lab, cr

\* "ci" with "ci-lab", which merely starts with it, or with "ci-cr", whose extra
\* bindings have names that start like those of "ci".
Pairs    == {{ci, lab}, {ci, cr}}
AllWords == {"jenkins", "ci", "lab", "r", "cr", "edit"}
Dashed   == ci :> <<"ci">> @@ lab :> <<"ci", "lab">> @@ cr :> <<"ci", "cr">>
OneRole  == {[kind |-> "cr", name |-> <<"edit">>]}

===========================================================================
