-------------------------- MODULE MCEnsureResource --------------------------
(* A small instance of EnsureResource for TLC.                             *)
EXTENDS EnsureResource

CONSTANTS plain, labelled

All    == AllStyles
Specs  == {plain, labelled}
Labels == {labelled}
NoSize == {labelled}

=============================================================================
