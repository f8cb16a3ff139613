-------------------------------- MODULE MCHA --------------------------------
(***************************************************************************)
(* Constants of the model-checked instances of HA.                         *)
(***************************************************************************)
EXTENDS HA

\* A server that moves UpdatedAt with every message.
StrictSteps == {1}
=============================================================================
