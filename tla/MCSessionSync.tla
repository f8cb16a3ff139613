--------------------------- MODULE MCSessionSync ---------------------------
(***************************************************************************)
(* Constants of the model-checked instances of SessionSync.                *)
(***************************************************************************)
EXTENDS SessionSync

\* A server that moves UpdatedAt with every message.
StrictSteps == {1}

\* One whose UpdatedAt may be the same for two messages.
MillisecondSteps == {0, 1}
=============================================================================
